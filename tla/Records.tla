------------------------------ MODULE Records ------------------------------
(***************************************************************************)
(* The resume record as it is on disk (clove-core/src/resume.rs) and the   *)
(* bit sets in it (bitfield.rs): what a running torrent writes, what is    *)
(* read from it, and what is made of a file that another version wrote or  *)
(* that has been damaged.                                                  *)
(*                                                                         *)
(* A byte is the set of its bits that are set, counted from the highest,   *)
(* which is the first piece's: `|`, `& !` and `& mask` are operations on   *)
(* those sets.  A file is a function from some of the keys to values,      *)
(* [kind, int, bytes]; how they are spelled is in Bencode.  Integers on    *)
(* disk end at IntTop, the program's counters at CountTop.  `sequential`   *)
(* is read as `paused` is and `seed_ratio_milli` as `added`; `downloaded`  *)
(* as `uploaded`.                                                          *)
(***************************************************************************)
EXTENDS Integers, Sequences, FiniteSets, FiniteSetsExt

CONSTANTS ByteBits,     \* 8
          PieceCounts,  \* numbers of pieces
          IntTop,       \* i64::MAX
          CountTop,     \* u64::MAX
          Version,      \* VERSION
          InfoHashLen,  \* 20
          MaxEdits,     \* bound: operations on one record
          MaxDamage     \* bound: keys damaged at once

ASSUME RecordsAssumption ==
    /\ ByteBits \in Nat \ {0, 1} /\ PieceCounts \subseteq Nat \ {0}
    /\ IntTop \in Nat /\ CountTop \in Nat /\ IntTop < CountTop
    /\ Version \in Nat \ {0} /\ Version < IntTop
    /\ InfoHashLen \in Nat
    /\ MaxEdits \in Nat /\ MaxDamage \in Nat

VARIABLES memory,   \* the Resume of a running torrent
          bits,     \* a bit set over its pieces, ours or a peer's
          file,     \* the state file
          damage,   \* keys changed since the daemon was killed
          edits     \* operations so far

recordVars == <<memory, bits, file, damage, edits>>

-----------------------------------------------------------------------------
(* Bitfield *)

AllSet == 0 .. ByteBits - 1
Byte == SUBSET AllSet

ByteLen(n) == (n + ByteBits - 1) \div ByteBits

HasBit(bytes, i) == i % ByteBits \in bytes[i \div ByteBits + 1]

PiecesOf(bytes, n) == {i \in 0 .. n - 1 : HasBit(bytes, i)}

\* set and clear: nothing happens past the end.
SetBit(bytes, n, i) ==
    IF i >= n THEN bytes ELSE [bytes EXCEPT ![i \div ByteBits + 1] = @ \cup {i % ByteBits}]
ClearBit(bytes, n, i) ==
    IF i >= n THEN bytes ELSE [bytes EXCEPT ![i \div ByteBits + 1] = @ \ {i % ByteBits}]

EmptyBits(n) == [k \in 1 .. ByteLen(n) |-> {}]

\* The bits of the last byte that no piece uses.
Spare(n) == IF n % ByteBits = 0 THEN {} ELSE n % ByteBits .. ByteBits - 1

FullBits(n) == [k \in 1 .. ByteLen(n) |-> IF k = ByteLen(n) THEN AllSet \ Spare(n) ELSE AllSet]

\* count adds up the bytes without looking at len.
CountBits(bytes) == Cardinality({i \in 0 .. Len(bytes) * ByteBits - 1 : HasBit(bytes, i)})
IsFull(bytes, n) == CountBits(bytes) = n

\* Mutant: only the length is compared.
BadBits_LengthOnly(bytes, n) == Len(bytes) # ByteLen(n)

\* from_bytes, and bitfield in resume.rs: the exact length, no spare bit set.
BadBits(bytes, n) ==
    Len(bytes) # ByteLen(n) \/ (bytes # <<>> /\ bytes[Len(bytes)] \cap Spare(n) # {})

-----------------------------------------------------------------------------
(* Resume *)

IntValue(n) == [kind |-> "int", int |-> n, bytes |-> <<>>]
BytesValue(b) == [kind |-> "bytes", int |-> 0, bytes |-> b]
ListValue == [kind |-> "list", int |-> 0, bytes |-> <<>>]

Optional == {"paused", "added", "pause_reason"}
Written ==
    {"version", "info_hash", "num_pieces", "have", "verified", "priorities", "uploaded"} \cup Optional

\* Files of before version 6 have a list of trackers, which nobody reads.
Keys == Written \cup {"trackers"}

\* Stats saturate.
ToInt(n) == Min({n, IntTop})

EncodeRecord(r) ==
    [key \in Written |->
        CASE key = "version"      -> IntValue(Version)
          [] key = "info_hash"    -> BytesValue(r.hash)
          [] key = "num_pieces"   -> IntValue(r.pieces)
          [] key = "have"         -> BytesValue(r.have)
          [] key = "verified"     -> BytesValue(r.verified)
          [] key = "priorities"   -> BytesValue(r.priorities)
          [] key = "uploaded"     -> IntValue(ToInt(r.uploaded))
          [] key = "paused"       -> IntValue(IF r.paused THEN 1 ELSE 0)
          [] key = "added"        -> IntValue(ToInt(r.added))
          [] key = "pause_reason" -> IntValue(r.reason)]

IntUnder(f, key) == {f[k].int : k \in {j \in DOMAIN f \cap {key} : f[j].kind = "int"}}
BytesUnder(f, key) == {f[k].bytes : k \in {j \in DOMAIN f \cap {key} : f[j].kind = "bytes"}}

\* bytewise v & !h, as the code tests it.
Exceeds(v, h) == \E k \in DOMAIN v : v[k] \ h[k] # {}

\* 0, 1 and 2, as bytes.
Priorities == {{}, {ByteBits - 1}, {ByteBits - 2}}

\* A version this clove reads, and no key it does not know.
Readable(f) ==
    /\ \E v \in IntUnder(f, "version") : v \in 1 .. Version
    /\ DOMAIN f \subseteq Keys

\* A field of a file that may predate it, or the forgiving default.
OptionalInt(f, key) == IF IntUnder(f, key) = {} THEN 0 ELSE CHOOSE n \in IntUnder(f, key) : TRUE
Unsigned(n) == IF n < 0 THEN 0 ELSE n

\* The record the file holds, or none if it is refused (Resume::decode).
DecodeRecord(f) ==
    {r \in [hash : BytesUnder(f, "info_hash"),
            pieces : IntUnder(f, "num_pieces"), have : BytesUnder(f, "have"),
            verified : BytesUnder(f, "verified"), priorities : BytesUnder(f, "priorities"),
            uploaded : IntUnder(f, "uploaded"),
            paused : {OptionalInt(f, "paused") # 0},
            added : {Unsigned(OptionalInt(f, "added"))},
            reason : {OptionalInt(f, "pause_reason")}] :
        /\ Readable(f)
        /\ Len(r.hash) = InfoHashLen
        /\ r.pieces >= 1 /\ ~BadBits(r.have, r.pieces) /\ ~BadBits(r.verified, r.pieces)
        /\ ~Exceeds(r.verified, r.have)
        /\ \A i \in DOMAIN r.priorities : r.priorities[i] \in Priorities
        /\ r.uploaded >= 0}

-----------------------------------------------------------------------------
Fresh(n) ==
    [hash |-> [i \in 1 .. InfoHashLen |-> {}], pieces |-> n,
     have |-> EmptyBits(n), verified |-> EmptyBits(n), priorities |-> <<{ByteBits - 1}>>,
     uploaded |-> 0, paused |-> FALSE, added |-> 1, reason |-> 0]

RecordsInit ==
    /\ \E n \in PieceCounts : memory = Fresh(n)
    /\ bits = EmptyBits(memory.pieces)
    /\ file = EncodeRecord(memory)
    /\ damage = 0 /\ edits = 0

\* set_have, reset_piece, and the bit set a have-all message stands for.
PieceHeld(i) == bits' = SetBit(bits, memory.pieces, i) /\ UNCHANGED <<memory, file>>
PieceLost(i) == bits' = ClearBit(bits, memory.pieces, i) /\ UNCHANGED <<memory, file>>
AllThere == bits' = FullBits(memory.pieces) /\ UNCHANGED <<memory, file>>

\* refresh and sync_storage, each at its own time.
HaveTaken == memory' = [memory EXCEPT !.have = bits] /\ UNCHANGED <<bits, file>>
VerifiedTaken == memory' = [memory EXCEPT !.verified = bits] /\ UNCHANGED <<bits, file>>

\* Counters grow, to their end; the operator pauses.
Counted(n) ==
    /\ memory' = [memory EXCEPT !.uploaded = Min({CountTop, @ + n}), !.added = Min({CountTop, @ + n})]
    /\ UNCHANGED <<bits, file>>

PausedFor(why) ==
    /\ memory' = [memory EXCEPT !.paused = ~@, !.reason = why]
    /\ UNCHANGED <<bits, file>>

SaveRecord ==
    /\ file' = EncodeRecord(memory)
    /\ UNCHANGED <<memory, bits>>

WithKey(f, key) == [k \in DOMAIN f \cup {key} |-> IF k = key THEN ListValue ELSE f[k]]

\* With the daemon gone, an older or newer clove writes the file, or it is
\* damaged: a key is missing, one is retired or unknown, or one has another
\* value.
Tampered ==
    /\ \/ \E key \in DOMAIN file : file' = [k \in DOMAIN file \ {key} |-> file[k]]
       \/ \E key \in {"trackers", "unknown"} : file' = WithKey(file, key)
       \/ \E key \in DOMAIN file :
            file' \in {[file EXCEPT ![key] = IntValue(n)] : n \in {-1, 1, Version + 1}}
                 \cup {[file EXCEPT ![key] = BytesValue(<<b>>)] : b \in {{}, {0}, AllSet}}
    /\ memory' = Fresh(memory.pieces) /\ bits' = EmptyBits(memory.pieces)
    /\ damage < MaxDamage /\ damage' = damage + 1
    /\ edits' = MaxEdits

RecordsNext ==
    \/ /\ damage = 0 /\ UNCHANGED damage
       /\ edits < MaxEdits /\ edits' = edits + 1
       /\ \/ \E i \in 0 .. memory.pieces : PieceHeld(i) \/ PieceLost(i)
          \/ AllThere \/ HaveTaken \/ VerifiedTaken \/ SaveRecord
          \/ \E n \in {1, IntTop} : Counted(n)
          \/ \E why \in {0, 1} : PausedFor(why)
    \/ Tampered

RecordsSpec == RecordsInit /\ [][RecordsNext]_recordVars

-----------------------------------------------------------------------------
(* Properties *)

\* The bit set is the set of pieces at every step: count and is_full, which
\* only add up bytes, agree with has, at a number of pieces that fills its
\* last byte and at one that does not.
BitsExact ==
    /\ CountBits(bits) = Cardinality(PiecesOf(bits, memory.pieces))
    /\ IsFull(bits, memory.pieces) <=> PiecesOf(bits, memory.pieces) = 0 .. memory.pieces - 1
    /\ ~BadBits(bits, memory.pieces)

\* Whatever a running torrent counts, sets or is told, its record is read back
\* as it was written, counters at most clamped, and refused only if a piece is
\* in verified and not in have (a state registry_decode reaches); a list
\* of trackers, as an older clove wrote, does not make it unreadable.
RecordSurvives ==
    LET written == EncodeRecord(memory)
    IN  /\ DecodeRecord(written) =
              IF PiecesOf(memory.verified, memory.pieces) \subseteq PiecesOf(memory.have, memory.pieces)
              THEN {[memory EXCEPT !.uploaded = Min({@, IntTop}), !.added = Min({@, IntTop})]}
              ELSE {}
        /\ Readable(WithKey(written, "trackers"))

\* What is accepted, of whatever version and however damaged, is a record the
\* program could have written: its sets are sets of the torrent's pieces, one
\* within the other, and saving it changes nothing of what it says.
ReadIsSound ==
    \A r \in DecodeRecord(file) :
        /\ CountBits(r.have) = Cardinality(PiecesOf(r.have, r.pieces))
        /\ PiecesOf(r.verified, r.pieces) \subseteq PiecesOf(r.have, r.pieces)
        /\ DecodeRecord(EncodeRecord(r)) = {r}

\* A record on disk says what it was meant to: bits for pieces, what was saved
\* for what is loaded, and nothing unsound from a damaged file.
RecordsExact == BitsExact /\ RecordSurvives /\ ReadIsSound
=============================================================================
