-------------------------------- MODULE Wire --------------------------------
(***************************************************************************)
(* The peer wire protocol between two peers of a torrent (wire.rs), and    *)
(* the caps torrent.rs reads with: one direction of one connection, as a   *)
(* stream of bytes that may be cut anywhere.  What extension messages      *)
(* carry is a parameter, Payloads; Extensions gives it.                    *)
(*                                                                         *)
(* Bytes are numbers; a u32 is Word bytes, big end first; a hash or peer   *)
(* id is HashBytes bytes.                                                  *)
(***************************************************************************)
EXTENDS Integers, Sequences, FiniteSetsExt, SequencesExt

CONSTANTS Word,             \* bytes in a u32
          HashBytes,        \* bytes in a hash
          BlockLen, MaxMessageLen, MetadataPieceLen, FrameSlack,
          InfoHash, PeerId, \* what the sender's handshake names
          Torrents,         \* the torrents tried: [pieces, private, info]
          Numbers,          \* what the u32 fields of its messages hold
          Blobs,            \* its bit sets and blocks
          Payloads,         \* its extension messages on a torrent
          Hostile,          \* bodies a stranger may send
          MaxSent,          \* messages a clove sends in a connection (a bound)
          MaxStrange        \* messages a stranger sends in one (a bound)

VARIABLES
    torrent,    \* what the connection is about
    link,       \* bytes in flight
    sent,       \* what was written, in order
    heard,      \* what came out of Message::parse
    raw,        \* the bodies it came from
    declared,   \* the length read and not yet followed by its body
    receiver,   \* the receiving side
    offered,    \* the extensions the sender's handshake offers
    greeted,    \* the handshake it received
    honest      \* the sender is a clove

wireVars == <<torrent, link, sent, heard, raw, declared, receiver, offered, greeted, honest>>

-----------------------------------------------------------------------------
(* Numbers and messages *)

Octet == 0 .. 255

\* to_be_bytes: the last byte is n's, the one before it that of n / 256.
U32(n) ==
    LET shifted[k \in 0 .. Word] == IF k = 0 THEN n ELSE shifted[k - 1] \div 256
    IN  [k \in 1 .. Word |-> shifted[Word - k] % 256]

\* from_be_bytes
ReadU32(bytes) ==
    LET value[k \in 0 .. Word] == IF k = 0 THEN 0 ELSE 256 * value[k - 1] + bytes[k]
    IN  value[Word]

\* 256 to the power k: a u32 is below the one of Word.
Power[k \in 0 .. Word] == IF k = 0 THEN 1 ELSE 256 * Power[k - 1]

Simple  == {"Choke", "Unchoke", "Interested", "NotInterested", "HaveAll", "HaveNone"}
Indexed == {"Have", "SuggestPiece", "AllowedFast"}
Ranged  == {"Request", "Cancel", "RejectRequest"}

IdOf == [Choke |-> 0, Unchoke |-> 1, Interested |-> 2, NotInterested |-> 3, Have |-> 4, Bitfield |-> 5,
         Request |-> 6, Piece |-> 7, Cancel |-> 8, SuggestPiece |-> 13, HaveAll |-> 14, HaveNone |-> 15,
         RejectRequest |-> 16, AllowedFast |-> 17, Extended |-> 20]

\* encode_into, without the length.
Body(m) ==
    CASE m.kind = "KeepAlive" -> <<>>
      [] m.kind \in Simple    -> <<IdOf[m.kind]>>
      [] m.kind \in Indexed   -> <<IdOf[m.kind]>> \o U32(m.index)
      [] m.kind \in Ranged    -> <<IdOf[m.kind]>> \o U32(m.index) \o U32(m.begin) \o U32(m.length)
      [] m.kind = "Bitfield"  -> <<IdOf[m.kind]>> \o m.bits
      [] m.kind = "Piece"     -> <<IdOf[m.kind]>> \o U32(m.index) \o U32(m.begin) \o m.block
      [] m.kind = "Extended"  -> <<IdOf[m.kind], m.sub>> \o m.payload

Frame(m) == U32(Len(Body(m))) \o Body(m)

Error(why) == [kind |-> "error", why |-> why]

ParseEmpty(kind, rest) == IF rest = <<>> THEN [kind |-> kind] ELSE Error("BadLength")

ParseIndexed(kind, rest) ==
    IF Len(rest) = Word THEN [kind |-> kind, index |-> ReadU32(rest)] ELSE Error("BadLength")

\* block_request
ParseRanged(kind, rest) ==
    IF Len(rest) # 3 * Word THEN Error("BadLength")
    ELSE LET word(i) == ReadU32(SubSeq(rest, i * Word + 1, (i + 1) * Word))
         IN  IF word(2) > BlockLen THEN Error("BlockTooLarge")
             ELSE [kind |-> kind, index |-> word(0), begin |-> word(1), length |-> word(2)]

ParsePiece(rest) ==
    IF Len(rest) < 2 * Word THEN Error("BadLength")
    ELSE IF Len(rest) - 2 * Word > BlockLen THEN Error("BlockTooLarge")
    ELSE [kind |-> "Piece", index |-> ReadU32(SubSeq(rest, 1, Word)),
          begin |-> ReadU32(SubSeq(rest, Word + 1, 2 * Word)), block |-> SubSeq(rest, 2 * Word + 1, Len(rest))]

\* Message::parse
Parse(body) ==
    IF body = <<>> THEN [kind |-> "KeepAlive"]
    ELSE LET rest == Tail(body)
             kinds == {k \in DOMAIN IdOf : IdOf[k] = body[1]}
         IN  IF kinds = {} THEN Error("UnknownId")
             ELSE LET kind == CHOOSE k \in kinds : TRUE
                  IN  CASE kind \in Simple  -> ParseEmpty(kind, rest)
                        [] kind \in Indexed -> ParseIndexed(kind, rest)
                        [] kind \in Ranged  -> ParseRanged(kind, rest)
                        [] kind = "Bitfield" -> [kind |-> kind, bits |-> rest]
                        [] kind = "Piece"    -> ParsePiece(rest)
                        [] kind = "Extended" ->
                              IF rest = <<>> THEN Error("BadLength")
                              ELSE [kind |-> kind, sub |-> rest[1], payload |-> Tail(rest)]

-----------------------------------------------------------------------------
(* The handshake *)

Protocol == <<66>>

Reserved(x) == <<0, 0, 0, 0, 0, IF x.extended THEN 16 ELSE 0, 0, IF x.fast THEN 4 ELSE 0>>

EncodeHandshake(h) == <<Len(Protocol)>> \o Protocol \o Reserved(h.extensions) \o h.hash \o h.id

HandshakeLen == 1 + Len(Protocol) + 8 + 2 * HashBytes

BitSet(byte, bit) == (byte \div bit) % 2 = 1

ParseHandshake(buf) ==
    LET from == 1 + Len(Protocol)
        field(a, n) == SubSeq(buf, from + a, from + a + n - 1)
    IN  IF buf[1] # Len(Protocol) \/ SubSeq(buf, 2, from) # Protocol THEN {}
        ELSE {[hash |-> field(9, HashBytes), id |-> field(9 + HashBytes, HashBytes),
               extensions |-> [fast |-> BitSet(buf[from + 8], 4), extended |-> BitSet(buf[from + 6], 16)]]}

-----------------------------------------------------------------------------
(* What a clove sends on a torrent, and the cap it reads with *)

BitfieldLen(n) == (n + 7) \div 8

Index(t) == {n \in Numbers : n < t.pieces}

Sendable(t) ==
    {[kind |-> "KeepAlive"]} \cup [kind : Simple] \cup [kind : Indexed, index : Index(t)]
    \cup [kind : Ranged, index : Index(t), begin : Numbers, length : {n \in Numbers : n <= BlockLen}]
    \cup [kind : {"Bitfield"}, bits : {b \in Blobs : Len(b) = BitfieldLen(t.pieces)}]
    \cup [kind : {"Piece"}, index : Index(t), begin : Numbers, block : {b \in Blobs : Len(b) <= BlockLen}]
    \cup Payloads[t]

\* Shared.max_frame, as Torrent::new computes it.
MaxFrame(t) == Max({BitfieldLen(t.pieces), BlockLen, MetadataPieceLen}) + FrameSlack

FrameCap(t) == IF MaxFrame(t) < MaxMessageLen THEN MaxFrame(t) ELSE MaxMessageLen

\* FrameSlack covers what comes before a block, and the longest of the messages
\* of fixed length; an extension message is within the cap.
ASSUME WireAssumption ==
    /\ {Word, HashBytes, BlockLen, MaxMessageLen, MetadataPieceLen, FrameSlack} \subseteq Nat \ {0}
    /\ MaxSent \in Nat /\ MaxStrange \in 0 .. MaxSent
    /\ {InfoHash, PeerId} \subseteq [1 .. HashBytes -> Octet]
    /\ MaxMessageLen < Power[Word] /\ Numbers \subseteq 0 .. Power[Word] - 1
    /\ 1 + 3 * Word <= FrameSlack /\ 1 + 3 * Word + BlockLen <= MaxMessageLen
    /\ \A t \in Torrents : t.pieces \in 1 .. (MaxMessageLen - 1) * 8   \* MAX_PIECES

ASSUME BytesAssumption ==
    /\ Blobs \subseteq Seq(Octet) /\ Hostile \subseteq Seq(Octet)
    /\ \A t \in Torrents : \A m \in Payloads[t] :
           m \in [kind : {"Extended"}, sub : Octet, payload : Seq(Octet)] /\ 2 + Len(m.payload) <= FrameCap(t)

-----------------------------------------------------------------------------
(* The connection *)

OurHandshake == [hash |-> InfoHash, id |-> PeerId,
                 extensions |-> [fast |-> TRUE, extended |-> TRUE]]

WireInit ==
    /\ torrent \in Torrents /\ honest \in BOOLEAN
    /\ link = <<>> /\ sent = <<>> /\ heard = <<>> /\ raw = <<>> /\ declared = {}
    /\ receiver = "greeting" /\ greeted = {} /\ offered = OurHandshake.extensions

\* The sender's half of the handshake goes first.
SendHandshake(x) ==
    /\ receiver = "greeting" /\ link = <<>>
    /\ link' = EncodeHandshake([OurHandshake EXCEPT !.extensions = x]) /\ offered' = x
    /\ UNCHANGED <<torrent, sent, heard, raw, declared, receiver, greeted, honest>>

ReadHandshake ==
    /\ receiver = "greeting" /\ Len(link) >= HandshakeLen
    /\ greeted' = ParseHandshake(SubSeq(link, 1, HandshakeLen))
    /\ link' = SubSeq(link, HandshakeLen + 1, Len(link))
    /\ receiver' = IF greeted' = {} THEN "refused" ELSE "open"
    /\ UNCHANGED <<torrent, sent, heard, raw, declared, offered, honest>>

\* write_message
Send(m) ==
    /\ honest /\ Len(sent) < MaxSent /\ receiver # "cut" /\ greeted # {}
    /\ sent' = Append(sent, m) /\ link' = link \o Frame(m)
    /\ UNCHANGED <<torrent, heard, raw, declared, receiver, offered, greeted, honest>>

\* A stranger declares a length, true or not, and sends what it likes.
SendAnything(length, body) ==
    /\ ~honest /\ Len(sent) < MaxStrange /\ receiver # "cut" /\ greeted # {}
    /\ sent' = Append(sent, [kind |-> "anything"]) /\ link' = link \o U32(length) \o body
    /\ UNCHANGED <<torrent, heard, raw, declared, receiver, offered, greeted, honest>>

\* Mutant: the cap is exclusive.
Oversized_Inclusive(n) == n >= FrameCap(torrent)

Oversized(n) == n > FrameCap(torrent)

\* read_frame_into: the length is judged before anything is allocated for it.
ReadLength ==
    /\ receiver = "open" /\ declared = {} /\ Len(link) >= Word
    /\ LET n == ReadU32(SubSeq(link, 1, Word))
       IN  IF Oversized(n) THEN receiver' = "refused" /\ UNCHANGED declared
           ELSE declared' = {n} /\ UNCHANGED receiver
    /\ link' = SubSeq(link, Word + 1, Len(link))
    /\ UNCHANGED <<torrent, sent, heard, raw, offered, greeted, honest>>

\* An unknown or malformed message is a violation: the connection goes.
ReadBody ==
    /\ receiver = "open" /\ \E n \in declared : Len(link) >= n
    /\ LET n == CHOOSE k \in declared : TRUE
           body == SubSeq(link, 1, n)
       IN  /\ heard' = Append(heard, Parse(body)) /\ raw' = Append(raw, body)
           /\ receiver' = IF Parse(body).kind = "error" THEN "refused" ELSE receiver
           /\ link' = SubSeq(link, n + 1, Len(link))
    /\ declared' = {}
    /\ UNCHANGED <<torrent, sent, offered, greeted, honest>>

\* The stream breaks with some of the bytes delivered.
Cut ==
    /\ receiver = "open" /\ link # <<>>
    /\ link' = <<>> /\ receiver' = "cut"
    /\ UNCHANGED <<torrent, sent, heard, raw, declared, offered, greeted, honest>>

WireNext ==
    \/ \E f \in BOOLEAN, e \in BOOLEAN : SendHandshake([fast |-> f, extended |-> e])
    \/ ReadHandshake \/ ReadLength \/ ReadBody \/ Cut
    \/ \E m \in Sendable(torrent) : Send(m)
    \/ \E b \in Hostile : \E n \in {Len(b), Len(b) + 1} : SendAnything(n, b)

WireSpec == WireInit /\ [][WireNext]_wireVars

-----------------------------------------------------------------------------
(* Properties *)

\* Two cloves never lose step: whatever one sends on a torrent, of any size
\* and kind, the other reads in the same order, refusing none of it: max_frame
\* covers the largest message, and Message::parse undoes encode.
UnderstandsOwn ==
    honest => /\ receiver # "refused" /\ IsPrefix(heard, sent)
              /\ \A g \in greeted : g = [OurHandshake EXCEPT !.extensions = offered]

\* Every message is one body and no other: what parse makes of a stranger's
\* bytes, encode writes again as the same bytes.
OneToOne == \A i \in DOMAIN heard : heard[i].kind # "error" => Body(heard[i]) = raw[i]

\* Two ends that run this code understand each other, and neither takes a body
\* for a message it is not (encode, parse, read_message).
ConversationKept == UnderstandsOwn /\ OneToOne
=============================================================================
