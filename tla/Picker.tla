------------------------------- MODULE Picker -------------------------------
(***************************************************************************)
(* The piece picker of one torrent (clove-core/src/picker.rs): which       *)
(* pieces are held, which blocks have arrived or are in flight, how rare   *)
(* every piece is, and which blocks to ask a peer for next.                *)
(*                                                                         *)
(* As in the code the picker is pure bookkeeping: every method of the      *)
(* source is an operator from one picker value to the next, and module     *)
(* Engine keeps the value in a variable.  A block is a pair <<piece,       *)
(* number>>.  `progress`, the code's lazily created map from piece to      *)
(* per-block counts, is represented by three fields: the pieces that have  *)
(* an entry (started), the blocks whose received bit is set (received)     *)
(* and the in-flight counters (inflight, zero where there is no entry).    *)
(***************************************************************************)
EXTENDS Integers, FiniteSets

CONSTANTS NumPieces,      \* pieces of the torrent
          BlockCount,     \* blocks of each piece: the last one may be short
          EndgameBlocks   \* endgame_blocks: 0 disables the endgame

Piece == 0 .. NumPieces - 1

BlockOf(i) == {<<i, b>> : b \in 0 .. BlockCount[i] - 1}

Block == UNION {BlockOf(i) : i \in Piece}

ASSUME PickerAssumption ==
    /\ NumPieces \in Nat
    /\ BlockCount \in [Piece -> Nat \ {0}]
    /\ EndgameBlocks \in Nat

Mode == {"rarest-first", "sequential"}

PickerType == [have      : SUBSET Piece,
               started   : SUBSET Piece,
               received  : SUBSET Block,
               inflight  : [Block -> Nat],
               avail     : [Piece -> Nat],
               priority  : [Piece -> 0 .. 2],
               missing   : Nat,
               mode      : Mode]

\* saturating_sub on the unsigned counters.
Monus(a, b) == IF a >= b THEN a - b ELSE 0

wants(pk, i) == pk.priority[i] > 0

Wanted(pk) == {i \in Piece : wants(pk, i) /\ i \notin pk.have}

\* A picker whose resumed pieces have been marked held one by one.
NewPicker(held, m) ==
    [have |-> held, started |-> {}, received |-> {},
     inflight |-> [x \in Block |-> 0], avail |-> [i \in Piece |-> 0],
     priority |-> [i \in Piece |-> 1],
     missing |-> Cardinality(Piece \ held), mode |-> m]

set_piece_priorities(pk, pr) ==
    LET new == [pk EXCEPT !.priority = pr]
    IN  [new EXCEPT !.missing = Cardinality(Wanted(new))]

is_complete(pk) == pk.missing = 0

add_bitfield(pk, field) ==
    [pk EXCEPT !.avail =
        [i \in Piece |-> IF i \in field THEN pk.avail[i] + 1 ELSE pk.avail[i]]]

remove_bitfield(pk, field) ==
    [pk EXCEPT !.avail =
        [i \in Piece |-> IF i \in field THEN Monus(pk.avail[i], 1) ELSE pk.avail[i]]]

\* progress.remove(&index): the entry goes, and its block counts with it.
DropProgress(pk, i) ==
    [pk EXCEPT !.started  = pk.started \ {i},
               !.received = pk.received \ BlockOf(i),
               !.inflight = [x \in Block |-> IF x[1] = i THEN 0 ELSE pk.inflight[x]]]

set_have(pk, i) ==
    [DropProgress(pk, i) EXCEPT
        !.have = pk.have \cup {i},
        !.missing = IF i \notin pk.have /\ wants(pk, i) THEN Monus(pk.missing, 1) ELSE pk.missing]

reset_piece(pk, i) ==
    [DropProgress(pk, i) EXCEPT
        !.have = pk.have \ {i},
        !.missing = IF i \in pk.have /\ wants(pk, i) THEN pk.missing + 1 ELSE pk.missing]

\* block_failed for every block of S: only a piece with an entry counts down.
blocks_failed(pk, S) ==
    [pk EXCEPT !.inflight =
        [x \in Block |-> IF x \in S /\ x[1] \in pk.started
                         THEN Monus(pk.inflight[x], 1) ELSE pk.inflight[x]]]

\* The block arrived: it is settled whoever sent it and marked received.
\* progress_mut gives no entry, hence no effect, to a piece already held.
block_received(pk, x) ==
    IF x[1] \in pk.have THEN pk
    ELSE [pk EXCEPT !.started  = pk.started \cup {x[1]},
                    !.received = pk.received \cup {x},
                    !.inflight = [pk.inflight EXCEPT ![x] = Monus(pk.inflight[x], 1)]]

\* received_count() == blocks: every block of the piece is in.
PieceFull(pk, i) == i \notin pk.have /\ BlockOf(i) \subseteq pk.received

is_received(pk, x) == x \in pk.received

in_endgame(pk) ==
    /\ EndgameBlocks # 0
    /\ Cardinality({x \in Block : x[1] \in Wanted(pk) /\ x \notin pk.received})
           <= EndgameBlocks

\* The sort key of candidate_order: started pieces first, then priority,
\* then rarity (not in sequential mode), then index.
SortKey(pk, i) ==
    << IF i \in pk.started THEN 0 ELSE 1,
       2 - pk.priority[i],
       IF pk.mode = "rarest-first" THEN pk.avail[i] ELSE 0,
       i >>

KeyBefore(k, l) ==
    \E n \in 1 .. 4 : k[n] < l[n] /\ \A m \in 1 .. n - 1 : k[m] = l[m]

\* The order in which pick visits blocks.
BlockBefore(pk, x, y) ==
    IF x[1] = y[1] THEN x[2] < y[2]
    ELSE KeyBefore(SortKey(pk, x[1]), SortKey(pk, y[1]))

\* Blocks pick may hand to a peer holding `field`: missing, wanted, not yet
\* received, and asked of nobody unless this is the endgame.
Offerable(pk, field) ==
    {x \in Block : /\ x[1] \in field \cap Wanted(pk)
                   /\ x \notin pk.received
                   /\ in_endgame(pk) \/ pk.inflight[x] = 0}

\* pick's answer: the first `want` offerable blocks in visiting order.
Picked(pk, field, want) ==
    LET offer == Offerable(pk, field)
    IN  {x \in offer : Cardinality({y \in offer : BlockBefore(pk, y, x)}) < want}

\* pick's effect: the blocks are in flight and their pieces started.
MarkPicked(pk, S) ==
    [pk EXCEPT !.started  = pk.started \cup {x[1] : x \in S},
               !.inflight = [x \in Block |-> IF x \in S THEN pk.inflight[x] + 1
                                              ELSE pk.inflight[x]]]
=============================================================================
