------------------------------- MODULE Upload -------------------------------
(***************************************************************************)
(* The upload side of one torrent: who is unchoked (clove-core/src/        *)
(* choker.rs and run_choker in torrent.rs) and how interest, requests,     *)
(* arrivals and departures move it between two rounds.                     *)
(*                                                                         *)
(* Peers are numbered as the engine numbers connections; an id is never    *)
(* used twice.  `moved` is what counts for our role, in units since the    *)
(* last round: what a peer sent us while leeching, what we sent it while   *)
(* seeding.  A round is due whenever choke_interval has passed, so any     *)
(* handler may find one due.  Choke messages are sent after the lock is    *)
(* released; the table is what is modelled, not what the wire carries.     *)
(***************************************************************************)
EXTENDS Integers, FiniteSets

CONSTANTS MaxPeerId,      \* connections that ever exist
          MaxUnchoked,    \* Choker.max_unchoked
          MaxRate,        \* cap of the units a peer moves between two rounds
          RoundWrap       \* the round counter is kept modulo this

Peer == 1 .. MaxPeerId

\* plan uses round % 3 and (round / 3) % number of candidates.
ASSUME UploadAssumption ==
    /\ MaxPeerId \in Nat /\ MaxUnchoked \in Nat \ {0} /\ MaxRate \in Nat
    /\ RoundWrap \in Nat \ {0}
    /\ \A n \in 1 .. (MaxPeerId - MaxUnchoked) : RoundWrap % (3 * n) = 0

VARIABLES
    present,      \* ids in the peer table
    arrived,      \* the last id issued
    weChoke,      \* Peer.we_choke
    theyWant,     \* Peer.they_interested
    moved,        \* units moved since the last round
    seeding,      \* picker.is_complete()
    round,        \* Choker.round
    calm          \* nobody comes, goes, moves data or changes its mind any more

uploadVars == <<present, arrived, weChoke, theyWant, moved, seeding, round, calm>>

UploadInit ==
    /\ present = {} /\ arrived = 0
    /\ weChoke = [p \in Peer |-> TRUE] /\ theyWant = [p \in Peer |-> FALSE]
    /\ moved = [p \in Peer |-> 0]
    /\ seeding \in BOOLEAN
    /\ round = 0
    /\ calm = FALSE

-----------------------------------------------------------------------------
(* Choker::plan *)

Unchoked == {p \in present : ~weChoke[p]}

\* How many interested peers are ahead of p: a better rate, ties by id.
Place(p, want, rate) ==
    Cardinality({q \in present : want[q] /\ (rate[q] > rate[p] \/ (rate[q] = rate[p] /\ q < p))})

\* Mutant: the rotation never moves on from the best of the others.
Turn_First(r, candidates) == 0

\* Whose turn it is among the interested peers that were not chosen.
Turn(r, candidates) == (r \div 3) % candidates

\* The peers a round leaves unchoked: the best MaxUnchoked, and every third
\* round one of the others in place of the last of them.
Chosen(r, want, rate) ==
    LET interested == {p \in present : want[p]}
        candidates == Cardinality(interested) - MaxUnchoked
        optimistic == r % 3 = 0 /\ candidates > 0
        regular    == IF optimistic THEN MaxUnchoked - 1 ELSE MaxUnchoked
    IN  {p \in interested :
            \/ Place(p, want, rate) < regular
            \/ optimistic /\ Place(p, want, rate) = MaxUnchoked + Turn(r, candidates)}

\* What a handler works on under the lock.
Current == [choke |-> weChoke, moved |-> moved, round |-> round]

\* run_choker: rank by what moved since the last round, start a new window
\* and apply the plan to every connected peer.
RunChoker(s, want) ==
    LET r      == (s.round + 1) % RoundWrap
        chosen == Chosen(r, want, s.moved)
    IN  [choke |-> [p \in Peer |-> IF p \in present THEN p \notin chosen ELSE s.choke[p]],
         moved |-> [p \in Peer |-> 0],
         round |-> r]

\* The end of every handler: a round, if one is due.
Finish(s, want, due) ==
    LET final == IF due THEN RunChoker(s, want) ELSE s
    IN  /\ weChoke' = final.choke
        /\ moved' = final.moved
        /\ round' = final.round
        /\ theyWant' = want
        /\ UNCHANGED <<present, arrived, seeding, calm>>

-----------------------------------------------------------------------------
(* Handlers *)

Receives(p) == p \in present /\ ~calm

\* Interested: a round runs at once only if a slot is free.
OnInterested(p, due) ==
    /\ Receives(p)
    /\ LET want == [theyWant EXCEPT ![p] = TRUE]
       IN  Finish(IF Cardinality(Unchoked) < MaxUnchoked THEN RunChoker(Current, want)
                  ELSE Current, want, due)

\* Not interested: choked directly, which frees its slot.
OnNotInterested(p, due) ==
    /\ Receives(p)
    /\ Finish([Current EXCEPT !.choke[p] = TRUE], [theyWant EXCEPT ![p] = FALSE], due)

\* A request is served only to an unchoked peer; it counts while seeding.
OnRequest(p, due) ==
    /\ Receives(p)
    /\ seeding /\ ~weChoke[p] /\ moved[p] < MaxRate
    /\ Finish([Current EXCEPT !.moved[p] = @ + 1], theyWant, due)

\* A block we asked for was written; it counts while leeching.
OnPiece(p, due) ==
    /\ Receives(p)
    /\ ~seeding /\ moved[p] < MaxRate
    /\ Finish([Current EXCEPT !.moved[p] = @ + 1], theyWant, due)

\* maintain, when the interval has passed.
PeriodicRound == Finish(Current, theyWant, TRUE)

\* register_peer: everybody starts choked and uninterested.
Join ==
    /\ ~calm /\ arrived < MaxPeerId
    /\ arrived' = arrived + 1
    /\ present' = present \cup {arrived + 1}
    /\ UNCHANGED <<weChoke, theyWant, moved, seeding, round, calm>>

\* drop_peer: the slot it held is free until the next round.
Leave(p) ==
    /\ ~calm /\ p \in present
    /\ present' = present \ {p}
    /\ weChoke' = [weChoke EXCEPT ![p] = TRUE]
    /\ theyWant' = [theyWant EXCEPT ![p] = FALSE]
    /\ moved' = [moved EXCEPT ![p] = 0]
    /\ UNCHANGED <<arrived, seeding, round, calm>>

\* The last wanted piece verifies: what we have sent meanwhile counts now.
Completes ==
    /\ ~calm /\ ~seeding
    /\ seeding' = TRUE
    /\ moved' \in {m \in [Peer -> 0 .. MaxRate] : \A p \in Peer \ present : m[p] = 0}
    /\ UNCHANGED <<present, arrived, weChoke, theyWant, round, calm>>

\* The swarm settles down: an assumption of the liveness property only.
CalmDown ==
    /\ ~calm /\ calm' = TRUE
    /\ UNCHANGED <<present, arrived, weChoke, theyWant, moved, seeding, round>>

UploadNext ==
    \/ \E p \in Peer, due \in BOOLEAN :
          OnInterested(p, due) \/ OnNotInterested(p, due) \/ OnRequest(p, due) \/ OnPiece(p, due)
    \/ PeriodicRound
    \/ Join \/ (\E p \in Peer : Leave(p))
    \/ Completes \/ CalmDown

UploadSpec == UploadInit /\ [][UploadNext]_uploadVars

\* The maintenance thread keeps ticking.
UploadFairness == WF_uploadVars(PeriodicRound)

-----------------------------------------------------------------------------
(* Properties *)

\* Whatever joins, leaves, flips its interest or finishes between rounds, no
\* more peers are unchoked than there are slots: what check_decision asserts
\* of one plan holds of the table at all times.
SlotsBound == Cardinality(Unchoked) <= MaxUnchoked

\* "Uninterested peers are always choked" (choker.rs), between rounds too.
UninterestedChoked == \A p \in present : theyWant[p] \/ weChoke[p]

\* The optimistic slot comes round: in a swarm that has settled, every
\* interested peer is unchoked again and again, however slow it is.
EveryoneGetsATurn ==
    \A p \in Peer : calm /\ p \in present /\ theyWant[p] ~> ~weChoke[p]

\* Slots are few and shared: the table never exceeds them, nobody without
\* interest holds one, and each interested peer's turn comes (plan, run_choker).
SlotsShared == [](SlotsBound /\ UninterestedChoked) /\ EveryoneGetsATurn
=============================================================================
