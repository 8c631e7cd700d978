------------------------------- MODULE Engine -------------------------------
(***************************************************************************)
(* The download side of one torrent's coordinator                          *)
(* (clove-core/src/torrent.rs): the peer table, the requests every peer    *)
(* owes, what arrives and is written, the verdict on a finished piece and  *)
(* who is blamed for it.                                                   *)
(*                                                                         *)
(* Every connection has a reader thread that calls on_message, one         *)
(* maintenance thread calls maintain, and dial and accept threads attach   *)
(* connections.  All of them work on State under one mutex, so a handler   *)
(* is one atomic action here; what a handler does after it has unlocked    *)
(* (removing the peers queued in to_drop) is a later action of its own.    *)
(* Maintenance walks the peer table while holding the lock: `todo` is what *)
(* is left of that walk and no other action is enabled until it is empty.  *)
(*                                                                         *)
(* Connections are tokens used once, as the code's ids are.  Payload bytes *)
(* are "good" (they hash) or "bad"; time is counted in maintenance ticks.  *)
(* The upload side (choke state, serving, rates) and the set of known      *)
(* destinations touch none of this state and are left to other modules.    *)
(***************************************************************************)
EXTENDS Picker

CONSTANTS Conn,             \* connection attempts (ids are never reused)
          Dest,             \* I2P destinations
          NoDest,
          Honest,           \* destinations that only ever send good bytes
          Answering,        \* destinations that answer what they owe
          PipelineDepth,    \* PIPELINE_DEPTH
          RequestStrikes,   \* REQUEST_STRIKES
          RequestTicks,     \* DEFAULT_REQUEST_TIMEOUT in maintenance ticks
          SuspicionLimit,   \* SUSPICION_LIMIT
          MaxPerDest,       \* MAX_CONNECTIONS_PER_DEST
          MaxPeers,         \* max_peers of this torrent
          Resumed,          \* the piece sets the engine may start from
          PriorityChoices,  \* priority tables the user may set
          ModeChoices,      \* picking modes the user may set
          StorageFails      \* whether writes and read-backs may fail

ASSUME EngineAssumption ==
    /\ NoDest \notin Dest
    /\ Honest \subseteq Dest /\ Answering \subseteq Honest
    /\ IsFiniteSet(Conn)
    /\ PipelineDepth \in Nat /\ RequestStrikes \in Nat /\ RequestTicks \in Nat
    /\ SuspicionLimit \in Nat /\ MaxPerDest \in Nat /\ MaxPeers \in Nat
    /\ Resumed \subseteq SUBSET Piece
    /\ PriorityChoices \subseteq [Piece -> 0 .. 2]
    /\ ModeChoices \subseteq Mode
    /\ StorageFails \in BOOLEAN

VARIABLES
    picker,      \* State.picker
    phase,       \* per connection: "idle", "attaching", "seated" or "gone"
    dest,        \* Peer.dest
    has,         \* Peer.has
    opened,      \* Peer.opened
    choking,     \* Peer.peer_choking
    interested,  \* Peer.we_interested
    owes,        \* DOMAIN of Peer.in_flight
    age,         \* ticks since each owed block was (last) stamped
    strikes,     \* Peer.strikes
    told,        \* pieces our bitfield and haves have told the peer about
    disk,        \* content of every block on disk
    suppliers,   \* State.suppliers
    suspicion,   \* State.suspicion, 0 for no entry
    banned,      \* State.banned
    evict,       \* per reader thread: the drops it took out of to_drop
    todo,        \* peers the running maintenance tick has still to visit
    drops,       \* peers the maintenance thread will drop after its walk
    done         \* Shared.done

peerVars == <<phase, dest, has, opened, choking, interested, told>>
debtVars == <<owes, age, strikes>>
blameVars == <<suppliers, suspicion, banned>>
tickVars == <<todo, drops>>
vars == <<picker, peerVars, debtVars, disk, blameVars, evict, tickVars, done>>

Seated == {c \in Conn : phase[c] = "seated"}

Unlocked == todo = {}

-----------------------------------------------------------------------------
(* Requests *)

\* fill_requests: what pick hands to a peer with that piece set and those
\* debts, if it is not choking us, interests us and its pipeline has room.
FillPicks(pk, field, debts, willing) ==
    IF willing /\ Cardinality(debts) < PipelineDepth
    THEN Picked(pk, field, PipelineDepth - Cardinality(debts))
    ELSE {}

\* fill_requests: picks join the pipeline stamped now, and the picks the peer
\* already owed give their count straight back.
Fill(c, pk, owed, ages, picks) ==
    /\ picker' = blocks_failed(MarkPicked(pk, picks), picks \cap owed[c])
    /\ owes' = [owed EXCEPT ![c] = @ \cup picks]
    /\ age' = [ages EXCEPT ![c] = [x \in Block |-> IF x \in picks THEN 0 ELSE ages[c][x]]]

Willing(c) == ~choking[c] /\ interested[c]

\* A request that is no longer owed has no stamp.
Forget(ages, c, S) ==
    [ages EXCEPT ![c] = [x \in Block |-> IF x \in S THEN 0 ELSE ages[c][x]]]

\* update_interest after c's piece set became `field`, then the request it
\* may trigger: only a peer that just became interesting is asked at once.
UpdateInterest(c, pk, field) ==
    LET want  == field \ pk.have # {}
        fresh == want /\ ~interested[c] /\ ~choking[c]
    IN  /\ interested' = [interested EXCEPT ![c] = want]
        /\ Fill(c, pk, owes, age, FillPicks(pk, field, owes[c], fresh))

-----------------------------------------------------------------------------
(* Attaching and leaving *)

\* finish_attach, first half: the opening bitfield is queued from a snapshot
\* of what we hold, and the lock is released again.
QueueBitfield(c, d) ==
    /\ Unlocked
    /\ phase[c] = "idle"
    /\ d \notin banned
    /\ phase' = [phase EXCEPT ![c] = "attaching"]
    /\ dest' = [dest EXCEPT ![c] = d]
    /\ told' = [told EXCEPT ![c] = picker.have]
    /\ UNCHANGED <<picker, has, opened, choking, interested, debtVars, disk,
                   blameVars, evict, tickVars, done>>

\* Mutant: the ban is only looked at before the handshake.
Admissible_NoBan(c) ==
    /\ Cardinality({p \in Seated : dest[p] = dest[c]}) < MaxPerDest
    /\ Cardinality(Seated) < MaxPeers

\* register_peer: seated unless banned meanwhile, or a cap is reached.
Admissible(c) ==
    /\ dest[c] \notin banned
    /\ Cardinality({p \in Seated : dest[p] = dest[c]}) < MaxPerDest
    /\ Cardinality(Seated) < MaxPeers

RegisterPeer(c) ==
    /\ Unlocked
    /\ phase[c] = "attaching"
    /\ phase' = [phase EXCEPT ![c] = IF Admissible(c) THEN "seated" ELSE "gone"]
    /\ UNCHANGED <<picker, dest, has, opened, choking, interested, told,
                   debtVars, disk, blameVars, evict, tickVars, done>>

\* drop_peer: the entry leaves the table, its pieces leave the availability
\* counts and its unanswered requests go back to the picker.
DropPeer(c) ==
    /\ phase' = [phase EXCEPT ![c] = "gone"]
    /\ picker' = blocks_failed(remove_bitfield(picker, has[c]), owes[c])
    /\ owes' = [owes EXCEPT ![c] = {}]
    /\ age' = Forget(age, c, Block)
    /\ has' = [has EXCEPT ![c] = {}]
    /\ told' = [told EXCEPT ![c] = {}]
    /\ strikes' = [strikes EXCEPT ![c] = 0]
    /\ opened' = [opened EXCEPT ![c] = FALSE]
    /\ choking' = [choking EXCEPT ![c] = TRUE]
    /\ interested' = [interested EXCEPT ![c] = FALSE]
    /\ UNCHANGED <<dest, disk, blameVars, todo, done>>

\* The reader ends (hang-up, unparsable frame), or the writer queue is full
\* or closed: remove_peer from whichever thread noticed.
Disconnect(c) ==
    /\ Unlocked
    /\ phase[c] = "seated"
    /\ DropPeer(c)
    /\ UNCHANGED <<evict, drops>>

\* drop_peer of an id somebody listed earlier, which may be gone by now.
DropListed(c) ==
    \/ phase[c] = "seated" /\ DropPeer(c)
    \/ /\ phase[c] # "seated"
       /\ UNCHANGED <<picker, peerVars, debtVars, disk, blameVars, todo, done>>

\* The reader thread of t works through what it took out of to_drop before
\* it reads its next message.
Evict(t, c) ==
    /\ Unlocked
    /\ c \in evict[t]
    /\ evict' = [evict EXCEPT ![t] = @ \ {c}]
    /\ DropListed(c)
    /\ UNCHANGED drops

\* So does the maintenance thread, before its next tick.
MaintainDrop(c) ==
    /\ Unlocked
    /\ c \in drops
    /\ drops' = drops \ {c}
    /\ DropListed(c)
    /\ UNCHANGED evict

-----------------------------------------------------------------------------
(* Messages: on_message / handle.  A peer may send anything at any time.   *)

Receives(c) ==
    /\ Unlocked
    /\ phase[c] = "seated"
    /\ evict[c] = {}

\* Everything but a keep-alive and the extension handshake opens the peer.
Opens(c) == opened' = [opened EXCEPT ![c] = TRUE]

\* Cancel, choke-side messages, malformed blocks and haves out of range
\* leave the download side alone.
OnIgnored(c) ==
    /\ Receives(c)
    /\ Opens(c)
    /\ UNCHANGED <<picker, phase, dest, has, choking, interested, told,
                   debtVars, disk, blameVars, evict, tickVars, done>>

\* A BEP 6 message, a bitfield of the wrong length or one that is not the
\* opening message: queued for removal, and nothing else happens.
OnViolation(c) ==
    /\ Receives(c)
    /\ Opens(c)
    /\ evict' = [evict EXCEPT ![c] = {c}]
    /\ UNCHANGED <<picker, phase, dest, has, choking, interested, told,
                   debtVars, disk, blameVars, tickVars, done>>

OnBitfield(c, field) ==
    /\ Receives(c)
    /\ ~opened[c]
    /\ Opens(c)
    /\ has' = [has EXCEPT ![c] = field]
    /\ UpdateInterest(c, add_bitfield(remove_bitfield(picker, has[c]), field), field)
    /\ UNCHANGED <<phase, dest, choking, told, strikes, disk, blameVars,
                   evict, tickVars, done>>

\* Mutant: a repeated have counts again.
OnHave_Repeats(c, i) ==
    /\ Receives(c)
    /\ Opens(c)
    /\ has' = [has EXCEPT ![c] = @ \cup {i}]
    /\ UpdateInterest(c, add_bitfield(picker, {i}), has[c] \cup {i})
    /\ UNCHANGED <<phase, dest, choking, told, strikes, disk, blameVars,
                   evict, tickVars, done>>

OnHave(c, i) ==
    /\ Receives(c)
    /\ i \notin has[c]
    /\ Opens(c)
    /\ has' = [has EXCEPT ![c] = @ \cup {i}]
    /\ UpdateInterest(c, add_bitfield(picker, {i}), has[c] \cup {i})
    /\ UNCHANGED <<phase, dest, choking, told, strikes, disk, blameVars,
                   evict, tickVars, done>>

\* A choke drops what the peer owed back into the picker.
OnChoke(c) ==
    /\ Receives(c)
    /\ Opens(c)
    /\ choking' = [choking EXCEPT ![c] = TRUE]
    /\ picker' = blocks_failed(picker, owes[c])
    /\ owes' = [owes EXCEPT ![c] = {}]
    /\ age' = Forget(age, c, Block)
    /\ UNCHANGED <<phase, dest, has, interested, told, strikes, disk,
                   blameVars, evict, tickVars, done>>

OnUnchoke(c) ==
    /\ Receives(c)
    /\ Opens(c)
    /\ choking' = [choking EXCEPT ![c] = FALSE]
    /\ Fill(c, picker, owes, age, FillPicks(picker, has[c], owes[c], interested[c]))
    /\ UNCHANGED <<phase, dest, has, interested, told, strikes, disk,
                   blameVars, evict, tickVars, done>>

-----------------------------------------------------------------------------
(* on_block: a well-formed block x arrives from c *)

\* in_flight.remove and the strike reset, common to every outcome.
Settles(c, x) ==
    /\ Receives(c)
    /\ Opens(c)
    /\ strikes' = [strikes EXCEPT ![c] = IF x \in owes[c] THEN 0 ELSE @]

Owed(c, x) == [owes EXCEPT ![c] = @ \ {x}]

\* Mutant: the other peers that owe the block are left alone.
CancelElsewhere_Skipped(c, x) == owes

\* cancel_elsewhere: nobody but c owes the block any more either.
CancelElsewhere(c, x) ==
    [p \in Conn |-> IF p = c THEN owes[p] ELSE owes[p] \ {x}]

OwedAfterWrite(c, x) == [CancelElsewhere(c, x) EXCEPT ![c] = @ \ {x}]

Cancelled(c, x) == {p \in Seated \ {c} : x \in owes[p]}

\* block_failed once per cancelled peer, then block_received.
PickerAfterWrite(c, x) ==
    LET count     == picker.inflight[x]
        cancelled == [picker EXCEPT !.inflight = [picker.inflight EXCEPT ![x] =
                          IF x[1] \in picker.started
                          THEN Monus(count, Cardinality(Cancelled(c, x))) ELSE count]]
    IN  block_received(cancelled, x)

\* The refill every outcome but "piece still incomplete" ends with.
Refill(c, pk, owed, ages) ==
    Fill(c, pk, owed, ages, FillPicks(pk, has[c], owed[c], Willing(c)))

\* Unsolicited, or a copy of what we already have: the payload is dropped.
OnSurplusBlock(c, x) ==
    /\ x \notin owes[c] \/ x[1] \in picker.have \/ is_received(picker, x)
    /\ Settles(c, x)
    /\ Refill(c,
              IF x \in owes[c] /\ x[1] \notin picker.have
              THEN blocks_failed(picker, {x}) ELSE picker,
              Owed(c, x), Forget(age, c, {x}))
    /\ UNCHANGED <<phase, dest, has, choking, interested, told, disk,
                   blameVars, evict, tickVars, done>>

\* Mutant: any block not yet received is written, asked for or not.
Wanting_Unasked(c, x) == ~is_received(picker, x)

\* The block is ours to write.
Wanting(c, x) ==
    /\ x \in owes[c]
    /\ x[1] \notin picker.have
    /\ ~is_received(picker, x)

\* write_block failed: the block is given back to the picker.
OnWriteError(c, x) ==
    /\ StorageFails
    /\ Wanting(c, x)
    /\ Settles(c, x)
    /\ Refill(c, blocks_failed(picker, {x}), Owed(c, x), Forget(age, c, {x}))
    /\ UNCHANGED <<phase, dest, has, choking, interested, told, disk,
                   blameVars, evict, tickVars, done>>

\* write_block succeeded: content, supplier, cancels and picker move on.
Writes(c, x, q) ==
    /\ Wanting(c, x)
    /\ Settles(c, x)
    /\ q = "bad" => dest[c] \notin Honest
    /\ disk' = [disk EXCEPT ![x] = q]

AgesAfterWrite(c, x) ==
    [p \in Conn |->
        IF x \in OwedAfterWrite(c, x)[p] THEN age[p] ELSE [age[p] EXCEPT ![x] = 0]]

\* More blocks of the piece are missing: return, without a refill.
OnBlock(c, x, q) ==
    /\ Writes(c, x, q)
    /\ ~PieceFull(PickerAfterWrite(c, x), x[1])
    /\ picker' = PickerAfterWrite(c, x)
    /\ owes' = OwedAfterWrite(c, x)
    /\ age' = AgesAfterWrite(c, x)
    /\ suppliers' = [suppliers EXCEPT ![x] = dest[c]]
    /\ UNCHANGED <<phase, dest, has, choking, interested, told, suspicion,
                   banned, evict, tickVars, done>>

SuppliersOf(i, sup) == {sup[y] : y \in BlockOf(i)} \ {NoDest}

\* Mutant: the count is not kept from going below zero.
CreditSuppliers_Wraps(i, sup) ==
    /\ suspicion' = [d \in Dest |->
            suspicion[d] - Cardinality({y \in BlockOf(i) : sup[y] = d})]
    /\ suppliers' = [y \in Block |-> IF y[1] = i THEN NoDest ELSE sup[y]]

\* credit_suppliers: an entry loses one count per block it supplied.
CreditSuppliers(i, sup) ==
    /\ suspicion' = [d \in Dest |->
            Monus(suspicion[d], Cardinality({y \in BlockOf(i) : sup[y] = d}))]
    /\ suppliers' = [y \in Block |-> IF y[1] = i THEN NoDest ELSE sup[y]]

\* Piece complete and every block hashes: it is held and announced.
OnPieceVerified(c, x, q) ==
    LET i   == x[1]
        sup == [suppliers EXCEPT ![x] = dest[c]]
    IN  /\ Writes(c, x, q)
        /\ PieceFull(PickerAfterWrite(c, x), i)
        /\ \A y \in BlockOf(i) : disk'[y] = "good"
        /\ Refill(c, set_have(PickerAfterWrite(c, x), i), OwedAfterWrite(c, x),
                  AgesAfterWrite(c, x))
        /\ CreditSuppliers(i, sup)
        /\ told' = [p \in Conn |-> IF p \in Seated THEN told[p] \cup {i} ELSE told[p]]
        /\ UNCHANGED <<phase, dest, has, choking, interested, banned, evict,
                       tickVars, done>>

\* blame_suppliers: a sole supplier is a culprit, several share a suspicion
\* and those at the limit are.
Suspected(blamed) ==
    [d \in Dest |-> IF d \in blamed THEN suspicion[d] + 1 ELSE suspicion[d]]

\* Mutant: everyone who contributed to a failed piece is banned.
Culprits_Everyone(blamed) == blamed

Culprits(blamed) ==
    IF Cardinality(blamed) = 1 THEN blamed
    ELSE {d \in blamed : Suspected(blamed)[d] >= SuspicionLimit}

\* Mutant: the records of a failed piece are kept.
BlameSuppliers_KeepsRecords(c, i, sup) ==
    LET blamed  == SuppliersOf(i, sup)
        counted == IF Cardinality(blamed) = 1 THEN suspicion ELSE Suspected(blamed)
    IN  /\ suspicion' = [d \in Dest |-> IF d \in Culprits(blamed) THEN 0 ELSE counted[d]]
        /\ banned' = banned \cup Culprits(blamed)
        /\ suppliers' = sup
        /\ evict' = [evict EXCEPT ![c] = {p \in Seated : dest[p] \in Culprits(blamed)}]

BlameSuppliers(c, i, sup) ==
    LET blamed  == SuppliersOf(i, sup)
        counted == IF Cardinality(blamed) = 1 THEN suspicion ELSE Suspected(blamed)
    IN  /\ suspicion' = [d \in Dest |-> IF d \in Culprits(blamed) THEN 0 ELSE counted[d]]
        /\ banned' = banned \cup Culprits(blamed)
        /\ suppliers' = [y \in Block |-> IF y[1] = i THEN NoDest ELSE sup[y]]
        /\ evict' = [evict EXCEPT ![c] = {p \in Seated : dest[p] \in Culprits(blamed)}]

\* Piece complete and it does not hash: reset, blame, ban.
OnPieceFailed(c, x, q) ==
    LET i   == x[1]
        sup == [suppliers EXCEPT ![x] = dest[c]]
    IN  /\ Writes(c, x, q)
        /\ PieceFull(PickerAfterWrite(c, x), i)
        /\ \E y \in BlockOf(i) : disk'[y] # "good"
        /\ Refill(c, reset_piece(PickerAfterWrite(c, x), i), OwedAfterWrite(c, x),
                  AgesAfterWrite(c, x))
        /\ BlameSuppliers(c, i, sup)
        /\ UNCHANGED <<phase, dest, has, choking, interested, told, tickVars, done>>

\* Piece complete but it could not be read back: it stays received.
OnVerifyError(c, x, q) ==
    /\ StorageFails
    /\ Writes(c, x, q)
    /\ PieceFull(PickerAfterWrite(c, x), x[1])
    /\ Refill(c, PickerAfterWrite(c, x), OwedAfterWrite(c, x), AgesAfterWrite(c, x))
    /\ suppliers' = [suppliers EXCEPT ![x] = dest[c]]
    /\ UNCHANGED <<phase, dest, has, choking, interested, told, suspicion,
                   banned, evict, tickVars, done>>

-----------------------------------------------------------------------------
(* Maintenance: maintain / maintain_requests *)

\* A tick takes the lock; peers silent for the idle timeout are listed.
MaintainBegin(idle) ==
    /\ Unlocked
    /\ drops = {}
    /\ Seated # {}
    /\ idle \subseteq Seated
    /\ todo' = Seated
    /\ drops' = idle
    /\ age' = [c \in Conn |-> [x \in Block |->
            IF x \in owes[c] /\ age[c][x] < RequestTicks THEN age[c][x] + 1 ELSE age[c][x]]]
    /\ UNCHANGED <<picker, peerVars, owes, strikes, disk, blameVars, evict, done>>

Expired(c) == {x \in owes[c] : age[c][x] >= RequestTicks}

\* Mutant: expired requests go back but earn no strike.
MaintainPeer_NoStrike(c) ==
    LET late == Expired(c)
        pk   == blocks_failed(picker, late)
        owed == [owes EXCEPT ![c] = @ \ late]
    IN  /\ c \in todo
        /\ todo' = todo \ {c}
        /\ Fill(c, pk, owed, Forget(age, c, late),
                FillPicks(pk, has[c], owed[c], Willing(c)))
        /\ UNCHANGED <<peerVars, strikes, drops, disk, blameVars, evict, done>>

\* Mutant: only the peers whose requests expired are topped up.
MaintainPeer_LateOnly(c) ==
    LET late == Expired(c)
        out  == late # {} /\ strikes[c] + 1 >= RequestStrikes
        pk   == blocks_failed(picker, late)
        owed == [owes EXCEPT ![c] = @ \ late]
    IN  /\ c \in todo
        /\ todo' = todo \ {c}
        /\ strikes' = [strikes EXCEPT ![c] = IF late # {} THEN @ + 1 ELSE @]
        /\ drops' = IF out THEN drops \cup {c} ELSE drops
        /\ Fill(c, pk, owed, Forget(age, c, late),
                FillPicks(pk, has[c], owed[c], ~out /\ late # {} /\ Willing(c)))
        /\ UNCHANGED <<peerVars, disk, blameVars, evict, done>>

\* One iteration of the walk: expire, strike, then top the pipeline up
\* unless the peer struck out and is to be dropped.
MaintainPeer(c) ==
    LET late == Expired(c)
        out  == late # {} /\ strikes[c] + 1 >= RequestStrikes
        pk   == blocks_failed(picker, late)
        owed == [owes EXCEPT ![c] = @ \ late]
    IN  /\ c \in todo
        /\ todo' = todo \ {c}
        /\ strikes' = [strikes EXCEPT ![c] = IF late # {} THEN @ + 1 ELSE @]
        /\ drops' = IF out THEN drops \cup {c} ELSE drops
        /\ Fill(c, pk, owed, Forget(age, c, late),
                FillPicks(pk, has[c], owed[c], ~out /\ Willing(c)))
        /\ UNCHANGED <<peerVars, disk, blameVars, evict, done>>

-----------------------------------------------------------------------------
(* The owner of the torrent *)

SetPiecePriorities(pr) ==
    /\ Unlocked
    /\ picker' = set_piece_priorities(picker, pr)
    /\ UNCHANGED <<peerVars, debtVars, disk, blameVars, evict, tickVars, done>>

SetMode(m) ==
    /\ Unlocked
    /\ picker' = [picker EXCEPT !.mode = m]
    /\ UNCHANGED <<peerVars, debtVars, disk, blameVars, evict, tickVars, done>>

\* check_done, which every handler calls after it has unlocked.
CheckDone ==
    /\ Unlocked
    /\ ~done
    /\ is_complete(picker)
    /\ done' = TRUE
    /\ UNCHANGED <<picker, peerVars, debtVars, disk, blameVars, evict, tickVars>>

-----------------------------------------------------------------------------

Init ==
    /\ \E held \in Resumed, m \in ModeChoices :
          /\ picker = NewPicker(held, m)
          /\ disk = [x \in Block |-> IF x[1] \in held THEN "good" ELSE "none"]
          /\ done = is_complete(picker)
    /\ phase = [c \in Conn |-> "idle"]
    /\ dest = [c \in Conn |-> NoDest]
    /\ has = [c \in Conn |-> {}]
    /\ opened = [c \in Conn |-> FALSE]
    /\ choking = [c \in Conn |-> TRUE]
    /\ interested = [c \in Conn |-> FALSE]
    /\ owes = [c \in Conn |-> {}]
    /\ age = [c \in Conn |-> [x \in Block |-> 0]]
    /\ strikes = [c \in Conn |-> 0]
    /\ told = [c \in Conn |-> {}]
    /\ suppliers = [x \in Block |-> NoDest]
    /\ suspicion = [d \in Dest |-> 0]
    /\ banned = {}
    /\ evict = [c \in Conn |-> {}]
    /\ todo = {}
    /\ drops = {}

Deliver(c, x) ==
    \/ OnSurplusBlock(c, x)
    \/ OnWriteError(c, x)
    \/ \E q \in {"good", "bad"} : \/ OnBlock(c, x, q)
                                  \/ OnPieceVerified(c, x, q)
                                  \/ OnPieceFailed(c, x, q)
                                  \/ OnVerifyError(c, x, q)

PeerNext(c) ==
    \/ \E d \in Dest : QueueBitfield(c, d)
    \/ RegisterPeer(c)
    \/ Disconnect(c)
    \/ \E p \in Conn : Evict(c, p)
    \/ MaintainDrop(c)
    \/ OnIgnored(c)
    \/ OnViolation(c)
    \/ \E field \in SUBSET Piece : OnBitfield(c, field)
    \/ \E i \in Piece : OnHave(c, i)
    \/ OnChoke(c)
    \/ OnUnchoke(c)
    \/ \E x \in Block : Deliver(c, x)
    \/ MaintainPeer(c)

Next ==
    \/ \E c \in Conn : PeerNext(c)
    \/ \E idle \in SUBSET Conn : MaintainBegin(idle)
    \/ \E pr \in PriorityChoices : SetPiecePriorities(pr)
    \/ \E m \in ModeChoices : SetMode(m)
    \/ CheckDone

Spec == Init /\ [][Next]_vars

\* The maintenance thread wakes for ever and finishes a walk it has begun,
\* and every thread works through the drops it has taken.  Strong fairness
\* where the step needs the lock: a thread waiting for it gets it in the end.
Fairness ==
    /\ WF_vars(\E idle \in SUBSET Conn : MaintainBegin(idle))
    /\ WF_vars(\E c \in Conn : MaintainPeer(c))
    /\ WF_vars(\E c \in Conn : MaintainDrop(c))
    /\ SF_vars(\E t, c \in Conn : Evict(t, c))

\* A peer that answers: as long as it owes blocks, a good one arrives.
Answers(c) ==
    /\ dest[c] \in Answering
    /\ \E x \in owes[c] : OnBlock(c, x, "good") \/ OnPieceVerified(c, x, "good")

FairSpec == Spec /\ Fairness

\* Answering destinations answer; the others may stay silent for ever.
AnsweringSpec == FairSpec /\ \A c \in Conn : SF_vars(Answers(c))

-----------------------------------------------------------------------------
(* Properties *)

\* The state has its type: sets, counters and tables range over the torrent's
\* own pieces, blocks, connections and destinations.
TypeOK ==
    /\ picker \in PickerType
    /\ phase \in [Conn -> {"idle", "attaching", "seated", "gone"}]
    /\ dest \in [Conn -> Dest \cup {NoDest}]
    /\ has \in [Conn -> SUBSET Piece]
    /\ opened \in [Conn -> BOOLEAN]
    /\ choking \in [Conn -> BOOLEAN]
    /\ interested \in [Conn -> BOOLEAN]
    /\ owes \in [Conn -> SUBSET Block]
    /\ age \in [Conn -> [Block -> Nat]]
    /\ strikes \in [Conn -> Nat]
    /\ told \in [Conn -> SUBSET Piece]
    /\ disk \in [Block -> {"none", "good", "bad"}]
    /\ suppliers \in [Block -> Dest \cup {NoDest}]
    /\ suspicion \in [Dest -> Nat]
    /\ banned \in SUBSET Dest
    /\ evict \in [Conn -> SUBSET Conn]
    /\ todo \in SUBSET Conn
    /\ drops \in SUBSET Conn
    /\ done \in BOOLEAN

Owers(x) == {c \in Conn : x \in owes[c]}

\* No request is leaked or counted twice: the picker's in-flight count of a
\* block is exactly the number of connections that still owe it, through
\* endgame duplicates, cancels, chokes, timeouts and drops.  (The debug
\* assertion in debug_check_state only asks for "at most", over the total.)
OwedExact == \A x \in Block : picker.inflight[x] = Cardinality(Owers(x))

\* Nobody owes a block that has arrived or whose piece is held, so no late
\* endgame copy can be taken for a fresh block and written over good bytes.
OwedIsMissing ==
    \A c \in Conn : \A x \in owes[c] :
        x \notin picker.received /\ x[1] \notin picker.have

\* The books close with what they are about: a connection that is not seated
\* owes nothing and holds nothing, and a held piece has no accounting left.
BooksClosed ==
    /\ \A c \in Conn : phase[c] # "seated" => owes[c] = {} /\ has[c] = {}
    /\ picker.started \cap picker.have = {}
    /\ \A x \in picker.received : x[1] \in picker.started
    /\ \A c \in Conn : \A x \in owes[c] : x[1] \in picker.started

\* Rarest-first steers by the truth: a piece's availability is the number of
\* connections whose piece set has it, through repeats and departures.
AvailabilityExact ==
    \A i \in Piece : picker.avail[i] = Cardinality({c \in Conn : i \in has[c]})

\* The incremental wanted-and-missing count, on which completion rests, is
\* what a recount would give.
MissingExact == picker.missing = Cardinality(Wanted(picker))

\* The books of the download balance: requests, their debts and their progress
\* agree, block by block and connection by connection, through every handler.
RequestsAccounted == OwedExact /\ OwedIsMissing /\ BooksClosed

\* A pipeline never exceeds PIPELINE_DEPTH.
PipelineBound == \A c \in Conn : Cardinality(owes[c]) <= PipelineDepth

\* What the code counts by hand is what a recount would give, and the pipelines
\* it refills from several handlers keep their depth (Picker's missing and
\* availability counts, fill_requests).
CountsExact == MissingExact /\ AvailabilityExact /\ PipelineBound

\* Every block of a held piece is good on disk: verified bytes are never
\* overwritten, whatever peers send and however late.
HeldIsGood == \A x \in Block : x[1] \in picker.have => disk[x] = "good"

\* A block has a supplier on record exactly while it is received and its
\* piece awaits a verdict: blame finds every contributor and nobody else.
SuppliersExact == \A x \in Block : (suppliers[x] # NoDest) <=> (x \in picker.received)

\* A connection of a banned destination is always on some thread's way out.
BannedLeaving ==
    \A c \in Seated : dest[c] \in banned => \E t \in Conn : c \in evict[t]

\* Nobody is told of a piece we do not hold.
ToldIsHeld == \A c \in Conn : told[c] \subseteq picker.have

\* What we say we have we hold, and what we hold is good: no peer is ever
\* promised bytes that are not verified on disk.
PromisesGood == HeldIsGood /\ ToldIsHeld

\* A destination that only sends good bytes is never banned as the sole
\* supplier of a failed piece: a ban of an honest destination takes
\* SUSPICION_LIMIT failures in company.
HonestNotSolelyBlamed ==
    [][\A d \in Honest : d \in banned' \ banned => suspicion[d] + 1 >= SuspicionLimit]_vars

\* What finish_attach's comment says of the opening messages: a seated peer
\* has been told of every piece we hold, by the bitfield or by a have.
EveryPieceAnnounced == \A c \in Seated : picker.have \subseteq told[c]

\* What DEFAULT_REQUEST_TIMEOUT and REQUEST_STRIKES promise: a connection
\* that owes blocks from some point on and never again delivers one does not
\* keep its slot.
SlotReclaimed ==
    \A c \in Conn :
        <>[](owes[c] # {}) => []<><<\E x \in owes[c] : Deliver(c, x)>>_vars

Serving(c) ==
    /\ phase[c] = "seated"
    /\ dest[c] \in Answering
    /\ has[c] = Piece
    /\ Willing(c)

\* The download finishes: if one answering peer with every piece stays, and
\* peers stop flapping between choke and unchoke, then every wanted piece is
\* verified, whatever other peers hold on to and never send.
Finishes ==
    /\ \E c \in Conn : <>[]Serving(c)
    /\ <>[][UNCHANGED choking]_vars
    => <>(Wanted(picker) = {})
=============================================================================
