-------------------------------- MODULE Seats --------------------------------
(***************************************************************************)
(* Who gets a seat: the dial sweep and the inbound demultiplexer of        *)
(* clove-core/src/swarm.rs, the attach path of torrent.rs and the budget   *)
(* of budget.rs, over several torrents, with the steps the registry takes  *)
(* to stop one (cloved/src/registry.rs, stop_live).                        *)
(*                                                                         *)
(* Every connection attempt c is one thread: a dial worker of a torrent's  *)
(* sweep, or a routing thread of the demultiplexer.  `pc` is where it is;  *)
(* reads it makes without keeping a lock (the caps, available(), the       *)
(* compare-exchange) are separate steps.  The peer entry it creates lives  *)
(* on in `seat` after the thread has ended.                                *)
(*                                                                         *)
(* Bans, self-connections and what is dialled first are in Engine and      *)
(* KnownPeers; here every other destination is a dial candidate.           *)
(***************************************************************************)
EXTENDS Naturals, FiniteSets, FiniteSetsExt

CONSTANTS Conn,               \* connection attempts
          Torrent,            \* engine instances
          Dest,               \* remote destinations
          Nobody,             \* no torrent, no destination
          BudgetLimit,        \* PeerBudget.limit
          MaxPeers,           \* SwarmConfig.max_peers
          MaxPerDest,         \* MAX_CONNECTIONS_PER_DEST
          MaxPending,         \* MAX_PENDING_HANDSHAKES
          DialConcurrency     \* SwarmConfig.dial_concurrency

ASSUME SeatsAssumption ==
    /\ IsFiniteSet(Conn) /\ IsFiniteSet(Dest) /\ IsFiniteSet(Torrent)
    /\ Nobody \notin Torrent \cup Dest
    /\ BudgetLimit \in Nat /\ MaxPeers \in Nat
    /\ MaxPerDest \in Nat /\ MaxPending \in Nat
    /\ DialConcurrency \in Nat \ {0}

VARIABLES
    pc,           \* per attempt: where its thread is
    seen,         \* per attempt: the count its compare-exchange loaded, 0 outside claim
    to,           \* per attempt: the torrent it is for
    from,         \* per attempt: the remote destination
    inbound,      \* the attempts the demultiplexer accepted
    seat,         \* per attempt: "none", "seated" or "gone"
    taken,        \* PeerBudget.taken
    pending,      \* InboundDemux.pending
    pendingBy,    \* InboundDemux.pending_by_dest, 0 for no entry
    registered,   \* InboundDemux.torrents
    life,         \* per torrent: how far stop_live has come
    victims,      \* per torrent: what disconnect_all has still to remove
    sweep,        \* per torrent: "pausing", "dialling" or "ended"
    wave,         \* per torrent: candidates of the wave not yet taken
    failed,       \* per torrent: dials of the wave that failed
    retry         \* per torrent: destinations in retry_after

threadVars == <<pc, seen, to, from, inbound>>
demuxVars == <<pending, pendingBy, registered>>
stopVars == <<life, victims>>
sweepVars == <<sweep, wave, failed, retry>>
seatsVars == <<threadVars, seat, taken, demuxVars, stopVars, sweepVars>>

SeatsTypeOK ==
    /\ pc \in [Conn -> {"free", "reading", "routed", "replying", "dialling",
                        "handshaking", "claiming", "exchanging", "claimed",
                        "unwinding", "releasing", "over"}]
    /\ seen \in [Conn -> 0 .. BudgetLimit]
    /\ to \in [Conn -> Torrent \cup {Nobody}]
    /\ from \in [Conn -> Dest \cup {Nobody}]
    /\ inbound \subseteq Conn
    /\ seat \in [Conn -> {"none", "seated", "gone"}]
    /\ taken \in 0 .. BudgetLimit
    /\ pending \in 0 .. MaxPending
    /\ pendingBy \in [Dest -> 0 .. MaxPerDest]
    /\ registered \subseteq Torrent
    /\ life \in [Torrent -> {"live", "unregistered", "stopping", "stopped"}]
    /\ victims \in [Torrent -> SUBSET Conn]
    /\ sweep \in [Torrent -> {"pausing", "dialling", "ended"}]
    /\ wave \in [Torrent -> SUBSET Dest]
    /\ failed \in [Torrent -> SUBSET Dest]
    /\ retry \in [Torrent -> SUBSET Dest]

Connected(t) == {c \in Conn : seat[c] = "seated" /\ to[c] = t}
ConnectedFrom(t, d) == {c \in Connected(t) : from[c] = d}

\* PeerBudget::available, the advisory read.
available == IF taken >= BudgetLimit THEN 0 ELSE BudgetLimit - taken

StopRaised(t) == life[t] \in {"stopping", "stopped"}

SeatsInit ==
    /\ pc = [c \in Conn |-> "free"]
    /\ seen = [c \in Conn |-> 0]
    /\ to = [c \in Conn |-> Nobody]
    /\ from = [c \in Conn |-> Nobody]
    /\ inbound = {}
    /\ seat = [c \in Conn |-> "none"]
    /\ taken = 0
    /\ pending = 0
    /\ pendingBy = [d \in Dest |-> 0]
    /\ registered = Torrent
    /\ life = [t \in Torrent |-> "live"]
    /\ victims = [t \in Torrent |-> {}]
    /\ sweep = [t \in Torrent |-> "pausing"]
    /\ wave = [t \in Torrent |-> {}]
    /\ failed = [t \in Torrent |-> {}]
    /\ retry = [t \in Torrent |-> {}]

Moves(c, next) == pc' = [pc EXCEPT ![c] = next]

\* The thread is through with its connection: a routing thread drops its
\* PendingGuard, a dial worker reports to the wave.
Leaves(c) == Moves(c, IF c \in inbound THEN "unwinding" ELSE "over")

\* A worker whose dial or attach failed pushes the peer to `failed`.
Fails(c) ==
    /\ Leaves(c)
    /\ failed' = IF c \in inbound THEN failed
                 ELSE [failed EXCEPT ![to[c]] = @ \cup {from[c]}]

-----------------------------------------------------------------------------
(* The demultiplexer *)

\* admit_pending: room under the global cap and under the destination's.
AdmitPending(d) == pending < MaxPending /\ pendingBy[d] < MaxPerDest

\* The accept loop takes a connection from d: counted and given a thread, or
\* dropped.
Accept(c, d) ==
    /\ pc[c] = "free"
    /\ from' = [from EXCEPT ![c] = d]
    /\ inbound' = inbound \cup {c}
    /\ \/ /\ AdmitPending(d)
          /\ Moves(c, "reading")
          /\ pending' = pending + 1
          /\ pendingBy' = [pendingBy EXCEPT ![d] = @ + 1]
       \/ /\ ~AdmitPending(d)
          /\ Moves(c, "over")
          /\ UNCHANGED <<pending, pendingBy>>
    /\ UNCHANGED <<seen, to, seat, taken, registered, stopVars, sweepVars>>

\* route, first half: the handshake names a torrent, which is looked up.
Route(c, t) ==
    /\ pc[c] = "reading"
    /\ \/ /\ t \in registered
          /\ to' = [to EXCEPT ![c] = t]
          /\ Moves(c, "routed")
       \/ t \notin registered /\ Leaves(c) /\ UNCHANGED to
    /\ UNCHANGED <<seen, from, inbound, seat, taken, demuxVars, stopVars, sweepVars>>

\* No handshake within INBOUND_HANDSHAKE_TIMEOUT, or not a handshake.
NoHandshake(c) ==
    /\ pc[c] = "reading"
    /\ Leaves(c)
    /\ UNCHANGED <<seen, to, from, inbound, seat, taken, demuxVars, stopVars, sweepVars>>

\* route, second half: turned away early when the torrent, the client or the
\* destination looks full.  Nothing is reserved by looking.
LookForRoom(c) ==
    /\ pc[c] = "routed"
    /\ IF \/ Cardinality(Connected(to[c])) >= MaxPeers
          \/ available = 0
          \/ Cardinality(ConnectedFrom(to[c], from[c])) >= MaxPerDest
       THEN Leaves(c)
       ELSE Moves(c, "replying")
    /\ UNCHANGED <<seen, to, from, inbound, seat, taken, demuxVars, stopVars, sweepVars>>

\* attach_accepted: our handshake goes out by its deadline, or not.
Reply(c) ==
    /\ pc[c] = "replying"
    /\ Moves(c, "claiming") \/ Leaves(c)
    /\ UNCHANGED <<seen, to, from, inbound, seat, taken, demuxVars, stopVars, sweepVars>>

\* PendingGuard::drop, the counter first and the destination's entry after.
ReleasePending(c) ==
    /\ pc[c] = "unwinding"
    /\ Moves(c, "releasing")
    /\ pending' = pending - 1
    /\ UNCHANGED <<seen, to, from, inbound, seat, taken, pendingBy, registered, stopVars, sweepVars>>

ReleaseDest(c) ==
    /\ pc[c] = "releasing"
    /\ Moves(c, "over")
    /\ pendingBy' = [pendingBy EXCEPT ![from[c]] = @ - 1]
    /\ UNCHANGED <<seen, to, from, inbound, seat, taken, pending, registered, stopVars, sweepVars>>

-----------------------------------------------------------------------------
(* The dial sweep *)

Dialling(t) ==
    {c \in Conn \ inbound : to[c] = t /\ pc[c] \in
        {"dialling", "handshaking", "claiming", "exchanging", "claimed"}}

\* How many dials the wave may start: the tighter of the two ceilings.
Room(t) == Min({MaxPeers - Min({MaxPeers, Cardinality(Connected(t))}), available})

\* sweep: the candidates are chosen up front, in no particular order.
BeginWave(t, S) ==
    /\ sweep[t] = "pausing"
    /\ ~StopRaised(t)
    /\ LET eligible == Dest \ (retry[t] \cup {from[c] : c \in Connected(t)})
       IN  S \subseteq eligible /\ Cardinality(S) = Min({Room(t), Cardinality(eligible)})
    /\ S # {}
    /\ sweep' = [sweep EXCEPT ![t] = "dialling"]
    /\ wave' = [wave EXCEPT ![t] = S]
    /\ UNCHANGED <<threadVars, seat, taken, demuxVars, stopVars, failed, retry>>

\* A worker takes the next candidate unless it has been told to stop.
Dial(c, d) ==
    /\ pc[c] = "free"
    /\ \E t \in Torrent :
          /\ sweep[t] = "dialling" /\ ~StopRaised(t)
          /\ d \in wave[t]
          /\ Cardinality(Dialling(t)) < DialConcurrency
          /\ to' = [to EXCEPT ![c] = t]
          /\ wave' = [wave EXCEPT ![t] = @ \ {d}]
    /\ from' = [from EXCEPT ![c] = d]
    /\ Moves(c, "dialling")
    /\ UNCHANGED <<seen, inbound, seat, taken, demuxVars, stopVars, sweep, failed, retry>>

\* The stream opens, or the dial fails or times out.
DialEnds(c) ==
    /\ pc[c] = "dialling"
    /\ \/ Moves(c, "handshaking") /\ UNCHANGED failed
       \/ Fails(c)
    /\ UNCHANGED <<seen, to, from, inbound, seat, taken, demuxVars, stopVars, sweep, wave, retry>>

\* The last slice of the handshake finds no stop raised and the bytes arrive.
Handshaken(c) ==
    /\ pc[c] = "handshaking"
    /\ ~StopRaised(to[c])
    /\ Moves(c, "claiming")
    /\ UNCHANGED failed
    /\ UNCHANGED <<seen, to, from, inbound, seat, taken, demuxVars, stopVars, sweep, wave, retry>>

\* The deadline passes, the stop is seen, or the peer hangs up or is another.
HandshakeFails(c) ==
    /\ pc[c] = "handshaking"
    /\ Fails(c)
    /\ UNCHANGED <<seen, to, from, inbound, seat, taken, demuxVars, stopVars, sweep, wave, retry>>

\* Mutant: a stopped wave waits for candidates nobody will take.
EndWave_DrainsWave(t) ==
    /\ sweep[t] = "dialling"
    /\ wave[t] = {}
    /\ Dialling(t) = {}
    /\ sweep' = [sweep EXCEPT ![t] = "pausing"]
    /\ retry' = [retry EXCEPT ![t] = @ \cup failed[t]]
    /\ failed' = [failed EXCEPT ![t] = {}]
    /\ UNCHANGED <<threadVars, seat, taken, demuxVars, stopVars, wave>>

\* The scope ends when every worker has; what failed sits out the backoff.
EndWave(t) ==
    /\ sweep[t] = "dialling"
    /\ wave[t] = {} \/ StopRaised(t)
    /\ Dialling(t) = {}
    /\ sweep' = [sweep EXCEPT ![t] = "pausing"]
    /\ wave' = [wave EXCEPT ![t] = {}]
    /\ retry' = [retry EXCEPT ![t] = @ \cup failed[t]]
    /\ failed' = [failed EXCEPT ![t] = {}]
    /\ UNCHANGED <<threadVars, seat, taken, demuxVars, stopVars>>

\* dial_loop: the pause between two sweeps is cut short by the stop.
EndSweep(t) ==
    /\ sweep[t] = "pausing"
    /\ StopRaised(t)
    /\ sweep' = [sweep EXCEPT ![t] = "ended"]
    /\ UNCHANGED <<threadVars, seat, taken, demuxVars, stopVars, wave, failed, retry>>

\* retry_backoff has passed.
BackoffEnds(t) ==
    /\ retry[t] # {}
    /\ retry' = [retry EXCEPT ![t] = {}]
    /\ UNCHANGED <<threadVars, seat, taken, demuxVars, stopVars, sweep, wave, failed>>

-----------------------------------------------------------------------------
(* Claiming a slot and registering: finish_attach *)

\* PeerBudget::claim loads the count ...
LoadTaken(c) ==
    /\ pc[c] = "claiming"
    /\ seen' = [seen EXCEPT ![c] = taken]
    /\ Moves(c, "exchanging")
    /\ UNCHANGED <<to, from, inbound, seat, taken, demuxVars, stopVars, sweepVars>>

\* Mutant: the loaded count is stored back without comparing.
Exchange_Blind(c) ==
    /\ pc[c] = "exchanging"
    /\ seen[c] < BudgetLimit
    /\ taken' = seen[c] + 1
    /\ Moves(c, "claimed")
    /\ UNCHANGED <<seen, failed>>
    /\ UNCHANGED <<to, from, inbound, seat, demuxVars, stopVars, sweep, wave, retry>>

\* ... and exchanges it: refused at the limit, retried if it has moved.
Exchange(c) ==
    /\ pc[c] = "exchanging"
    /\ \/ /\ seen[c] >= BudgetLimit
          /\ Fails(c)
          /\ seen' = [seen EXCEPT ![c] = 0]
          /\ UNCHANGED taken
       \/ /\ seen[c] < BudgetLimit /\ taken = seen[c]
          /\ taken' = taken + 1
          /\ Moves(c, "claimed")
          /\ seen' = [seen EXCEPT ![c] = 0]
          /\ UNCHANGED failed
       \/ /\ seen[c] < BudgetLimit /\ taken # seen[c]
          /\ seen' = [seen EXCEPT ![c] = taken]
          /\ UNCHANGED <<pc, taken, failed>>
    /\ UNCHANGED <<to, from, inbound, seat, demuxVars, stopVars, sweep, wave, retry>>

\* register_peer: seated under the lock, or refused, which drops the slot.  A
\* stream that cannot be split is refused the same way.
Admissible(c) ==
    /\ Cardinality(ConnectedFrom(to[c], from[c])) < MaxPerDest
    /\ Cardinality(Connected(to[c])) < MaxPeers

\* Mutant: a refusal keeps the slot.
Register_LeaksSlot(c) ==
    /\ pc[c] = "claimed"
    /\ \/ Admissible(c) /\ seat' = [seat EXCEPT ![c] = "seated"] /\ Leaves(c) /\ UNCHANGED <<taken, failed>>
       \/ Fails(c) /\ UNCHANGED <<seat, taken>>
    /\ UNCHANGED <<seen, to, from, inbound, demuxVars, stopVars, sweep, wave, retry>>

Register(c) ==
    /\ pc[c] = "claimed"
    /\ \/ /\ Admissible(c)
          /\ seat' = [seat EXCEPT ![c] = "seated"]
          /\ Leaves(c)
          /\ UNCHANGED <<taken, failed>>
       \/ /\ taken' = taken - 1
          /\ Fails(c)
          /\ UNCHANGED seat
    /\ UNCHANGED <<seen, to, from, inbound, demuxVars, stopVars, sweep, wave, retry>>

\* drop_peer takes the entry out, and its slot returns with it.
Vacate(c) ==
    /\ seat[c] = "seated"
    /\ seat' = [seat EXCEPT ![c] = "gone"]
    /\ taken' = taken - 1

\* The peer hangs up, breaks the protocol, or cannot be given its threads.
PeerLeaves(c) ==
    /\ Vacate(c)
    /\ UNCHANGED <<threadVars, demuxVars, stopVars, sweepVars>>

\* The idle timeout, while the torrent has a maintenance thread.
IdleOut(c) ==
    /\ Vacate(c)
    /\ life[to[c]] # "stopped"
    /\ UNCHANGED <<threadVars, demuxVars, stopVars, sweepVars>>

-----------------------------------------------------------------------------
(* stop_live: unregister, flush, raise the stop, disconnect everybody *)

Unregister(t) ==
    /\ life[t] = "live"
    /\ life' = [life EXCEPT ![t] = "unregistered"]
    /\ registered' = registered \ {t}
    /\ UNCHANGED <<threadVars, seat, taken, pending, pendingBy, victims, sweepVars>>

\* request_stop, then the listing disconnect_all works from.
RaiseStop(t) ==
    /\ life[t] = "unregistered"
    /\ life' = [life EXCEPT ![t] = "stopping"]
    /\ victims' = [victims EXCEPT ![t] = Connected(t)]
    /\ UNCHANGED <<threadVars, seat, taken, demuxVars, sweepVars>>

DisconnectOne(t, c) ==
    /\ life[t] = "stopping"
    /\ c \in victims[t]
    /\ victims' = [victims EXCEPT ![t] = @ \ {c}]
    /\ Vacate(c) \/ (seat[c] # "seated" /\ UNCHANGED <<seat, taken>>)
    /\ UNCHANGED <<threadVars, demuxVars, life, sweepVars>>

Stopped(t) ==
    /\ life[t] = "stopping"
    /\ victims[t] = {}
    /\ life' = [life EXCEPT ![t] = "stopped"]
    /\ UNCHANGED <<threadVars, seat, taken, demuxVars, victims, sweepVars>>

-----------------------------------------------------------------------------
ThreadNext(c) ==
    \/ \E d \in Dest : Accept(c, d) \/ Dial(c, d)
    \/ \E t \in Torrent : Route(c, t)
    \/ NoHandshake(c) \/ LookForRoom(c) \/ Reply(c)
    \/ ReleasePending(c) \/ ReleaseDest(c)
    \/ DialEnds(c) \/ Handshaken(c) \/ HandshakeFails(c)
    \/ LoadTaken(c) \/ Exchange(c) \/ Register(c)
    \/ PeerLeaves(c) \/ IdleOut(c)

TorrentNext(t) ==
    \/ \E S \in SUBSET Dest : BeginWave(t, S)
    \/ EndWave(t) \/ EndSweep(t) \/ BackoffEnds(t)
    \/ Unregister(t) \/ RaiseStop(t) \/ Stopped(t)
    \/ \E c \in Conn : DisconnectOne(t, c)

SeatsNext == (\E c \in Conn : ThreadNext(c)) \/ (\E t \in Torrent : TorrentNext(t))

SeatsSpec == SeatsInit /\ [][SeatsNext]_seatsVars

\* Dials, handshakes and replies end by their deadlines; locks are fair; the
\* dial loop and the registry's thread keep running.  Nothing makes a peer
\* that is seated leave, nobody has to connect to us and no torrent has to
\* be stopped.
ThreadMust(c) ==
    \/ DialEnds(c) \/ HandshakeFails(c) \/ NoHandshake(c) \/ LookForRoom(c) \/ Reply(c)
    \/ LoadTaken(c) \/ Exchange(c) \/ Register(c) \/ ReleasePending(c) \/ ReleaseDest(c)

SweepMust(t) == EndWave(t) \/ EndSweep(t)

StopMust(t) == RaiseStop(t) \/ Stopped(t) \/ \E c \in Conn : DisconnectOne(t, c)

SeatsFairness ==
    /\ \A c \in Conn : WF_seatsVars(ThreadMust(c))
    /\ \A t \in Torrent : WF_seatsVars(SweepMust(t)) /\ WF_seatsVars(StopMust(t))

SeatsFairSpec == SeatsSpec /\ SeatsFairness

-----------------------------------------------------------------------------
(* Properties *)

\* Whoever holds a PeerSlot: a thread between claim and register_peer, or a
\* peer entry.
SlotHolders == {c \in Conn : pc[c] = "claimed" \/ seat[c] = "seated"}

\* The counter is exactly the number of PeerSlots that exist, whichever path
\* a connection was refused or removed on: "the accounting cannot drift from
\* the peer table" (budget.rs).
TakenExact == taken = Cardinality(SlotHolders)

Slots == INSTANCE Budget WITH Holder <- Conn, Limit <- BudgetLimit, held <- SlotHolders

\* The compare-exchange loop, raced by the threads of every torrent, hands
\* out slots as the abstract budget does: one at a time, never over the limit.
SlotsImplementBudget == Slots!BudgetSpec

\* The demultiplexer's two counts are those of the threads still waiting on a
\* handshake, up to the moment between the two decrements of PendingGuard,
\* and neither cap is passed.
PendingExact ==
    LET waiting(d) == {c \in inbound : from[c] = d /\ pc[c] \notin {"over"}}
    IN  /\ pending = Cardinality({c \in inbound : pc[c] \notin {"over", "releasing"}})
        /\ pending <= MaxPending
        /\ \A d \in Dest : pendingBy[d] = Cardinality(waiting(d)) /\ pendingBy[d] <= MaxPerDest

InFlight(t) == {c \in Conn : to[c] = t /\ pc[c] \notin {"over", "unwinding", "releasing"}}

\* Once the attempts that were under way when it stopped have ended, a torrent
\* is left alone for good: the demultiplexer routes nobody to it, no dial is
\* started for it and it gains no seat (stop_live).
StoppedGainsNothing ==
    [][\A t \in Torrent : life[t] = "stopped" /\ InFlight(t) = {}
            => InFlight(t)' = {} /\ Connected(t)' \subseteq Connected(t)]_seatsVars

\* A stop ends the dial loop even when every peer it is dialling stays silent
\* (Swarm::shutdown joins it).
StopEndsSweep == \A t \in Torrent : StopRaised(t) ~> sweep[t] = "ended"

\* Every count is the number of those it counts, on every path of every thread,
\* and no torrent seats more than its limit although it is looked at before
\* the handshake and a claim lies between (budget.rs, admit_pending,
\* register_peer).
SeatsExact ==
    /\ SeatsTypeOK /\ TakenExact /\ PendingExact
    /\ \A t \in Torrent : Cardinality(Connected(t)) <= MaxPeers

\* A stop takes effect: the dial loop ends, and what was under way is the last
\* that happens to the torrent (stop_live, Swarm::shutdown).
StopSettles == StoppedGainsNothing /\ StopEndsSweep
=============================================================================
