---------------------------- MODULE DaemonProofs ----------------------------
(***************************************************************************)
(* Proofs about the daemon: the seats (Seats), its process (Daemon), the   *)
(* metadata fetch (Fetch), the in-memory network (Mock), and the four      *)
(* together.                                                               *)
(*                                                                         *)
(* The counters of budget.rs and of the demultiplexer are atomics and map  *)
(* entries beside the threads they count, so each is exact only because    *)
(* of where every thread may be: the invariant ties pc, seat, inbound, to  *)
(* and from of one attempt together (StageOK), and every step then moves a *)
(* counter by what it moves in or out of the set that is counted           *)
(* (SlotsMove, GuardsMove).  One daemon at a time serves because           *)
(* everything that touches the token and the socket path happens after     *)
(* lock_instance (LockHeld), and a process that has come past a step still *)
(* has what it left behind (TokenKnown, SocketOurs).                       *)
(***************************************************************************)
EXTENDS Ordering, MCDaemon

-----------------------------------------------------------------------------
\* Where a thread may be, given what its attempt is.
StageOK ==
    \A c \in Conn :
        /\ pc[c] = "free" => seat[c] = "none" /\ c \notin inbound
        /\ pc[c] \in {"reading", "routed", "replying", "unwinding", "releasing"} => c \in inbound
        /\ pc[c] \in {"dialling", "handshaking"} => c \notin inbound
        /\ pc[c] \in {"routed", "replying", "dialling", "handshaking", "claiming",
                      "exchanging", "claimed"} => to[c] \in Torrent
        /\ pc[c] # "free" => from[c] \in Dest
        /\ seat[c] # "none" => pc[c] \in {"over", "unwinding", "releasing"}
        /\ seat[c] = "seated" => to[c] \in Torrent

\* The types of what belongs to one attempt, and of what belongs to a torrent.
AttemptsOK ==
    /\ pc \in [Conn -> {"free", "reading", "routed", "replying", "dialling",
                        "handshaking", "claiming", "exchanging", "claimed",
                        "unwinding", "releasing", "over"}]
    /\ seen \in [Conn -> 0 .. BudgetLimit]
    /\ to \in [Conn -> Torrent \cup {Nobody}]
    /\ from \in [Conn -> Dest \cup {Nobody}]
    /\ inbound \subseteq Conn
    /\ seat \in [Conn -> {"none", "seated", "gone"}]

TorrentsOK ==
    /\ registered \subseteq Torrent
    /\ life \in [Torrent -> {"live", "unregistered", "stopping", "stopped"}]
    /\ victims \in [Torrent -> SUBSET Conn]
    /\ sweep \in [Torrent -> {"pausing", "dialling", "ended"}]
    /\ wave \in [Torrent -> SUBSET Dest]
    /\ failed \in [Torrent -> SUBSET Dest]
    /\ retry \in [Torrent -> SUBSET Dest]

\* What the demultiplexer's two counts count.
Guarded == {c \in inbound : pc[c] \notin {"over", "releasing"}}
Waiting(d) == {c \in inbound : from[c] = d /\ pc[c] # "over"}

GuardsExact ==
    /\ pending = Cardinality(Guarded)
    /\ \A d \in Dest : pendingBy[d] = Cardinality(Waiting(d))

SeatsCapped == \A t \in Torrent : Cardinality(Connected(t)) <= MaxPeers

SeatsInv == SeatsTypeOK /\ StageOK /\ TakenExact /\ GuardsExact /\ SeatsCapped

\* How a step may move the budget: by one slot, in or out, or not at all.
SlotStep ==
    \/ SlotHolders' = SlotHolders /\ taken' = taken
    \/ \E c \in Conn : /\ c \notin SlotHolders /\ taken < BudgetLimit
                       /\ SlotHolders' = SlotHolders \cup {c} /\ taken' = taken + 1
    \/ \E c \in Conn : /\ c \in SlotHolders
                       /\ SlotHolders' = SlotHolders \ {c} /\ taken' = taken - 1

\* How a step may move the demultiplexer's count, and one destination's.
GuardStep ==
    \/ Guarded' = Guarded /\ pending' = pending
    \/ \E c \in Conn : /\ c \notin Guarded /\ pending < MaxPending
                       /\ Guarded' = Guarded \cup {c} /\ pending' = pending + 1
    \/ \E c \in Conn : /\ c \in Guarded
                       /\ Guarded' = Guarded \ {c} /\ pending' = pending - 1

WaitStep(d) ==
    \/ Waiting(d)' = Waiting(d) /\ pendingBy'[d] = pendingBy[d]
    \/ \E c \in Conn : /\ c \notin Waiting(d) /\ pendingBy[d] < MaxPerDest
                       /\ Waiting(d)' = Waiting(d) \cup {c}
                       /\ pendingBy'[d] = pendingBy[d] + 1
    \/ \E c \in Conn : /\ c \in Waiting(d)
                       /\ Waiting(d)' = Waiting(d) \ {c}
                       /\ pendingBy'[d] = pendingBy[d] - 1

\* How a step may move a torrent's peer table.
TableStep(t) ==
    \/ Connected(t)' \subseteq Connected(t)
    \/ \E c \in Conn : /\ Cardinality(Connected(t)) < MaxPeers
                       /\ Connected(t)' = Connected(t) \cup {c}

-----------------------------------------------------------------------------
(* Counting *)

\* A set of attempts is finite and its size changes by one with its members.
LEMMA Counting ==
    ASSUME NEW S \in SUBSET Conn
    PROVE  /\ IsFiniteSet(S) /\ Cardinality(S) \in Nat
           /\ \A c \in S : Cardinality(S \ {c}) = Cardinality(S) - 1 /\ Cardinality(S) > 0
           /\ \A c \in Conn \ S : Cardinality(S \cup {c}) = Cardinality(S) + 1
           /\ \A c \in Conn : Cardinality(S \cup {c}) <= Cardinality(S) + 1
           /\ \A T \in SUBSET S : Cardinality(T) \in Nat /\ Cardinality(T) <= Cardinality(S)
  <1>1. IsFiniteSet(S) /\ Cardinality(S) \in Nat
    BY SeatsAssumption, FS_Subset, FS_CardinalityType
  <1>2. ASSUME NEW c \in S
        PROVE  Cardinality(S \ {c}) = Cardinality(S) - 1 /\ Cardinality(S) > 0
    <2>1. Cardinality(S \ {c}) = Cardinality(S) - 1
      BY <1>1, FS_RemoveElement
    <2>2. Cardinality(S \ {c}) \in Nat
      BY <1>1, FS_RemoveElement, FS_CardinalityType
    <2> QED BY <1>1, <2>1, <2>2
  <1>3. \A c \in Conn : /\ c \notin S => Cardinality(S \cup {c}) = Cardinality(S) + 1
                        /\ c \in S => Cardinality(S \cup {c}) = Cardinality(S)
    BY <1>1, FS_AddElement
  <1>4. \A T \in SUBSET S : Cardinality(T) \in Nat /\ Cardinality(T) <= Cardinality(S)
    BY <1>1, FS_Subset, FS_CardinalityType
  <1> QED BY <1>1, <1>2, <1>3, <1>4

-----------------------------------------------------------------------------
(* Types and stages *)

\* Every step keeps what belongs to an attempt well typed, and every attempt
\* in a stage that fits it.
LEMMA StagesKept ==
    ASSUME SeatsInv, [SeatsNext]_seatsVars
    PROVE  AttemptsOK' /\ StageOK'
  <1> USE SeatsAssumption DEF SeatsInv, SeatsTypeOK, AttemptsOK, StageOK, Moves, Leaves, Fails, Vacate,
                              threadVars
  <1>1. ASSUME NEW c \in Conn, NEW d \in Dest, Accept(c, d) PROVE AttemptsOK' /\ StageOK'
    BY <1>1 DEF Accept
  <1>2. ASSUME NEW c \in Conn, NEW d \in Dest, Dial(c, d) PROVE AttemptsOK' /\ StageOK'
    BY <1>2 DEF Dial
  <1>3. ASSUME NEW c \in Conn, NEW t \in Torrent, Route(c, t) PROVE AttemptsOK' /\ StageOK'
    BY <1>3 DEF Route
  <1>4. ASSUME NEW c \in Conn, NoHandshake(c) PROVE AttemptsOK' /\ StageOK'
    BY <1>4 DEF NoHandshake
  <1>5. ASSUME NEW c \in Conn, LookForRoom(c) PROVE AttemptsOK' /\ StageOK'
    BY <1>5 DEF LookForRoom
  <1>6. ASSUME NEW c \in Conn, Reply(c) PROVE AttemptsOK' /\ StageOK'
    BY <1>6 DEF Reply
  <1>7. ASSUME NEW c \in Conn, ReleasePending(c) PROVE AttemptsOK' /\ StageOK'
    BY <1>7 DEF ReleasePending
  <1>8. ASSUME NEW c \in Conn, ReleaseDest(c) PROVE AttemptsOK' /\ StageOK'
    BY <1>8 DEF ReleaseDest
  <1>9. ASSUME NEW c \in Conn, DialEnds(c) PROVE AttemptsOK' /\ StageOK'
    BY <1>9 DEF DialEnds
  <1>10. ASSUME NEW c \in Conn, Handshaken(c) PROVE AttemptsOK' /\ StageOK'
    BY <1>10 DEF Handshaken
  <1>11. ASSUME NEW c \in Conn, HandshakeFails(c) PROVE AttemptsOK' /\ StageOK'
    BY <1>11 DEF HandshakeFails
  <1>12. ASSUME NEW c \in Conn, LoadTaken(c) PROVE AttemptsOK' /\ StageOK'
    BY <1>12 DEF LoadTaken
  <1>13. ASSUME NEW c \in Conn, Exchange(c) PROVE AttemptsOK' /\ StageOK'
    BY <1>13 DEF Exchange
  <1>14. ASSUME NEW c \in Conn, Register(c) PROVE AttemptsOK' /\ StageOK'
    BY <1>14 DEF Register
  <1>15. ASSUME NEW c \in Conn, PeerLeaves(c) PROVE AttemptsOK' /\ StageOK'
    BY <1>15 DEF PeerLeaves
  <1>16. ASSUME NEW c \in Conn, IdleOut(c) PROVE AttemptsOK' /\ StageOK'
    BY <1>16 DEF IdleOut
  <1>17. ASSUME NEW t \in Torrent, NEW S \in SUBSET Dest, BeginWave(t, S) PROVE AttemptsOK' /\ StageOK'
    BY <1>17 DEF BeginWave
  <1>18. ASSUME NEW t \in Torrent, EndWave(t) PROVE AttemptsOK' /\ StageOK'
    BY <1>18 DEF EndWave
  <1>19. ASSUME NEW t \in Torrent, EndSweep(t) PROVE AttemptsOK' /\ StageOK'
    BY <1>19 DEF EndSweep
  <1>20. ASSUME NEW t \in Torrent, BackoffEnds(t) PROVE AttemptsOK' /\ StageOK'
    BY <1>20 DEF BackoffEnds
  <1>21. ASSUME NEW t \in Torrent, Unregister(t) PROVE AttemptsOK' /\ StageOK'
    BY <1>21 DEF Unregister
  <1>22. ASSUME NEW t \in Torrent, RaiseStop(t) PROVE AttemptsOK' /\ StageOK'
    BY <1>22 DEF RaiseStop
  <1>23. ASSUME NEW t \in Torrent, Stopped(t) PROVE AttemptsOK' /\ StageOK'
    BY <1>23 DEF Stopped
  <1>24. ASSUME NEW t \in Torrent, NEW c \in Conn, DisconnectOne(t, c) PROVE AttemptsOK' /\ StageOK'
    BY <1>24 DEF DisconnectOne
  <1>25. CASE UNCHANGED seatsVars
    BY <1>25 DEF seatsVars
  <1> QED
    BY <1>1, <1>2, <1>3, <1>4, <1>5, <1>6, <1>7, <1>8, <1>9, <1>10, <1>11,
       <1>12, <1>13, <1>14, <1>15, <1>16, <1>17, <1>18, <1>19, <1>20, <1>21,
       <1>22, <1>23, <1>24, <1>25
       DEF SeatsNext, ThreadNext, TorrentNext

\* Every step keeps what belongs to a torrent well typed.
LEMMA TorrentsKept ==
    ASSUME SeatsInv, [SeatsNext]_seatsVars
    PROVE  TorrentsOK'
  <1> USE SeatsAssumption DEF SeatsInv, SeatsTypeOK, TorrentsOK, StageOK, Fails,
                              stopVars, sweepVars, demuxVars
  <1>1. ASSUME NEW c \in Conn, NEW d \in Dest, Accept(c, d) PROVE TorrentsOK'
    BY <1>1 DEF Accept
  <1>2. ASSUME NEW c \in Conn, NEW d \in Dest, Dial(c, d) PROVE TorrentsOK'
    BY <1>2 DEF Dial
  <1>3. ASSUME NEW c \in Conn, NEW t \in Torrent, Route(c, t) PROVE TorrentsOK'
    BY <1>3 DEF Route
  <1>4. ASSUME NEW c \in Conn, NoHandshake(c) PROVE TorrentsOK'
    BY <1>4 DEF NoHandshake
  <1>5. ASSUME NEW c \in Conn, LookForRoom(c) PROVE TorrentsOK'
    BY <1>5 DEF LookForRoom
  <1>6. ASSUME NEW c \in Conn, Reply(c) PROVE TorrentsOK'
    BY <1>6 DEF Reply
  <1>7. ASSUME NEW c \in Conn, ReleasePending(c) PROVE TorrentsOK'
    BY <1>7 DEF ReleasePending
  <1>8. ASSUME NEW c \in Conn, ReleaseDest(c) PROVE TorrentsOK'
    BY <1>8 DEF ReleaseDest
  <1>9. ASSUME NEW c \in Conn, DialEnds(c) PROVE TorrentsOK'
    BY <1>9 DEF DialEnds
  <1>10. ASSUME NEW c \in Conn, Handshaken(c) PROVE TorrentsOK'
    BY <1>10 DEF Handshaken
  <1>11. ASSUME NEW c \in Conn, HandshakeFails(c) PROVE TorrentsOK'
    BY <1>11 DEF HandshakeFails
  <1>12. ASSUME NEW c \in Conn, LoadTaken(c) PROVE TorrentsOK'
    BY <1>12 DEF LoadTaken
  <1>13. ASSUME NEW c \in Conn, Exchange(c) PROVE TorrentsOK'
    BY <1>13 DEF Exchange
  <1>14. ASSUME NEW c \in Conn, Register(c) PROVE TorrentsOK'
    BY <1>14 DEF Register
  <1>15. ASSUME NEW c \in Conn, PeerLeaves(c) PROVE TorrentsOK'
    BY <1>15 DEF PeerLeaves
  <1>16. ASSUME NEW c \in Conn, IdleOut(c) PROVE TorrentsOK'
    BY <1>16 DEF IdleOut
  <1>17. ASSUME NEW t \in Torrent, NEW S \in SUBSET Dest, BeginWave(t, S) PROVE TorrentsOK'
    BY <1>17 DEF BeginWave
  <1>18. ASSUME NEW t \in Torrent, EndWave(t) PROVE TorrentsOK'
    BY <1>18 DEF EndWave
  <1>19. ASSUME NEW t \in Torrent, EndSweep(t) PROVE TorrentsOK'
    BY <1>19 DEF EndSweep
  <1>20. ASSUME NEW t \in Torrent, BackoffEnds(t) PROVE TorrentsOK'
    BY <1>20 DEF BackoffEnds
  <1>21. ASSUME NEW t \in Torrent, Unregister(t) PROVE TorrentsOK'
    BY <1>21 DEF Unregister
  <1>22. ASSUME NEW t \in Torrent, RaiseStop(t) PROVE TorrentsOK'
    BY <1>22 DEF RaiseStop, Connected
  <1>23. ASSUME NEW t \in Torrent, Stopped(t) PROVE TorrentsOK'
    BY <1>23 DEF Stopped
  <1>24. ASSUME NEW t \in Torrent, NEW c \in Conn, DisconnectOne(t, c) PROVE TorrentsOK'
    BY <1>24 DEF DisconnectOne
  <1>25. CASE UNCHANGED seatsVars
    BY <1>25 DEF seatsVars
  <1> QED
    BY <1>1, <1>2, <1>3, <1>4, <1>5, <1>6, <1>7, <1>8, <1>9, <1>10, <1>11,
       <1>12, <1>13, <1>14, <1>15, <1>16, <1>17, <1>18, <1>19, <1>20, <1>21,
       <1>22, <1>23, <1>24, <1>25
       DEF SeatsNext, ThreadNext, TorrentNext

-----------------------------------------------------------------------------
(* The counters *)

\* Every step moves the budget's counter with the slots.
LEMMA SlotsMove ==
    ASSUME SeatsInv, [SeatsNext]_seatsVars
    PROVE  SlotStep
  <1> USE SeatsAssumption DEF SeatsInv, SeatsTypeOK, StageOK, SlotStep, SlotHolders, Moves, Leaves, Fails,
                              Vacate, threadVars
  <1>1. ASSUME NEW c \in Conn, NEW d \in Dest, Accept(c, d) PROVE SlotStep
    BY <1>1 DEF Accept
  <1>2. ASSUME NEW c \in Conn, NEW d \in Dest, Dial(c, d) PROVE SlotStep
    BY <1>2 DEF Dial
  <1>3. ASSUME NEW c \in Conn, NEW t \in Torrent, Route(c, t) PROVE SlotStep
    BY <1>3 DEF Route
  <1>4. ASSUME NEW c \in Conn, NoHandshake(c) PROVE SlotStep
    BY <1>4 DEF NoHandshake
  <1>5. ASSUME NEW c \in Conn, LookForRoom(c) PROVE SlotStep
    BY <1>5 DEF LookForRoom
  <1>6. ASSUME NEW c \in Conn, Reply(c) PROVE SlotStep
    BY <1>6 DEF Reply
  <1>7. ASSUME NEW c \in Conn, ReleasePending(c) PROVE SlotStep
    BY <1>7 DEF ReleasePending
  <1>8. ASSUME NEW c \in Conn, ReleaseDest(c) PROVE SlotStep
    BY <1>8 DEF ReleaseDest
  <1>9. ASSUME NEW c \in Conn, DialEnds(c) PROVE SlotStep
    BY <1>9 DEF DialEnds
  <1>10. ASSUME NEW c \in Conn, Handshaken(c) PROVE SlotStep
    BY <1>10 DEF Handshaken
  <1>11. ASSUME NEW c \in Conn, HandshakeFails(c) PROVE SlotStep
    BY <1>11 DEF HandshakeFails
  <1>12. ASSUME NEW c \in Conn, LoadTaken(c) PROVE SlotStep
    BY <1>12 DEF LoadTaken
  <1>13. ASSUME NEW c \in Conn, Exchange(c) PROVE SlotStep
    BY <1>13 DEF Exchange
  <1>14. ASSUME NEW c \in Conn, Register(c) PROVE SlotStep
    BY <1>14 DEF Register
  <1>15. ASSUME NEW c \in Conn, PeerLeaves(c) PROVE SlotStep
    BY <1>15 DEF PeerLeaves
  <1>16. ASSUME NEW c \in Conn, IdleOut(c) PROVE SlotStep
    BY <1>16 DEF IdleOut
  <1>17. ASSUME NEW t \in Torrent, NEW S \in SUBSET Dest, BeginWave(t, S) PROVE SlotStep
    BY <1>17 DEF BeginWave
  <1>18. ASSUME NEW t \in Torrent, EndWave(t) PROVE SlotStep
    BY <1>18 DEF EndWave
  <1>19. ASSUME NEW t \in Torrent, EndSweep(t) PROVE SlotStep
    BY <1>19 DEF EndSweep
  <1>20. ASSUME NEW t \in Torrent, BackoffEnds(t) PROVE SlotStep
    BY <1>20 DEF BackoffEnds
  <1>21. ASSUME NEW t \in Torrent, Unregister(t) PROVE SlotStep
    BY <1>21 DEF Unregister
  <1>22. ASSUME NEW t \in Torrent, RaiseStop(t) PROVE SlotStep
    BY <1>22 DEF RaiseStop
  <1>23. ASSUME NEW t \in Torrent, Stopped(t) PROVE SlotStep
    BY <1>23 DEF Stopped
  <1>24. ASSUME NEW t \in Torrent, NEW c \in Conn, DisconnectOne(t, c) PROVE SlotStep
    BY <1>24 DEF DisconnectOne
  <1>25. CASE UNCHANGED seatsVars
    BY <1>25 DEF seatsVars
  <1> QED
    BY <1>1, <1>2, <1>3, <1>4, <1>5, <1>6, <1>7, <1>8, <1>9, <1>10, <1>11,
       <1>12, <1>13, <1>14, <1>15, <1>16, <1>17, <1>18, <1>19, <1>20, <1>21,
       <1>22, <1>23, <1>24, <1>25
       DEF SeatsNext, ThreadNext, TorrentNext

\* Every step moves the demultiplexer's counter with the threads it counts.
LEMMA GuardsMove ==
    ASSUME SeatsInv, [SeatsNext]_seatsVars
    PROVE  GuardStep
  <1> USE SeatsAssumption DEF SeatsInv, SeatsTypeOK, StageOK, GuardStep, Guarded, Moves, Leaves, Fails,
                              AdmitPending, threadVars, demuxVars
  <1>1. ASSUME NEW c \in Conn, NEW d \in Dest, Accept(c, d) PROVE GuardStep
    BY <1>1 DEF Accept
  <1>2. ASSUME NEW c \in Conn, NEW d \in Dest, Dial(c, d) PROVE GuardStep
    BY <1>2 DEF Dial
  <1>3. ASSUME NEW c \in Conn, NEW t \in Torrent, Route(c, t) PROVE GuardStep
    BY <1>3 DEF Route
  <1>4. ASSUME NEW c \in Conn, NoHandshake(c) PROVE GuardStep
    BY <1>4 DEF NoHandshake
  <1>5. ASSUME NEW c \in Conn, LookForRoom(c) PROVE GuardStep
    BY <1>5 DEF LookForRoom
  <1>6. ASSUME NEW c \in Conn, Reply(c) PROVE GuardStep
    BY <1>6 DEF Reply
  <1>7. ASSUME NEW c \in Conn, ReleasePending(c) PROVE GuardStep
    BY <1>7 DEF ReleasePending
  <1>8. ASSUME NEW c \in Conn, ReleaseDest(c) PROVE GuardStep
    BY <1>8 DEF ReleaseDest
  <1>9. ASSUME NEW c \in Conn, DialEnds(c) PROVE GuardStep
    BY <1>9 DEF DialEnds
  <1>10. ASSUME NEW c \in Conn, Handshaken(c) PROVE GuardStep
    BY <1>10 DEF Handshaken
  <1>11. ASSUME NEW c \in Conn, HandshakeFails(c) PROVE GuardStep
    BY <1>11 DEF HandshakeFails
  <1>12. ASSUME NEW c \in Conn, LoadTaken(c) PROVE GuardStep
    BY <1>12 DEF LoadTaken
  <1>13. ASSUME NEW c \in Conn, Exchange(c) PROVE GuardStep
    BY <1>13 DEF Exchange
  <1>14. ASSUME NEW c \in Conn, Register(c) PROVE GuardStep
    BY <1>14 DEF Register
  <1>15. ASSUME NEW c \in Conn, PeerLeaves(c) PROVE GuardStep
    BY <1>15 DEF PeerLeaves
  <1>16. ASSUME NEW c \in Conn, IdleOut(c) PROVE GuardStep
    BY <1>16 DEF IdleOut
  <1>17. ASSUME NEW t \in Torrent, NEW S \in SUBSET Dest, BeginWave(t, S) PROVE GuardStep
    BY <1>17 DEF BeginWave
  <1>18. ASSUME NEW t \in Torrent, EndWave(t) PROVE GuardStep
    BY <1>18 DEF EndWave
  <1>19. ASSUME NEW t \in Torrent, EndSweep(t) PROVE GuardStep
    BY <1>19 DEF EndSweep
  <1>20. ASSUME NEW t \in Torrent, BackoffEnds(t) PROVE GuardStep
    BY <1>20 DEF BackoffEnds
  <1>21. ASSUME NEW t \in Torrent, Unregister(t) PROVE GuardStep
    BY <1>21 DEF Unregister
  <1>22. ASSUME NEW t \in Torrent, RaiseStop(t) PROVE GuardStep
    BY <1>22 DEF RaiseStop
  <1>23. ASSUME NEW t \in Torrent, Stopped(t) PROVE GuardStep
    BY <1>23 DEF Stopped
  <1>24. ASSUME NEW t \in Torrent, NEW c \in Conn, DisconnectOne(t, c) PROVE GuardStep
    BY <1>24 DEF DisconnectOne
  <1>25. CASE UNCHANGED seatsVars
    BY <1>25 DEF seatsVars
  <1> QED
    BY <1>1, <1>2, <1>3, <1>4, <1>5, <1>6, <1>7, <1>8, <1>9, <1>10, <1>11,
       <1>12, <1>13, <1>14, <1>15, <1>16, <1>17, <1>18, <1>19, <1>20, <1>21,
       <1>22, <1>23, <1>24, <1>25
       DEF SeatsNext, ThreadNext, TorrentNext

\* Every step moves a destination's entry with the threads it counts.
LEMMA WaitsMove ==
    ASSUME SeatsInv, [SeatsNext]_seatsVars, NEW e \in Dest
    PROVE  WaitStep(e)
  <1> USE SeatsAssumption DEF SeatsInv, SeatsTypeOK, StageOK, WaitStep, Waiting, Moves, Leaves, Fails,
                              AdmitPending, threadVars, demuxVars
  <1>1. ASSUME NEW c \in Conn, NEW d \in Dest, Accept(c, d) PROVE WaitStep(e)
    BY <1>1 DEF Accept
  <1>2. ASSUME NEW c \in Conn, NEW d \in Dest, Dial(c, d) PROVE WaitStep(e)
    BY <1>2 DEF Dial
  <1>3. ASSUME NEW c \in Conn, NEW t \in Torrent, Route(c, t) PROVE WaitStep(e)
    BY <1>3 DEF Route
  <1>4. ASSUME NEW c \in Conn, NoHandshake(c) PROVE WaitStep(e)
    BY <1>4 DEF NoHandshake
  <1>5. ASSUME NEW c \in Conn, LookForRoom(c) PROVE WaitStep(e)
    BY <1>5 DEF LookForRoom
  <1>6. ASSUME NEW c \in Conn, Reply(c) PROVE WaitStep(e)
    BY <1>6 DEF Reply
  <1>7. ASSUME NEW c \in Conn, ReleasePending(c) PROVE WaitStep(e)
    BY <1>7 DEF ReleasePending
  <1>8. ASSUME NEW c \in Conn, ReleaseDest(c) PROVE WaitStep(e)
    BY <1>8 DEF ReleaseDest
  <1>9. ASSUME NEW c \in Conn, DialEnds(c) PROVE WaitStep(e)
    BY <1>9 DEF DialEnds
  <1>10. ASSUME NEW c \in Conn, Handshaken(c) PROVE WaitStep(e)
    BY <1>10 DEF Handshaken
  <1>11. ASSUME NEW c \in Conn, HandshakeFails(c) PROVE WaitStep(e)
    BY <1>11 DEF HandshakeFails
  <1>12. ASSUME NEW c \in Conn, LoadTaken(c) PROVE WaitStep(e)
    BY <1>12 DEF LoadTaken
  <1>13. ASSUME NEW c \in Conn, Exchange(c) PROVE WaitStep(e)
    BY <1>13 DEF Exchange
  <1>14. ASSUME NEW c \in Conn, Register(c) PROVE WaitStep(e)
    BY <1>14 DEF Register
  <1>15. ASSUME NEW c \in Conn, PeerLeaves(c) PROVE WaitStep(e)
    BY <1>15 DEF PeerLeaves
  <1>16. ASSUME NEW c \in Conn, IdleOut(c) PROVE WaitStep(e)
    BY <1>16 DEF IdleOut
  <1>17. ASSUME NEW t \in Torrent, NEW S \in SUBSET Dest, BeginWave(t, S) PROVE WaitStep(e)
    BY <1>17 DEF BeginWave
  <1>18. ASSUME NEW t \in Torrent, EndWave(t) PROVE WaitStep(e)
    BY <1>18 DEF EndWave
  <1>19. ASSUME NEW t \in Torrent, EndSweep(t) PROVE WaitStep(e)
    BY <1>19 DEF EndSweep
  <1>20. ASSUME NEW t \in Torrent, BackoffEnds(t) PROVE WaitStep(e)
    BY <1>20 DEF BackoffEnds
  <1>21. ASSUME NEW t \in Torrent, Unregister(t) PROVE WaitStep(e)
    BY <1>21 DEF Unregister
  <1>22. ASSUME NEW t \in Torrent, RaiseStop(t) PROVE WaitStep(e)
    BY <1>22 DEF RaiseStop
  <1>23. ASSUME NEW t \in Torrent, Stopped(t) PROVE WaitStep(e)
    BY <1>23 DEF Stopped
  <1>24. ASSUME NEW t \in Torrent, NEW c \in Conn, DisconnectOne(t, c) PROVE WaitStep(e)
    BY <1>24 DEF DisconnectOne
  <1>25. CASE UNCHANGED seatsVars
    BY <1>25 DEF seatsVars
  <1> QED
    BY <1>1, <1>2, <1>3, <1>4, <1>5, <1>6, <1>7, <1>8, <1>9, <1>10, <1>11,
       <1>12, <1>13, <1>14, <1>15, <1>16, <1>17, <1>18, <1>19, <1>20, <1>21,
       <1>22, <1>23, <1>24, <1>25
       DEF SeatsNext, ThreadNext, TorrentNext

\* A torrent gains a peer only while it has fewer than its limit.
LEMMA TablesMove ==
    ASSUME SeatsInv, [SeatsNext]_seatsVars, NEW u \in Torrent
    PROVE  TableStep(u)
  <1> USE SeatsAssumption DEF SeatsInv, SeatsTypeOK, StageOK, TableStep, Connected,
                              Vacate, threadVars
  <1>1. ASSUME NEW c \in Conn, NEW d \in Dest, Accept(c, d) PROVE TableStep(u)
    BY <1>1 DEF Accept
  <1>2. ASSUME NEW c \in Conn, NEW d \in Dest, Dial(c, d) PROVE TableStep(u)
    BY <1>2 DEF Dial
  <1>3. ASSUME NEW c \in Conn, NEW t \in Torrent, Route(c, t) PROVE TableStep(u)
    BY <1>3 DEF Route
  <1>4. ASSUME NEW c \in Conn, NoHandshake(c) PROVE TableStep(u)
    BY <1>4 DEF NoHandshake
  <1>5. ASSUME NEW c \in Conn, LookForRoom(c) PROVE TableStep(u)
    BY <1>5 DEF LookForRoom
  <1>6. ASSUME NEW c \in Conn, Reply(c) PROVE TableStep(u)
    BY <1>6 DEF Reply
  <1>7. ASSUME NEW c \in Conn, ReleasePending(c) PROVE TableStep(u)
    BY <1>7 DEF ReleasePending
  <1>8. ASSUME NEW c \in Conn, ReleaseDest(c) PROVE TableStep(u)
    BY <1>8 DEF ReleaseDest
  <1>9. ASSUME NEW c \in Conn, DialEnds(c) PROVE TableStep(u)
    BY <1>9 DEF DialEnds
  <1>10. ASSUME NEW c \in Conn, Handshaken(c) PROVE TableStep(u)
    BY <1>10 DEF Handshaken
  <1>11. ASSUME NEW c \in Conn, HandshakeFails(c) PROVE TableStep(u)
    BY <1>11 DEF HandshakeFails
  <1>12. ASSUME NEW c \in Conn, LoadTaken(c) PROVE TableStep(u)
    BY <1>12 DEF LoadTaken
  <1>13. ASSUME NEW c \in Conn, Exchange(c) PROVE TableStep(u)
    BY <1>13 DEF Exchange
  <1>14. ASSUME NEW c \in Conn, Register(c) PROVE TableStep(u)
    <2>1. CASE seat' = seat
      BY <1>14, <2>1 DEF Register
    <2>2. CASE Admissible(c) /\ seat' = [seat EXCEPT ![c] = "seated"]
      <3>1. to' = to /\ Cardinality(Connected(to[c])) < MaxPeers
        BY <1>14, <2>2 DEF Register, Admissible
      <3>2. CASE to[c] = u
        <4>1. Connected(u)' = Connected(u) \cup {c}
          BY <2>2, <3>1, <3>2
        <4>2. Cardinality(Connected(u)) < MaxPeers
          BY <3>1, <3>2
        <4> QED BY <4>1, <4>2, Zenon DEF TableStep
      <3>3. CASE to[c] # u
        BY <2>2, <3>1, <3>3
      <3> QED BY <3>2, <3>3
    <2> QED BY <1>14, <2>1, <2>2 DEF Register
  <1>15. ASSUME NEW c \in Conn, PeerLeaves(c) PROVE TableStep(u)
    BY <1>15 DEF PeerLeaves
  <1>16. ASSUME NEW c \in Conn, IdleOut(c) PROVE TableStep(u)
    BY <1>16 DEF IdleOut
  <1>17. ASSUME NEW t \in Torrent, NEW S \in SUBSET Dest, BeginWave(t, S) PROVE TableStep(u)
    BY <1>17 DEF BeginWave
  <1>18. ASSUME NEW t \in Torrent, EndWave(t) PROVE TableStep(u)
    BY <1>18 DEF EndWave
  <1>19. ASSUME NEW t \in Torrent, EndSweep(t) PROVE TableStep(u)
    BY <1>19 DEF EndSweep
  <1>20. ASSUME NEW t \in Torrent, BackoffEnds(t) PROVE TableStep(u)
    BY <1>20 DEF BackoffEnds
  <1>21. ASSUME NEW t \in Torrent, Unregister(t) PROVE TableStep(u)
    BY <1>21 DEF Unregister
  <1>22. ASSUME NEW t \in Torrent, RaiseStop(t) PROVE TableStep(u)
    BY <1>22 DEF RaiseStop
  <1>23. ASSUME NEW t \in Torrent, Stopped(t) PROVE TableStep(u)
    BY <1>23 DEF Stopped
  <1>24. ASSUME NEW t \in Torrent, NEW c \in Conn, DisconnectOne(t, c) PROVE TableStep(u)
    BY <1>24 DEF DisconnectOne
  <1>25. CASE UNCHANGED seatsVars
    BY <1>25 DEF seatsVars
  <1> QED
    BY <1>1, <1>2, <1>3, <1>4, <1>5, <1>6, <1>7, <1>8, <1>9, <1>10, <1>11,
       <1>12, <1>13, <1>14, <1>15, <1>16, <1>17, <1>18, <1>19, <1>20, <1>21,
       <1>22, <1>23, <1>24, <1>25
       DEF SeatsNext, ThreadNext, TorrentNext

-----------------------------------------------------------------------------
(* The theorems *)

LEMMA SeatsInvInit == SeatsInit => SeatsInv
  <1> SUFFICES ASSUME SeatsInit PROVE SeatsInv
    OBVIOUS
  <1> USE SeatsAssumption DEF SeatsInit
  <1>1. SeatsTypeOK
    BY DEF SeatsTypeOK
  <1>2. StageOK
    BY DEF StageOK
  <1>3. SlotHolders = {} /\ Guarded = {} /\ \A d \in Dest : Waiting(d) = {}
    BY DEF SlotHolders, Guarded, Waiting
  <1>4. \A t \in Torrent : Connected(t) = {}
    BY DEF Connected
  <1>5. Cardinality({}) = 0
    BY FS_EmptySet
  <1>6. TakenExact
    BY <1>3, <1>5 DEF TakenExact
  <1>7. GuardsExact
    BY <1>3, <1>5 DEF GuardsExact
  <1>8. SeatsCapped
    <2> SUFFICES ASSUME NEW t \in Torrent PROVE Cardinality(Connected(t)) <= MaxPeers
      BY DEF SeatsCapped
    <2>1. Cardinality(Connected(t)) = 0
      BY <1>4, <1>5
    <2> QED BY <2>1
  <1> QED
    BY <1>1, <1>2, <1>6, <1>7, <1>8 DEF SeatsInv

LEMMA SeatsInvStep ==
    ASSUME SeatsInv, [SeatsNext]_seatsVars
    PROVE  SeatsInv'
  <1>1. AttemptsOK' /\ StageOK' /\ TorrentsOK'
    BY StagesKept, TorrentsKept
  <1>2. TakenExact' /\ taken' \in 0 .. BudgetLimit
    <2>1. SlotHolders \in SUBSET Conn /\ taken = Cardinality(SlotHolders) /\ taken \in 0 .. BudgetLimit
      BY DEF SlotHolders, SeatsInv, TakenExact, SeatsTypeOK
    <2> QED BY <2>1, SlotsMove, Counting, SeatsAssumption DEF SlotStep, TakenExact
  <1>3. pending' = Cardinality(Guarded') /\ pending' \in 0 .. MaxPending
    <2>1. Guarded \in SUBSET Conn /\ pending = Cardinality(Guarded) /\ pending \in 0 .. MaxPending
      BY DEF Guarded, SeatsInv, GuardsExact, SeatsTypeOK
    <2> QED BY <2>1, GuardsMove, Counting, SeatsAssumption DEF GuardStep
  <1>4. ASSUME NEW d \in Dest
        PROVE  pendingBy'[d] = Cardinality(Waiting(d)') /\ pendingBy'[d] \in 0 .. MaxPerDest
    <2>1. /\ Waiting(d) \in SUBSET Conn
          /\ pendingBy[d] = Cardinality(Waiting(d)) /\ pendingBy[d] \in 0 .. MaxPerDest
      BY DEF Waiting, SeatsInv, GuardsExact, SeatsTypeOK
    <2>2. WaitStep(d)
      BY WaitsMove
    <2>3. CASE Waiting(d)' = Waiting(d) /\ pendingBy'[d] = pendingBy[d]
      BY <2>1, <2>3
    <2>4. CASE \E c \in Conn : /\ c \notin Waiting(d) /\ pendingBy[d] < MaxPerDest
                              /\ Waiting(d)' = Waiting(d) \cup {c}
                              /\ pendingBy'[d] = pendingBy[d] + 1
      BY <2>1, <2>4, Counting, SeatsAssumption
    <2>5. CASE \E c \in Conn : /\ c \in Waiting(d)
                              /\ Waiting(d)' = Waiting(d) \ {c}
                              /\ pendingBy'[d] = pendingBy[d] - 1
      BY <2>1, <2>5, Counting, SeatsAssumption
    <2> QED BY <2>2, <2>3, <2>4, <2>5 DEF WaitStep
  <1>5. pendingBy' \in [Dest -> 0 .. MaxPerDest]
    <2>1. pendingBy' = [d \in Dest |-> pendingBy'[d]]
      <3>1. pendingBy = [d \in Dest |-> pendingBy[d]]
        BY DEF SeatsInv, SeatsTypeOK
      <3>2. ASSUME NEW c \in Conn, NEW d \in Dest, Accept(c, d)
            PROVE  pendingBy' = [e \in Dest |-> pendingBy'[e]]
        BY <3>1, <3>2 DEF Accept
      <3>3. ASSUME NEW c \in Conn, ReleaseDest(c) PROVE pendingBy' = [e \in Dest |-> pendingBy'[e]]
        BY <3>1, <3>3 DEF ReleaseDest
      <3>4. ASSUME NEW c \in Conn, ThreadNext(c), ~ReleaseDest(c), ~\E d \in Dest : Accept(c, d)
            PROVE  pendingBy' = pendingBy
        BY <3>4 DEF ThreadNext, demuxVars, Dial, Route, NoHandshake, LookForRoom, Reply,
                    ReleasePending, DialEnds, Handshaken, HandshakeFails, LoadTaken, Exchange,
                    Register, PeerLeaves, IdleOut
      <3>5. ASSUME NEW t \in Torrent, TorrentNext(t) PROVE pendingBy' = pendingBy
        BY <3>5 DEF TorrentNext, demuxVars, BeginWave, EndWave, EndSweep, BackoffEnds, Unregister,
                    RaiseStop, Stopped, DisconnectOne
      <3>6. UNCHANGED seatsVars => pendingBy' = pendingBy
        BY DEF seatsVars, demuxVars
      <3>7. pendingBy' = pendingBy => pendingBy' = [d \in Dest |-> pendingBy'[d]]
        BY <3>1
      <3> QED BY <3>2, <3>3, <3>4, <3>5, <3>6, <3>7 DEF SeatsNext
    <2> QED BY <1>4, <2>1
  <1>6. ASSUME NEW t \in Torrent PROVE Cardinality(Connected(t)') <= MaxPeers
    <2>1. /\ Connected(t) \in SUBSET Conn /\ Connected(t)' \in SUBSET Conn
          /\ Cardinality(Connected(t)) <= MaxPeers
      BY DEF Connected, SeatsInv, SeatsCapped
    <2> QED BY <2>1, TablesMove, Counting, SeatsAssumption DEF TableStep
  <1> QED
    BY <1>1, <1>2, <1>3, <1>4, <1>5, <1>6
       DEF SeatsInv, SeatsTypeOK, AttemptsOK, TorrentsOK, GuardsExact, SeatsCapped

\* The invariant gives what the run checks.
LEMMA SeatsInvExact == SeatsInv => SeatsExact
  <1> SUFFICES ASSUME SeatsInv PROVE SeatsExact
    OBVIOUS
  <1>1. Guarded = {c \in inbound : pc[c] \notin {"over", "releasing"}}
        /\ \A d \in Dest : Waiting(d) = {c \in inbound : from[c] = d /\ pc[c] \notin {"over"}}
    BY DEF Guarded, Waiting
  <1>2. pending <= MaxPending /\ \A d \in Dest : pendingBy[d] <= MaxPerDest
    BY SeatsAssumption DEF SeatsInv, SeatsTypeOK
  <1>3. PendingExact
    BY <1>1, <1>2 DEF PendingExact, SeatsInv, GuardsExact
  <1> QED BY <1>3 DEF SeatsExact, SeatsInv, SeatsCapped

\* Every counter is exact and every cap is kept, for any number of
\* connections, torrents and destinations and any limits (budget.rs,
\* admit_pending and PendingGuard, register_peer).
THEOREM SeatsAlwaysExact == SeatsSpec => []SeatsExact
  <1>1. SeatsInit => SeatsInv
    BY SeatsInvInit
  <1>2. SeatsInv /\ [SeatsNext]_seatsVars => SeatsInv'
    BY SeatsInvStep
  <1>3. SeatsInv => SeatsExact
    BY SeatsInvExact
  <1> QED BY <1>1, <1>2, <1>3, PTL DEF SeatsSpec

\* The compare-exchange loop implements the abstract budget: every step of
\* every thread claims one slot under the limit, returns one, or leaves the
\* holders alone (PeerBudget::claim, PeerSlot::drop).
THEOREM SlotsAreABudget == SeatsSpec => SlotsImplementBudget
  <1>1. SeatsInit => SeatsInv
    BY SeatsInvInit
  <1>2. SeatsInv /\ [SeatsNext]_seatsVars => SeatsInv'
    BY SeatsInvStep
  <1>3. SeatsInit => Slots!BudgetInit
    BY DEF SeatsInit, Slots!BudgetInit, SlotHolders
  <1>4. SeatsInv /\ [SeatsNext]_seatsVars => [Slots!BudgetNext]_SlotHolders
    <2> SUFFICES ASSUME SeatsInv, [SeatsNext]_seatsVars
                 PROVE  [Slots!BudgetNext]_SlotHolders
      OBVIOUS
    <2>1. SlotStep
      BY SlotsMove
    <2>2. taken = Cardinality(SlotHolders)
      BY DEF SeatsInv, TakenExact
    <2>3. Slots!Cardinality(SlotHolders) = Cardinality(SlotHolders)
      BY DEF Slots!Cardinality, Cardinality
    <2> QED BY <2>1, <2>2, <2>3 DEF SlotStep, Slots!BudgetNext, Slots!Claim, Slots!Return
  <1> QED
    BY <1>1, <1>2, <1>3, <1>4, PTL DEF SeatsSpec, SlotsImplementBudget, Slots!BudgetSpec

-----------------------------------------------------------------------------
(* After a stop *)

\* stop_live takes a torrent off the demultiplexer first.
RegisteredLive == \A t \in registered : life[t] = "live"

LEMMA RegisteredLiveStep ==
    ASSUME SeatsInv, RegisteredLive, [SeatsNext]_seatsVars
    PROVE  RegisteredLive'
  <1> USE DEF SeatsInv, SeatsTypeOK, RegisteredLive, stopVars, demuxVars
  <1>1. ASSUME NEW c \in Conn, NEW d \in Dest, Accept(c, d) PROVE RegisteredLive'
    BY <1>1 DEF Accept
  <1>2. ASSUME NEW c \in Conn, NEW d \in Dest, Dial(c, d) PROVE RegisteredLive'
    BY <1>2 DEF Dial
  <1>3. ASSUME NEW c \in Conn, NEW t \in Torrent, Route(c, t) PROVE RegisteredLive'
    BY <1>3 DEF Route
  <1>4. ASSUME NEW c \in Conn, NoHandshake(c) PROVE RegisteredLive'
    BY <1>4 DEF NoHandshake
  <1>5. ASSUME NEW c \in Conn, LookForRoom(c) PROVE RegisteredLive'
    BY <1>5 DEF LookForRoom
  <1>6. ASSUME NEW c \in Conn, Reply(c) PROVE RegisteredLive'
    BY <1>6 DEF Reply
  <1>7. ASSUME NEW c \in Conn, ReleasePending(c) PROVE RegisteredLive'
    BY <1>7 DEF ReleasePending
  <1>8. ASSUME NEW c \in Conn, ReleaseDest(c) PROVE RegisteredLive'
    BY <1>8 DEF ReleaseDest
  <1>9. ASSUME NEW c \in Conn, DialEnds(c) PROVE RegisteredLive'
    BY <1>9 DEF DialEnds
  <1>10. ASSUME NEW c \in Conn, Handshaken(c) PROVE RegisteredLive'
    BY <1>10 DEF Handshaken
  <1>11. ASSUME NEW c \in Conn, HandshakeFails(c) PROVE RegisteredLive'
    BY <1>11 DEF HandshakeFails
  <1>12. ASSUME NEW c \in Conn, LoadTaken(c) PROVE RegisteredLive'
    BY <1>12 DEF LoadTaken
  <1>13. ASSUME NEW c \in Conn, Exchange(c) PROVE RegisteredLive'
    BY <1>13 DEF Exchange
  <1>14. ASSUME NEW c \in Conn, Register(c) PROVE RegisteredLive'
    BY <1>14 DEF Register
  <1>15. ASSUME NEW c \in Conn, PeerLeaves(c) PROVE RegisteredLive'
    BY <1>15 DEF PeerLeaves
  <1>16. ASSUME NEW c \in Conn, IdleOut(c) PROVE RegisteredLive'
    BY <1>16 DEF IdleOut
  <1>17. ASSUME NEW t \in Torrent, NEW S \in SUBSET Dest, BeginWave(t, S) PROVE RegisteredLive'
    BY <1>17 DEF BeginWave
  <1>18. ASSUME NEW t \in Torrent, EndWave(t) PROVE RegisteredLive'
    BY <1>18 DEF EndWave
  <1>19. ASSUME NEW t \in Torrent, EndSweep(t) PROVE RegisteredLive'
    BY <1>19 DEF EndSweep
  <1>20. ASSUME NEW t \in Torrent, BackoffEnds(t) PROVE RegisteredLive'
    BY <1>20 DEF BackoffEnds
  <1>21. ASSUME NEW t \in Torrent, Unregister(t) PROVE RegisteredLive'
    BY <1>21 DEF Unregister
  <1>22. ASSUME NEW t \in Torrent, RaiseStop(t) PROVE RegisteredLive'
    BY <1>22 DEF RaiseStop
  <1>23. ASSUME NEW t \in Torrent, Stopped(t) PROVE RegisteredLive'
    BY <1>23 DEF Stopped
  <1>24. ASSUME NEW t \in Torrent, NEW c \in Conn, DisconnectOne(t, c) PROVE RegisteredLive'
    BY <1>24 DEF DisconnectOne
  <1>25. CASE UNCHANGED seatsVars
    BY <1>25 DEF seatsVars
  <1> QED
    BY <1>1, <1>2, <1>3, <1>4, <1>5, <1>6, <1>7, <1>8, <1>9, <1>10, <1>11,
       <1>12, <1>13, <1>14, <1>15, <1>16, <1>17, <1>18, <1>19, <1>20, <1>21,
       <1>22, <1>23, <1>24, <1>25
       DEF SeatsNext, ThreadNext, TorrentNext

\* A stopped torrent with nothing under way is left as it is by every step.
LEMMA QuietStep ==
    ASSUME SeatsInv, RegisteredLive, [SeatsNext]_seatsVars,
           NEW u \in Torrent, life[u] = "stopped", InFlight(u) = {}
    PROVE  InFlight(u)' = {} /\ Connected(u)' \subseteq Connected(u)
  <1> USE DEF SeatsInv, SeatsTypeOK, RegisteredLive, InFlight, Connected, StopRaised, Moves, Leaves,
              Fails, Vacate, threadVars
  <1>1. ASSUME NEW c \in Conn, NEW d \in Dest, Accept(c, d) PROVE InFlight(u)' = {} /\ Connected(u)' \subseteq Connected(u)
    BY <1>1 DEF Accept
  <1>2. ASSUME NEW c \in Conn, NEW d \in Dest, Dial(c, d) PROVE InFlight(u)' = {} /\ Connected(u)' \subseteq Connected(u)
    BY <1>2 DEF Dial
  <1>3. ASSUME NEW c \in Conn, NEW t \in Torrent, Route(c, t) PROVE InFlight(u)' = {} /\ Connected(u)' \subseteq Connected(u)
    BY <1>3 DEF Route
  <1>4. ASSUME NEW c \in Conn, NoHandshake(c) PROVE InFlight(u)' = {} /\ Connected(u)' \subseteq Connected(u)
    BY <1>4 DEF NoHandshake
  <1>5. ASSUME NEW c \in Conn, LookForRoom(c) PROVE InFlight(u)' = {} /\ Connected(u)' \subseteq Connected(u)
    BY <1>5 DEF LookForRoom
  <1>6. ASSUME NEW c \in Conn, Reply(c) PROVE InFlight(u)' = {} /\ Connected(u)' \subseteq Connected(u)
    BY <1>6 DEF Reply
  <1>7. ASSUME NEW c \in Conn, ReleasePending(c) PROVE InFlight(u)' = {} /\ Connected(u)' \subseteq Connected(u)
    BY <1>7 DEF ReleasePending
  <1>8. ASSUME NEW c \in Conn, ReleaseDest(c) PROVE InFlight(u)' = {} /\ Connected(u)' \subseteq Connected(u)
    BY <1>8 DEF ReleaseDest
  <1>9. ASSUME NEW c \in Conn, DialEnds(c) PROVE InFlight(u)' = {} /\ Connected(u)' \subseteq Connected(u)
    BY <1>9 DEF DialEnds
  <1>10. ASSUME NEW c \in Conn, Handshaken(c) PROVE InFlight(u)' = {} /\ Connected(u)' \subseteq Connected(u)
    BY <1>10 DEF Handshaken
  <1>11. ASSUME NEW c \in Conn, HandshakeFails(c) PROVE InFlight(u)' = {} /\ Connected(u)' \subseteq Connected(u)
    BY <1>11 DEF HandshakeFails
  <1>12. ASSUME NEW c \in Conn, LoadTaken(c) PROVE InFlight(u)' = {} /\ Connected(u)' \subseteq Connected(u)
    BY <1>12 DEF LoadTaken
  <1>13. ASSUME NEW c \in Conn, Exchange(c) PROVE InFlight(u)' = {} /\ Connected(u)' \subseteq Connected(u)
    BY <1>13 DEF Exchange
  <1>14. ASSUME NEW c \in Conn, Register(c) PROVE InFlight(u)' = {} /\ Connected(u)' \subseteq Connected(u)
    BY <1>14 DEF Register
  <1>15. ASSUME NEW c \in Conn, PeerLeaves(c) PROVE InFlight(u)' = {} /\ Connected(u)' \subseteq Connected(u)
    BY <1>15 DEF PeerLeaves
  <1>16. ASSUME NEW c \in Conn, IdleOut(c) PROVE InFlight(u)' = {} /\ Connected(u)' \subseteq Connected(u)
    BY <1>16 DEF IdleOut
  <1>17. ASSUME NEW t \in Torrent, NEW S \in SUBSET Dest, BeginWave(t, S) PROVE InFlight(u)' = {} /\ Connected(u)' \subseteq Connected(u)
    BY <1>17 DEF BeginWave
  <1>18. ASSUME NEW t \in Torrent, EndWave(t) PROVE InFlight(u)' = {} /\ Connected(u)' \subseteq Connected(u)
    BY <1>18 DEF EndWave
  <1>19. ASSUME NEW t \in Torrent, EndSweep(t) PROVE InFlight(u)' = {} /\ Connected(u)' \subseteq Connected(u)
    BY <1>19 DEF EndSweep
  <1>20. ASSUME NEW t \in Torrent, BackoffEnds(t) PROVE InFlight(u)' = {} /\ Connected(u)' \subseteq Connected(u)
    BY <1>20 DEF BackoffEnds
  <1>21. ASSUME NEW t \in Torrent, Unregister(t) PROVE InFlight(u)' = {} /\ Connected(u)' \subseteq Connected(u)
    BY <1>21 DEF Unregister
  <1>22. ASSUME NEW t \in Torrent, RaiseStop(t) PROVE InFlight(u)' = {} /\ Connected(u)' \subseteq Connected(u)
    BY <1>22 DEF RaiseStop
  <1>23. ASSUME NEW t \in Torrent, Stopped(t) PROVE InFlight(u)' = {} /\ Connected(u)' \subseteq Connected(u)
    BY <1>23 DEF Stopped
  <1>24. ASSUME NEW t \in Torrent, NEW c \in Conn, DisconnectOne(t, c) PROVE InFlight(u)' = {} /\ Connected(u)' \subseteq Connected(u)
    BY <1>24 DEF DisconnectOne
  <1>25. CASE UNCHANGED seatsVars
    BY <1>25 DEF seatsVars
  <1> QED
    BY <1>1, <1>2, <1>3, <1>4, <1>5, <1>6, <1>7, <1>8, <1>9, <1>10, <1>11,
       <1>12, <1>13, <1>14, <1>15, <1>16, <1>17, <1>18, <1>19, <1>20, <1>21,
       <1>22, <1>23, <1>24, <1>25
       DEF SeatsNext, ThreadNext, TorrentNext

\* Whatever was under way when a torrent stopped is the last that happens to
\* it: no thread is ever routed to it, dials for it or seats a peer in it
\* again (stop_live, InboundDemux::unregister, Swarm::shutdown).
THEOREM StoppedStaysQuiet == SeatsSpec => StoppedGainsNothing
  <1>1. SeatsInit => SeatsInv /\ RegisteredLive
    BY SeatsInvInit DEF SeatsInit, RegisteredLive
  <1>2. SeatsInv /\ RegisteredLive /\ [SeatsNext]_seatsVars => SeatsInv' /\ RegisteredLive'
    BY SeatsInvStep, RegisteredLiveStep
  <1>3. SeatsInv /\ RegisteredLive /\ [SeatsNext]_seatsVars
            => [\A t \in Torrent : life[t] = "stopped" /\ InFlight(t) = {}
                  => InFlight(t)' = {} /\ Connected(t)' \subseteq Connected(t)]_seatsVars
    BY QuietStep
  <1> QED
    BY <1>1, <1>2, <1>3, PTL DEF SeatsSpec, StoppedGainsNothing

-----------------------------------------------------------------------------
(* The daemon's start and its control socket *)

Unlocked == {"off", "dir", "lock"}
Tokened == {"check", "probe", "unlink", "bind", "confine", "threads", "serve"}
Bound == {"confine", "threads", "serve"}

\* A process past lock_instance is alone with the lock.
LockHeld == \A p \in Process : at[p] \notin Unlocked => flock = {p}

\* It compares with the token on disk.
TokenKnown == \A p \in Process : at[p] \in Tokened => token[p] = tokenFile

\* The socket path leads to it.
SocketOurs == \A p \in Process : at[p] \in Bound => socket = p

DaemonInv == DaemonTypeOK /\ LockHeld /\ TokenKnown /\ SocketOurs /\ HandlersExact

LEMMA ClientsFinite ==
    ASSUME NEW S \in SUBSET Client
    PROVE  /\ IsFiniteSet(S) /\ Cardinality(S) \in Nat /\ Cardinality(S) <= Cardinality(Client)
           /\ Cardinality(Client) \in Nat
  BY DaemonAssumption, FS_Subset, FS_CardinalityType

\* What a process on its way does to the three shared files leaves the control
\* socket's books alone.
LEMMA BooksAlone ==
    ASSUME DaemonInv, UNCHANGED apiVars
    PROVE  /\ conn' \in [Client -> {"idle", "backlog", "reading", "routing", "writing"}]
           /\ request' \in [Client -> {"none", "silent", "garbage", "stranger", "good"}]
           /\ active' \in 0 .. Cardinality(Client) /\ HandlersExact'
  BY DEF DaemonInv, DaemonTypeOK, HandlersExact, Handling, apiVars

\* A process that is gone, whatever it was doing.
LEMMA GoneKeeps ==
    ASSUME DaemonInv, NEW p \in Process, Gone(p)
    PROVE  DaemonInv'
  <1> USE DaemonAssumption DEF DaemonInv
  <1>1. /\ conn' \in [Client -> {"idle", "backlog", "reading", "routing", "writing"}]
        /\ request' \in [Client -> {"none", "silent", "garbage", "stranger", "good"}]
        /\ active' \in 0 .. Cardinality(Client) /\ HandlersExact'
    <2>1. CASE at[p] = "serve"
      <3>1. /\ conn' = [c \in Client |-> "idle"] /\ request' = [c \in Client |-> "none"]
            /\ active' = 0
        BY <2>1 DEF Gone
      <3>2. Handling' = {} /\ Cardinality(Handling') = 0
        BY <3>1, FS_EmptySet DEF Handling
      <3> QED BY <3>1, <3>2, ClientsFinite DEF HandlersExact
    <2>2. CASE at[p] # "serve"
      BY <2>2, BooksAlone DEF Gone
    <2> QED BY <2>1, <2>2
  <1>2. /\ at' \in [Process -> Steps] /\ flock' \subseteq Process
        /\ tokenFile' \in Token \cup BadToken \cup {NoToken}
        /\ token' \in [Process -> Token \cup {NoToken}]
        /\ socket' \in Process \cup {"none", "other", "stale"} /\ confined' \subseteq Process
    BY DEF Gone, DaemonTypeOK, Steps
  <1>3. LockHeld'
    BY DEF Gone, DaemonTypeOK, LockHeld, Unlocked
  <1>4. TokenKnown'
    BY DEF Gone, DaemonTypeOK, TokenKnown, Tokened
  <1>5. SocketOurs'
    BY DEF Gone, DaemonTypeOK, SocketOurs, Bound
  <1> QED BY <1>1, <1>2, <1>3, <1>4, <1>5 DEF DaemonTypeOK

\* A step of run() on the shared files.
LEMMA RunKeeps ==
    ASSUME DaemonInv, NEW p \in Process, Start(p) \/ Run(p)
    PROVE  DaemonInv'
  <1> USE DaemonAssumption DEF DaemonInv, Go
  <1>1. ASSUME UNCHANGED apiVars,
               /\ at' \in [Process -> Steps] /\ flock' \subseteq Process
               /\ tokenFile' \in Token \cup BadToken \cup {NoToken}
               /\ token' \in [Process -> Token \cup {NoToken}]
               /\ socket' \in Process \cup {"none", "other", "stale"} /\ confined' \subseteq Process,
               LockHeld' /\ TokenKnown' /\ SocketOurs'
        PROVE  DaemonInv'
    BY <1>1, BooksAlone DEF DaemonTypeOK
  <1> USE DEF DaemonTypeOK, LockHeld, TokenKnown, SocketOurs, Unlocked, Tokened, Bound, Steps, fileVars
  <1>2. CASE Start(p) \/ PrepareDataDir(p) \/ CheckState(p) \/ SpawnThreads(p)
    BY <1>1, <1>2 DEF Start, PrepareDataDir, CheckState, SpawnThreads
  <1>3. CASE LockInstance(p)
    <2>1. CASE flock = {}
      BY <1>1, <1>3, <2>1 DEF LockInstance
    <2>2. CASE flock # {}
      BY <1>3, <2>2, GoneKeeps DEF LockInstance
    <2> QED BY <2>1, <2>2
  <1>4. CASE LoadToken(p)
    <2>1. CASE tokenFile \in Token /\ Go(p, "token", "check")
               /\ token' = [token EXCEPT ![p] = tokenFile] /\ UNCHANGED <<confined, fileVars, apiVars>>
      BY <1>1, <2>1
    <2>2. CASE Go(p, "token", "newtoken") /\ UNCHANGED <<token, confined, fileVars, apiVars>>
      BY <1>1, <2>2
    <2> QED BY <1>4, <2>1, <2>2, GoneKeeps DEF LoadToken
  <1>5. CASE NewToken(p)
    BY <1>1, <1>5 DEF NewToken
  <1>6. CASE ProbeSocket(p)
    <2>1. CASE socket \in Process \cup {"other"}
      BY <1>6, <2>1, GoneKeeps DEF ProbeSocket
    <2>2. CASE socket \notin Process \cup {"other"}
      BY <1>1, <1>6, <2>2 DEF ProbeSocket
    <2> QED BY <2>1, <2>2
  <1>7. CASE UnlinkSocket(p)
    BY <1>1, <1>7 DEF UnlinkSocket
  <1>8. CASE BindSocket(p)
    <2>1. CASE socket # "none"
      BY <1>8, <2>1, GoneKeeps DEF BindSocket
    <2>2. CASE socket = "none"
      <3>1. /\ Go(p, "bind", "confine") /\ socket' = p
            /\ UNCHANGED <<token, confined, flock, tokenFile, apiVars>>
        BY <1>8, <2>2 DEF BindSocket
      <3>2. \A q \in Process : at'[q] \notin Unlocked => flock = {q}
        BY <3>1
      <3>3. SocketOurs'
        BY <3>1, <3>2
      <3>4. LockHeld' /\ TokenKnown'
        BY <3>1, <3>2
      <3> QED BY <1>1, <3>1, <3>3, <3>4
    <2> QED BY <2>1, <2>2
  <1>9. CASE Confine(p)
    <2>1. CASE Gone(p)
      BY <2>1, GoneKeeps
    <2>2. CASE ~Gone(p)
      BY <1>1, <1>9, <2>2 DEF Confine
    <2> QED BY <2>1, <2>2
  <1> QED BY <1>2, <1>3, <1>4, <1>5, <1>6, <1>7, <1>8, <1>9 DEF Run

\* Somebody tampers with the files of a daemon that is not running.
LEMMA MeddleKeeps ==
    ASSUME DaemonInv, Meddle
    PROVE  DaemonInv'
  <1> USE DaemonAssumption DEF DaemonInv
  <1>1. HandlersExact' /\ DaemonTypeOK'
    BY BooksAlone DEF Meddle, DaemonTypeOK
  <1>2. LockHeld' /\ TokenKnown' /\ SocketOurs'
    BY DEF Meddle, LockHeld, TokenKnown, SocketOurs, Unlocked, Tokened, Bound, DaemonTypeOK
  <1> QED BY <1>1, <1>2

\* A connection: what it does leaves the process and its files alone.
LEMMA ConnectionKeeps ==
    ASSUME DaemonInv, NEW c \in Client, Connect(c) \/ Dispatch(c) \/ Handle(c)
    PROVE  DaemonInv'
  <1> USE DaemonAssumption DEF DaemonInv
  <1>1. UNCHANGED <<at, token, confined, fileVars>>
    BY DEF Connect, Dispatch, Handle, ReadRequest, RouteRequest, HandlerEnds
  <1>2. LockHeld' /\ TokenKnown' /\ SocketOurs'
    BY <1>1 DEF LockHeld, TokenKnown, SocketOurs, fileVars
  <1>3. Handling \in SUBSET Client /\ IsFiniteSet(Handling) /\ Cardinality(Handling) \in Nat
    BY ClientsFinite DEF Handling
  <1>4. /\ conn' \in [Client -> {"idle", "backlog", "reading", "routing", "writing"}]
        /\ request' \in [Client -> {"none", "silent", "garbage", "stranger", "good"}]
    BY DEF DaemonTypeOK, Connect, Dispatch, Handle, ReadRequest, RouteRequest, HandlerEnds, Hangup
  <1>5. HandlersExact'
    <2>1. CASE active' = active /\ Handling' = Handling
      BY <2>1 DEF HandlersExact
    <2>2. CASE active' = active + 1 /\ MayClaim /\ c \notin Handling /\ Handling' = Handling \cup {c}
      <3>1. Cardinality(Handling \cup {c}) = Cardinality(Handling) + 1
        BY <1>3, <2>2, FS_AddElement
      <3>2. Cardinality(Handling') = Cardinality(Handling) + 1
        BY <2>2, <3>1
      <3> QED BY <1>3, <2>2, <3>2 DEF HandlersExact, MayClaim
    <2>3. CASE active' = active - 1 /\ c \in Handling /\ Handling' = Handling \ {c}
      <3>1. Cardinality(Handling \ {c}) = Cardinality(Handling) - 1
        BY <1>3, <2>3, FS_RemoveElement
      <3>2. Cardinality(Handling') = Cardinality(Handling) - 1
        BY <2>3, <3>1
      <3> QED BY <1>3, <2>3, <3>2 DEF HandlersExact
    <2>4. CASE Connect(c)
      BY <2>1, <2>4 DEF Connect, Handling, DaemonTypeOK
    <2>5. CASE Dispatch(c)
      BY <2>1, <2>2, <2>5 DEF Dispatch, Handling, DaemonTypeOK, Hangup
    <2>6. CASE ReadRequest(c) \/ RouteRequest(c)
      BY <2>1, <2>6 DEF ReadRequest, RouteRequest, Handling, DaemonTypeOK
    <2>7. CASE HandlerEnds(c)
      BY <2>3, <2>7 DEF HandlerEnds, Handling, DaemonTypeOK, Hangup
    <2> QED BY <2>4, <2>5, <2>6, <2>7 DEF Handle
  <1>6. active' \in 0 .. Cardinality(Client)
    <2>1. Handling' \in SUBSET Client
      BY DEF Handling
    <2> QED BY <1>5, <2>1, ClientsFinite DEF HandlersExact
  <1> QED BY <1>1, <1>2, <1>4, <1>5, <1>6 DEF DaemonTypeOK, fileVars

LEMMA DaemonInvInit == DaemonInit => DaemonInv
  <1> SUFFICES ASSUME DaemonInit PROVE DaemonInv
    OBVIOUS
  <1> USE DaemonAssumption DEF DaemonInit
  <1>1. Handling = {} /\ Cardinality(Handling) = 0
    BY FS_EmptySet DEF Handling
  <1>2. DaemonTypeOK
    BY ClientsFinite DEF DaemonTypeOK, Steps
  <1>3. LockHeld /\ TokenKnown /\ SocketOurs
    BY DEF LockHeld, TokenKnown, SocketOurs, Unlocked, Tokened, Bound
  <1>4. HandlersExact
    BY <1>1 DEF HandlersExact
  <1> QED BY <1>2, <1>3, <1>4 DEF DaemonInv

LEMMA DaemonInvStep == DaemonInv /\ [DaemonNext]_daemonVars => DaemonInv'
  <1> SUFFICES ASSUME DaemonInv, [DaemonNext]_daemonVars PROVE DaemonInv'
    OBVIOUS
  <1>1. CASE UNCHANGED daemonVars
    BY <1>1 DEF daemonVars, fileVars, apiVars, DaemonInv, DaemonTypeOK, LockHeld, TokenKnown, SocketOurs,
                HandlersExact, Handling
  <1>2. CASE DaemonNext
    BY <1>2, GoneKeeps, RunKeeps, MeddleKeeps, ConnectionKeeps DEF DaemonNext, Dies
  <1> QED BY <1>1, <1>2

\* A daemon that serves is the one the socket path leads to and compares with
\* the token on disk, and its handler count is its open connections, however
\* many others are started beside it, killed before it or knock at it
\* (lock_instance, bind_unix, load_or_create_token, HandlerSlot).
THEOREM DaemonAlwaysSafe == DaemonSpec => []DaemonSafe
  <1>1. DaemonInv => DaemonSafe
    BY DEF DaemonInv, DaemonSafe, Reachable, Serving, TokenKnown, SocketOurs, Tokened, Bound
  <1> QED BY DaemonInvInit, DaemonInvStep, <1>1, PTL DEF DaemonSpec

-----------------------------------------------------------------------------
(* The metadata fetch *)

\* A sorted sequence has the same length and no later element is smaller.
LEMMA SortedIsSorted ==
    ASSUME NEW S \in SUBSET Nat, NEW s \in Seq(S)
    PROVE  /\ DOMAIN Sorted(s) = DOMAIN s /\ \A k \in DOMAIN s : Sorted(s)[k] \in S
           /\ \A k, l \in DOMAIN s : k <= l => Sorted(s)[k] <= Sorted(s)[l]
  <1> DEFINE T == DOMAIN s
             up == [i \in T |-> {j \in T : s[j] < s[i] \/ (s[j] = s[i] /\ j <= i)}]
             place(k) == CHOOSE i \in T : Place(s, i) = k
  <1>1. T = 1 .. Len(s) /\ Len(s) \in Nat /\ T \subseteq Nat /\ \A i \in T : s[i] \in S
    OBVIOUS
  <1>2. IsFiniteSet(T) /\ Cardinality(T) = Len(s)
    <2> DEFINE n == Len(s)
    <2>1. n \in Nat
      OBVIOUS
    <2> HIDE DEF n
    <2>2. IsFiniteSet(1 .. n) /\ Cardinality(1 .. n) = n
      BY <2>1, FS_Interval
    <2> QED BY <1>1, <2>2 DEF n
  <1>3. /\ up \in [T -> SUBSET T]
        /\ \A x, y \in T : x \in up[y] <=> s[x] < s[y] \/ (s[x] = s[y] /\ x <= y)
    OBVIOUS
  <1>4. \A i \in T : Place(s, i) = Cardinality(up[i])
    BY DEF Place
  <1>5. Sorted(s) = [k \in T |-> s[place(k)]]
    BY DEF Sorted
  <1> HIDE DEF T, up
  <1>6. \A x, y \in T : x \in up[x] /\ (x \in up[y] \/ y \in up[x]) /\ (x \in up[y] /\ y \in up[x] => x = y)
    <2> SUFFICES ASSUME NEW x \in T, NEW y \in T
                 PROVE  x \in up[x] /\ (x \in up[y] \/ y \in up[x]) /\ (x \in up[y] /\ y \in up[x] => x = y)
      OBVIOUS
    <2>1. x \in Nat /\ y \in Nat /\ s[x] \in Nat /\ s[y] \in Nat
      BY <1>1
    <2>2. /\ x \in up[x] <=> s[x] < s[x] \/ (s[x] = s[x] /\ x <= x)
          /\ x \in up[y] <=> s[x] < s[y] \/ (s[x] = s[y] /\ x <= y)
          /\ y \in up[x] <=> s[y] < s[x] \/ (s[y] = s[x] /\ y <= x)
      BY <1>3
    <2> QED BY <2>1, <2>2
  <1>7. \A x, y, z \in T : x \in up[y] /\ y \in up[z] => x \in up[z]
    <2> SUFFICES ASSUME NEW x \in T, NEW y \in T, NEW z \in T, x \in up[y], y \in up[z]
                 PROVE  x \in up[z]
      OBVIOUS
    <2>1. /\ x \in Nat /\ y \in Nat /\ z \in Nat
          /\ s[x] \in Nat /\ s[y] \in Nat /\ s[z] \in Nat
      BY <1>1
    <2>2. /\ s[x] < s[y] \/ (s[x] = s[y] /\ x <= y)
          /\ s[y] < s[z] \/ (s[y] = s[z] /\ y <= z)
      BY <1>3
    <2>3. s[x] < s[z] \/ (s[x] = s[z] /\ x <= z)
      BY <2>1, <2>2
    <2> QED BY <1>3, <2>3
  <1>8. /\ \A x, y \in T : x \in up[y] /\ x # y => Cardinality(up[x]) < Cardinality(up[y])
        /\ \A k \in 1 .. Cardinality(T) : \E x \in T : Cardinality(up[x]) = k
    BY <1>2, <1>3, <1>6, <1>7, Ranks
  <1>9. ASSUME NEW k \in T PROVE place(k) \in T /\ Cardinality(up[place(k)]) = k
    <2>1. \E i \in T : Place(s, i) = k
      BY <1>1, <1>2, <1>4, <1>8
    <2>2. place(k) \in T /\ Place(s, place(k)) = k
      BY <2>1
    <2> HIDE DEF place
    <2> QED BY <1>4, <2>2
  <1> HIDE DEF place
  <1>10. ASSUME NEW k \in T, NEW l \in T, k <= l PROVE s[place(k)] <= s[place(l)]
    <2>1. /\ place(k) \in T /\ place(l) \in T /\ s[place(k)] \in Nat /\ s[place(l)] \in Nat
          /\ Cardinality(up[place(k)]) = k /\ Cardinality(up[place(l)]) = l
      BY <1>1, <1>9
    <2>2. CASE k = l
      BY <2>1, <2>2
    <2>3. CASE k # l
      <3>1. ~(l < k)
        BY <1>1, <1>10
      <3>2. place(k) # place(l) /\ ~(place(l) \in up[place(k)])
        BY <1>8, <2>1, <2>3, <3>1
      <3>3. place(k) \in up[place(l)]
        BY <1>6, <2>1, <3>2
      <3> QED BY <1>3, <2>1, <3>3
    <2> QED BY <2>2, <2>3
  <1>11. \A k \in T : s[place(k)] \in S
    BY <1>1, <1>9
  <1>12. DOMAIN Sorted(s) = T /\ \A k \in T : Sorted(s)[k] = s[place(k)]
    BY <1>5
  <1> QED BY <1>10, <1>11, <1>12 DEF T

\* distinct: whatever the trackers named, each of them once.
LEMMA DistinctIsDistinct ==
    ASSUME NEW S \in SUBSET Nat, NEW s \in Seq(S)
    PROVE  /\ Distinct(s) \in Seq(S) /\ Len(Distinct(s)) <= Len(s)
           /\ \A i, j \in 1 .. Len(Distinct(s)) : i # j => Distinct(s)[i] # Distinct(s)[j]
  <1> DEFINE n == Len(s)
             t == Sorted(s)
             kept == {i \in DOMAIN t : i = 1 \/ t[i] # t[i - 1]}
             c == Cardinality(kept)
             up == [i \in kept |-> {j \in kept : j <= i}]
             origin(k) == CHOOSE i \in kept : Cardinality({j \in kept : j <= i}) = k
  <1>1. n \in Nat /\ DOMAIN s = 1 .. n
    OBVIOUS
  <1>2. /\ DOMAIN t = 1 .. n /\ \A k \in 1 .. n : t[k] \in S
        /\ \A k, l \in 1 .. n : k <= l => t[k] <= t[l]
    BY <1>1, SortedIsSorted
  <1>3. Distinct(s) = [k \in 1 .. c |-> t[origin(k)]]
    BY DEF Distinct, Dedup
  <1> HIDE DEF t
  <1>4. kept \in SUBSET (1 .. n) /\ \A i \in kept : i = 1 \/ t[i] # t[i - 1]
    BY <1>2
  <1> HIDE DEF kept
  <1>5. IsFiniteSet(kept) /\ c \in Nat /\ c <= n
    <2>1. IsFiniteSet(1 .. n) /\ Cardinality(1 .. n) = n
      <3> HIDE DEF n
      <3> QED BY <1>1, FS_Interval
    <2> HIDE DEF n
    <2>2. kept \in SUBSET (1 .. n)
      BY <1>4
    <2>3. IsFiniteSet(kept) /\ c <= Cardinality(1 .. n)
      BY <2>1, <2>2, FS_Subset, Zenon
    <2> QED BY <2>1, <2>3, FS_CardinalityType
  <1> HIDE DEF n
  <1>6. /\ kept \subseteq Nat /\ up \in [kept -> SUBSET kept]
        /\ \A x, y \in kept : x \in up[y] <=> x <= y
    BY <1>1, <1>4
  <1>7. \A i \in kept : Cardinality({j \in kept : j <= i}) = Cardinality(up[i])
    OBVIOUS
  <1> HIDE DEF up
  <1>8. /\ \A x \in kept : x \in up[x]
        /\ \A x, y \in kept : x \in up[y] \/ y \in up[x]
        /\ \A x, y \in kept : x \in up[y] /\ y \in up[x] => x = y
        /\ \A x, y, z \in kept : x \in up[y] /\ y \in up[z] => x \in up[z]
    BY <1>6
  <1>9. /\ \A x, y \in kept : x \in up[y] /\ x # y => Cardinality(up[x]) < Cardinality(up[y])
        /\ \A k \in 1 .. c : \E x \in kept : Cardinality(up[x]) = k
    <2>1. IsFiniteSet(kept) /\ up \in [kept -> SUBSET kept]
      BY <1>5, <1>6
    <2> QED BY <1>8, <2>1, Ranks
  <1>10. ASSUME NEW k \in 1 .. c PROVE origin(k) \in kept /\ Cardinality(up[origin(k)]) = k
    <2>1. \E i \in kept : Cardinality({j \in kept : j <= i}) = k
      BY <1>7, <1>9
    <2>2. origin(k) \in kept /\ Cardinality({j \in kept : j <= origin(k)}) = k
      BY <2>1
    <2> HIDE DEF origin
    <2> QED BY <1>7, <2>2
  <1> HIDE DEF origin, c
  <1>11. ASSUME NEW k \in 1 .. c, NEW l \in 1 .. c, k < l PROVE t[origin(k)] < t[origin(l)]
    <2> DEFINE a == origin(k)
               b == origin(l)
    <2>1. a \in kept /\ b \in kept /\ Cardinality(up[a]) = k /\ Cardinality(up[b]) = l
      BY <1>10
    <2> HIDE DEF a, b
    <2>2. a < b
      <3>1. ~(l < k) /\ k # l
        BY <1>5, <1>11
      <3>2. a # b /\ ~(b \in up[a])
        BY <1>9, <2>1, <3>1
      <3>3. a \in Nat /\ b \in Nat /\ a <= b
        BY <1>6, <1>8, <2>1, <3>2
      <3> QED BY <3>2, <3>3
    <2>3. a \in 1 .. n /\ b \in 1 .. n /\ b - 1 \in 1 .. n /\ a <= b - 1 /\ b # 1 /\ b - 1 <= b
      <3>1. a \in 1 .. n /\ b \in 1 .. n
        BY <1>4, <2>1
      <3> QED BY <1>1, <2>2, <3>1
    <2>4. t[b] # t[b - 1]
      BY <1>4, <2>1, <2>3
    <2>5. t[a] <= t[b - 1] /\ t[b - 1] <= t[b]
      BY <1>2, <2>3
    <2>6. t[a] \in Nat /\ t[b - 1] \in Nat /\ t[b] \in Nat
      BY <1>2, <2>3
    <2>7. t[a] < t[b]
      BY <2>4, <2>5, <2>6
    <2> QED BY <2>7 DEF a, b
  <1>12. \A k \in 1 .. c : t[origin(k)] \in S
    BY <1>2, <1>4, <1>10
  <1>13. Distinct(s) \in Seq(S) /\ Len(Distinct(s)) = c
    BY <1>3, <1>5, <1>12
  <1>14. ASSUME NEW i \in 1 .. c, NEW j \in 1 .. c, i # j PROVE Distinct(s)[i] # Distinct(s)[j]
    <2>1. Distinct(s)[i] = t[origin(i)] /\ Distinct(s)[j] = t[origin(j)]
      BY <1>3
    <2>2. t[origin(i)] \in Nat /\ t[origin(j)] \in Nat
      BY <1>12
    <2>3. i < j \/ j < i
      BY <1>5, <1>14
    <2>4. t[origin(i)] < t[origin(j)] \/ t[origin(j)] < t[origin(i)]
      BY <1>11, <2>3
    <2> QED BY <2>1, <2>2, <2>4
  <1> QED BY <1>5, <1>13, <1>14 DEF n

\* No peer is in line twice, or in line and already dialled.
NoRepeats ==
    /\ \A i, j \in 1 .. Len(dialled) : i # j => dialled[i] # dialled[j]
    /\ \A i, j \in 1 .. Len(queue) : i # j => queue[i] # queue[j]
    /\ \A i \in 1 .. Len(dialled) : \A j \in 1 .. Len(queue) : dialled[i] # queue[j]

\* The types of the round and of the exchange.
RoundTyped == queue \in Seq(Remote) /\ Len(queue) <= MaxAnswer /\ dialled \in Seq(Remote)

ExchangeTyped ==
    /\ fetch \in {"waiting", "trying", "greeting", "assembling", "resolved", "removed"}
    /\ remote \in 0 .. MaxPeer /\ claim \in 0 .. MaxSize + 1
    /\ DOMAIN got \subseteq 1 .. MaxSize /\ \A k \in DOMAIN got : got[k] \in {"none", "good", "bad"}
    /\ due \in 0 .. MaxSize
    /\ budget \in 0 .. GreetingFrames + (MaxSize * Slack) + ExtraFrames

FetchInv == RoundTyped /\ ExchangeTyped /\ quiet \in BOOLEAN /\ Authentic /\ NoRepeats

LEMMA SlackBound ==
    ASSUME NEW size \in 0 .. MaxSize
    PROVE  size * Slack \in Nat /\ MaxSize * Slack \in Nat /\ size * Slack <= MaxSize * Slack
  BY FetchAssumption

LEMMA SeqOfTyped ==
    ASSUME NEW S, NEW n \in Nat, NEW s \in SeqOf(S, n)
    PROVE  s \in Seq(S) /\ Len(s) <= n
  <1>1. PICK m \in 0 .. n : s \in [1 .. m -> S]
    BY DEF SeqOf
  <1>2. m \in Nat /\ m <= n
    BY <1>1
  <1>3. s \in Seq(S) /\ Len(s) = m
    BY <1>1, <1>2
  <1> QED BY <1>2, <1>3

\* The next peer: the head of the queue moves to the end of what was dialled.
LEMMA DialPeerKeeps ==
    ASSUME FetchInv, DialPeer
    PROVE  FetchInv'
  <1> USE FetchAssumption
  <1>1. /\ queue \in Seq(Remote) /\ queue # <<>> /\ dialled \in Seq(Remote) /\ Len(queue) <= MaxAnswer
        /\ queue' = Tail(queue) /\ dialled' = Append(dialled, Head(queue))
    BY DEF FetchInv, RoundTyped, DialPeer
  <1>2. /\ Len(queue) \in Nat /\ Len(queue) # 0 /\ Len(dialled) \in Nat
        /\ Head(queue) = queue[1] /\ queue[1] \in Remote
        /\ queue' \in Seq(Remote) /\ Len(queue') = Len(queue) - 1
        /\ \A i \in 1 .. Len(queue) - 1 : queue'[i] = queue[i + 1]
        /\ dialled' \in Seq(Remote) /\ Len(dialled') = Len(dialled) + 1
        /\ \A i \in 1 .. Len(dialled) : dialled'[i] = dialled[i]
        /\ dialled'[Len(dialled) + 1] = queue[1]
    BY <1>1
  <1>3. NoRepeats'
    <2> DEFINE q == Len(queue)
               d == Len(dialled)
    <2>1. /\ \A i, j \in 1 .. d : i # j => dialled[i] # dialled[j]
          /\ \A i, j \in 1 .. q : i # j => queue[i] # queue[j]
          /\ \A i \in 1 .. d : \A j \in 1 .. q : dialled[i] # queue[j]
      BY DEF FetchInv, NoRepeats
    <2>2. /\ q \in Nat /\ q # 0 /\ d \in Nat /\ Len(queue') = q - 1 /\ Len(dialled') = d + 1
          /\ \A i \in 1 .. q - 1 : queue'[i] = queue[i + 1] /\ i + 1 \in 2 .. q
          /\ \A i \in 1 .. d : dialled'[i] = dialled[i]
          /\ dialled'[d + 1] = queue[1] /\ 1 \in 1 .. q
      BY <1>2
    <2> HIDE DEF q, d
    <2>3. \A i, j \in 1 .. d + 1 : i # j => dialled'[i] # dialled'[j]
      <3> SUFFICES ASSUME NEW i \in 1 .. d + 1, NEW j \in 1 .. d + 1, i # j
                   PROVE  dialled'[i] # dialled'[j]
        OBVIOUS
      <3>1. CASE i \in 1 .. d /\ j \in 1 .. d
        BY <2>1, <2>2, <3>1
      <3>2. CASE i = d + 1 /\ j \in 1 .. d
        BY <2>1, <2>2, <3>2
      <3>3. CASE j = d + 1 /\ i \in 1 .. d
        BY <2>1, <2>2, <3>3
      <3> QED BY <2>2, <3>1, <3>2, <3>3
    <2>4. \A i, j \in 1 .. q - 1 : i # j => queue'[i] # queue'[j]
      <3> SUFFICES ASSUME NEW i \in 1 .. q - 1, NEW j \in 1 .. q - 1, i # j
                   PROVE  queue'[i] # queue'[j]
        OBVIOUS
      <3>1. i + 1 \in 1 .. q /\ j + 1 \in 1 .. q /\ i + 1 # j + 1
        BY <2>2
      <3> QED BY <2>1, <2>2, <3>1
    <2>5. \A i \in 1 .. d + 1 : \A j \in 1 .. q - 1 : dialled'[i] # queue'[j]
      <3> SUFFICES ASSUME NEW i \in 1 .. d + 1, NEW j \in 1 .. q - 1
                   PROVE  dialled'[i] # queue'[j]
        OBVIOUS
      <3>1. j + 1 \in 1 .. q /\ 1 \in 1 .. q /\ j + 1 # 1 /\ queue'[j] = queue[j + 1]
        BY <2>2
      <3>2. CASE i \in 1 .. d
        BY <2>1, <2>2, <3>1, <3>2
      <3>3. CASE i = d + 1
        BY <2>1, <2>2, <3>1, <3>3
      <3> QED BY <2>2, <3>2, <3>3
    <2> QED BY <2>2, <2>3, <2>4, <2>5 DEF NoRepeats
  <1>4. ExchangeTyped'
    <2>1. GreetingFrames \in 0 .. GreetingFrames + (MaxSize * Slack) + ExtraFrames
      BY SlackBound
    <2>2. Head(queue) \in 0 .. MaxPeer
      BY <1>2 DEF Remote
    <2> QED BY <2>1, <2>2 DEF FetchInv, ExchangeTyped, DialPeer, exchangeVars
  <1>5. Authentic' /\ quiet' \in BOOLEAN
    BY DEF FetchInv, DialPeer, Authentic, exchangeVars
  <1> QED BY <1>1, <1>2, <1>3, <1>4, <1>5 DEF FetchInv, RoundTyped

\* An exchange that fails leaves nothing behind.
LEMMA ExchangeFailsKeeps ==
    ASSUME FetchInv, ExchangeFails
    PROVE  FetchInv'
  <1> USE FetchAssumption DEF ExchangeFails, Ended, FetchInv
  <1>1. ExchangeTyped'
    BY SlackBound DEF ExchangeTyped
  <1> QED BY <1>1 DEF RoundTyped, Authentic, NoRepeats

LEMMA RequestsKeeps ==
    ASSUME FetchInv, NEW size \in 0 .. MaxSize + 1, Requests(size)
    PROVE  FetchInv'
  <1> USE FetchAssumption
  <1>1. CASE size = 0 \/ size > MaxSize
    BY <1>1, ExchangeFailsKeeps DEF Requests
  <1>2. CASE ~(size = 0 \/ size > MaxSize)
    <2>1. size \in 0 .. MaxSize
      BY <1>2
    <2>2. /\ fetch' = "assembling" /\ claim' = size
          /\ got' = [k \in 1 .. size |-> "none"]
          /\ due' = size /\ budget' = (size * Slack) + ExtraFrames /\ quiet' = FALSE
          /\ UNCHANGED <<queue, dialled, remote>>
      BY <1>2 DEF Requests
    <2>3. budget' \in 0 .. GreetingFrames + (MaxSize * Slack) + ExtraFrames
      BY <2>1, <2>2, SlackBound
    <2>4. DOMAIN got' \subseteq 1 .. MaxSize /\ \A k \in DOMAIN got' : got'[k] \in {"none", "good", "bad"}
      BY <2>1, <2>2
    <2>5. RoundTyped' /\ NoRepeats' /\ quiet' \in BOOLEAN /\ Authentic'
      BY <2>2 DEF FetchInv, RoundTyped, Authentic, NoRepeats
    <2>6. claim' \in 0 .. MaxSize + 1 /\ due' \in 0 .. MaxSize
      BY <2>1, <2>2
    <2>7. ExchangeTyped'
      BY <2>2, <2>3, <2>4, <2>6 DEF FetchInv, ExchangeTyped
    <2> QED BY <2>5, <2>7 DEF FetchInv
  <1> QED BY <1>1, <1>2

LEMMA AddPieceKeeps ==
    ASSUME FetchInv, budget > 0, NEW k, NEW what, NEW left \in 0 .. MaxSize,
           fetch = "assembling", AddPiece(k, what, left)
    PROVE  FetchInv'
  <1> USE FetchAssumption
  <1> DEFINE new == IF k \in DOMAIN got /\ got[k] = "none" /\ what \in {"good", "bad"}
                    THEN [got EXCEPT ![k] = what] ELSE got
  <1>1. DOMAIN new \subseteq 1 .. MaxSize /\ \A i \in DOMAIN new : new[i] \in {"none", "good", "bad"}
    BY DEF FetchInv, ExchangeTyped
  <1>2. CASE "none" \in Range(new)
    <2>1. /\ got' = new /\ due' = left /\ budget' = budget - 1 /\ quiet' = FALSE
          /\ UNCHANGED <<fetch, queue, dialled, remote, claim>>
      BY <1>2 DEF AddPiece
    <2> HIDE DEF new
    <2>2. budget' \in 0 .. GreetingFrames + (MaxSize * Slack) + ExtraFrames
      BY <2>1, SlackBound DEF FetchInv, ExchangeTyped
    <2>3. RoundTyped' /\ NoRepeats' /\ quiet' \in BOOLEAN /\ Authentic'
      BY <2>1 DEF FetchInv, RoundTyped, Authentic, NoRepeats
    <2>4. ExchangeTyped'
      BY <1>1, <2>1, <2>2 DEF FetchInv, ExchangeTyped
    <2> QED BY <2>3, <2>4 DEF FetchInv
  <1>3. CASE "none" \notin Range(new) /\ Finish(new)
    <2>1. /\ fetch' = "resolved" /\ got' = new /\ due' = left
          /\ UNCHANGED <<queue, dialled, remote, claim, budget, quiet>>
      BY <1>3 DEF AddPiece
    <2> HIDE DEF new
    <2> QED BY <1>1, <1>3, <2>1 DEF FetchInv, RoundTyped, ExchangeTyped, Authentic, NoRepeats, Finish
  <1>4. CASE "none" \notin Range(new) /\ ~Finish(new)
    BY <1>4, ExchangeFailsKeeps DEF AddPiece
  <1> QED BY <1>2, <1>3, <1>4

LEMMA FetchInvInit == FetchInit => FetchInv
  <1> SUFFICES ASSUME FetchInit PROVE FetchInv
    OBVIOUS
  <1> USE FetchAssumption DEF FetchInit
  <1>1. ExchangeTyped
    BY SlackBound DEF ExchangeTyped
  <1>2. RoundTyped
    BY DEF RoundTyped
  <1>3. Authentic
    BY DEF Authentic
  <1>4. NoRepeats
    BY DEF NoRepeats
  <1>5. quiet \in BOOLEAN
    OBVIOUS
  <1> QED BY <1>1, <1>2, <1>3, <1>4, <1>5 DEF FetchInv

LEMMA FetchInvStep == FetchInv /\ [FetchNext]_fetchVars => FetchInv'
  <1> SUFFICES ASSUME FetchInv, [FetchNext]_fetchVars PROVE FetchInv'
    OBVIOUS
  <1> USE FetchAssumption
  <1>1. ASSUME NEW answers \in SeqOf(Remote, MaxAnswer), AskTrackers(answers) PROVE FetchInv'
    <2>1. answers \in Seq(Remote) /\ Len(answers) <= MaxAnswer
      BY SeqOfTyped
    <2>2. Remote \in SUBSET Nat
      BY DEF Remote
    <2>3. /\ queue' = Distinct(answers) /\ dialled' = <<>> /\ fetch' = "trying" /\ fetch = "waiting"
          /\ UNCHANGED exchangeVars
      BY <1>1 DEF AskTrackers
    <2>4. /\ queue' \in Seq(Remote) /\ Len(queue') <= Len(answers)
          /\ \A i, j \in 1 .. Len(queue') : i # j => queue'[i] # queue'[j]
      BY <2>1, <2>2, <2>3, DistinctIsDistinct
    <2>5. Len(queue') <= MaxAnswer
      BY <2>1, <2>4
    <2>6. RoundTyped' /\ NoRepeats'
      BY <2>3, <2>4, <2>5 DEF RoundTyped, NoRepeats
    <2>7. ExchangeTyped' /\ Authentic' /\ quiet' \in BOOLEAN
      BY <2>3 DEF FetchInv, ExchangeTyped, Authentic, exchangeVars
    <2> QED BY <2>6, <2>7 DEF FetchInv
  <1>2. CASE EndRound \/ MagnetRemoved
    BY <1>2 DEF EndRound, MagnetRemoved, exchangeVars, FetchInv, RoundTyped, ExchangeTyped, Authentic, NoRepeats
  <1>3. CASE HonestFrame
    <2>1. CASE Requests(TrueSize)
      BY <2>1, RequestsKeeps
    <2>2. CASE fetch = "assembling" /\ due > 0 /\ AddPiece(claim - due + 1, "good", due - 1)
      <3>1. due - 1 \in 0 .. MaxSize
        BY <2>2 DEF FetchInv, ExchangeTyped
      <3> QED BY <1>3, <2>2, <3>1, AddPieceKeeps DEF HonestFrame
    <2> QED BY <1>3, <2>1, <2>2, ExchangeFailsKeeps DEF HonestFrame
  <1>4. CASE OtherFrame
    <2>1. CASE Useless
      <3>1. budget' \in 0 .. GreetingFrames + (MaxSize * Slack) + ExtraFrames
        BY <1>4, <2>1, SlackBound DEF OtherFrame, Useless, FetchInv, ExchangeTyped
      <3>2. RoundTyped' /\ NoRepeats' /\ quiet' \in BOOLEAN /\ Authentic'
        BY <2>1 DEF Useless, FetchInv, RoundTyped, Authentic, NoRepeats
      <3>3. ExchangeTyped'
        BY <2>1, <3>1 DEF Useless, FetchInv, ExchangeTyped
      <3> QED BY <3>2, <3>3 DEF FetchInv
    <2>2. ASSUME NEW size \in 0 .. MaxSize + 1, Requests(size) PROVE FetchInv'
      BY <2>2, RequestsKeeps
    <2>3. ASSUME NEW k, NEW what, fetch = "assembling", AddPiece(k, what, due) PROVE FetchInv'
      <3>1. due \in 0 .. MaxSize /\ budget > 0
        BY <1>4 DEF FetchInv, ExchangeTyped, OtherFrame
      <3> QED BY <2>3, <3>1, AddPieceKeeps
    <2> QED BY <1>4, <2>1, <2>2, <2>3, ExchangeFailsKeeps DEF OtherFrame
  <1>5. CASE FramesSpent \/ ReadTimesOut
    BY <1>5, ExchangeFailsKeeps DEF FramesSpent, ReadTimesOut
  <1>6. CASE FallsSilent
    BY <1>6 DEF FallsSilent, FetchInv, RoundTyped, ExchangeTyped, Authentic, NoRepeats
  <1>7. CASE UNCHANGED fetchVars
    BY <1>7 DEF fetchVars, exchangeVars, FetchInv, RoundTyped, ExchangeTyped, Authentic, NoRepeats
  <1> QED BY <1>1, <1>2, <1>3, <1>4, <1>5, <1>6, <1>7, DialPeerKeeps DEF FetchNext

\* A magnet resolves to its own torrent or not at all, and no peer is dialled
\* twice in a round, whatever sizes and pieces peers send and however often the
\* trackers name them (MetadataAssembler::finish, distinct).
THEOREM FetchAlwaysSafe == FetchSpec => []FetchSafe
  <1>1. FetchInv => FetchSafe
    <2> SUFFICES ASSUME FetchInv PROVE FetchSafe
      OBVIOUS
    <2>1. Range(got) \subseteq {"none", "good", "bad"}
      BY DEF FetchInv, ExchangeTyped, Range
    <2>2. FetchTypeOK
      BY <2>1 DEF FetchInv, RoundTyped, ExchangeTyped, FetchTypeOK
    <2>3. DialledOnce
      BY DEF FetchInv, RoundTyped, NoRepeats, DialledOnce
    <2> QED BY <2>2, <2>3 DEF FetchInv, FetchSafe
  <1> QED BY FetchInvInit, FetchInvStep, <1>1, PTL DEF FetchSpec

-----------------------------------------------------------------------------
(* The in-memory network *)

\* Streams carry bytes while endpoints dial, accept and are killed.
MockSpec == MockInit /\ [][PipeNext \/ NetNext]_mockVars

\* The pipe holds what was written and not handed out yet, in its place.
Flow ==
    /\ Len(handed) + Len(buf) = written
    /\ \A i \in 1 .. Len(handed) : handed[i] = i
    /\ \A i \in 1 .. Len(buf) : buf[i] = Len(handed) + i

QueueTyped ==
    /\ buf \in Seq(1 .. MaxBytes) /\ written \in 0 .. MaxBytes /\ handed \in Seq(1 .. MaxBytes)
    /\ Len(buf) <= Capacity

ThreadsTyped ==
    /\ reader \in {"idle", "running", "asleep"} /\ writer \in {"idle", "running", "asleep"}
    /\ patience \in {"none", "bounded"} /\ closing \in {"no", "readers", "writers", "done"}

FlagsTyped == shut \in BOOLEAN /\ stalled \in BOOLEAN

PipeInv == QueueTyped /\ ThreadsTyped /\ FlagsTyped /\ Flow

queueVars == <<buf, written, handed>>

LEMMA Joined ==
    ASSUME NEW S, NEW s \in Seq(S), NEW t \in Seq(S)
    PROVE  /\ s \o t \in Seq(S) /\ Len(s \o t) = Len(s) + Len(t)
           /\ \A i \in 1 .. Len(s) : (s \o t)[i] = s[i]
           /\ \A i \in Len(s) + 1 .. Len(s) + Len(t) : (s \o t)[i] = t[i - Len(s)]
  OBVIOUS

LEMMA SameSeq ==
    ASSUME NEW S, NEW s \in Seq(S), NEW t \in Seq(S), Len(s) = Len(t),
           \A i \in 1 .. Len(s) : s[i] = t[i]
    PROVE  s = t
  OBVIOUS

LEMMA QueueRests == ASSUME PipeInv, UNCHANGED queueVars PROVE QueueTyped' /\ Flow'
  BY DEF PipeInv, queueVars, QueueTyped, Flow

\* Bytes are numbered: h was handed out and q comes next.
InPlace(h, q) == (\A i \in 1 .. Len(h) : h[i] = i) /\ (\A i \in 1 .. Len(q) : q[i] = Len(h) + i)

\* What is taken from the front of the queue continues what was handed out.
LEMMA TakingFlows ==
    ASSUME NEW S, NEW h \in Seq(S), NEW q \in Seq(S), NEW n \in 1 .. Len(q), InPlace(h, q)
    PROVE  LET h2 == h \o SubSeq(q, 1, n)
               q2 == SubSeq(q, n + 1, Len(q))
           IN  /\ h2 \in Seq(S) /\ Len(h2) = Len(h) + n
               /\ q2 \in Seq(S) /\ Len(q2) = Len(q) - n /\ InPlace(h2, q2)
  <1> DEFINE front == SubSeq(q, 1, n)
             h2 == h \o front
             q2 == SubSeq(q, n + 1, Len(q))
  <1>1. Len(h) \in Nat /\ Len(q) \in Nat /\ n \in Nat /\ n <= Len(q) /\ 1 <= n
    OBVIOUS
  <1>2. front \in Seq(S) /\ Len(front) = n /\ \A i \in 1 .. n : front[i] = q[i]
    BY <1>1
  <1>3. q2 \in Seq(S) /\ Len(q2) = Len(q) - n /\ \A i \in 1 .. Len(q) - n : q2[i] = q[n + i]
    BY <1>1
  <1> HIDE DEF front, q2
  <1>4. /\ h2 \in Seq(S) /\ Len(h2) = Len(h) + n
        /\ \A i \in 1 .. Len(h) : h2[i] = h[i]
        /\ \A i \in Len(h) + 1 .. Len(h) + n : h2[i] = front[i - Len(h)]
    <2>1. h2 \in Seq(S) /\ Len(h2) = Len(h) + n
      BY <1>2
    <2>2. ASSUME NEW i \in 1 .. Len(h) PROVE h2[i] = h[i]
      BY <1>2
    <2>3. ASSUME NEW i \in Len(h) + 1 .. Len(h) + n PROVE h2[i] = front[i - Len(h)]
      BY <1>2
    <2> QED BY <2>1, <2>2, <2>3
  <1> HIDE DEF h2
  <1>5. ASSUME NEW i \in 1 .. Len(h2) PROVE h2[i] = i
    <2>1. CASE i <= Len(h)
      BY <1>1, <1>4, <2>1 DEF InPlace
    <2>2. CASE i > Len(h)
      <3>1. i - Len(h) \in 1 .. n /\ i - Len(h) \in 1 .. Len(q) /\ i \in Len(h) + 1 .. Len(h) + n
        BY <1>1, <1>4, <2>2
      <3>2. h2[i] = q[i - Len(h)] /\ q[i - Len(h)] = Len(h) + (i - Len(h))
        BY <1>2, <1>4, <3>1 DEF InPlace
      <3> QED BY <1>1, <3>2
    <2> QED BY <1>1, <2>1, <2>2
  <1>6. ASSUME NEW i \in 1 .. Len(q2) PROVE q2[i] = Len(h2) + i
    <2>1. n + i \in 1 .. Len(q) /\ i \in 1 .. Len(q) - n /\ i \in Nat
      BY <1>1, <1>3
    <2>2. q2[i] = Len(h) + (n + i)
      BY <1>3, <2>1 DEF InPlace
    <2> QED BY <1>1, <1>4, <2>1, <2>2
  <1>7. InPlace(h2, q2)
    BY <1>5, <1>6 DEF InPlace
  <1> QED BY <1>3, <1>4, <1>7, Zenon DEF front, h2, q2

\* What is added at the end of the queue continues what is in it.
LEMMA AddingFlows ==
    ASSUME NEW m \in Nat, NEW S, S = 1 .. m, NEW h \in Seq(S), NEW q \in Seq(S), NEW r \in Nat,
           NEW w, Len(h) + Len(q) = w, w + r <= m, InPlace(h, q)
    PROVE  LET q2 == q \o [k \in 1 .. r |-> w + k]
           IN  /\ q2 \in Seq(S) /\ Len(q2) = Len(q) + r /\ Len(h) + Len(q2) = w + r
               /\ InPlace(h, q2)
  <1> DEFINE more == [k \in 1 .. r |-> w + k]
             q2 == q \o more
             l == Len(h)
  <1>1. Len(q) \in Nat /\ l \in Nat /\ w = l + Len(q)
    OBVIOUS
  <1>2. more \in Seq(S) /\ Len(more) = r /\ \A k \in 1 .. r : more[k] = w + k
    <2>1. \A k \in 1 .. r : w + k \in S
      BY <1>1
    <2> QED BY <2>1
  <1>3. \A i \in 1 .. Len(q) : q[i] = l + i
    BY DEF InPlace
  <1> HIDE DEF more, l
  <1>4. /\ q2 \in Seq(S) /\ Len(q2) = Len(q) + r
        /\ \A i \in 1 .. Len(q) : q2[i] = q[i]
        /\ \A i \in Len(q) + 1 .. Len(q) + r : q2[i] = more[i - Len(q)]
    <2>1. /\ q2 \in Seq(S) /\ Len(q2) = Len(q) + Len(more)
          /\ \A i \in 1 .. Len(q) : q2[i] = q[i]
          /\ \A i \in Len(q) + 1 .. Len(q) + Len(more) : q2[i] = more[i - Len(q)]
      BY <1>2, Joined, Zenon
    <2> QED BY <1>2, <2>1, Zenon
  <1> HIDE DEF q2
  <1>5. ASSUME NEW i \in 1 .. Len(q2) PROVE q2[i] = l + i
    <2>1. CASE i <= Len(q)
      BY <1>1, <1>3, <1>4, <2>1
    <2>2. CASE i > Len(q)
      <3>1. i - Len(q) \in 1 .. r /\ i \in Len(q) + 1 .. Len(q) + r /\ i \in Nat
        BY <1>1, <1>4, <2>2
      <3>2. q2[i] = w + (i - Len(q))
        BY <1>2, <1>4, <3>1
      <3> QED BY <1>1, <3>1, <3>2
    <2> QED BY <1>1, <2>1, <2>2
  <1>6. l + Len(q2) = w + r
    BY <1>1, <1>4
  <1>7. InPlace(h, q2)
    BY <1>5 DEF InPlace, l
  <1> QED BY <1>4, <1>6, <1>7, Zenon DEF more, q2, l

LEMMA ReadSomeFlows ==
    ASSUME PipeInv, NEW n \in 1 .. Capacity, ReadSome(n)
    PROVE  QueueTyped' /\ Flow'
  <1>1. /\ n \in 1 .. Len(buf) /\ handed' = handed \o SubSeq(buf, 1, n)
        /\ buf' = SubSeq(buf, n + 1, Len(buf)) /\ written' = written
    BY DEF ReadSome
  <1>2. /\ buf \in Seq(1 .. MaxBytes) /\ handed \in Seq(1 .. MaxBytes) /\ written \in 0 .. MaxBytes
        /\ Len(buf) <= Capacity
    BY DEF PipeInv, QueueTyped
  <1>3. InPlace(handed, buf) /\ Len(handed) + Len(buf) = written
    BY DEF PipeInv, Flow, InPlace
  <1>4. /\ handed' \in Seq(1 .. MaxBytes) /\ Len(handed') = Len(handed) + n
        /\ buf' \in Seq(1 .. MaxBytes) /\ Len(buf') = Len(buf) - n /\ InPlace(handed', buf')
    <2> DEFINE h2 == handed \o SubSeq(buf, 1, n)
               q2 == SubSeq(buf, n + 1, Len(buf))
               S == 1 .. MaxBytes
    <2>1. buf \in Seq(S) /\ handed \in Seq(S)
      BY <1>2
    <2> HIDE DEF S
    <2>2. /\ h2 \in Seq(S) /\ Len(h2) = Len(handed) + n
          /\ q2 \in Seq(S) /\ Len(q2) = Len(buf) - n /\ InPlace(h2, q2)
      BY <1>1, <1>3, <2>1, TakingFlows, Zenon
    <2>3. handed' = h2 /\ buf' = q2
      BY <1>1
    <2> HIDE DEF h2, q2
    <2> QED BY <2>2, <2>3, Zenon DEF S
  <1>5. Len(handed) \in Nat /\ Len(buf) \in Nat /\ n \in Nat /\ Capacity \in Nat
    BY <1>1, <1>2, MockAssumption
  <1>6. Len(buf') <= Capacity
    BY <1>2, <1>4, <1>5
  <1>7. Len(handed') + Len(buf') = written'
    <2>1. (Len(handed) + n) + (Len(buf) - n) = Len(handed) + Len(buf)
      BY <1>5
    <2> QED BY <1>1, <1>3, <1>4, <2>1, Zenon
  <1> QED BY <1>1, <1>2, <1>4, <1>6, <1>7, Zenon DEF QueueTyped, Flow, InPlace

LEMMA WriteSomeFlows ==
    ASSUME PipeInv, NEW n \in 1 .. Capacity, WriteSome(n)
    PROVE  QueueTyped' /\ Flow'
  <1> DEFINE room == Min({n, Capacity - Len(buf)})
  <1>1. /\ Len(buf) < Capacity /\ written + n <= MaxBytes /\ handed' = handed
        /\ buf' = buf \o [k \in 1 .. room |-> written + k] /\ written' = written + room
    BY DEF WriteSome
  <1>2. /\ buf \in Seq(1 .. MaxBytes) /\ handed \in Seq(1 .. MaxBytes) /\ written \in 0 .. MaxBytes
    BY DEF PipeInv, QueueTyped
  <1>3. InPlace(handed, buf) /\ Len(handed) + Len(buf) = written
    BY DEF PipeInv, Flow, InPlace
  <1>4. Len(buf) \in Nat /\ Len(handed) \in Nat /\ Capacity \in Nat /\ n \in Nat /\ n >= 1 /\ MaxBytes \in Nat
    BY <1>2, MockAssumption
  <1>5. room \in 1 .. n /\ room <= Capacity - Len(buf)
    <2>1. Capacity - Len(buf) \in Int /\ Capacity - Len(buf) >= 1
      BY <1>1, <1>4
    <2>2. (n <= Capacity - Len(buf) => room = n) /\ (Capacity - Len(buf) <= n => room = Capacity - Len(buf))
      BY <1>4, <2>1 DEF Min
    <2> HIDE DEF room
    <2> QED BY <1>4, <2>1, <2>2
  <1> HIDE DEF room
  <1>6. room \in Nat /\ written + room <= MaxBytes
    BY <1>1, <1>2, <1>4, <1>5
  <1>7. /\ buf' \in Seq(1 .. MaxBytes) /\ Len(buf') = Len(buf) + room
        /\ Len(handed) + Len(buf') = written + room /\ InPlace(handed, buf')
    <2> DEFINE q2 == buf \o [k \in 1 .. room |-> written + k]
               S == 1 .. MaxBytes
    <2>1. S = 1 .. MaxBytes /\ buf \in Seq(S) /\ handed \in Seq(S)
      BY <1>2
    <2> HIDE DEF S
    <2>2. /\ q2 \in Seq(S) /\ Len(q2) = Len(buf) + room
          /\ Len(handed) + Len(q2) = written + room /\ InPlace(handed, q2)
      BY <1>3, <1>4, <1>6, <2>1, AddingFlows
    <2>3. buf' = q2
      BY <1>1
    <2> HIDE DEF q2
    <2> QED BY <2>2, <2>3, Zenon DEF S
  <1>8. Len(buf') <= Capacity /\ written' \in 0 .. MaxBytes
    BY <1>1, <1>2, <1>4, <1>5, <1>6, <1>7
  <1> QED BY <1>1, <1>2, <1>7, <1>8, Zenon DEF QueueTyped, Flow, InPlace

LEMMA PipeInvStep == PipeInv /\ [PipeNext \/ NetNext]_mockVars => PipeInv'
  <1> SUFFICES ASSUME PipeInv, [PipeNext \/ NetNext]_mockVars PROVE PipeInv'
    OBVIOUS
  <1> USE DEF queueVars
  <1>1. CASE \E n \in 1 .. Capacity : ReadSome(n)
    <2>1. PICK n \in 1 .. Capacity : ReadSome(n)
      BY <1>1
    <2>2. ThreadsTyped' /\ FlagsTyped'
      BY <2>1 DEF ReadSome, PipeInv, ThreadsTyped, FlagsTyped, Notified
    <2> QED BY <2>1, <2>2, ReadSomeFlows DEF PipeInv
  <1>2. CASE \E n \in 1 .. Capacity : WriteSome(n)
    <2>1. PICK n \in 1 .. Capacity : WriteSome(n)
      BY <1>2
    <2>2. ThreadsTyped' /\ FlagsTyped'
      BY <2>1 DEF WriteSome, PipeInv, ThreadsTyped, FlagsTyped, Notified
    <2> QED BY <2>1, <2>2, WriteSomeFlows DEF PipeInv
  <1>3. ASSUME UNCHANGED queueVars, ThreadsTyped', FlagsTyped' PROVE PipeInv'
    BY <1>3, QueueRests DEF PipeInv
  <1>4. CASE ReadEnds \/ ReadWaits \/ WriteBreaks \/ WriteWaits \/ StartRead \/ StartWrite \/ WaitTimesOut
    <2>1. UNCHANGED queueVars /\ UNCHANGED <<shut, stalled>>
      BY <1>4 DEF ReadEnds, ReadWaits, WriteBreaks, WriteWaits, StartRead, StartWrite, WaitTimesOut
    <2>2. ThreadsTyped'
      BY <1>4 DEF ReadEnds, ReadWaits, WriteBreaks, WriteWaits, StartRead, StartWrite, WaitTimesOut,
                  PipeInv, ThreadsTyped
    <2>3. FlagsTyped'
      BY <2>1 DEF PipeInv, FlagsTyped
    <2> QED BY <1>3, <2>1, <2>2, <2>3
  <1>5. CASE WakeReaders \/ WakeWriters \/ ClosePipe \/ \E on \in BOOLEAN : SetStalled(on)
    <2>1. UNCHANGED queueVars
      BY <1>5 DEF WakeReaders, WakeWriters, ClosePipe, SetStalled
    <2>2. ThreadsTyped'
      BY <1>5 DEF WakeReaders, WakeWriters, ClosePipe, SetStalled, PipeInv, ThreadsTyped, Notified
    <2>3. FlagsTyped'
      BY <1>5 DEF WakeReaders, WakeWriters, ClosePipe, SetStalled, PipeInv, FlagsTyped
    <2> QED BY <1>3, <2>1, <2>2, <2>3
  <1>6. CASE NetNext \/ UNCHANGED mockVars
    <2>1. UNCHANGED pipeVars
      BY <1>6 DEF NetNext, BeginDial, FindCallee, NoteCaller, NoteCallee, Deliver, AcceptNext, SetBlackHole,
                  MarkDead, Unlist, Collapse, mockVars
    <2> QED BY <1>3, <2>1 DEF pipeVars, PipeInv, ThreadsTyped, FlagsTyped
  <1> QED BY <1>1, <1>2, <1>4, <1>5, <1>6 DEF PipeNext, ReaderMust, WriterMust, CloserMust

LEMMA PipeInvInit == MockInit => PipeInv
  <1> SUFFICES ASSUME MockInit PROVE PipeInv
    OBVIOUS
  <1> USE MockAssumption DEF MockInit
  <1>1. QueueTyped
    BY DEF QueueTyped
  <1>2. Flow
    BY DEF Flow
  <1>3. ThreadsTyped
    BY DEF ThreadsTyped
  <1>4. FlagsTyped
    BY DEF FlagsTyped
  <1> QED BY <1>1, <1>2, <1>3, <1>4 DEF PipeInv

\* A byte that was accepted is handed out once and in its place, and the queue
\* never outgrows its capacity, whatever partial reads and writes, stalls and
\* closes come between (Pipe::read, Pipe::write): the safety half of PipeHonest.
THEOREM PipeKeepsBytes == MockSpec => []BytesKept
  <1>1. PipeInv => BytesKept
    <2> SUFFICES ASSUME PipeInv PROVE BytesKept
      OBVIOUS
    <2>1. /\ buf \in Seq(1 .. MaxBytes) /\ handed \in Seq(1 .. MaxBytes) /\ written \in 0 .. MaxBytes
          /\ Len(buf) \in Nat /\ Len(handed) \in Nat /\ Len(buf) <= Capacity
          /\ Len(handed) + Len(buf) = written
      BY DEF PipeInv, QueueTyped, Flow
    <2>2. /\ handed \o buf \in Seq(1 .. MaxBytes) /\ Len(handed \o buf) = written
          /\ \A i \in 1 .. Len(handed) : (handed \o buf)[i] = handed[i]
          /\ \A i \in Len(handed) + 1 .. written : (handed \o buf)[i] = buf[i - Len(handed)]
      BY <2>1
    <2>3. \A i \in 1 .. written : (handed \o buf)[i] = i
      <3> SUFFICES ASSUME NEW i \in 1 .. written PROVE (handed \o buf)[i] = i
        OBVIOUS
      <3>1. CASE i <= Len(handed)
        BY <2>1, <2>2, <3>1 DEF PipeInv, Flow
      <3>2. CASE i > Len(handed)
        <4>1. i - Len(handed) \in 1 .. Len(buf)
          BY <2>1, <3>2
        <4>2. buf[i - Len(handed)] = Len(handed) + (i - Len(handed))
          BY <4>1 DEF PipeInv, Flow
        <4> QED BY <2>1, <2>2, <3>2, <4>2
      <3> QED BY <2>1, <3>1, <3>2
    <2>4. handed \o buf = [k \in 1 .. written |-> k]
      <3> DEFINE all == [k \in 1 .. written |-> k]
      <3>1. \A k \in 1 .. written : k \in 1 .. MaxBytes
        BY <2>1, MockAssumption
      <3>2. all \in Seq(1 .. MaxBytes) /\ Len(all) = written /\ \A k \in 1 .. written : all[k] = k
        BY <2>1, <3>1
      <3> HIDE DEF all
      <3>3. handed \o buf = all
        BY <2>2, <2>3, <3>2, SameSeq
      <3> QED BY <3>3 DEF all
    <2> QED BY <2>1, <2>4 DEF BytesKept
  <1> QED BY PipeInvInit, PipeInvStep, <1>1, PTL DEF MockSpec

-----------------------------------------------------------------------------
(* Dials and kills *)

EndpointsTyped ==
    /\ dead \subseteq Endpoint /\ present \subseteq Endpoint /\ hole \subseteq Endpoint
    /\ killing \in [Endpoint -> {"no", "marked", "removed", "done"}]
    /\ doomed \in [Endpoint -> SUBSET DialId]
    /\ pipes \in [Endpoint -> SUBSET DialId]

QueuesTyped ==
    /\ accepting \in [Endpoint -> Seq(DialId)]
    /\ \A e \in Endpoint : Len(accepting[e]) <= Backlog

DialsTyped ==
    /\ dial \in [DialId -> {"no", "begun", "found", "paired", "known", "open", "failed"}]
    /\ caller \in [DialId -> Endpoint \cup {Nowhere}] /\ callee \in [DialId -> Endpoint \cup {Nowhere}]
    /\ broken \subseteq DialId
    /\ \A d \in DialId : dial[d] # "no" => caller[d] \in Endpoint /\ callee[d] \in Endpoint

\* Where a kill is tells what it has already done.
Stages ==
    \A e \in Endpoint : /\ killing[e] # "no" => e \in dead
                        /\ killing[e] \in {"removed", "done"} => e \notin present

\* A dial is noted with the endpoints it has come past, until their streams
\* collapse: a kill that is under way finds it there.
Noted ==
    \A d \in DialId, e \in Endpoint : killing[e] # "done" =>
        /\ dial[d] \in {"paired", "known", "open"} /\ e = caller[d] => d \in pipes[e]
        /\ dial[d] \in {"known", "open"} /\ e = callee[d] => d \in pipes[e]

\* What a kill must not leave open is still to be closed by it, closed, failed,
\* or about to look its callee up in vain.
Doomed ==
    \A e \in Endpoint : \A d \in doomed[e] :
        \/ killing[e] \in {"marked", "removed"} /\ d \in pipes[e]
        \/ d \in broken
        \/ dial[d] = "failed"
        \/ dial[d] = "begun" /\ callee[d] = e /\ killing[e] \in {"removed", "done"}

NetInv == EndpointsTyped /\ QueuesTyped /\ DialsTyped /\ Stages /\ Noted /\ Doomed

LEMMA NetInvInit == MockInit => NetInv
  <1> SUFFICES ASSUME MockInit PROVE NetInv
    OBVIOUS
  <1> USE MockAssumption DEF MockInit
  <1>1. EndpointsTyped
    BY DEF EndpointsTyped
  <1>2. QueuesTyped
    BY DEF QueuesTyped
  <1>3. DialsTyped
    BY DEF DialsTyped
  <1>4. Stages /\ Noted /\ Doomed
    BY DEF Stages, Noted, Doomed
  <1> QED BY <1>1, <1>2, <1>3, <1>4 DEF NetInv

LEMMA BeginDialKeeps ==
    ASSUME NetInv, NEW d \in DialId, NEW dialler \in Endpoint, NEW target \in Endpoint,
           BeginDial(d, dialler, target)
    PROVE  NetInv'
  <1> USE DEF NetInv, BeginDial, To
  <1>1. EndpointsTyped'
    BY DEF EndpointsTyped
  <1>2. QueuesTyped'
    BY DEF QueuesTyped
  <1>3. DialsTyped'
    BY DEF DialsTyped
  <1>4. Stages'
    BY DEF Stages
  <1>5. Noted'
    BY DEF Noted, DialsTyped
  <1>6. Doomed'
    <2> SUFFICES ASSUME NEW e \in Endpoint, NEW x \in doomed'[e] PROVE Doomed!(e)!(x)'
      BY DEF Doomed
    <2>1. x \in DialId /\ (x \in doomed[e] \/ (x = d /\ killing[e] \in {"removed", "done"} /\ e \in {dialler, target}))
      BY DEF EndpointsTyped
    <2>2. CASE x \in doomed[e]
      BY <2>1, <2>2 DEF Doomed, DialsTyped
    <2>3. CASE x = d /\ killing[e] \in {"removed", "done"} /\ e \in {dialler, target}
      BY <2>3 DEF Stages, DialsTyped
    <2> QED BY <2>1, <2>2, <2>3
  <1> QED BY <1>1, <1>2, <1>3, <1>4, <1>5, <1>6

LEMMA DialStepKeeps ==
    ASSUME NetInv, NEW d \in DialId, FindCallee(d) \/ NoteCaller(d) \/ NoteCallee(d) \/ Deliver(d)
    PROVE  NetInv'
  <1> USE MockAssumption DEF NetInv, FindCallee, NoteCaller, NoteCallee, Deliver, To
  <1>1. EndpointsTyped'
    BY DEF EndpointsTyped, DialsTyped
  <1>2. QueuesTyped'
    <2>1. CASE UNCHANGED accepting
      BY <2>1 DEF QueuesTyped
    <2>2. CASE Deliver(d) /\ Len(accepting[callee[d]]) < Backlog
      <3>1. callee[d] \in Endpoint
        BY <2>2 DEF DialsTyped
      <3>2. accepting' = [accepting EXCEPT ![callee[d]] = Append(@, d)]
        BY <2>2
      <3>3. /\ Append(accepting[callee[d]], d) \in Seq(DialId)
            /\ Len(Append(accepting[callee[d]], d)) <= Backlog
        BY <2>2, <3>1 DEF QueuesTyped
      <3> QED BY <3>1, <3>2, <3>3 DEF QueuesTyped
    <2> QED BY <2>1, <2>2
  <1>3. DialsTyped'
    BY DEF DialsTyped
  <1>4. Stages'
    BY DEF Stages
  <1>5. Noted'
    BY DEF Noted, DialsTyped, EndpointsTyped
  <1>6. Doomed'
    <2> SUFFICES ASSUME NEW e \in Endpoint, NEW x \in doomed[e] PROVE Doomed!(e)!(x)'
      BY DEF Doomed
    <2>1. x \in DialId
      BY DEF EndpointsTyped
    <2> QED BY <2>1 DEF Doomed, DialsTyped, EndpointsTyped, Stages
  <1> QED BY <1>1, <1>2, <1>3, <1>4, <1>5, <1>6

LEMMA KillStepKeeps ==
    ASSUME NetInv, NEW k \in Endpoint, MarkDead(k) \/ Unlist(k) \/ Collapse(k)
    PROVE  NetInv'
  <1> USE DEF NetInv, MarkDead, Unlist, Collapse
  <1>1. EndpointsTyped'
    BY DEF EndpointsTyped
  <1>2. QueuesTyped'
    BY DEF QueuesTyped
  <1>3. DialsTyped'
    BY DEF DialsTyped, EndpointsTyped
  <1>4. Stages'
    BY DEF Stages, EndpointsTyped
  <1>5. Noted'
    BY DEF Noted, EndpointsTyped
  <1>6. Doomed'
    <2> SUFFICES ASSUME NEW e \in Endpoint, NEW x \in doomed'[e] PROVE Doomed!(e)!(x)'
      BY DEF Doomed
    <2>1. CASE MarkDead(k)
      <3>1. CASE e = k
        <4>1. x \in DialId /\ dial[x] \in {"known", "open"} /\ e \in {caller[x], callee[x]} /\ killing[e] = "no"
          BY <2>1, <3>1 DEF EndpointsTyped
        <4>2. x \in pipes[e]
          BY <4>1 DEF Noted
        <4>3. killing'[e] = "marked" /\ pipes' = pipes
          BY <2>1, <3>1 DEF EndpointsTyped
        <4> QED BY <4>2, <4>3
      <3>2. CASE e # k
        <4>1. x \in doomed[e] /\ killing'[e] = killing[e]
          BY <2>1, <3>2 DEF EndpointsTyped
        <4> QED BY <2>1, <4>1 DEF Doomed
      <3> QED BY <3>1, <3>2
    <2>2. CASE Unlist(k) \/ Collapse(k)
      BY <2>2 DEF Doomed, EndpointsTyped
    <2> QED BY <2>1, <2>2
  <1> QED BY <1>1, <1>2, <1>3, <1>4, <1>5, <1>6

LEMMA NetInvStep == NetInv /\ [PipeNext \/ NetNext]_mockVars => NetInv'
  <1> SUFFICES ASSUME NetInv, [PipeNext \/ NetNext]_mockVars PROVE NetInv'
    OBVIOUS
  <1>1. ASSUME NEW e \in Endpoint, AcceptNext(e) PROVE NetInv'
    <2>1. QueuesTyped'
      BY <1>1, MockAssumption DEF NetInv, AcceptNext, QueuesTyped
    <2> QED BY <1>1, <2>1 DEF AcceptNext, NetInv, EndpointsTyped, DialsTyped, Stages, Noted, Doomed
  <1>2. ASSUME NEW e \in Endpoint, NEW on \in BOOLEAN, SetBlackHole(e, on) PROVE NetInv'
    <2>1. hole' \subseteq Endpoint
      BY <1>2 DEF SetBlackHole, NetInv, EndpointsTyped
    <2> QED BY <1>2, <2>1 DEF SetBlackHole, NetInv, EndpointsTyped, QueuesTyped, DialsTyped, Stages, Noted, Doomed
  <1>3. CASE NetNext
    BY <1>1, <1>2, <1>3, BeginDialKeeps, DialStepKeeps, KillStepKeeps DEF NetNext
  <1>4. CASE PipeNext \/ UNCHANGED mockVars
    <2>1. UNCHANGED netVars
      BY <1>4 DEF PipeNext, ReaderMust, WriterMust, CloserMust, ReadSome, ReadEnds, ReadWaits, WriteSome,
                  WriteBreaks, WriteWaits, WakeReaders, WakeWriters, StartRead, StartWrite, WaitTimesOut,
                  ClosePipe, SetStalled, mockVars
    <2> QED BY <2>1 DEF netVars, NetInv, EndpointsTyped, QueuesTyped, DialsTyped, Stages, Noted, Doomed
  <1> QED BY <1>3, <1>4

\* A kill is final, however it is interleaved, lock by lock, with any number of
\* dials between any number of endpoints: what it found open is closed when it
\* is over and no dial begun after it is open (kill_session, dial_from).
THEOREM KillsAreFinal == MockSpec => []CollapseComplete
  <1>1. PipeInv /\ NetInv => MockTypeOK
    BY DEF PipeInv, QueueTyped, ThreadsTyped, FlagsTyped, NetInv, EndpointsTyped, QueuesTyped, DialsTyped,
           MockTypeOK
  <1>2. NetInv => KillIsFinal
    BY DEF NetInv, Doomed, KillIsFinal
  <1> QED BY PipeInvInit, PipeInvStep, NetInvInit, NetInvStep, <1>1, <1>2, PTL DEF MockSpec, CollapseComplete

-----------------------------------------------------------------------------
(* The composition *)

\* A behaviour of the composition is a behaviour of each component.
LEMMA ProcessIsItsParts == ProcessSpec => SeatsSpec /\ DaemonSpec /\ FetchSpec /\ MockSpec
  <1>1. ProcessInit => SeatsInit /\ DaemonInit /\ FetchInit /\ MockInit
    BY DEF ProcessInit
  <1>2. [ProcessNext]_processVars => /\ [SeatsNext]_seatsVars /\ [DaemonNext]_daemonVars
                                     /\ [FetchNext]_fetchVars /\ [PipeNext \/ NetNext]_mockVars
    BY DEF ProcessNext, processVars
  <1> QED BY <1>1, <1>2, PTL DEF ProcessSpec, SeatsSpec, DaemonSpec, FetchSpec, MockSpec

\* What the process's run checks of its components holds of the composition for
\* every value of the constants: seats and guards are counted exactly, one
\* daemon serves, magnets resolve to themselves and streams keep their bytes.
THEOREM ProcessKeepsItsPromises ==
    ProcessSpec => /\ []SeatsExact /\ []DaemonSafe /\ []FetchSafe /\ []BytesKept
                   /\ SlotsImplementBudget
  BY ProcessIsItsParts, SeatsAlwaysExact, SlotsAreABudget, DaemonAlwaysSafe, FetchAlwaysSafe, PipeKeepsBytes, PTL

=============================================================================
