------------------------------ MODULE MCDaemon ------------------------------
(***************************************************************************)
(* The threads of the daemon, one part at a time: `part` says which        *)
(* component a behaviour is about; the others rest in an initial state.    *)
(***************************************************************************)
EXTENDS Seats, Daemon, Fetch, Mock

CONSTANTS c1, c2, t1, t2, d1, p1, p2, u1, u2, k1, k2, e1, e2, m1, m2

Conns == {c1, c2}
Torrents == {t1, t2}
Dests == {d1}
Processes == {p1, p2}
Clients == {u1, u2}
Tokens == {k1, k2}
Endpoints == {e1, e2}
Dials == {m1, m2}

VARIABLE part

processVars == <<part, seatsVars, daemonVars, fetchVars, mockVars>>

ProcessInit ==
    /\ part \in {"seats", "daemon", "fetch", "pipe"}
    /\ SeatsInit /\ DaemonInit /\ FetchInit /\ MockInit
    /\ part # "daemon" => tokenFile = NoToken /\ socket = "none"
    /\ part # "pipe" => patience = "none"

ProcessNext ==
    /\ UNCHANGED part
    /\ \/ part = "seats" /\ SeatsNext /\ UNCHANGED <<daemonVars, fetchVars, mockVars>>
       \/ part = "daemon" /\ DaemonNext /\ UNCHANGED <<seatsVars, fetchVars, mockVars>>
       \/ part = "fetch" /\ FetchNext /\ UNCHANGED <<seatsVars, daemonVars, mockVars>>
       \/ part = "pipe" /\ PipeNext /\ UNCHANGED <<seatsVars, daemonVars, fetchVars>>

\* Each component's own fairness, in the behaviours that are about it.
ProcessFairness ==
    /\ \A c \in Conn : WF_seatsVars(part = "seats" /\ ThreadMust(c))
    /\ \A t \in Torrent : /\ WF_seatsVars(part = "seats" /\ SweepMust(t))
                          /\ WF_seatsVars(part = "seats" /\ StopMust(t))
    /\ \A c \in Client : /\ WF_daemonVars(part = "daemon" /\ Dispatch(c))
                         /\ WF_daemonVars(part = "daemon" /\ Handle(c))
    /\ WF_fetchVars(part = "fetch" /\ FetchMust)
    /\ WF_fetchVars(part = "fetch" /\ FallsSilent)
    /\ WF_mockVars(part = "pipe" /\ ReaderMust)
    /\ WF_mockVars(part = "pipe" /\ WriterMust)
    /\ WF_mockVars(part = "pipe" /\ CloserMust)

ProcessSpec == ProcessInit /\ [][ProcessNext]_processVars /\ ProcessFairness
=============================================================================
