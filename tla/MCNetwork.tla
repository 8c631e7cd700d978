----------------------------- MODULE MCNetwork -----------------------------
(***************************************************************************)
(* What a torrent and the daemon do on the network, one part at a time:    *)
(* `part` says which component a behaviour is about; the others rest in an *)
(* initial state.                                                          *)
(***************************************************************************)
EXTENDS Upload, KnownPeers, Announce, Session, Naming

CONSTANTS x1, x2, x3, s1, s2, k1, k2, n1, n2, n3, a1, a2

Addresses == {x1, x2, x3}
Sessions == {s1, s2}
Keys == {k1, k2}
Names == {n1, n2, n3}
Askers == {a1, a2}

VARIABLE part

networkVars == <<part, uploadVars, knownVars, announceVars, sessionVars, namingVars>>

NetworkInit ==
    /\ part \in {"upload", "known", "announce", "session", "naming"}
    /\ UploadInit /\ KnownPeersInit /\ AnnounceInit /\ SessionInit /\ NamingInit
    /\ seeding => part = "upload"
    /\ finished => part = "announce"
    /\ keyFile # NoKey => part = "session"
    /\ keyFile # k2   \* the keys are interchangeable

NetworkNext ==
    \/ /\ part = "upload" /\ UploadNext
       /\ UNCHANGED <<part, knownVars, announceVars, sessionVars, namingVars>>
    \/ /\ part = "known" /\ KnownPeersNext
       /\ UNCHANGED <<part, uploadVars, announceVars, sessionVars, namingVars>>
    \/ /\ part = "announce" /\ AnnounceNext
       /\ UNCHANGED <<part, uploadVars, knownVars, sessionVars, namingVars>>
    \/ /\ part = "session" /\ SessionNext
       /\ UNCHANGED <<part, uploadVars, knownVars, announceVars, namingVars>>
    \/ /\ part = "naming" /\ NamingNext
       /\ UNCHANGED <<part, uploadVars, knownVars, announceVars, sessionVars>>

\* Each component's own fairness, in the behaviours that are about it.
NetworkFairness ==
    /\ WF_uploadVars(part = "upload" /\ PeriodicRound)
    /\ WF_announceVars(part = "announce" /\ LoopMust)
    /\ WF_announceVars(part = "announce" /\ AnnounceTick)
    /\ WF_sessionVars(part = "session" /\ Supervise)
    /\ WF_sessionVars(part = "session" /\ RouterReturns)
    /\ \A s \in SessionId : /\ WF_sessionVars(part = "session" /\ Watch(s))
                            /\ WF_sessionVars(part = "session" /\ RegistryDials(s))
                            /\ WF_sessionVars(part = "session" /\ AcceptWakes(s))
                            /\ WF_sessionVars(part = "session" /\ GiveBack(s))
                            /\ WF_sessionVars(part = "session" /\ RouterLetsGo(s))

\* Every table of the five components has its type: clamps and caps are kept
\* (penalise, on_failure, base_delay, Hold).
NetworkTypeOK == KnownPeersTypeOK /\ AnnounceTypeOK /\ SessionTypeOK /\ NamingTypeOK

NetworkSpec == NetworkInit /\ [][NetworkNext]_networkVars /\ NetworkFairness

\* No answer silences us, where the behaviour is the announce loop's: every
\* tracker is heard from for as long as it runs, and the next announce is never
\* further off than the two ceilings (on_success_with_min, on_failure).
NeverSilencedThere == part = "announce" => NeverSilenced

\* The announce loop does its duty: trackers go on hearing from it, each learns
\* of the completion, and a stop ends it (announce_once, spawn_announce).
AnnounceProgress == NeverSilencedThere /\ SnatchReported /\ StopEndsLoop

\* Whatever the router did, a daemon's session is in the end up for good, and one
\* the router hosts if there is anybody left to dial (spawn_sam_supervisor,
\* watch_control, usable).
ReconnectsThere == part = "session" => Reconnects
=============================================================================
