------------------------------ MODULE Session -------------------------------
(***************************************************************************)
(* The daemon's one SAM session and the thread that supervises it          *)
(* (spawn_sam_supervisor in cloved/src/main.rs, SamSession and SamListener *)
(* in i2pnet/src/sam.rs, ReconnectPolicy in supervisor.rs): bring-up with  *)
(* backoff, the watchdog on the control connection, the ways a session is  *)
(* found to be gone, teardown, rebuild, and the stored destination key.    *)
(*                                                                         *)
(* A SamSession is shared by reference count; dropping the last reference  *)
(* closes the control connection, and that is when the router lets go of   *)
(* the session.  The router is external: it crashes and restarts, and ends *)
(* a session by saying so, by hanging up, or without a word.  It refuses a *)
(* second session for a destination it still hosts.  Every adverse event   *)
(* uses up one of MaxFaults, a key file that cannot be read or written     *)
(* just then included.  Lines are abstracted to what the parsers tell      *)
(* apart.                                                                  *)
(*                                                                         *)
(* A session the router dropped without a word is found out by a dial and  *)
(* by nothing else, and the registry dials only for a running torrent that *)
(* has a tracker or a peer to call: `active`.                              *)
(***************************************************************************)
EXTENDS Naturals, FiniteSets, FiniteSetsExt

CONSTANTS SessionId,     \* session objects alive at once (a bound)
          Key,           \* destination keys
          NoKey, NoSession,
          MaxFaults,     \* adverse events of the router and the system
          MaxFails,      \* cap of the failure count
          InitialDelay, MaxDelay,   \* ReconnectPolicy, in ticks
          DelayBits,     \* the 63 bits a delay may be shifted by
          Ephemeral      \* clove.conf: ephemeral

ASSUME SessionAssumption ==
    /\ IsFiniteSet(SessionId) /\ IsFiniteSet(Key)
    /\ NoKey \notin Key /\ NoSession \notin SessionId
    /\ {MaxFaults, MaxFails, DelayBits} \subseteq Nat
    /\ InitialDelay \in Nat \ {0} /\ MaxDelay \in Nat /\ InitialDelay <= MaxDelay
    /\ Ephemeral \in BOOLEAN

\* The reference holders of a session: the supervisor, the accept thread's
\* listener, the registry's network, and any thread that took the dialer from
\* it (a metadata fetch, a goodbye announce).
Holder == {"supervisor", "listener", "registry", "borrower"}

VARIABLES
    routerUp,   \* the router answers
    hosted,     \* the sessions the router has
    faults,     \* adverse events left
    control,    \* the control connection of each session object
    keyOf,      \* the destination key each was created with
    ended,      \* the sessions whose SessionLife has ended
    refs,       \* who holds a reference to each
    stopping,   \* the sessions whose demux was told to stop
    woken,      \* the sessions whose accept was poked
    sup,        \* where the supervisor is
    cur,        \* the session it is about
    loaded,     \* the key it read for this attempt
    fails,      \* consecutive failed bring-ups
    delay,      \* the backoff before jitter
    status,     \* Daemon.router
    keyFile,    \* the contents of destination.key
    trouble,    \* what failed with it in this bring-up: "load", "save" (history)
    active      \* a running torrent has a tracker or a peer to dial

routerVars == <<routerUp, hosted, faults>>
keyVars == <<keyFile, trouble>>
objectVars == <<control, keyOf, ended, refs, stopping, woken>>
supVars == <<sup, cur, loaded, fails, delay, status>>
sessionVars == <<routerVars, objectVars, supVars, keyVars, active>>

Stage == {"load", "create", "forward", "remember", "accept", "attach", "report", "wait",
          "stop", "poke", "detach", "sleep"}

SessionTypeOK ==
    /\ routerUp \in BOOLEAN /\ hosted \subseteq SessionId /\ faults \in 0 .. MaxFaults
    /\ control \in [SessionId -> {"none", "open", "said", "closed", "dropped"}]
    /\ keyOf \in [SessionId -> Key \cup {NoKey}]
    /\ ended \subseteq SessionId /\ refs \in [SessionId -> SUBSET Holder]
    /\ stopping \subseteq SessionId /\ woken \subseteq SessionId
    /\ sup \in Stage /\ cur \in SessionId \cup {NoSession}
    /\ loaded \in Key \cup {NoKey} /\ fails \in 0 .. MaxFails /\ delay \in 0 .. MaxDelay
    /\ status \in {"connecting", "waiting-for-router", "connected"}
    /\ keyFile \in Key \cup {NoKey, "corrupt"}
    /\ trouble \subseteq {"load", "save"} /\ active \in BOOLEAN

\* The first start, over whatever destination.key is there.  Its mode is what
\* Identity.check demands: a daemon over any other does not come up.
SessionInit ==
    /\ routerUp = TRUE /\ hosted = {} /\ faults = MaxFaults
    /\ control = [s \in SessionId |-> "none"] /\ keyOf = [s \in SessionId |-> NoKey]
    /\ ended = {} /\ refs = [s \in SessionId |-> {}] /\ stopping = {} /\ woken = {}
    /\ sup = "load" /\ cur = NoSession /\ loaded = NoKey /\ fails = 0 /\ delay = 0
    /\ status = "connecting"
    /\ keyFile \in Key \cup {NoKey, "corrupt"} /\ trouble = {} /\ active = FALSE

-----------------------------------------------------------------------------
\* References.  `Drop for SamSession` shuts the control connection down.

Let(held, ctl) ==
    /\ refs' = held
    /\ control' = [s \in SessionId |->
                     IF control[s] # "none" /\ held[s] = {} THEN "dropped" ELSE ctl[s]]

Without(s, holder) == [refs EXCEPT ![s] = @ \ {holder}]

\* ReconnectPolicy::base_delay: the shift is refused at DelayBits, the product
\* saturates at MaxDelay.
BaseDelay(n) ==
    IF n = 0 THEN 0
    ELSE IF n - 1 >= DelayBits THEN MaxDelay
    ELSE Min({InitialDelay * 2 ^ (n - 1), MaxDelay})

\* A bring-up that failed: count it, say so, sleep.  Jitter only shortens the
\* sleep, which ends when it ends.
BackOff ==
    /\ fails' = Min({fails + 1, MaxFails}) /\ delay' = BaseDelay(fails')
    /\ status' = "waiting-for-router" /\ sup' = "sleep" /\ cur' = NoSession

Awake ==
    /\ sup = "sleep" /\ sup' = "load"
    /\ UNCHANGED <<routerVars, objectVars, keyVars, active, cur, loaded, fails, delay, status>>

\* Mutant: the stored key is not used.
LoadKey_Ignored ==
    /\ sup = "load" /\ sup' = "create" /\ loaded' = NoKey /\ trouble' = {}
    /\ UNCHANGED <<routerVars, objectVars, keyFile, active, cur, fails, delay, status>>

\* Identity::load: a key that cannot be read just now (a fault), or is not one,
\* means a transient destination for this attempt.
LoadKey ==
    /\ sup = "load" /\ sup' = "create"
    /\ \/ /\ loaded' = IF ~Ephemeral /\ keyFile \in Key THEN keyFile ELSE NoKey
          /\ trouble' = {} /\ UNCHANGED faults
       \/ /\ ~Ephemeral /\ keyFile \in Key
          /\ faults > 0 /\ faults' = faults - 1
          /\ loaded' = NoKey /\ trouble' = {"load"}
    /\ UNCHANGED <<routerUp, hosted, objectVars, keyFile, active, cur, fails, delay, status>>

\* The answer to SESSION CREATE for a destination the router still hosts (a
\* transient one is always new).
DuplicatedDest(k) == k # NoKey /\ \E s \in hosted : keyOf[s] = k

\* SamSession::connect: HELLO, SESSION CREATE, and the watchdog's thread.  One
\* free session object is as good as another.
Connect ==
    /\ sup = "create" /\ routerUp
    /\ \E s \in SessionId, k \in Key :
         /\ control[s] = "none" /\ s = CHOOSE t \in SessionId : control[t] = "none"
         /\ IF loaded = NoKey THEN k # keyFile ELSE k = loaded
         /\ ~DuplicatedDest(loaded)
         /\ control' = [control EXCEPT ![s] = "open"]
         /\ keyOf' = [keyOf EXCEPT ![s] = k]
         /\ refs' = [refs EXCEPT ![s] = {"supervisor"}]
         /\ hosted' = hosted \cup {s} /\ cur' = s
    /\ sup' = "forward"
    /\ UNCHANGED <<routerUp, faults, ended, stopping, woken, loaded, fails, delay, status,
                   keyVars, active>>

\* connect fails: no bridge, a destination still hosted, or (a fault) any of
\* the ways a bridge misbehaves, each of them bounded by a deadline.
ConnectFails ==
    /\ sup = "create"
    /\ \/ ~routerUp /\ UNCHANGED faults
       \/ routerUp /\ DuplicatedDest(loaded) /\ UNCHANGED faults
       \/ routerUp /\ faults > 0 /\ faults' = faults - 1
    /\ BackOff
    /\ UNCHANGED <<routerUp, hosted, objectVars, loaded, keyVars, active>>

\* SamListener::forward: the listener holds a reference of its own.
Forward ==
    /\ sup = "forward" /\ routerUp /\ cur \in hosted
    /\ sup' = "remember"
    /\ refs' = [refs EXCEPT ![cur] = @ \cup {"listener"}]
    /\ UNCHANGED <<routerVars, control, keyOf, ended, stopping, woken, cur, loaded, fails, delay,
                   status, keyVars, active>>

\* forward is refused: connect_session returns the error and drops the session.
ForwardFails ==
    /\ sup = "forward"
    /\ \/ (~routerUp \/ cur \notin hosted) /\ UNCHANGED faults
       \/ faults > 0 /\ faults' = faults - 1
    /\ Let(Without(cur, "supervisor"), control)
    /\ BackOff
    /\ UNCHANGED <<routerUp, hosted, keyOf, ended, stopping, woken, loaded, keyVars, active>>

\* Identity::remember, once the router has accepted the key: whatever else the
\* file holds is written over, unless (a fault) it cannot be read back now or
\* the new one cannot be written, which keeps it as it is.
Remember ==
    /\ sup = "remember" /\ sup' = "accept"
    /\ \/ /\ keyFile' = IF Ephemeral THEN keyFile ELSE keyOf[cur]
          /\ UNCHANGED <<trouble, faults>>
       \/ /\ ~Ephemeral /\ faults > 0 /\ faults' = faults - 1
          /\ trouble' = trouble \cup {"save"} /\ UNCHANGED keyFile
    /\ UNCHANGED <<routerUp, hosted, objectVars, active, cur, loaded, fails, delay, status>>

\* InboundDemux::try_run.  A thread that will not start drops the listener
\* with its closure, and the bring-up begins again.
StartAccept ==
    /\ sup = "accept"
    /\ \/ sup' = "attach" /\ UNCHANGED <<faults, objectVars, cur, status, fails, delay>>
       \/ /\ faults > 0 /\ faults' = faults - 1
          /\ Let([refs EXCEPT ![cur] = {}], control)
          /\ status' = "waiting-for-router" /\ sup' = "sleep" /\ cur' = NoSession
          /\ fails' = 0 /\ delay' = BaseDelay(1)
          /\ UNCHANGED <<keyOf, ended, stopping, woken>>
    /\ UNCHANGED <<routerUp, hosted, loaded, keyVars, active>>

\* Registry::attach_network, then Daemon.router.
Attach ==
    /\ sup = "attach" /\ sup' = "report"
    /\ refs' = [refs EXCEPT ![cur] = @ \cup {"registry"}]
    /\ UNCHANGED <<routerVars, control, keyOf, ended, stopping, woken, cur, loaded, fails, delay,
                   status, keyVars, active>>

Report ==
    /\ sup = "report" /\ sup' = "wait" /\ status' = "connected" /\ fails' = 0
    /\ UNCHANGED <<routerVars, objectVars, cur, loaded, delay, keyVars, active>>

\* wait_until_lost returns; what follows is the teardown, a step at a time.
Lost ==
    /\ sup = "wait" /\ cur \in ended
    /\ sup' = "stop" /\ status' = "waiting-for-router"
    /\ UNCHANGED <<routerVars, objectVars, cur, loaded, fails, delay, keyVars, active>>

StopDemux ==
    /\ sup = "stop" /\ sup' = "poke"
    /\ stopping' = stopping \cup {cur}
    /\ UNCHANGED <<routerVars, control, keyOf, ended, refs, woken, cur, loaded, fails, delay,
                   status, keyVars, active>>

Poke ==
    /\ sup = "poke" /\ sup' = "detach"
    /\ woken' = IF "listener" \in refs[cur] THEN woken \cup {cur} ELSE woken
    /\ UNCHANGED <<routerVars, control, keyOf, ended, refs, stopping, cur, loaded, fails, delay,
                   status, keyVars, active>>

\* detach_network, and the end of the loop body drops the supervisor's Arc.
Detach ==
    /\ sup = "detach" /\ sup' = "load" /\ cur' = NoSession
    /\ Let([refs EXCEPT ![cur] = @ \ {"registry", "supervisor"}], control)
    /\ UNCHANGED <<routerVars, keyOf, ended, stopping, woken, loaded, fails, delay, status,
                   keyVars, active>>

Supervise ==
    \/ Awake \/ LoadKey \/ Connect \/ ConnectFails \/ Forward \/ ForwardFails \/ Remember
    \/ StartAccept \/ Attach \/ Report \/ Lost \/ StopDemux \/ Poke \/ Detach

-----------------------------------------------------------------------------
\* The other threads on a session.

\* watch_control: an unhappy SESSION STATUS, the end of the connection (the
\* router's or our own), or a PONG nobody takes, ends the session's life.
Watch(s) ==
    /\ s \notin ended
    /\ \/ control[s] \in {"said", "closed", "dropped"} /\ UNCHANGED faults
       \/ control[s] = "open" /\ faults > 0 /\ faults' = faults - 1
    /\ ended' = ended \cup {s}
    /\ UNCHANGED <<routerUp, hosted, control, keyOf, refs, stopping, woken, supVars, keyVars, active>>

\* What the router answers a dial with when it no longer has the session.
InvalidId(s) == routerUp /\ s \notin hosted

\* Somebody dials through the session: the announce loop or the dial sweep of a
\* running torrent with anybody to call, or a thread that borrowed the dialer.
Dials(s) == ("registry" \in refs[s] /\ active) \/ "borrower" \in refs[s]

\* Mutant: INVALID_ID is taken for a peer's refusal.
DialRefused_PeerOnly(s) ==
    /\ Dials(s) /\ s \notin ended
    /\ InvalidId(s)
    /\ UNCHANGED sessionVars

\* SamSession::dial: INVALID_ID ends the session; every other answer is about
\* the peer and changes nothing here.
DialRefused(s) ==
    /\ Dials(s) /\ s \notin ended
    /\ InvalidId(s)
    /\ ended' = ended \cup {s}
    /\ UNCHANGED <<routerVars, control, keyOf, refs, stopping, woken, supVars, keyVars, active>>

\* The operator adds, starts, pauses or removes torrents, or the last peer to
\* call is gone: whether there is anybody to dial changes.
TorrentsChange ==
    /\ active' = ~active
    /\ UNCHANGED <<routerVars, objectVars, supVars, keyVars>>

\* The demux's accept loop wakes: it leaves if it was told to stop.
AcceptWakes(s) ==
    /\ s \in woken /\ "listener" \in refs[s]
    /\ woken' = woken \ {s}
    /\ IF s \in stopping THEN Let(Without(s, "listener"), control)
                         ELSE UNCHANGED <<refs, control>>
    /\ UNCHANGED <<routerVars, keyOf, ended, stopping, supVars, keyVars, active>>

\* accept fails in a way that is the listener's: the thread leaves, and ends
\* the session, since nobody would rebuild a listener on its own.
AcceptFails(s) ==
    /\ "listener" \in refs[s] /\ sup \notin {"forward", "remember", "accept"}
    /\ faults > 0 /\ faults' = faults - 1
    /\ ended' = ended \cup {s}
    /\ Let(Without(s, "listener"), control)
    /\ UNCHANGED <<routerUp, hosted, keyOf, stopping, woken, supVars, keyVars, active>>

\* A fetch or goodbye thread takes the dialer from the registry, and is done
\* with it when its timeouts say so.
Borrow(s) ==
    /\ "registry" \in refs[s] /\ "borrower" \notin refs[s]
    /\ refs' = [refs EXCEPT ![s] = @ \cup {"borrower"}]
    /\ UNCHANGED <<routerVars, control, keyOf, ended, stopping, woken, supVars, keyVars, active>>

GiveBack(s) ==
    /\ "borrower" \in refs[s]
    /\ Let(Without(s, "borrower"), control)
    /\ UNCHANGED <<routerVars, keyOf, ended, stopping, woken, supVars, keyVars, active>>

-----------------------------------------------------------------------------
\* The router (external) and the process.

RouterCrashes ==
    /\ routerUp /\ faults > 0 /\ faults' = faults - 1
    /\ routerUp' = FALSE /\ hosted' = {}
    /\ control' = [s \in SessionId |-> IF control[s] \in {"open", "said"} THEN "closed" ELSE control[s]]
    /\ UNCHANGED <<keyOf, ended, refs, stopping, woken, supVars, keyVars, active>>

RouterReturns ==
    /\ ~routerUp /\ routerUp' = TRUE
    /\ UNCHANGED <<hosted, faults, objectVars, supVars, keyVars, active>>

\* The router ends a session: with a SESSION STATUS, by hanging up, or not
\* saying anything and keeping the connection.
RouterEnds(s) ==
    /\ s \in hosted /\ control[s] = "open" /\ faults > 0 /\ faults' = faults - 1
    /\ hosted' = hosted \ {s}
    /\ \E how \in {"said", "closed", "open"} : control' = [control EXCEPT ![s] = how]
    /\ UNCHANGED <<routerUp, keyOf, ended, refs, stopping, woken, supVars, keyVars, active>>

\* A control connection the daemon closed: the router lets the session go, and
\* the object is no more.
RouterLetsGo(s) ==
    /\ control[s] = "dropped"
    /\ hosted' = hosted \ {s}
    /\ control' = [control EXCEPT ![s] = "none"] /\ keyOf' = [keyOf EXCEPT ![s] = NoKey]
    /\ ended' = ended \ {s} /\ stopping' = stopping \ {s} /\ woken' = woken \ {s}
    /\ UNCHANGED <<routerUp, faults, refs, supVars, keyVars, active>>

\* The process is killed and started again.
Restart ==
    /\ faults > 0 /\ faults' = faults - 1
    /\ control' = [s \in SessionId |-> IF control[s] = "none" THEN "none" ELSE "dropped"]
    /\ refs' = [s \in SessionId |-> {}]
    /\ sup' = "load"
    /\ cur' = NoSession /\ loaded' = NoKey /\ fails' = 0 /\ delay' = 0 /\ status' = "connecting"
    /\ trouble' = {}
    /\ UNCHANGED <<routerUp, hosted, keyOf, ended, stopping, woken, keyFile, active>>

SessionNext ==
    \/ Supervise \/ RouterCrashes \/ RouterReturns \/ Restart \/ TorrentsChange
    \/ \E s \in SessionId :
         \/ Watch(s) \/ DialRefused(s) \/ AcceptWakes(s) \/ AcceptFails(s) \/ Borrow(s)
         \/ GiveBack(s) \/ RouterEnds(s) \/ RouterLetsGo(s)

RegistryDials(s) == active /\ "registry" \in refs[s] /\ DialRefused(s)

\* Threads run; a router that is down comes back; a borrower's dials and reads
\* all have deadlines.  The registry dials again and again while there is
\* anybody to call (the announce loop never stops, see Announce); nothing is
\* promised of a daemon that is idle, nor of a borrower's next dial.
SessionFairness ==
    /\ WF_sessionVars(Supervise) /\ WF_sessionVars(RouterReturns)
    /\ \A s \in SessionId :
         /\ WF_sessionVars(Watch(s)) /\ WF_sessionVars(RegistryDials(s))
         /\ WF_sessionVars(AcceptWakes(s)) /\ WF_sessionVars(GiveBack(s))
         /\ WF_sessionVars(RouterLetsGo(s))

SessionSpec == SessionInit /\ [][SessionNext]_sessionVars
SessionFairSpec == SessionSpec /\ SessionFairness

-----------------------------------------------------------------------------
\* Nothing is left working on a session the supervisor has left behind: the
\* registry dials through the current one only, and an accept thread of
\* another session has been told to stop.
OneNetwork ==
    /\ \A s \in SessionId : "registry" \in refs[s] => s = cur
    /\ \A s \in SessionId : "listener" \in refs[s] /\ s # cur => s \in stopping
    /\ status = "connected" => cur \in SessionId /\ "registry" \in refs[cur]

\* The stored identity: a usable key on disk is written over only by a bring-up
\* that could not read it when it began, and the destination of a session in use
\* is the stored one unless saving it failed (load, remember).  The first
\* exception is the code's: `load` takes a read error for a missing key, and by
\* the time of `remember` the file reads again and is replaced.
IdentityKept ==
    /\ keyFile \in Key /\ keyFile' # keyFile => "load" \in trouble
    /\ ~Ephemeral /\ status' = "connected" /\ "save" \notin trouble' => keyOf'[cur'] = keyFile'

\* The wait between two attempts never gets shorter while they keep failing,
\* and never passes MaxDelay (base_delay's shift and saturation).
BackoffGrows ==
    fails' > fails => delay' >= BaseDelay(fails) /\ delay' <= MaxDelay /\ delay' > 0

\* Through every loss and every restart: one network at a time, one identity as
\* long as its file can be read, and a wait that grows (spawn_sam_supervisor,
\* load, remember, base_delay).
SessionKept == [][OneNetwork' /\ IdentityKept /\ BackoffGrows]_sessionVars

\* Whatever the router did, once it stops misbehaving the daemon is connected
\* for good: every loss it is told of is noticed, every old session is let go of,
\* and no retry runs into the session it replaces.  A session dropped without a
\* word is replaced too if there is, from some point on, anybody to dial; an idle
\* daemon may sit on it.
Reconnects ==
    /\ <>[](status = "connected" /\ control[cur] = "open")
    /\ <>[]active => <>[](status = "connected" /\ cur \in hosted)

=============================================================================
