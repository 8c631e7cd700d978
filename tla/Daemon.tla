------------------------------- MODULE Daemon -------------------------------
(***************************************************************************)
(* cloved as a process (cloved/src/main.rs, sandbox.rs, i2pnet/src/api.rs):*)
(* its start, a step at a time, against a second copy started on the same  *)
(* configuration and against being killed anywhere; then its control       *)
(* socket, one thread per connection out of MAX_API_HANDLERS slots.        *)
(*                                                                         *)
(* The data directory and the socket path are shared by every Process.     *)
(* What is at the socket path is nothing, something that is not a socket,  *)
(* the socket of a process that is gone, or that of a living one.  A token *)
(* is a value or one of the ways a token file can be bad.                  *)
(***************************************************************************)
EXTENDS Naturals, FiniteSets

CONSTANTS Process, Client,
          Token, NoToken,
          MaxHandlers,     \* MAX_API_HANDLERS
          SandboxRequired  \* clove.conf: sandbox require

ASSUME DaemonAssumption ==
    /\ IsFiniteSet(Process) /\ IsFiniteSet(Client) /\ IsFiniteSet(Token)
    /\ NoToken \notin Token
    /\ MaxHandlers \in Nat \ {0} /\ SandboxRequired \in BOOLEAN

VARIABLES
    at,         \* how far each process has come in run()
    flock,      \* the processes holding <data_dir>/lock, none or one
    tokenFile,  \* <data_dir>/token
    token,      \* Daemon.token of each process
    socket,     \* what is at api_socket
    confined,   \* the processes whose two mechanisms both applied
    conn,       \* each client's connection to the serving process
    request,    \* what it sends
    active      \* the handler count

fileVars == <<flock, tokenFile, socket>>
apiVars == <<conn, request, active>>
daemonVars == <<at, token, confined, fileVars, apiVars>>

Steps == {"off", "dir", "lock", "token", "newtoken", "check", "probe", "unlink", "bind", "confine",
          "threads", "serve"}
BadToken == {"torn", "exposed"}

DaemonTypeOK ==
    /\ at \in [Process -> Steps] /\ flock \subseteq Process
    /\ tokenFile \in Token \cup BadToken \cup {NoToken}
    /\ token \in [Process -> Token \cup {NoToken}]
    /\ socket \in Process \cup {"none", "other", "stale"}
    /\ confined \subseteq Process
    /\ conn \in [Client -> {"idle", "backlog", "reading", "routing", "writing"}]
    /\ request \in [Client -> {"none", "silent", "garbage", "stranger", "good"}]
    /\ active \in 0 .. Cardinality(Client)

DaemonInit ==
    /\ at = [p \in Process |-> "off"] /\ flock = {}
    /\ tokenFile \in Token \cup BadToken \cup {NoToken}
    /\ token = [p \in Process |-> NoToken]
    /\ socket \in {"none", "other", "stale"} /\ confined = {}
    /\ conn = [c \in Client |-> "idle"] /\ request = [c \in Client |-> "none"]
    /\ active = 0

Serving == {p \in Process : at[p] = "serve"}

-----------------------------------------------------------------------------
\* run(), from the command line to the accept loop.

Go(p, from, to) == at[p] = from /\ at' = [at EXCEPT ![p] = to]

\* The process is gone, by an error it prints, by `-C`, or by SIGKILL: its
\* lock and its connections go with it, its socket file stays.
Gone(p) ==
    /\ at' = [at EXCEPT ![p] = "off"]
    /\ flock' = flock \ {p}
    /\ socket' = IF socket = p THEN "stale" ELSE socket
    /\ token' = [token EXCEPT ![p] = NoToken]
    /\ confined' = confined \ {p}
    /\ IF at[p] = "serve"
       THEN conn' = [c \in Client |-> "idle"] /\ request' = [c \in Client |-> "none"] /\ active' = 0
       ELSE UNCHANGED apiVars
    /\ UNCHANGED tokenFile

Start(p) == Go(p, "off", "dir") /\ UNCHANGED <<token, confined, fileVars, apiVars>>

\* A step that fails ends the process; so does a kill, whatever it was doing.
Dies(p) == at[p] # "off" /\ Gone(p)

PrepareDataDir(p) == Go(p, "dir", "lock") /\ UNCHANGED <<token, confined, fileVars, apiVars>>

\* Mutant: the lock is asked for, and the answer ignored.
LockInstance_Ignored(p) ==
    /\ Go(p, "lock", "token") /\ flock' = flock \cup {p}
    /\ UNCHANGED <<token, confined, tokenFile, socket, apiVars>>

\* lock_instance: the flock is tried, not waited for.
LockInstance(p) ==
    /\ at[p] = "lock"
    /\ IF flock = {} THEN /\ Go(p, "lock", "token") /\ flock' = {p}
                          /\ UNCHANGED <<token, confined, tokenFile, socket, apiVars>>
                     ELSE Gone(p)

\* load_or_create_token through read_private_file: one that is not private is
\* fatal, one that is malformed or missing is replaced.
LoadToken(p) ==
    /\ at[p] = "token"
    /\ \/ /\ tokenFile \in Token /\ Go(p, "token", "check")
          /\ token' = [token EXCEPT ![p] = tokenFile]
          /\ UNCHANGED <<confined, fileVars, apiVars>>
       \/ /\ tokenFile \in {"torn", NoToken} /\ Go(p, "token", "newtoken")
          /\ UNCHANGED <<token, confined, fileVars, apiVars>>
       \/ tokenFile = "exposed" /\ Gone(p)

\* write_new_token: a temporary file, and a rename that is the step others see.
NewToken(p) ==
    /\ Go(p, "newtoken", "check")
    /\ \E t \in Token : tokenFile' = t /\ token' = [token EXCEPT ![p] = t]
    /\ UNCHANGED <<confined, flock, socket, apiVars>>

\* Identity::check and Registry::open, either of which may refuse (Dies).
CheckState(p) == Go(p, "check", "probe") /\ UNCHANGED <<token, confined, fileVars, apiVars>>

\* clear_stale_socket: look, and knock.
ProbeSocket(p) ==
    /\ at[p] = "probe"
    /\ IF socket \in Process \cup {"other"} THEN Gone(p)
       ELSE /\ Go(p, "probe", IF socket = "none" THEN "bind" ELSE "unlink")
            /\ UNCHANGED <<token, confined, fileVars, apiVars>>

\* remove_file takes the path, whatever is there by now.
UnlinkSocket(p) ==
    /\ Go(p, "unlink", "bind") /\ socket' = "none"
    /\ UNCHANGED <<token, confined, flock, tokenFile, apiVars>>

BindSocket(p) ==
    /\ at[p] = "bind"
    /\ IF socket # "none" THEN Gone(p)
       ELSE /\ Go(p, "bind", "confine") /\ socket' = p
            /\ UNCHANGED <<token, confined, flock, tokenFile, apiVars>>

\* enter_post_init and honour_sandbox_policy, before any thread exists.
Confine(p) ==
    /\ at[p] = "confine"
    /\ \E landlock \in BOOLEAN, seccomp \in BOOLEAN :
         IF SandboxRequired /\ ~(landlock /\ seccomp) THEN Gone(p)
         ELSE /\ Go(p, "confine", "threads")
              /\ confined' = IF landlock /\ seccomp THEN confined \cup {p} ELSE confined
              /\ UNCHANGED <<token, fileVars, apiVars>>

\* The persist thread must start; the others are as many as there are torrents.
SpawnThreads(p) == Go(p, "threads", "serve") /\ UNCHANGED <<token, confined, fileVars, apiVars>>

\* Between two runs the token file may be lost, torn or exposed (a restored
\* backup), and the socket's leftover may be cleaned away.
Meddle ==
    /\ \A p \in Process : at[p] = "off"
    /\ tokenFile' \in BadToken \cup {NoToken, tokenFile}
    /\ socket' \in {"none", socket}
    /\ UNCHANGED <<at, flock, token, confined, apiVars>>

-----------------------------------------------------------------------------
\* serve(): the connections of the process that serves.

\* connect_unix: a client gets through to whoever is listening at the path.
Connect(c) ==
    /\ conn[c] = "idle" /\ socket \in Serving
    /\ conn' = [conn EXCEPT ![c] = "backlog"]
    /\ \E r \in {"silent", "garbage", "stranger", "good"} : request' = [request EXCEPT ![c] = r]
    /\ UNCHANGED <<at, token, confined, fileVars, active>>

Hangup(c) ==
    /\ conn' = [conn EXCEPT ![c] = "idle"] /\ request' = [request EXCEPT ![c] = "none"]

\* HandlerSlot::claim
MayClaim == active < MaxHandlers

\* accept and dispatch.  A full house is answered 503 inline; a socket that
\* takes no timeout, or a thread that does not start, costs this connection and
\* gives back what it held; a transient accept error costs nothing.
Dispatch(c) ==
    /\ conn[c] = "backlog" /\ Serving # {}
    /\ \/ /\ MayClaim /\ active' = active + 1
          /\ conn' = [conn EXCEPT ![c] = "reading"] /\ UNCHANGED request
       \/ Hangup(c) /\ UNCHANGED active
    /\ UNCHANGED <<at, token, confined, fileVars>>

\* handle: what cannot be read is answered 400, a wrong token 401; the rest is
\* routed.  A client that says nothing runs into API_IO_TIMEOUT.
ReadRequest(c) ==
    /\ conn[c] = "reading" /\ request[c] # "silent"
    /\ conn' = [conn EXCEPT ![c] = IF request[c] = "good" THEN "routing" ELSE "writing"]
    /\ UNCHANGED <<at, token, confined, fileVars, request, active>>

RouteRequest(c) ==
    /\ conn[c] = "routing"
    /\ conn' = [conn EXCEPT ![c] = "writing"]
    /\ UNCHANGED <<at, token, confined, fileVars, request, active>>

\* Mutant: without API_IO_TIMEOUT.
HandlerEnds_Patient(c) ==
    /\ conn[c] = "writing" \/ (conn[c] = "reading" /\ request[c] # "silent")
    /\ Hangup(c) /\ active' = active - 1
    /\ UNCHANGED <<at, token, confined, fileVars>>

\* The response is written, or the connection fails; the slot goes back either
\* way (Drop for HandlerSlot).
HandlerEnds(c) ==
    /\ conn[c] \in {"reading", "writing"}
    /\ Hangup(c) /\ active' = active - 1
    /\ UNCHANGED <<at, token, confined, fileVars>>

-----------------------------------------------------------------------------
Run(p) ==
    \/ PrepareDataDir(p) \/ LockInstance(p) \/ LoadToken(p) \/ NewToken(p) \/ CheckState(p)
    \/ ProbeSocket(p) \/ UnlinkSocket(p) \/ BindSocket(p) \/ Confine(p) \/ SpawnThreads(p)

Handle(c) == ReadRequest(c) \/ RouteRequest(c) \/ HandlerEnds(c)

DaemonNext ==
    \/ Meddle
    \/ \E p \in Process : Start(p) \/ Dies(p) \/ Run(p)
    \/ \E c \in Client : Connect(c) \/ Dispatch(c) \/ Handle(c)

\* The accept loop and the handler threads run; every read and write on a
\* connection has a timeout.
DaemonFairness == \A c \in Client : WF_daemonVars(Dispatch(c)) /\ WF_daemonVars(Handle(c))

DaemonSpec == DaemonInit /\ [][DaemonNext]_daemonVars

-----------------------------------------------------------------------------
\* A daemon that serves can be reached and spoken to: the socket path leads to
\* it and the token on disk is the one it compares with, however many others
\* were started beside it or killed before it (bind_unix, lock_instance,
\* load_or_create_token).
Reachable == \A p \in Serving : socket = p /\ token[p] = tokenFile

\* A connection is answered or dropped; no client waits for ever on a full
\* table or a silent neighbour (dispatch, API_IO_TIMEOUT).
Answered == \A c \in Client : conn[c] = "backlog" ~> conn[c] = "idle"

\* Every slot of the handler table is held by one open connection and there are
\* never more than MaxHandlers, on every path into and out of a handler (claim,
\* dispatch, Drop for HandlerSlot).
Handling == {c \in Client : conn[c] \in {"reading", "routing", "writing"}}
HandlersExact == active = Cardinality(Handling) /\ active <= MaxHandlers

\* One daemon, in its place, with its books in order, however many are started
\* and killed and whatever clients do (run, serve, dispatch).
DaemonSafe == DaemonTypeOK /\ Reachable /\ HandlersExact
=============================================================================
