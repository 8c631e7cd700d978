------------------------------ MODULE Registry ------------------------------
(***************************************************************************)
(* The life of one info-hash in the daemon: the registry                   *)
(* (cloved/src/registry.rs), the threads that drive it (cloved/src/main.rs) *)
(* and the files that outlive it (clove-core/src/resume.rs).               *)
(*                                                                         *)
(* API calls, the persist loop, the session supervisor, scans and metadata *)
(* fetches all go through one mutex.  `call` is what is left of the call   *)
(* that holds it: a sequence of steps, between which the engine (which     *)
(* does not take the registry's lock) may verify a piece and the machine   *)
(* may die.  Scans and fetches run unlocked and take the lock to report.   *)
(*                                                                         *)
(* A piece is on disk in one of two ways: readable (cache) or safe from a  *)
(* power cut as well (platter).  Stopping an engine joins no thread: its   *)
(* peers are gone, but an accept or a dial on its way in registers with it *)
(* afterwards, stays, and writes what the stopped engine lacked, beside    *)
(* the next scan or engine (stray, LateBlock).                             *)
(*                                                                         *)
(* The daemon has no shutdown path: stopping it is a crash.  Torrents meet *)
(* in the registry only through the peer budget and the check for equal    *)
(* names, so one is enough here.  Unlinked state files are taken to stay   *)
(* unlinked.                                                               *)
(***************************************************************************)
EXTENDS Naturals, Sequences, FiniteSets

CONSTANTS Piece,      \* pieces of the torrent
          Needed,     \* pieces of the files that are not skipped
          Found0,     \* what may be in the download directory beforehand
          Fetcher,    \* metadata-fetch threads: bounds how many may coexist
          Faults,     \* the operations that may fail
          Late,       \* pieces a connection may deliver to a stopped engine (a bound)
          PowerCuts   \* whether a crash may lose what was not synced

ASSUME RegistryAssumption ==
    /\ Needed \subseteq Piece
    /\ Found0 \subseteq SUBSET Piece /\ Late \subseteq Piece
    /\ Faults \subseteq {"sync", "write", "unlink", "scan", "start"}
    /\ PowerCuts \in BOOLEAN

VARIABLES
    up,           \* the daemon runs
    network,      \* Registry.network is set
    call,         \* steps left of the call that holds the registry lock
    hosted,       \* an entry in Registry.torrents; the fields below are its
    wanted,       \* Hosted.wanted
    scanning,     \* Hosted.scanning
    have,         \* Hosted.have
    verified,     \* Hosted.verified
    live,         \* Hosted.live
    engine,       \* what the live engine holds
    snap,         \* sync_storage's first reading of it
    job,          \* the scan running unlocked: "none", "hashing", "hashed"
    found,        \* what it found
    pending,      \* the entry in Registry.pending: "no", "new", "claimed"
    fetch,        \* per fetch thread: "off", "idle", "round" or "got"
    cache,        \* pieces a read would find good
    platter,      \* pieces that survive a power cut
    torrentFile,  \* state/<hash>.torrent exists
    magnetFile,   \* state/<hash>.magnet exists
    resumeFile,   \* state/<hash>.resume exists
    record,       \* its content
    asked,        \* the last acknowledged request for this hash was an add
    scanned,      \* pieces claimed on the word of a scan and not synced since
    stray,        \* pieces that engines since stopped lacked
    spoiled       \* pieces a connection to one of those wrote over, not synced good since

entryVars == <<hosted, wanted, scanning, have, verified>>
engineVars == <<live, engine, snap>>
scanVars == <<job, found>>
magnetVars == <<pending, fetch>>
dataVars == <<cache, platter, scanned, stray, spoiled>>
fileVars == <<torrentFile, magnetFile, resumeFile, record>>
vars == <<up, network, call, entryVars, engineVars, scanVars, magnetVars,
          dataVars, fileVars, asked>>

StepName ==
    {"refresh", "limits", "reconcile", "persist", "snapshot", "fsync", "take",
     "disconnect", "detach", "write", "publish", "add_torrent", "add_resume",
     "drop_magnet", "acknowledge", "unlink_torrent", "unlink_resume",
     "delete_data", "forget"}

Wanted == {"running", "operator", "ratio", "idle"}

Paused == wanted # "running"

Idle == up /\ call = <<>>

\* A thread takes the lock for a call of those steps.
Begin(steps) == Idle /\ call' = steps

\* The running call does its next step; what it adds comes first.
AtStep(s) == up /\ call # <<>> /\ Head(call) = s

Proceed(more) == call' = more \o Tail(call)

Abort == call' = <<>>

-----------------------------------------------------------------------------
(* The calls, as lists of steps *)

\* stop_live, past the check that there is an engine.
StopSteps == <<"snapshot", "fsync", "take", "disconnect">>

\* Mutant: the tick leaves what runs as it is.
PersistSteps_NoReconcile == <<"refresh", "limits", "persist">>

\* persist_progress.
PersistSteps == <<"refresh", "limits", "reconcile", "persist">>

PersistTick ==
    /\ Begin(PersistSteps)
    /\ UNCHANGED <<up, network, entryVars, engineVars, scanVars, magnetVars,
                   dataVars, fileVars, asked>>

\* list and detail refresh the snapshot first.
List ==
    /\ Begin(<<"refresh">>)
    /\ UNCHANGED <<up, network, entryVars, engineVars, scanVars, magnetVars,
                   dataVars, fileVars, asked>>

AttachNetwork ==
    /\ ~network
    /\ Begin(<<"reconcile">>)
    /\ network' = TRUE
    /\ UNCHANGED <<up, entryVars, engineVars, scanVars, magnetVars, dataVars,
                   fileVars, asked>>

DetachNetwork ==
    /\ network
    /\ Begin((IF live THEN StopSteps ELSE <<>>) \o <<"detach">> \o PersistSteps)
    /\ UNCHANGED <<up, network, entryVars, engineVars, scanVars, magnetVars,
                   dataVars, fileVars, asked>>

\* Mutant: the pause is recorded without its reason.
SetPaused_NoReason(paused) ==
    /\ hosted
    /\ paused \/ ~scanning
    /\ Begin(<<"reconcile", "write">>)
    /\ wanted' = IF paused THEN "paused" ELSE "running"
    /\ UNCHANGED <<up, network, hosted, scanning, have, verified, engineVars,
                   scanVars, magnetVars, dataVars, fileVars, asked>>

\* set_paused: a scan refuses a resume, never a pause.
SetPaused(paused) ==
    /\ hosted
    /\ paused \/ ~scanning
    /\ Begin(<<"reconcile", "write">>)
    /\ wanted' = IF paused THEN "operator" ELSE "running"
    /\ UNCHANGED <<up, network, hosted, scanning, have, verified, engineVars,
                   scanVars, magnetVars, dataVars, fileVars, asked>>

\* set_seed_ratio: a torrent stopped by its ratio may run again.
SetSeedRatio(met) ==
    /\ hosted
    /\ Begin(<<"reconcile", "write">>)
    /\ wanted' = IF wanted = "ratio" /\ ~met THEN "running" ELSE wanted
    /\ UNCHANGED <<up, network, hosted, scanning, have, verified, engineVars,
                   scanVars, magnetVars, dataVars, fileVars, asked>>

\* set_priorities and set_sequential write the record as it is in memory.
SetOption ==
    /\ hosted
    /\ Begin(<<"write">>)
    /\ UNCHANGED <<up, network, entryVars, engineVars, scanVars, magnetVars,
                   dataVars, fileVars, asked>>

\* add_torrent: refused for a torrent already hosted.
AddTorrent(paused) ==
    /\ ~hosted
    /\ Begin(<<"add_torrent", "add_resume", "acknowledge">>)
    /\ wanted' = IF paused THEN "operator" ELSE "running"
    /\ asked' = (asked /\ pending # "no")
    /\ UNCHANGED <<up, network, hosted, scanning, have, verified, engineVars,
                   scanVars, magnetVars, dataVars, fileVars>>

\* remove, a torrent: refused while it is scanned.
RemoveTorrent(deleteData) ==
    /\ pending = "no"
    /\ hosted
    /\ ~scanning
    /\ Begin((IF live THEN StopSteps ELSE <<>>)
             \o <<"unlink_torrent", "unlink_resume",
                  IF deleteData THEN "delete_data" ELSE "forget">>)
    /\ asked' = FALSE
    /\ UNCHANGED <<up, network, entryVars, engineVars, scanVars, magnetVars,
                   dataVars, fileVars>>

-----------------------------------------------------------------------------
(* The steps *)

Refresh ==
    /\ AtStep("refresh")
    /\ Proceed(<<>>)
    /\ have' = IF live THEN engine ELSE have
    /\ UNCHANGED <<up, network, hosted, wanted, scanning, verified, engineVars,
                   scanVars, magnetVars, dataVars, fileVars, asked>>

\* Mutant: the stop is not recorded.
SeedLimits_Unwritten(why) ==
    /\ AtStep("limits")
    /\ IF live /\ Needed \subseteq have /\ why # "running"
       THEN wanted' = why /\ Proceed(StopSteps)
       ELSE wanted' = wanted /\ Proceed(<<>>)
    /\ UNCHANGED <<up, network, hosted, scanning, have, verified, engineVars,
                   scanVars, magnetVars, dataVars, fileVars, asked>>

\* enforce_seed_limits: a complete torrent may have met its ratio, or have
\* been without peers for the idle limit.
SeedLimits(why) ==
    /\ AtStep("limits")
    /\ IF live /\ Needed \subseteq have /\ why # "running"
       THEN wanted' = why /\ Proceed(StopSteps \o <<"write">>)
       ELSE wanted' = wanted /\ Proceed(<<>>)
    /\ UNCHANGED <<up, network, hosted, scanning, have, verified, engineVars,
                   scanVars, magnetVars, dataVars, fileVars, asked>>

\* reconcile, and start_live where it starts something.
Reconcile ==
    /\ AtStep("reconcile")
    /\ \/ /\ network /\ hosted
          /\ Paused \/ scanning
          /\ Proceed(IF live THEN StopSteps ELSE <<>>)
          /\ UNCHANGED <<live, engine>>
       \/ /\ network /\ hosted
          /\ ~Paused /\ ~scanning /\ ~live
          /\ Proceed(<<>>)
          /\ live' = TRUE
          /\ engine' = have
       \/ /\ \/ ~network
             \/ ~hosted
             \/ ~Paused /\ ~scanning /\ (live \/ "start" \in Faults)
          /\ Proceed(<<>>)
          /\ UNCHANGED <<live, engine>>
    /\ UNCHANGED <<up, network, entryVars, snap, scanVars, magnetVars,
                   dataVars, fileVars, asked>>

\* The last loop of persist_progress: only a live torrent is synced and
\* recorded.
Persist ==
    /\ AtStep("persist")
    /\ Proceed(IF live THEN <<"snapshot", "fsync", "write">> ELSE <<>>)
    /\ UNCHANGED <<up, network, entryVars, engineVars, scanVars, magnetVars,
                   dataVars, fileVars, asked>>

\* sync_storage, first half: what the engine holds before the files are
\* synced is what the caller will be told is durable.
Snapshot ==
    /\ AtStep("snapshot")
    /\ Proceed(<<>>)
    /\ snap' = engine
    /\ UNCHANGED <<up, network, entryVars, live, engine, scanVars, magnetVars,
                   dataVars, fileVars, asked>>

\* Mutant: the error of the sync is ignored.
Fsync_IgnoresError ==
    /\ AtStep("fsync")
    /\ Proceed(<<>>)
    /\ \/ platter' = cache /\ scanned' = scanned \ cache /\ spoiled' = spoiled \ cache
       \/ UNCHANGED <<platter, scanned, spoiled>>
    /\ verified' = snap
    /\ snap' = {}
    /\ UNCHANGED <<up, network, hosted, wanted, scanning, have, live, engine,
                   scanVars, magnetVars, cache, stray, fileVars, asked>>

\* sync_storage, second half, and what its callers do with the answer: the
\* earlier set is durable now.  After an error part of it may be, and the
\* older claim stands.
Fsync ==
    /\ AtStep("fsync")
    /\ Proceed(<<>>)
    /\ \/ /\ platter' = cache
          /\ scanned' = scanned \ cache
          /\ spoiled' = spoiled \ cache
          /\ verified' = snap
       \/ /\ "sync" \in Faults
          /\ \E some \in SUBSET cache : platter' = platter \cup some
          /\ UNCHANGED <<scanned, spoiled, verified>>
    /\ snap' = {}
    /\ UNCHANGED <<up, network, hosted, wanted, scanning, have, live, engine,
                   scanVars, magnetVars, cache, stray, fileVars, asked>>

\* stop_live reads the piece set once more.
TakeHave ==
    /\ AtStep("take")
    /\ Proceed(<<>>)
    /\ have' = engine
    /\ UNCHANGED <<up, network, hosted, wanted, scanning, verified, engineVars,
                   scanVars, magnetVars, dataVars, fileVars, asked>>

\* stop_live, the rest: stop the swarm, disconnect every peer.  A block is
\* taken only from a registered peer, so these write nothing more; what the
\* engine lacked is left to the connections that register with it from here on.
Disconnect ==
    /\ AtStep("disconnect")
    /\ Proceed(<<>>)
    /\ live' = FALSE
    /\ engine' = {}
    /\ snap' = {}
    /\ stray' = stray \cup (Late \ engine)
    /\ UNCHANGED <<up, network, entryVars, scanVars, magnetVars, cache, platter,
                   scanned, spoiled, fileVars, asked>>

DropNetwork ==
    /\ AtStep("detach")
    /\ Proceed(<<>>)
    /\ network' = FALSE
    /\ UNCHANGED <<up, entryVars, engineVars, scanVars, magnetVars, dataVars,
                   fileVars, asked>>

\* write_resume_file of Hosted::resume.
WriteResume ==
    /\ AtStep("write")
    /\ Proceed(<<>>)
    /\ \/ /\ resumeFile' = TRUE
          /\ record' = [have |-> have, verified |-> verified, wanted |-> wanted]
       \/ /\ "write" \in Faults
          /\ UNCHANGED <<resumeFile, record>>
    /\ UNCHANGED <<up, network, entryVars, engineVars, scanVars, magnetVars,
                   dataVars, torrentFile, magnetFile, asked>>

\* finish_scan's write: an error returns before the reconcile.
PublishResume ==
    /\ AtStep("publish")
    /\ \/ /\ resumeFile' = TRUE
          /\ record' = [have |-> have, verified |-> verified, wanted |-> wanted]
          /\ Proceed(<<>>)
       \/ /\ "write" \in Faults
          /\ UNCHANGED <<resumeFile, record>>
          /\ Abort
    /\ UNCHANGED <<up, network, entryVars, engineVars, scanVars, magnetVars,
                   dataVars, torrentFile, magnetFile, asked>>

\* add_torrent: the .torrent first.
AddTorrentFile ==
    /\ AtStep("add_torrent")
    /\ \/ torrentFile' = TRUE /\ Proceed(<<>>)
       \/ "write" \in Faults /\ UNCHANGED torrentFile /\ Abort
    /\ UNCHANGED <<up, network, entryVars, engineVars, scanVars, magnetVars,
                   dataVars, magnetFile, resumeFile, record, asked>>

\* add_torrent: then the record of nothing held, and the entry, which waits
\* for its scan.  If the record cannot be written the .torrent goes again, if
\* the disk lets it.
AddResumeFile ==
    /\ AtStep("add_resume")
    /\ \/ /\ Proceed(<<>>)
          /\ resumeFile' = TRUE
          /\ record' = [have |-> {}, verified |-> {}, wanted |-> wanted]
          /\ hosted' = TRUE
          /\ scanning' = TRUE
          /\ have' = {}
          /\ verified' = {}
          /\ job' = "hashing"
          /\ UNCHANGED torrentFile
       \/ /\ "write" \in Faults
          /\ Abort
          /\ torrentFile' \in (IF "unlink" \in Faults THEN {TRUE, FALSE} ELSE {FALSE})
          /\ UNCHANGED <<hosted, scanning, have, verified, job, resumeFile, record>>
    /\ UNCHANGED <<up, network, wanted, engineVars, found, magnetVars, dataVars,
                   magnetFile, asked>>

\* Mutant: the magnet goes before the torrent is on disk.
CompleteMagnet_DropsFirst(f) ==
    /\ fetch[f] = "got"
    /\ Idle
    /\ ~hosted
    /\ call' = <<"add_torrent", "add_resume">>
    /\ wanted' = "running"
    /\ fetch' = [fetch EXCEPT ![f] = "off"]
    /\ pending' = "no"
    /\ magnetFile' = FALSE
    /\ UNCHANGED <<up, network, hosted, scanning, have, verified, engineVars,
                   scanVars, dataVars, torrentFile, resumeFile, record, asked>>

\* complete_magnet: add_torrent, and the magnet only then; a torrent that is
\* hosted already leaves the magnet as it is, with no thread to fetch it.
CompleteMagnet(f) ==
    /\ fetch[f] = "got"
    /\ Idle
    /\ fetch' = [fetch EXCEPT ![f] = "off"]
    /\ IF hosted
       THEN UNCHANGED <<call, wanted>>
       ELSE call' = <<"add_torrent", "add_resume", "drop_magnet">> /\ wanted' = "running"
    /\ UNCHANGED <<up, network, hosted, scanning, have, verified, engineVars,
                   scanVars, pending, dataVars, fileVars, asked>>

DropMagnet ==
    /\ AtStep("drop_magnet")
    /\ Proceed(<<>>)
    /\ pending' = "no"
    /\ magnetFile' \in (IF "unlink" \in Faults THEN {magnetFile, FALSE} ELSE {FALSE})
    /\ UNCHANGED <<up, network, entryVars, engineVars, scanVars, fetch, dataVars,
                   torrentFile, resumeFile, record, asked>>

\* The API answers 201: from here on the operator counts on it.
Acknowledge ==
    /\ AtStep("acknowledge")
    /\ Proceed(<<>>)
    /\ asked' = TRUE
    /\ UNCHANGED <<up, network, entryVars, engineVars, scanVars, magnetVars,
                   dataVars, fileVars>>

\* remove: the state files one after the other; a failure ends the call and
\* leaves the entry.
UnlinkTorrent ==
    /\ AtStep("unlink_torrent")
    /\ \/ torrentFile' = FALSE /\ Proceed(<<>>) /\ UNCHANGED asked
       \/ "unlink" \in Faults /\ Abort /\ asked' = TRUE /\ UNCHANGED torrentFile
    /\ UNCHANGED <<up, network, entryVars, engineVars, scanVars, magnetVars,
                   dataVars, magnetFile, resumeFile, record>>

UnlinkResume ==
    /\ AtStep("unlink_resume")
    /\ \/ resumeFile' = FALSE /\ Proceed(<<>>) /\ UNCHANGED asked
       \/ "unlink" \in Faults /\ Abort /\ asked' = TRUE /\ UNCHANGED resumeFile
    /\ UNCHANGED <<up, network, entryVars, engineVars, scanVars, magnetVars,
                   dataVars, torrentFile, magnetFile, record>>

\* The files go, as far as they can be unlinked, and then the entry.  The
\* reconcile at the end has nothing left to do for this hash.  (A file that was
\* unlinked is out of a late connection's reach; one that was not is not, and
\* the two are not told apart here.)
DeleteData ==
    /\ AtStep("delete_data")
    /\ Proceed(<<>>)
    /\ \E left \in SUBSET cache : cache' = left /\ platter' = platter \cap left
    /\ scanned' = {} /\ spoiled' = {}
    /\ hosted' = FALSE
    /\ have' = {}
    /\ verified' = {}
    /\ UNCHANGED <<up, network, wanted, scanning, engineVars, scanVars,
                   magnetVars, stray, fileVars, asked>>

Forget ==
    /\ AtStep("forget")
    /\ Proceed(<<>>)
    /\ hosted' = FALSE
    /\ have' = {}
    /\ verified' = {}
    /\ UNCHANGED <<up, network, wanted, scanning, engineVars, scanVars,
                   magnetVars, dataVars, fileVars, asked>>

-----------------------------------------------------------------------------
(* What runs without the registry lock *)

\* The engine verifies a piece: it is written, hashed and held (module Engine).
EnginePiece(i) ==
    /\ live
    /\ i \notin engine
    /\ engine' = engine \cup {i}
    /\ cache' = cache \cup {i}
    /\ UNCHANGED <<up, network, call, entryVars, live, snap, scanVars,
                   magnetVars, platter, scanned, stray, spoiled, fileVars, asked>>

\* A connection that registered with a stopped engine (finish_attach asks no
\* more whether it was stopped) delivers a piece that engine lacked: the right
\* bytes, or others, over whatever has been put or read there since.
LateBlock(i) ==
    /\ i \in stray
    /\ \/ /\ i \notin cache /\ cache' = cache \cup {i}
          /\ UNCHANGED <<platter, spoiled>>
       \/ /\ i \in cache /\ cache' = cache \ {i}
          /\ platter' = platter \ {i} /\ spoiled' = spoiled \cup {i}
    /\ UNCHANGED <<up, network, call, entryVars, engineVars, scanVars, magnetVars,
                   scanned, stray, fileVars, asked>>

\* Mutant: a running torrent may be verified.
BeginVerify_Live ==
    /\ hosted
    /\ ~scanning
    /\ Idle
    /\ scanning' = TRUE
    /\ job' = "hashing"
    /\ UNCHANGED <<up, network, call, hosted, wanted, have, verified,
                   engineVars, found, magnetVars, dataVars, fileVars, asked>>

\* begin_verify: refused for a torrent that runs or is scanned already.
BeginVerify ==
    /\ hosted
    /\ ~live
    /\ ~scanning
    /\ Idle
    /\ scanning' = TRUE
    /\ job' = "hashing"
    /\ UNCHANGED <<up, network, call, hosted, wanted, have, verified,
                   engineVars, found, magnetVars, dataVars, fileVars, asked>>

\* ScanJob::run: lay the files out and hash what can be read.
ScanRun ==
    /\ job = "hashing"
    /\ job' = "hashed"
    /\ found' = cache
    /\ UNCHANGED <<up, network, call, entryVars, engineVars, magnetVars,
                   dataVars, fileVars, asked>>

\* finish_scan with a result: both sets are what was read.
FinishScan ==
    /\ job = "hashed"
    /\ Begin(<<"publish", "reconcile">>)
    /\ job' = "none"
    /\ found' = {}
    /\ scanning' = FALSE
    /\ have' = found
    /\ verified' = found
    /\ scanned' = scanned \cup (found \ platter)
    /\ UNCHANGED <<up, network, hosted, wanted, engineVars, magnetVars, cache,
                   platter, stray, spoiled, fileVars, asked>>

\* finish_scan with an error, the thread that could not be started included:
\* the mark comes off and nothing else happens.
FailScan ==
    /\ "scan" \in Faults
    /\ job # "none"
    /\ Idle
    /\ job' = "none"
    /\ found' = {}
    /\ scanning' = FALSE
    /\ UNCHANGED <<up, network, call, hosted, wanted, have, verified,
                   engineVars, magnetVars, dataVars, fileVars, asked>>

\* add_magnet: refused for a torrent hosted or pending already.
AddMagnet ==
    /\ Idle
    /\ ~hosted
    /\ pending = "no"
    /\ pending' = "new"
    /\ magnetFile' = TRUE
    /\ asked' = TRUE
    /\ UNCHANGED <<up, network, call, entryVars, engineVars, scanVars, fetch,
                   dataVars, torrentFile, resumeFile, record>>

\* remove, a magnet: the file, then the entry.
RemoveMagnet ==
    /\ Idle
    /\ pending # "no"
    /\ pending' = "no"
    /\ magnetFile' = FALSE
    /\ asked' = FALSE
    /\ UNCHANGED <<up, network, call, entryVars, engineVars, scanVars, fetch,
                   dataVars, torrentFile, resumeFile, record>>

\* claim_fetch, then a thread for the entry.
SpawnFetch(f) ==
    /\ Idle
    /\ pending = "new"
    /\ fetch[f] = "off"
    /\ pending' = "claimed"
    /\ fetch' = [fetch EXCEPT ![f] = "idle"]
    /\ UNCHANGED <<up, network, call, entryVars, engineVars, scanVars, dataVars,
                   fileVars, asked>>

\* fetch_context: the thread ends with its entry and starts a round if there
\* is a network.
FetchRound(f) ==
    /\ Idle
    /\ fetch[f] = "idle"
    /\ pending = "no" \/ network
    /\ fetch' = [fetch EXCEPT ![f] = IF pending = "no" THEN "off" ELSE "round"]
    /\ UNCHANGED <<up, network, call, entryVars, engineVars, scanVars, pending,
                   dataVars, fileVars, asked>>

\* try_fetch_round ends, with the metadata or without.
FetchEnds(f) ==
    /\ fetch[f] = "round"
    /\ \E answer \in {"idle", "got"} : fetch' = [fetch EXCEPT ![f] = answer]
    /\ UNCHANGED <<up, network, call, entryVars, engineVars, scanVars, pending,
                   dataVars, fileVars, asked>>

-----------------------------------------------------------------------------
(* Crash and restart *)

\* The daemon dies: memory goes, and with a power cut any piece not synced.
Crash ==
    /\ up
    /\ up' = FALSE
    /\ network' = FALSE
    /\ call' = <<>>
    /\ hosted' = FALSE
    /\ wanted' = "running"
    /\ scanning' = FALSE
    /\ have' = {}
    /\ verified' = {}
    /\ live' = FALSE
    /\ engine' = {}
    /\ snap' = {}
    /\ job' = "none"
    /\ found' = {}
    /\ pending' = "no"
    /\ fetch' = [f \in Fetcher |-> "off"]
    /\ IF PowerCuts
       THEN \E lost \in SUBSET (cache \ platter) : cache' = cache \ lost
       ELSE cache' = cache
    /\ platter' = IF PowerCuts THEN cache' ELSE platter
    /\ stray' = {}
    /\ UNCHANGED <<scanned, spoiled, fileVars, asked>>

\* Resume::decode refuses a record whose verified set is not within have.
Decodes == record.verified \subseteq record.have

Loads == torrentFile /\ resumeFile /\ Decodes

\* Mutant: everything the record holds is published unread.
LoadAll_Have ==
    /\ ~up
    /\ up' = TRUE
    /\ IF Loads
       THEN /\ hosted' = TRUE
            /\ wanted' = record.wanted
            /\ have' = record.have
            /\ verified' = record.verified
            /\ scanning' = FALSE
            /\ UNCHANGED job
            /\ UNCHANGED pending
            /\ magnetFile' = FALSE
       ELSE /\ UNCHANGED <<entryVars, job, magnetFile>>
            /\ pending' = IF magnetFile THEN "new" ELSE "no"
    /\ UNCHANGED <<network, call, engineVars, found, fetch, dataVars,
                   torrentFile, resumeFile, record, asked>>

\* load_all: a torrent whose pair of files can be read comes back with its
\* verified pieces and is scanned if it claimed more; a magnet comes back
\* unless its torrent did.
LoadAll ==
    /\ ~up
    /\ up' = TRUE
    /\ IF Loads
       THEN /\ hosted' = TRUE
            /\ wanted' = record.wanted
            /\ have' = record.verified
            /\ verified' = record.verified
            /\ scanning' = (record.have # record.verified)
            /\ job' = IF scanning' THEN "hashing" ELSE "none"
            /\ UNCHANGED pending
            /\ magnetFile' \in (IF "unlink" \in Faults THEN {magnetFile, FALSE} ELSE {FALSE})
       ELSE /\ UNCHANGED <<entryVars, job, magnetFile>>
            /\ pending' = IF magnetFile THEN "new" ELSE "no"
    /\ UNCHANGED <<network, call, engineVars, found, fetch, dataVars,
                   torrentFile, resumeFile, record, asked>>

-----------------------------------------------------------------------------

\* An empty state directory, with or without data left in the download one.
Init ==
    /\ up = TRUE
    /\ network = FALSE
    /\ call = <<>>
    /\ hosted = FALSE
    /\ wanted = "running"
    /\ scanning = FALSE
    /\ have = {}
    /\ verified = {}
    /\ live = FALSE
    /\ engine = {}
    /\ snap = {}
    /\ job = "none"
    /\ found = {}
    /\ pending = "no"
    /\ fetch = [f \in Fetcher |-> "off"]
    /\ cache \in Found0
    /\ platter = cache
    /\ torrentFile = FALSE
    /\ magnetFile = FALSE
    /\ resumeFile = FALSE
    /\ record = [have |-> {}, verified |-> {}, wanted |-> "running"]
    /\ asked = FALSE
    /\ scanned = {} /\ stray = {} /\ spoiled = {}

\* The step the call holding the lock is at.
Step ==
    \/ Refresh \/ (\E why \in Wanted \ {"operator"} : SeedLimits(why))
    \/ Reconcile \/ Persist
    \/ Snapshot \/ Fsync \/ TakeHave \/ Disconnect \/ DropNetwork
    \/ WriteResume \/ PublishResume
    \/ AddTorrentFile \/ AddResumeFile \/ DropMagnet \/ Acknowledge
    \/ UnlinkTorrent \/ UnlinkResume \/ DeleteData \/ Forget

Operator ==
    \/ List \/ SetOption \/ BeginVerify \/ AddMagnet \/ RemoveMagnet
    \/ \E b \in BOOLEAN : \/ SetPaused(b) \/ SetSeedRatio(b)
                          \/ AddTorrent(b) \/ RemoveTorrent(b)

Next ==
    \/ Step
    \/ Operator
    \/ PersistTick
    \/ AttachNetwork \/ DetachNetwork
    \/ \E i \in Piece : EnginePiece(i) \/ LateBlock(i)
    \/ ScanRun \/ FinishScan \/ FailScan
    \/ \E f \in Fetcher : \/ CompleteMagnet(f) \/ SpawnFetch(f)
                          \/ FetchRound(f) \/ FetchEnds(f)
    \/ Crash
    \/ LoadAll

Spec == Init /\ [][Next]_vars

\* A thread that holds the lock goes on; a scan comes to its end; the persist
\* thread wakes for ever and, like a finished scan, gets the lock in the end;
\* the daemon is started again.
Fairness ==
    /\ WF_vars(Step)
    /\ WF_vars(ScanRun)
    /\ WF_vars(LoadAll)
    /\ SF_vars(PersistTick)
    /\ SF_vars(FinishScan \/ FailScan)

FairSpec == Spec /\ Fairness

-----------------------------------------------------------------------------
(* Properties *)

\* The state has its type.
TypeOK ==
    /\ up \in BOOLEAN /\ network \in BOOLEAN
    /\ call \in Seq(StepName)
    /\ hosted \in BOOLEAN /\ wanted \in Wanted /\ scanning \in BOOLEAN
    /\ have \in SUBSET Piece /\ verified \in SUBSET Piece
    /\ live \in BOOLEAN /\ engine \in SUBSET Piece
    /\ snap \in SUBSET Piece
    /\ job \in {"none", "hashing", "hashed"} /\ found \in SUBSET Piece
    /\ pending \in {"no", "new", "claimed"}
    /\ fetch \in [Fetcher -> {"off", "idle", "round", "got"}]
    /\ cache \in SUBSET Piece /\ platter \in SUBSET Piece
    /\ torrentFile \in BOOLEAN /\ magnetFile \in BOOLEAN /\ resumeFile \in BOOLEAN
    /\ record \in [have : SUBSET Piece, verified : SUBSET Piece, wanted : Wanted]
    /\ asked \in BOOLEAN
    /\ scanned \in SUBSET Piece /\ stray \in SUBSET Piece /\ spoiled \in SUBSET Piece

\* What a restart will believe unread has been synced, was read back by a scan,
\* or was written over since by a connection that outlived a stop: a piece
\* verified while the files are being synced, a sync that fails, or a crash at
\* any step never adds to it.
RecordBacked == resumeFile => record.verified \subseteq platter \cup scanned \cup spoiled

\* No false trust: a piece the registry publishes or the engine serves can be
\* read back good, through crashes and power cuts, but for what a scan had
\* claimed without a sync and what a connection that outlived a stop wrote over.
HeldIsReadable == have \cup engine \subseteq cache \cup scanned \cup spoiled

\* The registry sets no two of its own on the files: no engine it runs while
\* they are hashed, and the mark that keeps one from starting is there exactly
\* as long as a scan is (begin_verify, reconcile, finish_scan).  A connection
\* that outlived a stop writes beside either; what that costs is `spoiled`.
ScanAlone ==
    /\ job # "none" => ~live
    /\ up => (scanning <=> job # "none")

\* reconcile is enough: whenever the lock is free, what runs is hosted,
\* wanted, not being scanned and has a network to run on.
LiveIsWanted == Idle /\ live => hosted /\ network /\ ~Paused /\ ~scanning

\* Whether a torrent is paused, and why, survives any crash: the record
\* agrees with the entry whenever the lock is free.
WantedRecorded == Idle /\ hosted => record.wanted = wanted

\* What runs, what is wanted and what the record says agree whenever the lock
\* is free, whatever pauses, limits, crashes and session changes came before.
StateAgrees == LiveIsWanted /\ WantedRecorded

\* What was acknowledged is on disk: a torrent as its pair of files or as a
\* magnet, through failed adds, promotions and crashes between two files.
AcknowledgedOnDisk == asked => (torrentFile /\ resumeFile) \/ magnetFile

\* A torrent that should run does: if the session stays up and the operator
\* leaves it alone, it comes back from crashes, scans and failed scans.
TorrentRuns ==
    /\ <>[](up /\ network /\ hosted /\ ~Paused)
    /\ <>[][scanning' => scanning]_vars
    => <>[]live

\* What docs/STATE-FORMAT.md says of `verified`: "a subset of `have` by
\* construction", so that no record clove writes is refused on load.
RecordReadable == resumeFile => Decodes

\* What the comment on complete_magnet says: a pending magnet is promoted,
\* and (on remove) a fetch thread whose entry is gone exits.
PromotedWasPending == AtStep("drop_magnet") => pending # "no"
=============================================================================
