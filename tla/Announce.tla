------------------------------ MODULE Announce ------------------------------
(***************************************************************************)
(* The announce loop of one torrent (clove-core/src/swarm.rs, Announcer)   *)
(* and the schedule it keeps per tracker (AnnounceState in tracker.rs):    *)
(* which event an announce carries, when the next one is due, what a       *)
(* failure costs, and how finishing the download brings one forward.       *)
(*                                                                         *)
(* Time is the number of ticks until an announce is due.  An announce      *)
(* takes as long as it takes: `complete` is read when it is built and the  *)
(* answer is applied later, so the download may finish, or the user may    *)
(* ask for more files, in between.  Resolving, dialling and the exchange   *)
(* each end by their own timeout.                                          *)
(***************************************************************************)
EXTENDS Naturals, FiniteSets, FiniteSetsExt

CONSTANTS NumUrls,        \* announce URLs, tried in order
          Interval,       \* intervals trackers ask for
          MinInterval,    \* MIN_ANNOUNCE_INTERVAL, in ticks
          MaxInterval,    \* MAX_ANNOUNCE_INTERVAL
          FailBase,       \* the 30 s a first failure costs
          FailShift,      \* the 6 the shift is clamped at
          MaxFailWait,    \* AnnounceState.max_backoff
          MaxFailures     \* cap of the failure count, above FailShift

Url == 1 .. NumUrls

\* A torrent without announce URLs has no announcer (start_live).
ASSUME AnnounceAssumption ==
    /\ NumUrls \in Nat \ {0} /\ Interval \subseteq Nat
    /\ MinInterval \in Nat /\ MaxInterval \in Nat /\ MinInterval <= MaxInterval
    /\ FailBase \in Nat \ {0} /\ FailShift \in Nat
    /\ MaxFailWait \in Nat /\ FailBase <= MaxFailWait
    /\ MaxFailures \in Nat /\ FailShift < MaxFailures

VARIABLES
    finished,     \* torrent.is_complete()
    wasComplete,  \* the loop's memory of it
    wait,         \* ticks until next_due
    started,      \* AnnounceState.started
    completed,    \* AnnounceState.completed
    failures,     \* AnnounceState.failures
    at,           \* the loop: the URL it looks at, 0 while it sleeps
    sending,      \* the event being announced, "none" between two
    stop,         \* the stop flag
    quit,         \* the loop has returned
    snatches,     \* completed events each tracker acknowledged
    rested,       \* ticks since the last announce to each tracker, to a cap
    hurried       \* the trackers whose next announce finishing brought forward

scheduleVars == <<wait, started, completed, failures>>
announceVars == <<finished, wasComplete, scheduleVars, at, sending, stop, quit, snatches, rested, hurried>>

Longest == Max({MaxInterval, MaxFailWait})

AnnounceTypeOK ==
    /\ finished \in BOOLEAN /\ wasComplete \in BOOLEAN
    /\ wait \in [Url -> Nat]
    /\ started \in [Url -> BOOLEAN] /\ completed \in [Url -> BOOLEAN]
    /\ failures \in [Url -> 0 .. MaxFailures]
    /\ at \in 0 .. NumUrls
    /\ sending \in {"none", "started", "completed", "periodic"}
    /\ stop \in BOOLEAN /\ quit \in BOOLEAN
    /\ snatches \in [Url -> 0 .. 2]
    /\ rested \in [Url -> 0 .. Longest]
    /\ hurried \subseteq Url

\* announce_loop: a torrent complete from the start has nothing to report.
AnnounceInit ==
    /\ finished \in BOOLEAN
    /\ wasComplete = finished
    /\ wait = [u \in Url |-> 0]
    /\ started = [u \in Url |-> FALSE]
    /\ completed = [u \in Url |-> finished]
    /\ failures = [u \in Url |-> 0]
    /\ at = 0 /\ sending = "none"
    /\ stop = FALSE /\ quit = FALSE
    /\ snatches = [u \in Url |-> 0]
    /\ rested = [u \in Url |-> Longest]
    /\ hurried = {}

-----------------------------------------------------------------------------
\* completion_due: the trackers owed an announce on an event.
CompletionDue == {u \in Url : started[u] /\ ~completed[u]}

\* The top of the loop: notice that the download has finished since.
BeginRound ==
    /\ at = 0 /\ ~quit
    /\ at' = 1
    /\ LET now == IF finished /\ ~wasComplete THEN CompletionDue ELSE {}
       IN  /\ wait' = [u \in Url |-> IF u \in now THEN 0 ELSE wait[u]]
           /\ hurried' = hurried \cup now
    /\ wasComplete' = finished
    /\ UNCHANGED <<finished, started, completed, failures, sending, stop, quit, snatches, rested>>

NextEvent(u) ==
    IF ~started[u] THEN "started"
    ELSE IF finished /\ ~completed[u] THEN "completed" ELSE "periodic"

\* The next URL, or the pause after the last one.
Onward == at' = IF at = NumUrls THEN 0 ELSE at + 1

\* announce_once builds and sends the announce that is due.
Send ==
    /\ at # 0 /\ sending = "none" /\ ~stop
    /\ wait[at] = 0
    /\ sending' = NextEvent(at)
    /\ rested' = [rested EXCEPT ![at] = 0]
    /\ hurried' = hurried \ {at}
    /\ UNCHANGED <<finished, wasComplete, scheduleVars, at, stop, quit, snatches>>

NotDue ==
    /\ at # 0 /\ sending = "none" /\ ~stop
    /\ wait[at] > 0
    /\ Onward
    /\ UNCHANGED <<finished, wasComplete, scheduleVars, sending, stop, quit, snatches, rested, hurried>>

\* on_success_with_min: the larger of the tracker's two numbers, between our
\* floor and our ceiling.
NextWait(interval, floor) == Min({MaxInterval, Max({interval, floor, MinInterval})})

\* Mutant: whether we are complete is read again when the answer is in.
Succeed_Rereads(interval, floor) ==
    /\ sending # "none"
    /\ started' = [started EXCEPT ![at] = TRUE]
    /\ completed' = [completed EXCEPT ![at] = @ \/ finished]
    /\ failures' = [failures EXCEPT ![at] = 0]
    /\ wait' = [wait EXCEPT ![at] = NextWait(interval, floor)]
    /\ snatches' = [snatches EXCEPT ![at] = IF sending = "completed" THEN Min({2, @ + 1}) ELSE @]
    /\ sending' = "none"
    /\ Onward
    /\ UNCHANGED <<finished, wasComplete, stop, quit, rested, hurried>>

\* The tracker answered, with an interval and perhaps a minimum.
Succeed(interval, floor) ==
    /\ sending # "none"
    /\ started' = [started EXCEPT ![at] = TRUE]
    /\ completed' = [completed EXCEPT ![at] = @ \/ sending = "completed"]
    /\ failures' = [failures EXCEPT ![at] = 0]
    /\ wait' = [wait EXCEPT ![at] = NextWait(interval, floor)]
    /\ snatches' = [snatches EXCEPT ![at] = IF sending = "completed" THEN Min({2, @ + 1}) ELSE @]
    /\ sending' = "none"
    /\ Onward
    /\ UNCHANGED <<finished, wasComplete, stop, quit, rested, hurried>>

\* Mutant: a failure is tried again at once.
FailWait_None(n) == 0

\* on_failure: doubled each time, clamped twice.
FailWait(n) == Min({MaxFailWait, FailBase * 2 ^ Min({n - 1, FailShift})})

\* It did not resolve, could not be reached, fell silent or refused.
Fail ==
    /\ sending # "none"
    /\ failures' = [failures EXCEPT ![at] = Min({@ + 1, MaxFailures})]
    /\ wait' = [wait EXCEPT ![at] = FailWait(failures'[at])]
    /\ sending' = "none"
    /\ Onward
    /\ UNCHANGED <<finished, wasComplete, started, completed, stop, quit, snatches, rested, hurried>>

\* Time passes, whether the loop sleeps or waits for an answer.
AnnounceTick ==
    /\ wait' = [u \in Url |-> IF wait[u] = 0 THEN 0 ELSE wait[u] - 1]
    /\ rested' = [u \in Url |-> Min({Longest, rested[u] + 1})]
    /\ UNCHANGED <<finished, wasComplete, started, completed, failures, at, sending, stop, quit, snatches, hurried>>

\* The last wanted piece verifies; new priorities may ask for more.
DownloadFinishes ==
    /\ ~finished /\ finished' = TRUE
    /\ UNCHANGED <<wasComplete, scheduleVars, at, sending, stop, quit, snatches, rested, hurried>>

MoreWanted ==
    /\ finished /\ finished' = FALSE
    /\ UNCHANGED <<wasComplete, scheduleVars, at, sending, stop, quit, snatches, rested, hurried>>

RequestStop ==
    /\ ~stop /\ stop' = TRUE
    /\ UNCHANGED <<finished, wasComplete, scheduleVars, at, sending, quit, snatches, rested, hurried>>

\* The flag is looked at before every announce and ends the pause.
Quit ==
    /\ stop /\ ~quit /\ sending = "none"
    /\ quit' = TRUE
    /\ at' = 0
    /\ UNCHANGED <<finished, wasComplete, scheduleVars, sending, stop, snatches, rested, hurried>>

AnnounceNext ==
    \/ BeginRound \/ Send \/ NotDue \/ Fail \/ AnnounceTick
    \/ \E i \in Interval, f \in Interval : Succeed(i, f)
    \/ DownloadFinishes \/ MoreWanted \/ RequestStop \/ Quit

AnnounceSpec == AnnounceInit /\ [][AnnounceNext]_announceVars

\* The loop runs, time passes and every exchange ends one way or the other.  A
\* tracker that keeps answering is assumed where a property needs it.
LoopMust ==
    \/ BeginRound \/ Send \/ NotDue \/ Quit \/ Fail
    \/ \E i \in Interval, f \in Interval : Succeed(i, f)

AnnounceFairness == WF_announceVars(LoopMust) /\ WF_announceVars(AnnounceTick)

-----------------------------------------------------------------------------
(* Properties *)

\* A snatch is acknowledged at most once per tracker, and never by a torrent
\* that was complete when its announcer started.
SnatchOnce ==
    \A u \in Url : snatches[u] <= 1 /\ (snatches[u] = 1 => completed[u] /\ started[u])

\* A tracker is not hammered: two announces to it are MinInterval or the first
\* failure's wait apart, whatever it answers, except one for each time the
\* download finishes before a completion has been acknowledged.
Spaced ==
    \A u \in Url : at = u /\ sending = "none" /\ sending' # "none"
        => rested[u] >= Min({MinInterval, FailBase}) \/ (u \in hurried /\ ~completed[u])

\* No answer silences us: the next announce is never further off than the two
\* ceilings, and each tracker is heard from for as long as the loop runs.
NeverSilenced ==
    /\ \A u \in Url : []<>(stop \/ (at = u /\ sending # "none"))
    /\ [](\A u \in Url : wait[u] <= Longest)

\* Finishing is an event: if the torrent was not complete when the loop began,
\* has finished for good and the trackers answer from then on, every tracker
\* acknowledges a completion, also when the download finished while it was
\* being announced.
SnatchReported ==
    <>[](finished /\ ~stop) /\ <>[][~Fail]_announceVars
        => \A u \in Url : ~completed[u] => <>(snatches[u] = 1)

\* A stop ends the loop, whatever the trackers do.
StopEndsLoop == stop ~> quit

\* A tracker is treated well whatever it answers: neither hammered nor told of
\* one completion twice (AnnounceState, announce_once).
TrackerSpared == [][Spaced /\ SnatchOnce']_announceVars
=============================================================================
