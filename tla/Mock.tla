-------------------------------- MODULE Mock --------------------------------
(***************************************************************************)
(* The in-memory network every engine test runs on (i2pnet/src/mock.rs):   *)
(* one direction of a stream, a bounded queue with two condition           *)
(* variables, and how endpoints dial each other, accept and are killed.    *)
(*                                                                         *)
(* A thread in read or write is running (it holds the lock for one turn of *)
(* its loop) or asleep on its condition variable; it never wakes of its    *)
(* own accord here.  Bytes are numbered as they are written.  A dial and a *)
(* kill are modelled lock by lock.                                         *)
(***************************************************************************)
EXTENDS Naturals, Sequences, FiniteSets, FiniteSetsExt

CONSTANTS Capacity,       \* PipeState.capacity
          MaxBytes,       \* bytes written in all (a bound)
          Endpoint,       \* sessions on the network
          DialId,         \* dials that are made
          Nowhere,        \* no endpoint
          Backlog         \* ACCEPT_BACKLOG

ASSUME MockAssumption ==
    /\ Capacity \in Nat \ {0} /\ MaxBytes \in Nat /\ Backlog \in Nat
    /\ IsFiniteSet(Endpoint) /\ IsFiniteSet(DialId) /\ Nowhere \notin Endpoint

VARIABLES
    buf, written, handed,   \* the queue; bytes accepted; bytes handed out, in order
    shut, stalled,          \* PipeState.closed and stalled
    reader, writer,         \* "idle", "running" or "asleep"
    patience,               \* may the two wait for ever? ("none" or "bounded")
    closing,                \* the thread in Pipe::close
    dead,                   \* endpoints whose session was killed
    present,                \* endpoints in NetInner.endpoints
    hole,                   \* black-holed endpoints
    pipes,                  \* EndpointShared.pipes of each, as dials
    accepting,              \* the accept queue of each
    dial, caller, callee,   \* where each dial is, whose it is, and to whom
    broken,                 \* the dials whose stream was closed
    killing,                \* where each endpoint's kill_session is
    doomed                  \* the dials its kill found open, or that came after it

pipeVars == <<buf, written, handed, shut, stalled, reader, writer, patience, closing>>
netVars == <<dead, present, hole, pipes, accepting, dial, caller, callee, broken, killing, doomed>>
mockVars == <<pipeVars, netVars>>

MockTypeOK ==
    /\ buf \in Seq(1 .. MaxBytes) /\ written \in 0 .. MaxBytes /\ handed \in Seq(1 .. MaxBytes)
    /\ shut \in BOOLEAN /\ stalled \in BOOLEAN
    /\ reader \in {"idle", "running", "asleep"} /\ writer \in {"idle", "running", "asleep"}
    /\ patience \in {"none", "bounded"} /\ closing \in {"no", "readers", "writers", "done"}
    /\ dead \subseteq Endpoint /\ present \subseteq Endpoint /\ hole \subseteq Endpoint
    /\ pipes \in [Endpoint -> SUBSET DialId] /\ accepting \in [Endpoint -> Seq(DialId)]
    /\ \A e \in Endpoint : Len(accepting[e]) <= Backlog
    /\ dial \in [DialId -> {"no", "begun", "found", "paired", "known", "open", "failed"}]
    /\ caller \in [DialId -> Endpoint \cup {Nowhere}] /\ callee \in [DialId -> Endpoint \cup {Nowhere}]
    /\ broken \subseteq DialId
    /\ killing \in [Endpoint -> {"no", "marked", "removed", "done"}]
    /\ doomed \in [Endpoint -> SUBSET DialId]

MockInit ==
    /\ buf = <<>> /\ written = 0 /\ handed = <<>> /\ shut = FALSE /\ stalled = FALSE
    /\ reader = "idle" /\ writer = "idle" /\ patience \in {"none", "bounded"} /\ closing = "no"
    /\ dead = {} /\ present = Endpoint /\ hole = {}
    /\ pipes = [e \in Endpoint |-> {}] /\ accepting = [e \in Endpoint |-> <<>>]
    /\ dial = [d \in DialId |-> "no"] /\ broken = {}
    /\ caller = [d \in DialId |-> Nowhere] /\ callee = [d \in DialId |-> Nowhere]
    /\ killing = [e \in Endpoint |-> "no"] /\ doomed = [e \in Endpoint |-> {}]

-----------------------------------------------------------------------------
(* Pipe *)

\* Condvar::notify_all, for the one thread that may sleep on it.
Notified(thread) == IF thread = "asleep" THEN "running" ELSE thread

StartRead ==
    /\ reader = "idle" /\ reader' = "running"
    /\ UNCHANGED <<buf, written, handed, shut, stalled, writer, patience, closing, netVars>>

StartWrite ==
    /\ writer = "idle" /\ written < MaxBytes /\ writer' = "running"
    /\ UNCHANGED <<buf, written, handed, shut, stalled, reader, patience, closing, netVars>>

\* Mutant: a read that made room wakes nobody.
ReadSome_Silent(n) ==
    /\ reader = "running" /\ ~stalled /\ n \in 1 .. Len(buf)
    /\ handed' = handed \o SubSeq(buf, 1, n) /\ buf' = SubSeq(buf, n + 1, Len(buf))
    /\ reader' = "idle"
    /\ UNCHANGED <<written, shut, stalled, writer, patience, closing, netVars>>

\* read: what is buffered first, even after close.
ReadSome(n) ==
    /\ reader = "running" /\ ~stalled /\ n \in 1 .. Len(buf)
    /\ handed' = handed \o SubSeq(buf, 1, n) /\ buf' = SubSeq(buf, n + 1, Len(buf))
    /\ reader' = "idle" /\ writer' = Notified(writer)
    /\ UNCHANGED <<written, shut, stalled, patience, closing, netVars>>

ReadBlocked == ~shut /\ (stalled \/ buf = <<>>)

\* The end of the stream; a stalled one ends without what it buffers.
ReadEnds ==
    /\ reader = "running" /\ shut /\ (stalled \/ buf = <<>>)
    /\ reader' = "idle"
    /\ UNCHANGED <<buf, written, handed, shut, stalled, writer, patience, closing, netVars>>

ReadWaits ==
    /\ reader = "running" /\ ReadBlocked /\ reader' = "asleep"
    /\ UNCHANGED <<buf, written, handed, shut, stalled, writer, patience, closing, netVars>>

\* write: as much as there is room for.
WriteSome(n) ==
    /\ writer = "running" /\ ~shut /\ Len(buf) < Capacity /\ written + n <= MaxBytes
    /\ LET room == Min({n, Capacity - Len(buf)})
       IN  buf' = buf \o [k \in 1 .. room |-> written + k] /\ written' = written + room
    /\ writer' = "idle" /\ reader' = Notified(reader)
    /\ UNCHANGED <<handed, shut, stalled, patience, closing, netVars>>

WriteBreaks ==
    /\ writer = "running" /\ shut /\ writer' = "idle"
    /\ UNCHANGED <<buf, written, handed, shut, stalled, reader, patience, closing, netVars>>

WriteWaits ==
    /\ writer = "running" /\ ~shut /\ Len(buf) >= Capacity /\ writer' = "asleep"
    /\ UNCHANGED <<buf, written, handed, shut, stalled, reader, patience, closing, netVars>>

\* A bounded wait ends, and its read or write with WouldBlock.
WaitTimesOut ==
    /\ patience = "bounded"
    /\ \/ reader = "asleep" /\ reader' = "idle" /\ UNCHANGED writer
       \/ writer = "asleep" /\ writer' = "idle" /\ UNCHANGED reader
    /\ UNCHANGED <<buf, written, handed, shut, stalled, patience, closing, netVars>>

\* set_stalled: the flag, then (the lock released) the readers.  Nobody else
\* can fall asleep on what it changed in between.
SetStalled(on) ==
    /\ stalled # on /\ stalled' = on
    /\ reader' = Notified(reader)
    /\ UNCHANGED <<buf, written, handed, shut, writer, patience, closing, netVars>>

\* close: the flag, the readers, the writers.
ClosePipe ==
    /\ closing = "no" /\ closing' = "readers" /\ shut' = TRUE
    /\ UNCHANGED <<buf, written, handed, stalled, reader, writer, patience, netVars>>

WakeReaders ==
    /\ closing = "readers" /\ closing' = "writers" /\ reader' = Notified(reader)
    /\ UNCHANGED <<buf, written, handed, shut, stalled, writer, patience, netVars>>

WakeWriters ==
    /\ closing = "writers" /\ closing' = "done" /\ writer' = Notified(writer)
    /\ UNCHANGED <<buf, written, handed, shut, stalled, reader, patience, netVars>>

ReaderMust == (\E n \in 1 .. Capacity : ReadSome(n)) \/ ReadEnds \/ ReadWaits
WriterMust == (\E n \in 1 .. Capacity : WriteSome(n)) \/ WriteBreaks \/ WriteWaits
CloserMust == WakeReaders \/ WakeWriters

PipeNext ==
    \/ ReaderMust \/ WriterMust \/ CloserMust \/ StartRead \/ StartWrite \/ WaitTimesOut \/ ClosePipe
    \/ \E on \in BOOLEAN : SetStalled(on)

-----------------------------------------------------------------------------
(* Endpoints *)

To(d, next) == dial' = [dial EXCEPT ![d] = next]

\* dial_from: refused at once by a session that is down.  (One that dials itself
\* is left out.)
BeginDial(d, dialler, target) ==
    /\ dial[d] = "no" /\ dialler # target
    /\ caller' = [caller EXCEPT ![d] = dialler] /\ callee' = [callee EXCEPT ![d] = target]
    /\ To(d, IF dialler \in dead THEN "failed" ELSE "begun")
    /\ doomed' = [e \in Endpoint |-> IF killing[e] \in {"removed", "done"} /\ e \in {dialler, target}
                                     THEN doomed[e] \cup {d} ELSE doomed[e]]
    /\ UNCHANGED <<pipeVars, dead, present, hole, pipes, accepting, broken, killing>>

\* The registration is looked up and its sender cloned; a black hole costs the
\* timeout and fails.
FindCallee(d) ==
    /\ dial[d] = "begun"
    /\ To(d, IF callee[d] \in present \ hole THEN "found" ELSE "failed")
    /\ UNCHANGED <<pipeVars, dead, present, hole, pipes, accepting, caller, callee, broken, killing, doomed>>

\* The new pipes are noted with the caller, then with the callee.
NoteCaller(d) ==
    /\ dial[d] = "found" /\ To(d, "paired")
    /\ pipes' = [pipes EXCEPT ![caller[d]] = @ \cup {d}]
    /\ UNCHANGED <<pipeVars, dead, present, hole, accepting, caller, callee, broken, killing, doomed>>

NoteCallee(d) ==
    /\ dial[d] = "paired" /\ To(d, "known")
    /\ pipes' = [pipes EXCEPT ![callee[d]] = @ \cup {d}]
    /\ UNCHANGED <<pipeVars, dead, present, hole, accepting, caller, callee, broken, killing, doomed>>

\* try_send: a full queue refuses, and the pair is dropped.
Deliver(d) ==
    /\ dial[d] = "known"
    /\ IF Len(accepting[callee[d]]) < Backlog
       THEN /\ To(d, "open") /\ accepting' = [accepting EXCEPT ![callee[d]] = Append(@, d)]
            /\ UNCHANGED broken
       ELSE To(d, "failed") /\ broken' = broken \cup {d} /\ UNCHANGED accepting
    /\ UNCHANGED <<pipeVars, dead, present, hole, pipes, caller, callee, killing, doomed>>

\* accept: what is queued comes first, even after a kill.
AcceptNext(e) ==
    /\ accepting[e] # <<>> /\ accepting' = [accepting EXCEPT ![e] = Tail(@)]
    /\ UNCHANGED <<pipeVars, dead, present, hole, pipes, dial, caller, callee, broken, killing, doomed>>

SetBlackHole(e, on) ==
    /\ hole' = IF on THEN hole \cup {e} ELSE hole \ {e}
    /\ UNCHANGED <<pipeVars, dead, present, pipes, accepting, dial, caller, callee, broken, killing, doomed>>

\* kill_session, one lock after the other.
MarkDead(e) ==
    /\ killing[e] = "no" /\ killing' = [killing EXCEPT ![e] = "marked"]
    /\ dead' = dead \cup {e}
    /\ doomed' = [doomed EXCEPT ![e] = {d \in DialId : dial[d] \in {"known", "open"} /\ e \in {caller[d], callee[d]}}]
    /\ UNCHANGED <<pipeVars, present, hole, pipes, accepting, dial, caller, callee, broken>>

Unlist(e) ==
    /\ killing[e] = "marked" /\ killing' = [killing EXCEPT ![e] = "removed"]
    /\ present' = present \ {e}
    /\ UNCHANGED <<pipeVars, dead, hole, pipes, accepting, dial, caller, callee, broken, doomed>>

\* Mutant: the pipes of the streams it accepted are left alone.
Collapse_Dialled(e) ==
    /\ killing[e] = "removed" /\ killing' = [killing EXCEPT ![e] = "done"]
    /\ broken' = broken \cup {d \in pipes[e] : caller[d] = e}
    /\ pipes' = [pipes EXCEPT ![e] = {}]
    /\ UNCHANGED <<pipeVars, dead, present, hole, accepting, dial, caller, callee, doomed>>

Collapse(e) ==
    /\ killing[e] = "removed" /\ killing' = [killing EXCEPT ![e] = "done"]
    /\ broken' = broken \cup pipes[e]
    /\ pipes' = [pipes EXCEPT ![e] = {}]
    /\ UNCHANGED <<pipeVars, dead, present, hole, accepting, dial, caller, callee, doomed>>

NetNext ==
    \/ \E d \in DialId : \/ \E dialler, target \in Endpoint : BeginDial(d, dialler, target)
                         \/ FindCallee(d) \/ NoteCaller(d) \/ NoteCallee(d) \/ Deliver(d)
    \/ \E e \in Endpoint : \/ AcceptNext(e) \/ MarkDead(e) \/ Unlist(e) \/ Collapse(e)
                           \/ \E on \in BOOLEAN : SetBlackHole(e, on)

-----------------------------------------------------------------------------
(* Properties *)

\* A byte that was accepted is handed out once and in its place, whatever
\* closing, stalling and partial reads and writes come between, and the queue
\* never outgrows its capacity: the backpressure the tests rely on.
BytesKept ==
    /\ handed \o buf = [k \in 1 .. written |-> k]
    /\ Len(buf) <= Capacity

\* No lost wakeup: a writer asleep on a queue that has room again, or on a
\* closed one, gets on, and so does a reader with something to read or with
\* nothing more to come.
NobodySleepsIn ==
    /\ writer = "asleep" /\ (shut \/ Len(buf) < Capacity) ~> writer # "asleep"
    /\ reader = "asleep" /\ (shut \/ (buf # <<>> /\ ~stalled)) ~> reader # "asleep" \/ stalled

\* A kill is final: the streams it found open, whichever end opened them, are
\* closed when it is over, and no dial begun after it is open ("refuses future
\* inbound dials, errors outbound dials, and collapses every stream").  A dial
\* that is under way during the kill may slip through.
KillIsFinal ==
    \A e \in Endpoint : killing[e] = "done" =>
        \A d \in doomed[e] : dial[d] = "open" => d \in broken

\* The pipe is a pipe: bytes in order, none lost, and nobody asleep with work to
\* do (Pipe::read, Pipe::write, close).
PipeHonest == []BytesKept /\ NobodySleepsIn

\* The tables of the network have their type through dials, accepts and kills,
\* and a kill is final.
CollapseComplete == MockTypeOK /\ KillIsFinal
=============================================================================
