# A TLA+ verification of clove

clove is a BitTorrent client that speaks only over I2P. A daemon (`cloved`)
keeps a registry of torrents, each served by an engine of its own (`clove-core`),
over sessions of an I2P router (`i2pnet`); a command line client drives it over
a local API. This directory models the parts of it whose correctness depends on
order, interleaving, failure or accounting, checks them with TLC on small
instances and proves the central invariants with TLAPS for every instance.

## 1. Inventory

| Component (source) | State | Operations | What is hard about it |
|---|---|---|---|
| Piece picker (`clove-core/picker.rs`) | held pieces, per-block received bits and in-flight counts, availability, priorities, incremental missing count | `pick`, `block_received`, `block_failed`, `set_have`, `reset_piece`, `add/remove_bitfield`, priorities, mode | counters kept by hand; endgame duplicates; counts of a piece that is dropped and started again |
| Torrent coordinator, download (`clove-core/torrent.rs`) | peer table, requests owed per peer with time stamps, suppliers per block, suspicion, bans, queue of peers to drop | `attach`, `drop_peer`, `on_message`, `on_block`, `fill_requests`, `maintain` | reader, maintenance, dial and accept threads on one lock, with work done after unlocking |
| Coordinator, upload (`torrent.rs`), choker (`choker.rs`) | choke state, interest, traffic since the last round, round counter | `run_choker`, `serve_request`, `plan` | rotation over a changing peer list; rounds provoked between the periodic ones |
| Known peers (`torrent.rs`) | bounded set of destinations and their sources, bans, offence counts, holds | `remember_peer_from`, `penalise`, `ban`, `held_for`, `dial_candidates`, peer exchange | eviction at the bound, exponential hold |
| Peer budget (`budget.rs`), attach (`torrent.rs`), dial sweep (`swarm.rs`) | client-wide slots, dial waves, retry times | `claim`, slot drop, `attach_abortable`, `attach_accepted`, sweep, stop | claims by threads of several torrents, attach racing stop |
| Inbound demultiplexer (`swarm.rs`) | pending handshakes in total and per destination, routing table | `admit_pending`, `register`, `unregister`, `stop`, `route` | two counts, a guard on every path |
| Announce loop (`swarm.rs`, `tracker.rs`) | per-tracker schedule, stop flag | `announce_once`, `next_event`, `on_success_with_min`, `on_failure`, `completion_due` | the download finishes while an announce is under way; the tracker chooses the interval |
| Registry (`cloved/registry.rs`) | the torrents, live engines, scans, magnets, network | add, remove, pause, verify, attach and detach the network, persist, load | API, persist loop, supervisor, scans and engines run together |
| Resume records (`resume.rs`, `bitfield.rs`) | what survives a crash | encode, decode, bit sets | two piece sets read at two times; crash between two writes; other versions' and damaged files |
| Storage (`storage.rs`), file lists (`metainfo.rs`) | files | write, read back, verify, sync, walk below the root | segments at file boundaries; links put in the way between two system calls |
| Magnets (`metadata.rs`, `torrent.rs`, `cloved/main.rs`) | pending magnets, fetch rounds, the assembler | add, claim, `fetch_metadata`, complete, remove | removed or added again during a fetch; peers that lie or say nothing |
| Daemon (`cloved/main.rs`, `i2pnet/api.rs`) | lock, token, key and socket files, handler slots | start, serve, dispatch, handle | two copies started at once, kills between two steps, silent clients |
| Session supervision (`cloved/main.rs`, `i2pnet/sam.rs`, `supervisor.rs`) | the session and who holds it, backoff, stored key | bring-up, watchdog, loss, teardown | a router that fails in several ways and refuses a destination it still hosts |
| Naming (`i2pnet/naming.rs`) | hits, misses with holds | lookup | lookups of one name that overlap |
| Mock network (`i2pnet/mock.rs`) | pipes, endpoints, accept queues | read, write, dial, accept, kill | condition variables; a kill between two locks of a dial |
| Wire, extensions (`wire.rs`, `extension.rs`, `pex.rs`), bencode (`bencode.rs`), HTTP (`http.rs`) | one message | encode, parse, read | caps in two places, streams cut anywhere, numbers at their limits |
| Command line client (`clove/main.rs`) | one invocation | resolve, list, act on each | the table changes between listing and acting |
| JSON, configuration, text, addresses, magnet links, sandbox | none, or one value at a time | parsers and printers, kernel calls | pure data: unit tests and fuzzing fit better |

**How they interact.** The registry starts an engine per torrent and hands it
storage, the known piece set and a slice of the peer budget; a `Swarm` gives the
engine its dial and announce threads, and the shared demultiplexer hands it
accepted connections. Every connection has a reader thread that calls
`on_message`. All of an engine's threads meet at one mutex (`Shared.state`), all
users of the registry at another; the engine calls nobody back, the registry
polls it (`have`, `sync_storage`, `stats`).

**What makes each part correct.** Picker and coordinator: requests are neither
leaked nor counted twice, verified bytes stay verified, blame reaches the peers
that sent the bytes, a slot is not held by a peer that does nothing, and the
download ends if somebody answers. Choker: at most the configured number of
unchoked peers, and everybody's turn comes. Known peers, budget, demultiplexer:
the bounds hold, what is claimed is returned, and a stopped torrent is left
alone. Announce: each tracker hears of a completion once, is neither hammered nor
forgotten. Registry and resume: what a crash leaves behind can be read back, and
claims no more than is durable. Session: one network at a time, one identity, and
it comes back. Daemon: whoever serves can be reached, and every client is
answered. Codecs: what one end writes the other reads, and beyond that no more
than the decoder says it is lenient about.

The hazards, each with its line and the properties aimed at it, are listed in
`PROJECT.json`.

## 2. Modules

| Module | Models | Role |
|---|---|---|
| `Picker` | `picker.rs` | the picker as a record and one operator per method |
| `Engine` | download side of `torrent.rs` | the state machine: one action per handler outcome |
| `EngineProofs` | | what the picker's operators preserve; the inductive invariants and the theorems |
| `Registry` | `cloved/registry.rs`, the threads of `cloved/main.rs` that drive it | the life of one info-hash, with crashes and failing disks |
| `RegistryProofs` | | its inductive invariant and theorems |
| `Upload` | `choker.rs`, upload side of `torrent.rs` | who is unchoked, at and between rounds |
| `KnownPeers` | known peers, bans and holds of `torrent.rs` | the table under a flood of addresses |
| `Budget` | `budget.rs` | what the peer budget promises (abstract) |
| `Seats` | `budget.rs`, dial sweep and demultiplexer of `swarm.rs`, attach of `torrent.rs`, `stop_live` | threads racing for seats; implements `Budget` |
| `Announce` | announce loop of `swarm.rs`, `AnnounceState` of `tracker.rs` | which event goes out when |
| `Session` | supervisor of `cloved/main.rs`, `sam.rs`, `supervisor.rs` | the session against a failing router |
| `Naming` | `naming.rs` | the lookup cache, lookups overlapping |
| `Daemon` | `cloved/main.rs`, `api.rs` | start, second copy, kills; handler slots |
| `Fetch` | `fetch_metadata`, `serve_metadata` of `torrent.rs`, `metadata.rs`, fetch rounds of `cloved/main.rs` | one magnet's metadata |
| `Mock` | `mock.rs` | the pipe's condition variables; dial, accept and kill, lock by lock |
| `Layout` | file lists and priorities of `metainfo.rs`, blocks of `storage.rs` | bytes of the torrent and bytes of the files |
| `Beneath` | `walk_beneath`, `open_beneath`, `remove_beneath` of `storage.rs` | one system call at a time beside a meddler |
| `Commands` | `clove/main.rs`, `resolve` and `list` of `registry.rs`, `torrent_action` | one command line against a table others change |
| `Bencode` | `bencode.rs` | the codec as recursive operators |
| `Wire` | `wire.rs` | one direction of a connection, as bytes |
| `Extensions` | `extension.rs`, `pex.rs`, messages of `metadata.rs` | what extension messages carry, in bencode |
| `Http` | `http.rs`, `Deadline` of `tracker.rs` | one message read off a stream |
| `Records` | `resume.rs`, `bitfield.rs` | the record as it is on disk |
| `Ordering` | | what the proofs need of orders and numbers: least elements, ranks, the order by the first difference, functions defined by recursion, running sums, quotients and remainders |
| `NetworkProofs` | | proofs about `KnownPeers`, `Upload`, `Announce`, `Session`, `Naming`, and the five together as in `MCNetwork` |
| `DaemonProofs` | | proofs about `Seats` (the two counters, the refinement of `Budget`, stopped torrents), `Daemon`, `Fetch`, `Mock`, and the components of `MCDaemon` together |
| `DataProofs` | | proofs about `Beneath`, `Commands` and `Layout` |
| `CodecProofs` | | proofs about `Records` and `Wire` |
| `HttpProofs` | | proofs about `Http` |
| `MCEngine`, `MCRegistry` | | instances for TLC; one `.cfg` per run |
| `MCNetwork` | `Upload`, `KnownPeers`, `Announce`, `Session`, `Naming` | instance for the run `network` |
| `MCDaemon` | `Seats`, `Daemon`, `Fetch`, the pipe of `Mock` | instance for the run `daemon` |
| `MCData` | `Bencode`, `Wire`, `Extensions`, `Layout`, `Beneath`, `Commands`, `Http`, `Records`, the network of `Mock` | instance for the run `data` |

The last three put components side by side that share no state: `part` says
which one a behaviour is about, and the others rest in one initial state. Each
component keeps its own fairness, for the behaviours that are about it. Where
components do share state they are one module: `Seats` is the budget, the dial
sweep, the demultiplexer, the attach path and the stop together, `Registry` the
threads of the daemon over one torrent.

### Picker

The code's `progress` map (piece to per-block counters, created on demand) is
three fields: `started` (there is an entry), `received`, `inflight`. `pick`
visits pieces in `candidate_order` and blocks in order; `Picked` is the set of
the first `want` offerable blocks of that order and `MarkPicked` the effect.
Offsets and lengths are abstract: a block is `<<piece, number>>`.

### Engine

One action is what a thread does while it holds the state lock. `on_block` has
several outcomes and is split by them: `OnSurplusBlock` (not asked for, or no
longer needed), `OnWriteError`, `OnBlock` (written, piece not full),
`OnPieceVerified`, `OnPieceFailed`, `OnVerifyError`. Each contains everything
the code does in that case: settle the request, cancel other peers' copies,
write, record the supplier, verify, credit or blame, announce, refill. What the
code does after unlocking is an action of its own: `Evict` (a thread works off
the peers it took out of `to_drop`), `MaintainDrop`, `CheckDone`, and
`RegisterPeer`, which follows `QueueBitfield` under a second lock.

`maintain` walks the peer table under the lock and offers blocks as it goes;
`todo` is the rest of the walk and every other action waits for it to be empty
(`Unlocked`), so the order of the walk is free but nothing interleaves with it.

| Variable | Code |
|---|---|
| `picker` | `State.picker` |
| `phase`, `dest`, `has`, `opened`, `choking`, `interested` | membership in `State.peers` and the fields of `Peer` |
| `owes`, `age`, `strikes` | keys and stamps of `Peer.in_flight`, `Peer.strikes` |
| `told` | what our bitfield and haves said (ghost) |
| `disk` | the bytes, as good, bad or none |
| `suppliers`, `suspicion`, `banned` | the maps of `State` |
| `evict`, `drops` | `to_drop` once taken, per thread |
| `done` | `Shared.done` |

Connections are used once, as the code's ids are. Time is counted in
maintenance ticks, and a stamp's age stops at the timeout. Idle peers are a free
choice of the tick (the keep-alive clock is not modelled). Two branches of
`on_block` that the code guards against (a piece held, or a block received,
that was still owed) are unreachable by `OwedIsMissing`; they share an action
with the other surplus blocks.

Not in `Engine`: the upload side (`Upload`), the known-peer set (`KnownPeers`),
extension messages (`Extensions`, `Fetch`). They touch none of its variables.

### Registry

Every user of the registry holds one mutex for a whole call, but the engine does
not take it and the machine may die at any point, so a call is not one action.
`call` is the list of steps the holder of the lock has left: an action begins a
call (`SetPaused`, `PersistTick`, `RemoveTorrent`, ...) and makes the changes
that come before its first step; one action per step name does the rest, and a
step that calls another function puts that function's steps in front
(`stop_live` is `StopSteps`, `persist_progress` is `PersistSteps`). Between two
steps only what runs without the lock may happen: the engine verifies a piece
(`EnginePiece`, which stands for module `Engine`), a connection left on a stopped
engine writes (`LateBlock`), a scan hashes (`ScanRun`), a fetch round ends
(`FetchEnds`), or the daemon dies (`Crash`). Reads that a step
splits (`Refresh`, `Snapshot`, `TakeHave` are three readings of the engine's
piece set) are where its races are.

| Variable | Code |
|---|---|
| `network`, `hosted`, `pending` | `Registry.network`, an entry of `Registry.torrents` and of `Registry.pending` with its `claimed` |
| `wanted`, `scanning`, `have`, `verified`, `live` | the fields of `Hosted`; `wanted` carries the reason for a pause |
| `engine`, `snap` | the engine's piece set, and `before` of `sync_storage` |
| `job`, `found` | a `ScanJob` and its result |
| `fetch` | the `metadata-fetch` threads |
| `cache`, `platter` | pieces that can be read back, and those that also survive a power cut |
| `torrentFile`, `magnetFile`, `resumeFile`, `record` | the state directory |
| `stray` | pieces a connection on a stopped engine still asks for: what that engine lacked |
| `asked`, `scanned`, `spoiled` | ghosts: the operator counts on the torrent; pieces claimed on the word of a scan and not synced since; pieces a stray connection wrote over after they were good |

`Faults` says which operations may fail (syncing, writing and unlinking state
files, scanning, starting an engine) and `PowerCuts` whether a crash loses what
was not synced. The daemon has no shutdown path, so stopping it is a crash.

Abstracted: torrents meet in the registry only through the peer budget and the
check for equal names, so there is one; which pieces belong to skipped files
(`Needed`) is fixed; whether a ratio or an idle limit is met is a free choice;
state files are written, renamed and unlinked durably.

`stop_live` takes the engine out of the entry and disconnects the peers in its
table, but joins nothing, and `finish_attach` has no look at the stop flag left: a
connection that was on its way in registers with the stopped engine (how many can,
and for how long, is in `Seats`), and a reader may be inside a write. `Disconnect`
therefore leaves `stray` behind, and from then on, beside scans and the next
engine and until the process ends, `LateBlock` may write any of those pieces: over
nothing, or with other bytes over what has become good since. The stopped engine
holds back only what it knows to be good itself, so the damage is confined to what
it lacked. `Late` bounds the pieces this may happen to; the proofs are for any.

### Seats and Budget

Every connection attempt is a thread, a dial worker or a routing thread of the
demultiplexer, and `pc` says where it is. What the code does without a lock, or
under two locks one after the other, is split: the look at the caps, `available`,
the load and the compare-exchange of `claim`, the two decrements of
`PendingGuard`, the victims of `disconnect_all` one by one. The peer entry it
creates lives on in `seat`. `SlotHolders` is the refinement mapping: the threads
between claim and registration and the entries are the holders of `Budget`.

### Upload and KnownPeers

Both are tables behind the state lock, so a handler is an action. In `Upload` a
round may be due in any handler (`due`); traffic since the last round is a small
number. Liveness is stated for a swarm that has settled (`calm`): then only the
periodic round moves the table. In `KnownPeers` holds count down instead of being
compared with a clock, and the offence count stops at `MaxCount`, above the clamp
of the shift.

### Announce

`wait` is the time until the next announce to a tracker, `sending` what the one
under way carries. `Send` reads whether the torrent is complete, `Succeed` and
`Fail` come any time later. `rested`, `hurried` and `snatches` are ghosts for the
properties.

### Session and Naming

`refs` is who holds the `Arc` of a session: the supervisor, the accept thread, the
registry, a borrower (a fetch or a farewell announce). The control connection
closes with the last one, and only then does the router let the destination go;
until then a new bring-up with the same key is refused. The router crashes,
returns, ends a session with a word, by hanging up, or silently; each of these
uses up one of `MaxFaults`, and so does each time the key file cannot be read or
written: `load` then goes on with a transient destination, and `remember` leaves
the file alone. `trouble` remembers which of the two happened in this bring-up.
`active` says whether the registry has anybody to dial: a sweep without candidates
and a torrent without trackers dial nobody, and an idle or paused daemon does not
either. `TorrentsChange` turns it on and off at any time.

`Naming` splits a lookup where the code unlocks: what was cached before, and what
another thread has put there since. A lookup lasts up to `LookupTicks`, of which
nothing is assumed: `DEFAULT_PROBE_TIMEOUT` applies to the connection, the HELLO and
the reply separately, and together they may take as long as the first hold. `overtaken` remembers the lookups whose name another thread has answered for,
or whose entry went, while they were out.

### Daemon

`run` of `cloved/main.rs`, one file operation at a time, for each of two
processes started on one configuration; either may die anywhere. The kernel
drops a dead process's `flock` and leaves its socket behind. The second half is
`serve`: backlog, dispatch, slot, read, route, write, with a timeout on each read
and write.

### Fetch

An honest peer runs this code's `serve_metadata`; any other sends what it likes
or nothing. Metadata pieces are good or bad. `budget` is the frames a peer may
still use (`Slack` for each piece and `ExtraFrames` on top), which is what ends an
exchange with a peer that chatters.

### Layout, Beneath, Records, Http, Bencode, Wire, Extensions, Commands, Mock

These keep the code's data at the grain its decisions need: bytes of a small
torrent (`Layout`), bytes as the sets of their bits (`Records`), ASCII codes
(`Bencode`), bytes with words of two bytes (`Wire`), one symbol per header line
and per read (`Http`), directory entries as kinds (`Beneath`), digits (`Commands`),
locks (`Mock`). Properties compare what the code computes with a direct
definition: neighbours of a sorted list with all pairs (`NoAliasing`), segments
with positions (`ReadsBack`), shifted ranges with bytes (`PrioritiesExact`),
bits counted byte by byte with sets of pieces (`BitsExact`), decoding with encoding (`Canonical`,
`OneToOne`, `RecordSurvives`).

In `Layout` a block is any sequence of good and bad bytes, so a shift within a block
shows. A genuine request of `Http` may be a GET without a body, which declares no
length (framing `"none"`); a request that does is read to it. `Records` has the
retired `trackers` key, which is accepted and not read, a key nobody knows, which is
not, and an info-hash whose length is checked; it has one of each kind of the fields
that `encode` treats alike (one counter, one late option of each type).

In `Wire` what messages hold is a parameter: the numbers (`Numbers`), the bytes of a
block (`Blobs`), and for each torrent the extension messages it exchanges
(`Payloads`). `Extensions` builds those as the code does and gives them to `Wire`
as `OurPayloads`; that they fit the cap is an assumption of `Wire`, which TLC
evaluates on them.

A genuine sender of `Http` may chunk a body as it likes: any number of chunks up to
`MaxChunks`, each of any length, its size written in any numeral of `Numerals` with
that value (leading zeros included), with an extension or without, a trailer at the
end or none (`ChunkedForms`). Where the code decides by the first condition that
holds, as after the head of a message, the model has nested `IF`s: the arms of a
`CASE` are not tried in order.

In `Commands` the listing is rank by rank (`Rows`): a sort is the function from a
rank to the element that has it, which TLC evaluates as quickly as a sort and the
provers can reason about. `Fetch` writes the sort before its deduplication the same
way (`Place`), and `Layout` the sorted paths (`PathPlace`). A torrent's time of adding is the wall clock's, so any time may
follow any other; `gone` counts removals and is a ghost.

## 3. Runs

| Run | Instance | Shows |
|---|---|---|
| `engine_accounting` | 2 connections, pieces of 2 and 1 blocks, both modes, a table that skips or hurries a piece, endgame at 1 block, storage may fail | `RequestsAccounted` (= `OwedExact`, `OwedIsMissing`, `BooksClosed`), `CountsExact` (= `MissingExact`, `AvailabilityExact`, `PipelineBound`) |
| `engine_blame` | 3 connections, an honest and a lying destination, one piece of 2 blocks | `TypeOK`, `PromisesGood` (= `HeldIsGood`, `ToldIsHeld`), `SuppliersExact`, `BannedLeaving`, `HonestNotSolelyBlamed` |
| `engine_finishes` | one answering and one silent peer, endgame off | liveness `Finishes`, `SlotReclaimed` |
| `engine_renewal` | endgame on | `SlotReclaimed` fails |
| `engine_announce` | one piece | `EveryPieceAnnounced` fails |
| `registry_trust` | 1 piece, data beforehand or none, all faults, power cuts, late connections | `TypeOK`, `RecordBacked`, `HeldIsReadable`, `ScanAlone` |
| `registry_runs` | 1 piece, 2 fetch threads, syncs and scans may fail, power cuts | `StateAgrees` (= `LiveIsWanted`, `WantedRecorded`), `AcknowledgedOnDisk`, liveness `TorrentRuns` |
| `registry_decode` | 2 pieces, no fault | `RecordReadable` fails |
| `registry_promote` | 2 fetch threads, no fault | `PromotedWasPending` fails |
| `network` | 3 peers and 1 slot; 3 addresses and a table of 2; 1 tracker; 2 sessions, 2 keys, 2 faults; 3 names, a table of 2, 2 threads | `NetworkTypeOK`; `SlotsShared` (`SlotsBound`, `UninterestedChoked`, liveness `EveryoneGetsATurn`); the action properties `TableWithstands` (`TrustedStays`, `HoldServed`, `RefusedForgotten`), `TrackerSpared` (`Spaced`, `SnatchOnce`), `SessionKept` (`OneNetwork`, `IdentityKept`, `BackoffGrows`), `AnswersKept` (`HitsStay`, `DoublingKept`, `TableBounded`); liveness `AnnounceProgress` (`NeverSilencedThere`, `SnatchReported`, `StopEndsLoop`) and `ReconnectsThere` |
| `daemon` | 2 connections of 1 destination over 2 torrents, 1 budget slot; 2 processes, 2 clients, 1 handler; 3 peers, 1 honest, metadata of 2 pieces; a pipe of 2 bytes | `SeatsExact` (`TakenExact`, `PendingExact`, the seats of a torrent), the refinement `SlotsImplementBudget`, `StopSettles` (`StoppedGainsNothing`, liveness `StopEndsSweep`); `DaemonSafe` (`Reachable`, `HandlersExact`), liveness `Answered`; `FetchSafe` (`Authentic`, `DialledOnce`), liveness `FetchProgress` (`ExchangeEnds`, `HonestResolves`); `PipeHonest` (`BytesKept`, liveness `NobodySleepsIn`); the type invariants are part of the first of each |
| `data` | inputs of up to 5 tokens; 2 torrents, 2 messages or a stranger's body; lists of up to 3 files of up to 5 bytes; a path of 3 levels; 2 hashes that share a prefix, added at 2 times, commands of up to 2 references; 2 endpoints, 2 dials; bodies of up to 3 bytes; 2 or 3 pieces in bytes of 2 bits | `CodecExact` (`Canonical`, `EntryExact`, `BudgetNeverBites`, `VerdictFinal`, `PayloadsKept`); `ConversationKept` (`UnderstandsOwn`, `OneToOne`); `BytesInPlace` (`NoAliasing`, `ReadsBack`, `VerifyExact`, `PrioritiesExact`); `WalkSafe` (`Contained`, `DeleteCreatesNothing`); `CommandHonest` (`TouchesOnlyNamed`, `ExitHonest`, `AllMeansAll`); `CollapseComplete` (`KillIsFinal`); `MessageHonest` (`FramingHonest`, `TrickleBounded`); `RecordsExact` (`BitsExact`, `RecordSurvives`, `ReadIsSound`) |

A property named in the first place is what the run checks; those in brackets are
its conjuncts, each defined and explained on its own in the module.

**Bounds.** Two connections are enough for one to race another over a block, and
three for a piece to be shared by two while a third arrives late. Two pieces, one
of them short, are enough to order one before the other; two blocks are enough
for a piece to be partly received and supplied by two. `PipelineDepth` 2 lets a
pipeline be empty, partly full and full; `RequestStrikes` 2 and
`SuspicionLimit` 2 let a first offence pass. Connections are symmetric in the
safety runs: nothing orders them. Deadlock is not checked there: a network where
every peer has gone may stay silent for ever.

In `Registry` two pieces are enough for one to be recorded and another verified
between two readings of the set (`registry_decode`). Elsewhere one will do: every
step treats each piece by itself, so what can become of one among others can become
of it alone, and the proofs are for any number. Late connections are in
`registry_trust`, the run about bytes; the others are about files, entries and
calls, which they do not touch. Two fetch threads are enough for a magnet that is removed and added again
while the first thread is still in its round. Crashes, restarts and calls are
not bounded. `registry_trust` has every fault; the other runs leave out the one
that would refute their property at once: `WantedRecorded` cannot hold if the
record cannot be written, `TorrentRuns` if the engine cannot be started, and
`AcknowledgedOnDisk` is refuted by a removal of which only half succeeds. Deadlock
is checked: somebody can always take the lock.

In the three composite runs every table is one entry smaller than what wants to
be in it: three peers for one regular and one optimistic slot, three addresses
for a table of two, three names for two entries, two connections for one budget
slot, two clients for one handler. That is what makes evictions, refusals and
races happen. The clamps and caps (`ShiftCap`, `MaxBackoff`, `FailShift`,
`MaxInterval`, `NegativeMax`, `MaxDelay`, `IntTop`, `MaxBody`) are small enough to
be passed within a few steps, and an interval a tracker may ask for lies below,
between and above its bounds. A lookup lasts as long as the first hold, so a second
one fails, is held back and is tried again while it is out; two faults are a key
that cannot be read and one that cannot be saved, or either and a router that drops
the session. One tracker suffices: the loop keeps a schedule per
URL and shares only its order. Two sessions are the old and the new one. Two
processes are enough for one to find the other's leavings at each step. For the
codecs the bound is the length of the input: the tokens of `Bencode` include both
ends of the integer range, a leading zero and a length that overflows; the bodies
of a stranger cover every message id with lengths around each message's own, the
numbers one that fits a byte and one that takes two; two
chunks (`MaxChunks`) are one to read past and one to end on, their sizes in
`Numerals` with and without a leading zero, up to more than `MaxBody`; a
torrent of the largest bit set meets the frame cap; a file list has room for an
empty file, one within a piece and one across two, and the paths for equality up
to case and for one inside the other. `daemon` and `data` do not check deadlock:
a fetch that has resolved, a closed pipe and an input that has been read end.

**Fairness.** The maintenance thread sleeps and wakes for ever and finishes the
walk it has begun: weak fairness of `MaintainBegin`, `MaintainPeer` and
`MaintainDrop`. A thread that waits for the mutex gets it in the end: strong
fairness of `Evict`, which other threads may disable time and again. For
`Finishes` a peer in `Answering` answers while it owes: an assumption about
that one peer, stated in `AnsweringSpec` and not made of anybody else.
In the registry a thread that holds the lock goes on (weak fairness of `Step`), a
scan ends and a dead daemon is started again (weak fairness of `ScanRun` and
`LoadAll`), and the persist loop, which sleeps and locks for ever, and a finished
scan get the lock although others take it time and again (strong fairness).
Nothing is assumed of the operator, of the network or of the engine's progress.

In the other modules fairness is weak, per thread, and of what a thread does by
itself. The maintenance tick runs choke rounds for ever (`PeriodicRound`). The
announce loop goes on and every exchange ends, by an answer or by its deadline
(`LoopMust`); `SnatchReported` assumes, in its own statement, that trackers answer
in the end. A dial, a handshake and a routing thread end by their timeouts, a
sweep joins its workers, a stop goes on (`ThreadMust`, `SweepMust`, `StopMust`);
peers need not do anything. The accept loop dispatches and handlers end by the
socket's timeout (`Dispatch`, `Handle`). A fetch goes on, an honest peer answers
and a silent socket times out (`FetchMust`, `FallsSilent`); nobody else has to send
anything. In `Session` the supervisor and the watchdog run, borrowers' dials and
reads have deadlines, and a router that is down comes back and lets go of a closed
session; faults are finitely many, without which `Reconnects` could not hold. The
registry dials again and again as long as a running torrent has anybody to call,
because the announce loop and the sweeps never end (`RegistryDials`, weakly fair;
it is disabled while `active` is false). Of a daemon that is idle, paused or without
tracker and peers nothing of the kind is assumed, and it may sit on a session that
the router dropped without a word for ever: the second half of `Reconnects` is
conditional on `<>[]active`. The first half, about losses the control connection
tells of, is not. A thread that has been notified runs (`ReaderMust`,
`WriterMust`, `CloserMust`); nothing wakes it otherwise.

**Disagreements found.**

* `engine_renewal`: in the endgame `pick` may return a block the same peer
  already owes; `fill_requests` stamps it again and the maintenance tick refills
  every peer, so a silent peer with room in its pipeline never lets a request
  expire and keeps its slot. Without the endgame the property holds
  (`engine_finishes`).
* `engine_announce`: a piece verified between the bitfield snapshot and the
  registration is never announced to that peer.
* `registry_decode`: `persist_progress` reads `have` in `refresh` and the durable
  set later in `sync_storage`. A piece verified in between gives a record whose
  `verified` is not within `have`; if the daemon stops before the next tick,
  `decode` refuses the record and the torrent is skipped at the next start.
* `registry_promote`: a magnet removed during a fetch round is added all the same.

Disagreements without a run, each a few steps of the models above:

* `credit_suppliers` gives back one count per block, its comment says one per
  piece.
* `finish_scan` records what a scan read as verified without a sync, although the
  comment on `Hosted.verified` and `docs/STATE-FORMAT.md` say it advances only
  after one. The properties that do hold (`RecordBacked`, `HeldIsReadable`)
  therefore except what a scan has claimed since the last sync.
* `add_torrent` does not look at the pending magnets: adding the `.torrent` of one
  lists the hash twice, until the magnet is removed or a restart drops it.
* `add_torrent` writes a record of two empty sets before the first scan; after a
  crash during that scan `load_one` finds them equal, nothing is scanned and data
  that is there is fetched again, which the comment in `start_live` rules out.
* `detach_network` stops every engine before `persist_progress`, which writes
  only live torrents: what the stop has just synced is not recorded, although
  `docs/STATE-FORMAT.md` says `verified` "catches up when it stops".
* A `remove` that unlinks the `.torrent` and fails on the `.resume` leaves an entry
  that a restart loses, although its comment promises a consistent registry.
* A metadata fetch whose `complete_magnet` fails ends its thread; the entry stays
  claimed and nothing fetches it before a restart.
* `stop_live` unregisters, raises the stop and disconnects, but an attempt that is
  past its last look at the flag registers its peer afterwards, and its blocks are
  written beside the next scan or engine. `remove` takes a torrent "offline first so
  nothing is writing while files disappear" (`registry.rs:1439`), and `begin_verify`
  asks for a pause because a running one "is actively writing"; `spoiled` in
  `Registry` is what the difference can cost. `clove(1)` says of
  `pause` "disconnect these torrents' peers"; what holds is `StoppedGainsNothing`,
  once such attempts have ended.
* A peer that drops its interest frees a slot, and taking it back runs a round,
  which advances the optimistic rotation: the comment in `handle` and the test
  `interest_flapping_does_not_disturb_the_peers_holding_slots` rule this out only
  for a peer that holds no slot.
* Choke and unchoke messages are queued after the unlock, so two rounds run by two
  threads may reach the wire in the other order. `Upload` models the table.
* `completion_due` "can bring forward exactly one announce in a torrent's
  lifetime": until a completion has been acknowledged, each time the download
  finishes again (more files wanted in between) brings one forward. `Spaced`
  allows for it.
* A `completed` announce whose answer is lost is sent again, so a tracker may count
  a snatch twice; `SnatchOnce` is about acknowledgements. `announce_once` reads
  `is_complete` and `bytes_left` under separate locks, so one announce may mix the
  two. A download that finishes between the look at the top of the round and a
  first `started` announce reports `completed` an interval later.
* `docs/AUDIT-2026-09.md:334` says that a refused `destination.key` "is never
  overwritten", and a comment in `remember` that a file that cannot be read "is not
  ours to replace". One that `load` cannot read at a bring-up and that reads again
  by the time of `remember` is replaced by the transient key. `IdentityKept` states
  this as the only way in which a stored key is lost.
* `naming.rs` says that a failed name is "refused locally until its retry time,
  doubling [...] on consecutive failures". A hold is measured from the start of the
  lookup, and two lookups of up to 20 seconds around a third undo it: the slow one
  writes the count it began with, plus one, over the longer hold. A full table
  forgets counts as well. `DoublingKept` says that only a lookup that was overtaken
  does the first.
* `clear_stale_socket` looks and then unlinks: daemons with different data
  directories and one socket path can unlink each other's socket. With one data
  directory the lock prevents it (`Reachable`).
* `fetch_metadata` asks for all pieces at once and takes a reject for a failure,
  while `serve_metadata` rejects past `MAX_METADATA_REQUESTS_PER_TICK` requests: a
  torrent with a larger info dictionary is not served in one go. `Fetch` keeps the
  dictionary within the allowance.
* `METADATA_FRAME` caps every frame of a metadata connection: the bitfield of a
  torrent with more than about 133,000 pieces exceeds it, although the comment in
  `await_extension_handshake` says it is ignored.
* In `mock.rs` a dial that is under way survives `kill_session`; `KillIsFinal` is
  about the streams it found and the dials begun after it.
* A prefix is resolved by each request: `clove remove A p`, with `p` a prefix of
  both A and B, is ambiguous before the first removal and removes B after it.
  A hash that is hosted and pending counts twice, so a prefix of it is refused as
  ambiguous although it names one torrent; the full hash works.
* A comment in `bencode.rs` says keys are never empty; `0:` is accepted as a key.
  `raw_entry` is never asked for it.

The comment on `debug_check_state` (that peers may owe more than the picker
counts) describes an older state of the code: the counts are equal block by
block, which `OwedExact` states and `RequestsExact` proves.

## 4. Proofs

Every theorem holds for all values of the constants that satisfy the module's
assumption; the assumptions ask for natural numbers, finite sets and the few
relations between limits that the code's own constants have (`NumUrls` at least 1:
a torrent without a tracker has no announce loop; `MaxAnswer`, `MaxPeer` and the like
are numbers). Each theorem about a run's property names that property; where a
property joins a safety and a liveness half (`StopSettles`, `SlotsShared`,
`AnnounceProgress`, `PipeHonest`), the theorem is about the safety half.

### Engine

Assumptions: `PickerAssumption` and `EngineAssumption`, i.e. natural-number
constants, finitely many connections, `NoDest` no destination, `Answering
\subseteq Honest \subseteq Dest`. The number of pieces, blocks, connections,
destinations and every limit are arbitrary.

The central argument is `Balanced(pk, ow)`: for a picker value and a table of
debts, every in-flight counter is the number of connections that owe the block,
nobody owes what has been received or is held, owed and received blocks belong to
started pieces and started pieces are not held. It has parameters because a
handler passes through several picker values under one lock (release or write,
then reset or hold, then refill). One lemma per picker operation says it is kept
(`BalancedRelease`, `BalancedFill`, `BalancedWrite`, `BalancedVerdict`,
`BalancedElsewhere`) and an action's proof composes them.

`OwedExact` alone is not inductive: dropping a held piece's entry zeroes its
counters, which is right only because nobody owes a block of it
(`OwedIsMissing`), and a count is given back only for a started piece. `Accounts`
adds that connections outside the table owe nothing and that a walk only visits
seated ones.

`Contents` adds what the verdicts rest on: held blocks are good, suppliers are on
record exactly for received blocks, a block supplied by an honest destination is
good, seated connections of banned destinations are on the way out. It needs
`Accounts`: a write may only hit a block of a piece not held.

`CountsExact` is about three counters kept by hand. `missing` and `availability`
move with the set they count, recounted wherever the code recounts. For
`PipelineBound` the blocks offered are the first few of the visiting order:
`VisitingOrder` shows that candidate order, then piece, then block is a strict
total order, `FirstFew` that the elements with fewer than `want` before them are
at most `want`, `PickedBound` that a fill cannot exceed the depth.

Theorems: `TypeCorrect`; `RequestsBalance` (from `RequestsExact`, `NoStaleDebt`,
`BooksAlwaysClosed`, one for each part of `RequestsAccounted`); `PromisesKept`
(from `VerifiedStaysGood` and `AnnouncedIsHeld`); `SuppliersRecorded`,
`BannedAlwaysLeaving`; `CountsAlwaysExact`; `HonestSpared` (an action property).

### Registry

Assumption: `RegistryAssumption` (subsets only; pieces, fetch threads and faults
are arbitrary). `RegistryInv` is the first inductive invariant. `ClaimsBacked`
keeps every claim (entry, engine, snapshot, scan, record) within what backs it:
readable pieces for what is served, synced ones for what is recorded, and in both
cases those a scan has claimed and those a stray connection wrote over. It grows monotonically except where something is
lost, and there it needs to know how the call got where it is: deleting the data
is harmless only because the record is gone, the engine stopped and no scan under
way. So `CallStands` says what may be left of a call: plain steps only, or the
rest of an add (and then there is no entry), or the rest of a removal (no scan,
no engine once it unlinks, no record when it deletes). `Presence` relates entry,
engine and scan. The proof has a part for each: that the list of steps stays where
it should (`BeginStands`, `BesideStands`, `StepStands`) and that claims stay backed
(`StepBacked`, `BeginBacked`, `BesideBacked`).

Three more invariants say what a call still has to do, as `Due(call, steps)`: one
of these steps is left.

* `LiveInv`: an engine runs only for a torrent that is wanted and connected, or the
  call under way is about to stop it. It holds without any hypothesis
  (`RegistryLiveIsWanted`).
* `WrittenInv`: memory and record differ about whether the torrent is wanted only
  while the call still has a `write` to do. `RegistryStateAgrees` assumes
  `"write" \notin Faults`: a record that cannot be written leaves the old one on
  disk, the call goes on, and the two disagree until the next write. The run
  `registry_runs` leaves that fault out for the same reason.
* `DiskInv` adds to `AcknowledgedOnDisk` that a pending magnet has its file
  (`MagnetsFiled`), that nothing the operator counts on is being removed, that an
  add which may still take its `.torrent` away again has a magnet to fall back on
  and answers once both files are there (`FilesFollow`), and that a fetch thread
  whose magnet is gone finds nothing acknowledged, or an entry (`FetchesFollow`).
  `RegistryAcknowledgedOnDisk` assumes
  `"unlink" \notin Faults`: a removal that unlinks the `.torrent` and fails on the
  `.resume` keeps the entry with half its files (listed under the disagreements).

Theorems: `RegistryTypeCorrect`, `RegistryRecordBacked`,
`RegistryHeldIsReadable`, `RegistryScanAlone`, and the three above.

### Seats

`StageOK` ties each attempt's place (`pc`) to what it holds: a slot between claim
and registration, a guard while it is counted as pending, a seat once registered.
The counters follow because each action changes the set it counts and the counter
alike: `SlotStep` and `GuardStep` say by how much, `SlotsMove` and `GuardsMove` turn
that into cardinalities. `SeatsCapped` needs the check of the caps and the
registration to happen under one lock, as they do. Theorems: `SeatsAlwaysExact`;
`SlotsAreABudget`, the refinement: under the mapping `SlotHolders` every step of the
threads is a claim, a release or nothing to `Budget`; `StoppedStaysQuiet`, the safety
half of `StopSettles`, which rests on `RegisteredLive`.

### KnownPeers and Upload

`KnownInv`: the table is within its bound, refused and local addresses are not in
it, and a hold has been earned by offences (`HoldsEarned`). From it
`KnownPeersWithstand`, an action property: trusted addresses are not evicted by
others' floods, holds run their course, what is refused is forgotten.
`UploadSlotsKept`: at most the configured number of peers are unchoked, at any
number of slots and peers, and nobody uninterested is. A round ranks the candidates
(`Ahead`, `Place`), so the chosen are those with fewer than the number of slots
ahead of them, and counting bounds them.

### Announce, Session, Naming

`AnnounceInv`: what a tracker has been spared since the last announce plus what the
loop still waits is at least the shortest rest allowed, unless finishing hurried it
(`Rests`), a `completed` is under way only to a tracker that has heard `started` and
has acknowledged none (`SendingStands`), and a wait never exceeds the longest
interval or backoff (`WaitsBounded`). Theorems: `TrackersSpared`
(an action property: spacing, and one snatch acknowledged per tracker),
`AnnounceNeverFarOff` (the safety half of "never silenced"), `AnnounceTyped`.

`SessionInv`: `Held` says for each stage of the supervisor who may hold which
session, so that two networks cannot be attached at once; `KeyStands` that a
stored key is the one the next session is created with, if this bring-up could read
it, and that from `remember` on the session's key is the stored one, if it could be
saved. `SessionIsKept` is an action property; `OnlyUnread` is its part about the key
file, and needs `KeyStands` because the read and the write are stages apart.

`NamingInv`: the ages of entries differ (`AgesApart`), so the oldest is one; `Fresh`:
a lookup that was not overtaken still finds in the table the count it read and a hold
that is over. With it the failure of such a lookup is exactly one more than the last.
Nothing is assumed of how long lookups and holds last. `AnswersAreKept`.

`NetworkIsItsParts` says that a behaviour of the composition is a behaviour of each
component; `NetworkTyped` and `NetworkKeepsItsPromises` carry the theorems over to
the specification the run `network` checks. `ProcessIsItsParts` and
`ProcessKeepsItsPromises` do the same for the run `daemon`.

### Daemon, Fetch, Mock

`DaemonInv`: whoever has passed `lock_instance` has the lock (`LockHeld`); from there
a process's token is the one in the file (`TokenKnown`) and, once bound, the socket
is its own (`SocketOurs`). `DaemonAlwaysSafe`, for any number of processes, kills
and clients.

`FetchAlwaysSafe`: what is accepted is authentic and nobody is dialled twice in a
round. The second rests on what sorting and removing neighbours leaves: a sorted
sequence has every rank (`Ranks`, in `Ordering`), equal elements are neighbours, so
no two that stay are equal.

`PipeKeepsBytes`: bytes read, buffered and to be written are the stream, in order
(`Flow`). `KillsAreFinal`: `Stages`, `Noted` and `Doomed` follow a dial between its
two locks and say which streams a kill has noted.

### Beneath and Commands

`WalkAlwaysSafe`, for a path of any depth: `Entered` says that a directory is open
exactly from the first level on, and only for a path that passed the check.

`CommandsAlwaysHonest`, for any set of hashes and references: `Progress` ties the
stage to the position in the list of targets, `Resolved` says that what the daemon
resolved is all that the target named (`ResolvesAll`: a full hash is a prefix of
itself alone, and a prefix is accepted only if it fits one entry), `Deeds` what has
been done to which target and that no failure has been forgotten, `Chosen` where
the targets come from, `Removals` that every removal of the command is counted in
`gone`. `RowsAreThere` shows that every row of the listing exists, from a total
order on hashes (`LowerTotal`, `LowerStrict`).

### Layout

`BytesAlwaysInPlace`, for every list of paths and lengths, piece length and chunk.
`LayoutInv` says of an open torrent that no folded path is a prefix of another
(`Apart`) and that each byte of each file is the byte last written at its position
of the torrent, a hole or what lies past the end being 0 (`Placed`). The second
needs the first: a write to one file must not show up in another. The argument:

* `Neighbours`: the order of `Vec<String>` is that of sequences without end compared
  at the first place they differ (`BeforeIsLex`), hence total, so every rank is
  taken (`Ranks`). What lies between a path and a path below it is below it too
  (`Between`), so if any two paths collide, two neighbours do.
* `StartSteps`, `StartGrows`, `OneOwner`: the starts are the running sums of the
  lengths (`Sums`), and each byte has exactly one file, empty files or not.
* `PartFacts`, `OverlayFacts`: a segment is the bytes that the block and the file
  share, at the file's own offsets; `pwrite` changes those and leaves a hole.
* `ReadFacts` then gives `ReadsBack`, and with quotients and remainders (`Quotient`,
  `Remainder`, `PieceFacts`) `VerifyExact` and `PrioritiesExact`.

### Records

`RecordsAlwaysExact`, for every number of pieces and bits in a byte, and a state file
damaged in any way. `RecordInv`: the record in memory is typed, its priorities in
range (`Sound`); its sets and the bit set beside it have the length of the torrent
and no spare bit set (`Good`); and every value in the file has a shape that a file
can have (`FileTyped`). The argument:

* `BitPlace`, `PlaceBit`: piece and (byte, bit) correspond one to one; `LastByte`: a
  bit past the last piece is a spare bit of the last byte.
* `WholeBytes`, `CountIs`: in a good bit set the bits of all bytes are those of the
  pieces, so `count`, which never looks at the number of pieces, counts pieces.
* `Within`: `verified` within `have` byte by byte is the same piece by piece.
* `SetKeeps`, `FullIsGood`: the operations keep a bit set good.
* `EncodedRead`, `RoundTrip`: what each field of the written file reads back as; only
  the counters can differ, and by the clamp of `to_int`.
* `DecodedTyped`: what is accepted is good and in range whatever the file, so saving
  it is the round trip again, and nothing is clamped.

### Http

`MessagesAlwaysHonest`, for all heads, bytes, bodies, numerals, caps and timeouts.
What makes it hard is that the reader sees one symbol at a time and the property
speaks of the whole message. `Marked(w, b, M)` describes a chunked message by its
marks: the places where a size line begins, each with the length of the body before
it; from each mark a chunk leads to the next, or the end of the message follows.
`FormsMarked` shows that everything a genuine sender may write has marks, whatever
the number of chunks (`SendingExists`, `SentMarked`: the least number of chunks for
which it would fail does not exist). `HttpInv` is then

* `Meant`: what was sent does not change, and a genuine message is framed and marked;
* `Held`: what is buffered at each place is within the caps, time included;
* `OneStory`: what the head declared is what is being read;
* `OnTrack`, for a genuine message: the body so far agrees with the one meant, and the
  place in the stream fits the marks (`AtSize`, `AtChunk`, `AtChunkEnd`, `AtTrailer`);
  an error has an excuse (`Excused`).

One lemma per action; `SizeStep`, `ChunkStep` and `TrailerStep` say what the next
symbol of a genuine stream can be, and `More` that there is one before the end, so
that a close there is a cut. A head that is not refused declares one length at most
(`OneLength`), in a request because a second length is refused and in a response
because lengths that differ are.

### Wire

`ConversationAlwaysKept`, for every width of a u32, every torrent, every number and
block the format can hold, every extension message within the cap, and every place
where the stream is cut. It assumes what the code's constants are chosen for: the
slack of `max_frame` covers the largest message of fixed length, a block with its
header is within `MAX_MESSAGE_LEN`, and that is a u32. The argument:

* `ReadBack`, `WriteBack`: a u32 and its bytes determine each other. Both are defined
  by recursion over the width, so each goes by a least counterexample; `Recursion`
  says once for all that such a function satisfies its equation.
* `KeepAliveEncodes` to `ExtendedEncodes`, one for each kind of message, and
  `BodyParse`: a message and its body determine each other, which is `OneToOne`.
* `CapFacts`, `SendableFine`: whatever one side sends for a torrent is within the cap
  the other side computes for the same torrent, the largest bit set included.
* `Greets`: the same of the handshake.
* `WireInv`: what is in flight is the frames of the messages not yet read, one after
  the other, less a length the reader has already taken off (`Unread`, `InStep`).
  `UnreadMore` and `UnreadNext` follow it through a send and a read, one lemma per
  action; `UnderstandsOwn` is what it says at the end of the stream.

### What is only model-checked

Liveness, everywhere: `Finishes`, `SlotReclaimed`, `TorrentRuns`, and the liveness
halves of the properties of `network` and `daemon`; the prover does not do fairness.
`CodecExact` (`Bencode`, `Extensions`): RECURSIVE operators, which the prover does
not do. Induction is not available as a rule,
but its use for one statement is: the set of counterexamples, if not empty, has a
least element (`LeastElement`, from the well-foundedness of the naturals).

## 5. Plan

Every component whose behaviour depends on order, failure or accounting has a
module, and every safety property a theorem but `CodecExact`.

To model: an abstract specification of the registry that `Registry` implements;
a file system whose renames and unlinks are not durable before a directory sync;
two torrents with one name.

## 6. Not modelled

* JSON, configuration, text scrubbing, base32 and base64 of addresses, magnet
  links, percent-encoding of announces, previews of error pages, everything the
  command line client prints: functions of one value, without state.
* The sandbox's kernel interface (Landlock rules, seccomp filters): `Daemon` has
  only whether it applied.
* The text of the SAM dialogue beyond what its parsers tell apart.
* SHA-1: a piece is good or not.
* Rates in bytes per second, and the order in which listings are sorted.
