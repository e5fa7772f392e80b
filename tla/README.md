# goaria in TLA+

Specifications of goaria, the aria2-compatible download engine in `src/`, with
TLC instances that check them and TLAPS proofs about them. Paths below are
relative to `src/`.

## The system

| Part | Where | State | Who moves it | Module |
|---|---|---|---|---|
| Queue, scheduler, run life cycle | `engine.go`, `engine_scheduler.go` | `e.downloads`, `e.waiting`, `e.active`, `e.stopped(Set)`, `d.status`, `d.ctx`, `d.cancel`, the one-token channel `e.wake`, `e.ctx` | API callers, the scheduler goroutine, one goroutine per run, `Close` | `EngineScheduler` |
| Output path reservations | `download_util.go`, `finishDownload`, `ChangeOption` | `e.pathReservations`, `e.reservedPathsByGID`, the three `...AfterRun` markers | runs, API callers | `OutputReservations` |
| URI run | `downloader.go`, `download_http.go` | attempts, chosen path, the file on disk | a run | `UriRun` |
| Segmented transfer | `downloader.go` | task list, results channel, progress, concurrency controller | event loop, range workers | `SegmentedTransfer`, `ConcurrencyController` |
| Response timeouts | `proxy.go` | header timer, `idleTimeoutBody` | request, timers, `Close` | `ResponseTimeouts` |
| Torrent run | `torrent_download.go` | file states, `torrentFinalized`, selection, leases | run, file handlers, torrent library | `TorrentHandoff` |
| Session file | `session.go` | snapshot, queued save, temporary file; lines and option layers | handlers, a timer, `Close` | `SessionStore`, `SessionCodec` |
| Notifications | `notifications.go` | subscriber channels | handlers, scheduler, runs, subscribers, `Close` | `Notifications` |
| JSON-RPC server | `jsonrpc/server.go`, `RequestShutdown` | WebSocket connections, calls in flight, `shutdownReq` | HTTP server, clients, callers of shutdown | `RpcServer` |
| Rate limiter, queries, option syntax, program | `downloader.go`, `query.go`, `options.go`, `cmd/goaria` | | | see "Not modelled" |

The engine is the centre: the other parts are called from a run (transfers,
torrents), from the tail of a handler (session, notifications), or call the
engine's API (JSON-RPC, program). A module takes from its neighbours only what
they can do to its state, and lets them do it at any time: `UriRun` is canceled
and restarted whenever it likes, `OutputReservations` starts runs without a
queue, `SessionStore` knows a change of the engine by its number.

## Modules

| Module | Contents |
|---|---|
| `WaitingQueue` | the slice operations on `e.waiting` and `e.stopped`, and the clamped positions of `ChangePosition` |
| `EngineScheduler` | the engine: queue, scheduler, runs, results, `Close`; its properties and the inductive invariant `Inv` |
| `DownloadLifecycle`, `EngineRefinement` | what a client is promised about one download, and the mapping under which the engine implements it |
| `OutputReservations` ... `RpcServer` | the other parts, as in the table above |
| `MC*` | instances for TLC; a module without one is instantiated by its `.cfg` alone |
| `EngineRequestProofs` | what the queue operations do to a sequence of distinct gids; `Inv` under the requests |
| `EngineRunProofs` | `Inv` initially, and under new downloads, starts and ends of runs |
| `EngineSchedulerProofs` | the theorems about the engine, the refinement among them |
| `OutputReservationsProofs` | the theorems about `OutputReservations` |
| `SegmentedTransferProofs` | those about `SegmentedTransfer` and `ConcurrencyController`, the transfer of one file |
| `UriRunProofs` | those about `UriRun` and `ResponseTimeouts`, the run and its requests |
| `SessionStoreProofs` | those about `SessionStore` and `RpcServer`, what a process has to close in order |
| `TorrentHandoffProofs` | those about `TorrentHandoff` and `Notifications`, what reaches the program around the engine |

A proof module with two components states theorems about each on its own; they share
no variable. The second has names of its own for its specification (`RpcSpec`,
`NotifySpec`, `TimeoutSpec`), so that one module can extend both.

Operators whose comment begins with "Slip" are deliberate mistakes: variants of
the definition that follows them, with which some property must fail. No
specification uses them.

### `EngineScheduler`

* **Objects and gids.** `downloads` maps a gid to a `*Download`; `status`, `ctx`
  and `cancel` are fields of the object. A removed download whose run has not
  returned and its successor under the same gid are different objects with the
  same `GidOf`. `runner[r]` is the object that the run goroutine with context
  `r` works for; a context without a goroutine is `NoDownload`.
* **Locks.** A handler holds `e.mu` for one critical section, which is one
  step. Two loops run inside one: that of `schedule()`, during which `Close` can
  cancel `e.ctx`, and that of `pruneStoppedLocked`; each iteration is a step and
  `mu` says who holds the lock. `d.mu` is taken only inside `e.mu` for this state.
* **Tails.** After unlocking, a handler cancels, notifies, signals and saves.
  `callers` and `exiting` count the goroutines that have unlocked and not
  signalled yet, so any number of other steps may come in between. The
  `cancel()` of a request is part of its critical section: the run may return
  with any result before and after it, so a later cancel adds no behaviour.
* **Runs.** A run is its result: success, failure, or an error that is
  `context.Canceled`, the last only if the run's context was canceled, the
  engine is shutting down, or (`HandlerCancels`) the application's
  `TorrentFileHandler` failed with such an error of its own.
* **Adding.** `addTorrent` and `addMagnet` end in the same critical section as
  `AddURI`, and `AddURI` stands for all three.
* **Calls that fail** change nothing and are not steps, except `remove` of a
  stopped download, which cleans the queue first. Calls that leave the modelled
  state alone (changing options that need no restart) are not steps either.
* **Sessions.** `Init` is an engine after `loadSession`: any queue of waiting
  downloads and any set of paused ones.

What the same handlers do to reservations, the session and notifications is in
the modules of those parts; none of it changes this state.

### `OutputReservations`

`owner` and `held` are the two maps. A run is a sequence of steps, between which
every request may come: read the options, look at the file system, reserve,
open, write, return. The three markers name the context of the run they are
about (0 is nil), as the code compares contexts. A canceled run goes on until it
notices. `content` is who has written a file. `outputPathReservationKey` (links,
letter case) is the constant `KeyOf`, so two paths may be one file. A path can be
renamed twice on its way from the options to the run: away from a file that exists
(`resolveExistingOutputPath`), then away from a path that is reserved
(`reserveOutputPath`). `PathsFor` is what can come out. `ChangeOption` is two actions
for a URI download, with and without a new path; some options
(`uriSegmentedLiveOptionChange`) change without a restart.

### `UriRun`

The retry loop of `runDownload` over URIs and tries, the strategies of
`downloadURI` with their probe, and what each does to the file: a file is a
sequence of blocks with holes. Servers answer anything a server can say: ignore
ranges, refuse them, break off, 304, 404, 416. A resource may be too short to be
split, whatever the options ask for (`meetsSegmentedMinimum`). Left out: a resource that changes,
a file name supplied by the server, checksums and remote-time, other downloads
(in `OutputReservations`). A body without a length is taken to end where the
resource does, as the code cannot know better either.

### `SegmentedTransfer`, `ConcurrencyController`

The event loop's `select` over results, ticker and context is one action per
case; a worker's request, its copying in buffered portions and its result are
its own steps. `startReady` starts one worker per step, so that the first ones are
under way, and may be done, before the last is started. The controller is one
operator per method, from controller to controller. The ticker and `notBefore` are
the set `waiting`, from which a tick takes any part; a tick that takes nothing
still makes the loop look at the options again. `kept` is not in the code: it counts
the units of attempts that failed to close their file. Such an attempt is tried again
if a system call gave the error, but `rollbackCompleted` only hears of errors in the
body, so its units are counted twice.

### `SessionStore`, `SessionCodec`

`SessionStore` has when: `version` counts the changes, `file` is the version on
disk. A handler's save, the queued save with its timer, the closing save, the
temporary file, its rename, failures at each point, crash and restart. It leaves
out what is written. `SessionCodec` has what: every engine state of the instance
is saved and loaded again, through lines, option layers and limits. Keys, values
and URIs are atoms, of which some URIs have white space; a line's length is its number
of URIs. An empty list of option values is not kept, and running downloads come
back behind the waiting ones: `RoundTrip` says so.

The engine accepts what a session cannot hold, and `RefusalsExplained` lists it. A save
fails, and the old file stays, if a URI has white space (`validateHTTPURI` lets it
pass), if there are more than `maxSessionDownloads`, or if the file gets larger than
`maxSessionFileSize`. A saved file cannot be loaded if the options of a torrent were
changed to a `goaria-max-torrent-size` below its size, or if `ChangeURI` gave it so many
web seeds that, with its own, there are more than `maxTorrentWebSeeds`. A magnet link
with white space has the same effect as a URI with it, and is left out. The values of
options, keys and the selection of files pass the same checks on loading as when the
download got them, and are taken to pass.

### `Notifications`

Status changes happen under `e.mu`, the notification after the unlock, so
goroutines overtake each other: a pause may be announced before the start of the
run it paused. `log` is what `notify` was called with, and the properties about
results and endings are about these calls; channels drop what does not fit, and what a
subscriber misses is not checked. `BtDownloadComplete` stands for the calls at the four
places where `runTorrentDownload` is about to return nil; a URI run never takes it.
`interrupted` is not in the code: the runs that were paused, removed or restarted while
active.

### `TorrentHandoff`

From metadata to return, with the selection controller, leases (handler,
release or discard, finalization, record), progress snapshots that are applied
after they were taken, changed selections, pause, session and crash. The record is
made under the download's lock (`Record`) and passed on under the selection's (`Mark`),
with the progress update that follows. The torrent client, its storage and `stream.Files` are external and marked so. Left out:
`bt-metadata-only`, reservations (in `OutputReservations`), and a lease that the
application finalizes after the run it belongs to has returned. `NeverHandedTwice` is
about files whose handler returned nil and whose lease was finalized. If the run is
paused after the handler has returned nil and before the lease is finalized, the next
run hands the file over again.

### `RpcServer`

`serve` is where `ListenAndServe` (or `Close` of a mounted server) is, `ws[c]`
where the handler of connection `c` is: a request may have been accepted before the
server stops listening and be handled after. `shutdownReq` is the channel of one.
`ListenAndServe` has a deadline, `Close` of a mounted server that of its context, if
any (`bounded`).
Requests to stop that come when nobody receives any more are left out
(`Received`). `wsWG` counts what `wsActive` counts, so one variable stands for
both. Plain HTTP requests only delay `Shutdown`; when the graceful deadline
passes they end with the process. `SetReadDeadline` is taken to succeed on an
open connection. `CallsAnswered` is about calls past `beginRPC`: a message read as the
connection is being closed is dropped before. `ServerReturns` lets a `Close` without a
deadline wait for a call that hangs. A `wsActive` left too high would show in the runs
only as a server that waits for its deadline; that it counts the handlers is part of
the invariant proved (`CountInv`).

### `ResponseTimeouts`

One request: header timer and its decision, then reads. A timer that could not be
stopped any more waits for the lock with its generation in hand (`firing`), while
the request goes on. With a timeout of 0 the code uses no timers at all
(`proxy.go:177`); the module, and `NeverStuck`, are about positive ones.

## What the runs check

Eleven runs pass, one fails and should. The counts are distinct states.

| Run | Instance | Shows |
|---|---|---|
| `scheduler` | two gids, two objects each, two runs, one or two slots; 605,220 | `Inv`, the invariant of the proofs; `LifecycleSpec`, the engine implements the life cycle; `StartsWithinLimit` and `RunNeverPauses`, what a step may not do |
| `progress` | two gids, three calls, two callers between unlock and signal, result limits 0 and 1, protection on and off, handlers that fail with `context.Canceled`; 419,953 | `StoppedExact`, `ResultLimit`; `WaitingStarts`, no wake-up is lost; `CloseCompletes` |
| `reservations` | two URI downloads and a magnet that want the same files, one through a link, any two of the three in an engine, two runs each, two directories, two requests, names free for two renamings; 991,541 up to exchanging the URI downloads | `ReservationInv`, `UriWritersExclusive`, `PathFollowsOptions` |
| `uri` | two blocks, two URIs, every option that chooses strategy or file apart from the default in one place, two runs; 900,265 | `CompleteFile`, `ForeignFileKept`, `TriesUsed`, `CanceledRunEnds` |
| `segments` | four chunks, two workers, any two failures, cancellations or changes; 270,410 | `ChunksAccounted`, `ProgressAccounted`, `SuccessIsComplete`, `StaysBelowRejected`, `Returns` |
| `session_saves` | two handlers, two timer callbacks, three changes, one crash; 17,243 | `CloseSaves`, `ChangesOnTheirWay`, `FileNeverGoesBack`, `CloseEnds` |
| `session_codec` | two downloads of any kind or three HTTP ones, option layers up to the limits on keys and items, sessions and torrents up to theirs; 341,726 | `RefusalsExplained`, `RoundTrip` |
| `rpc` | two connections, a graceful and a forced request; 353,457 | `ClosedIsReleased`, `CallsAnswered`, `ServerReturns`, `HandlersEnd` |
| `notifications` | two subscribers with a buffer of one, two runs, two calls; 102,789 | `NeverSendsOnClosed`, `ResultFollowsStart`, `OneEnding` |
| `handoff` | two files; a handler that discards and fails, one that releases in a process that crashes, and none; 327,793 | `ProgressAddsUp`, `NeverHandedTwice`, `CompletesSelection`, `HandoffEnds` |
| `timeouts` | four reads; 941 | `TimeoutInv`, `OwnTimeout`, `NeverStuck` |
| `handler_error` | one download; fails | `RunErrorReported`, see "Disagreements" |

Each property's comment in its module says which code it is about. Some of what
they show is worth repeating here. `finishDownload`'s early return for a stale
run is dead code, as runs of one gid never overlap. A forced shutdown may lose its
force but never the shutdown. The generation of the concurrency controller is
enough to tell late results. Two handlers, the queued save and `Close` never put
an old session over a newer one, as the snapshot is taken under `sessionMu`.

The state machines have a `TypeOK` (`RpcTypeOK`, `NotifyTypeOK`, `TimeoutTypeOK`) as
well. In three it is part of the invariant above (`Inv`, `ReservationInv`,
`TimeoutInv`), in most others the types are proved with the inductive invariant;
that of the others holds on the same instances (as an `INVARIANT`).

### Bounds

*Engine.* Two gids give an item something to be reordered and deferred against.
Two objects per gid are enough for an old run and a successor to coexist; a third
would need two live runs of one gid, which `OneRunPerGid` excludes. Two runs are
as many as slots or gids allow, so no start is ever blocked by the model. One
caller between unlock and signal suffices for safety, since a pending signal only
adds wake-ups; the liveness run has two so that tokens coalesce. Positions are
-1, 0, 1 and 9: before the head, the two places, beyond the end.

*Other parts.* Two of everything that can conflict: writers of a file, results in
flight under different limits, connections (one closing, one coming), handlers
of files, savers besides `Close`. Two runs of a download, so that the second
finds what the first has left. Two failures in a segmented transfer let a chunk
fail, be retried and fail for good, or two chunks be throttled under different
generations. Of the three downloads that may want a file, two are in the
engine in one behaviour (`Added`), since a conflict is between two. A session of the instance holds two downloads, so that three are
too many (`Crowd`: of these a few kinds only), and `Layers` are option layers that are
full, overlap, or lower a limit. Four reads let a timer of the first outlive two more. Every bound is
a named constant, and none restricts the proofs.

### Fairness

*Engine.* The scheduler goroutine, a run goroutine's exit, an API call's tail,
pruning under the lock and `Close`'s goroutine are weakly fair: straight-line code
of goroutines that the Go runtime does not suspend for ever. A run is only fair
once its context is canceled: transfers select on their context, and file
handlers receive it. Clients are not fair; in `progress` they make at most
`MaxCalls` calls, as a client that reorders or pauses for ever can starve a
download.

*Locks and selects.* Taking `sessionMu` is strongly fair (Go's mutex does not
starve a waiter). The cases of the segmented loop's `select` are strongly fair (a
ready case is chosen at random, so not passed over for ever).

*Outside.* Workers' requests end (`ResponseTimeouts` shows why: header and idle
timers). A server that fails, throttles or hangs does so within that. In
`RpcServer` neither clients nor calls are fair; a closed connection's read fails
(strongly fair, as messages received before it may still come first). In
`TorrentHandoff` the application's handler returns or fails, and finalizes its
lease, as `README.md:52` demands of it, and peers have the files; selections
change and runs are restarted a bounded number of times.

## What is proved

For all values of the constants, of any size: the bounds of the runs are constants
too. Finiteness is assumed of nothing but the callbacks of the save timer and the
files of a torrent; `e.active`, the list of results and the handlers of connections
are finite by invariants. Fairness plays no part.

**Engine** (`GidOf` is a function to gids, nil is not an object or context, option
values are naturals, positions integers):

* `Invariance`: `Spec => []Inv`. `Inv` is the conjunction of the safety
  invariants, the type invariant and `Linked`. No part is inductive alone. A
  finishing run must not disturb the successor of a removed download: that is
  `RunIsCurrent`, which needs `OneRunPerGid`, which needs `ActiveIsRunning`
  because `schedule()` looks at `e.active`. Pruning must not remove a queued
  download: that is `StoppedExact`. `Linked` ties gids, objects and contexts
  together: an unfinished download is the one its gid names, `d.ctx` is the
  context of a run of `d`, a cancel function is held by active downloads only,
  and only live contexts are marked canceled.
* From it `TypeCorrect`, `QueueSafe`, `RunsExclusive`, `CancelReaches`,
  `ResultsExact`, `CloseQuiet`, `StartLimit`.
* `ResultsLimited`: `Spec => []ResultLimit`. `LimitInv` adds that `schedule()` holds
  the lock exactly while it loops, and so never unlocks over results that are still
  to be pruned. Results are counted by gid rather than by place in the list (the
  same number, by `StoppedExact`): then a step that forgets some leaves a subset,
  and no step changes the status of a stopped download.
* `Refinement` and `RunsNeverPause`, if `~HandlerCancels`. Each action maps to one
  life-cycle step or a stutter. The only hard case is the end of a run whose
  download is not active any more: the gid's current download cannot be active
  either, as its run would be a second run of the gid.

**Reservations** (`KeyOf` maps paths to keys, `Layout` to paths, a URI download is
no torrent):

* `Reservations`: `Spec => []ReservationInv`. The maps are inverse
  (`ReservationsAgree`); what a run was granted is held by its download until the
  run returns (`RunKeepsGrant`); the set that `finishDownload` will swap in is
  held already (`TransitionCovered`); a URI run writes what it was granted
  (`UriRunReserved`). The second needs the third, since `finishDownload` replaces
  what is held, and both need the first, since a release looks at one map and
  changes the other. `RecordAgrees`, `ReleaseAgrees` and `SwapAgrees` are the
  three operations on the maps, and each action uses one of them.
* `UriWriters`: `Spec => []UriWritersExclusive`, from it: if two runs wrote one
  key, both downloads would hold it, and `owner` would have two values.
* `PathsFollow`: `Spec => []PathFollowsOptions`. A run works for a while with what
  it has read, so `PathInv` follows it: as long as no change of options has marked
  the run's path for a reset, the options it has read, the path it has chosen and
  the one it is about to publish are those in force, renamed at most once after
  looking at the file system and at most twice after reserving. Once marked, what
  the run publishes is free, as `finishDownload` takes it back.

**URI run** (positive size, at least one URI, the options are members of
`OptionSet`, the names are numbered and 0 is one of them):

* `AllTriesUsed`: `Spec => []TriesUsed`, by `LoopInv`: between two attempts a
  retryable error is the last one only if another round will follow.
* `ForeignFileUntouched`: `Spec => []ForeignFileKept`, if `~Changeable`, that is if
  no option changes between two runs. `ForeignInv`: while a foreign file exists no
  run has it as its target.
* `SuccessLeavesTheResource`: `Spec => [](Honest => CompleteFile)`, if `~Changeable`.
  `Honest` says that a file the download is told to continue is a beginning of the
  resource; the code cannot tell, and without it the claim is false. The instance
  of the run only has such files, so there it is `CompleteFile` itself.
  `ContentInv` says what an attempt may find: a beginning of the resource, or, for
  the strategies that probe and never for a single GET, a file of the final size
  with holes. That is where `~Changeable` is needed: `CompleteFile` is false without
  it (see "Disagreements", 5).

**Segmented transfer** (at least one chunk, none empty, positive splits; any number
of failures, cancellations and changes):

* *Controller* (any limits, any ceiling). `Sound(c, L)` says that, with `L` the
  launches so far, the limit is below the smallest one throttled, that no launch in
  `L` is of a later generation, and that a launch of the current one had the
  current limit. It holds of a new controller, and each of launch, `onSuccess`,
  `onThrottle` and `onRetryableError` keeps it (`NewControllerSound`, `LaunchSound`,
  `OnSuccessSound`, `OnThrottleSound`, `OnRetryableErrorSound`).
* `TransferInvariant`: `Spec => []SegInv`. The controller is sound for the launches
  of all chunks; `active` counts the busy workers, no chunk is in two places and,
  while nothing has failed, each is queued, busy or complete; the result in the
  channel is of a worker that has ended; a worker that ends well has written its
  range; completed pieces are on disk; when the loop is over nothing is active.
  `ProgressAccounted` is part of it: it needs to know where each chunk is, since a
  result moves units from one sum to the other. The completed length is at least what
  the pieces and workers account for, and at most that and `kept`; the cap in
  `addCompleted` only cuts off units that were counted twice, and the floor in
  `rollbackCompleted` never does. Sums are cardinalities of sets of units, about which
  the library has theorems.
* From it `NoChunkLost` (`ChunksAccounted`), `ProgressIsAccounted`, `SuccessIsWhole`
  (`SuccessIsComplete`) and `LimitBelowRejected` (`StaysBelowRejected`).

**Session file** (handlers, callbacks and `Close` are different, finitely many
callbacks; any number of changes, failures and crashes):

* `SavesInvariant`: `Spec => []SaveInv`. `LockInv`: the holder of `sessionMu` is the
  one that writes, and its snapshot is no older than the file. `QueueInv`: a pending
  save has its timer or a callback that has not begun, and none is left when `Close`
  is past its wait. `LateChange`: a change made after the snapshot being written has
  a save to come; without it a rename could end the failure that had excused it.
* From it `EveryChangeOnItsWay` (`ChangesOnTheirWay`), `CloseLeavesItSaved`
  (`CloseSaves`) and the action property `FileMovesForward` (`FileNeverGoesBack`).

**Timeouts** (any number of reads): `Timers`, `TimeoutSpec => []TimeoutInv`. A set timer is
that of the current read, a fired one is of a generation up to it, and the
header's timer is settled before the response is returned. From it `Settled`, and
`TimeoutIsOwn`: `expire` compares generations, so only the timer of the read that
is going on closes the body.

**Torrent run** (finitely many files with natural lengths; any number of runs,
selections, failures and crashes; any of the handlers in `Setups`):

* `TorrentInvariant`: `Spec => []TorrentInv`, the types, `ProgressAddsUp` and
  `RunInv`. `RunInv` says what a run has at each of its stages: leases only while it
  streams, the files that are done among the finalized ones, and, as long as the
  selection was not changed under it, which makes an active download wait, that it
  streams whatever is selected and not finalized. A snapshot is taken with one selection
  and applied under another, so its type is all that can be kept of it; the sums
  are taken again when it is applied (`FilesAddUp`, `ApplyAddsUp`). Sums are
  cardinalities of sets of bytes, about which the library has theorems.
* From it `ProgressRight` (`ProgressAddsUp`), `NeverOverdone` (the completed length is
  at most the total length, also after `finishDownload` has made them equal) and the
  action property `SelectionCompleted` (`CompletesSelection`).
* `HandedOnce`: `Spec => NeverHandedTwice`, if `DiscardIsKept`: where a handler discards
  files, the process does not crash. Without that it is false (see "Disagreements",
  9). `HandInv` says where a delivered file is known to be: released in the
  storage, where the next run finds it before it asks for files, or, if it may be
  discarded, finalized or about to be.

**Notifications** (any number of subscribers, runs and calls, any buffer):

* `NotifyInvariant`: `NotifySpec => []NotifyInv`. `SubscribersOpen`: whoever is subscribed has
  an open channel. `StartsFirst`: a run begins after its start was sent, so the start
  is in the log when the result becomes due, whoever overtakes whom after that. A
  result becomes due only for a run that is not among `interrupted`, and no request
  can interrupt a run that has ended.
  `OneEnding` is inductive with the types: the one terminal notification moves from
  `due` to `log`.
* From it `NoSendOnClosed` (`NeverSendsOnClosed`), `StartBeforeResult`
  (`ResultFollowsStart`) and `EndsOnce` (`OneEnding`).

**JSON-RPC server** (any number of connections and callers, any natural limit):

* `RpcInvariant`: `RpcSpec => []RpcInv`. `CountInv`: `wsActive` is the number of handlers
  inside, and no handler gets in once connections are being marked. `Linked`, for each
  connection: a call is between `beginRPC` and `endRPC`; a connection that is to be
  shut has no call and gets none, since `closing` is read and `handling` set under one
  lock; a connection found closed was closed by its client, by a mark, or after the
  deadline.
* From it `CloseReleases` (`ClosedIsReleased`): the wait ends at a count of 0, when
  `CountInv` leaves no handler; `EveryCallAnswered` (`CallsAnswered`); and
  `ConnectionsLimited`, the limit of `beginWebSocket`.

Each inductive invariant was checked by TLC on the instance of its module first.

Only model-checked:

* every liveness property (`WaitingStarts`, `CloseCompletes`, `CanceledRunEnds`,
  `Returns`, `CloseEnds`, `ServerReturns`, `HandlersEnd`, `HandoffEnds`,
  `NeverStuck`): fairness and ENABLED are out of the prover's reach;
* `SessionCodec` (`RefusalsExplained`, `RoundTrip`): its operators fold over lines and
  layers, and what they compute for every input needs induction over data.

## Disagreements

Where a comment, a document or a test says one thing and the code does another.
Each has a configuration with which TLC shows it, and the comment on the property
says when it fails. The passing runs are set up without it, or state the weaker
property that does hold.

1. `handler_error` (`MCEngineHandler.cfg`, `RunErrorReported`). `finishDownload`
   (`engine_scheduler.go:144`) pauses a download whose run failed with any
   `context.Canceled` and drops the error, also when it is that of a
   `TorrentFileHandler`'s own context. `README.md:52`: "If the handler returns an
   error before finalizing the lease, goaria releases the file storage and reports
   the handler error as the download error." The same in `types.go:49`.
2. `MCOutputOverwrite.cfg`, `FilesKept`. `downloadURI` looks whether the output
   exists before it reserves the path (`downloader.go:548`) and does not look
   again; a file that another download creates and finishes in between is
   truncated, without `allow-overwrite`. `download_util.go:289`: "reservations
   cover the otherwise unavoidable window between choosing a path and creating
   it."
3. `MCOutputWriters.cfg`, `WritersExclusive`. `runTorrentDownload` reserves the
   paths of one selection and reads the selection again afterwards
   (`torrent_download.go:1285`). `ChangeOption` on a download that was paused,
   while its canceled run is between the two, reserves nothing; the run then
   writes a path it has not reserved until it notices that it was canceled.
   `download_util.go:289`: "reserveOutputPath prevents two downloads in the same
   Engine from writing the same destination concurrently." `UriWritersExclusive`
   is what holds.
4. `MCOutputLeak.cfg`, `IdleHoldsNothing`. A download that is paused after its
   restart, when the old run has returned and the new one has not begun, keeps its
   reservations (`engine_scheduler.go:158`). `engine.go:120`:
   "retainReservationsAfterRun keeps an unchanged or atomically replaced output
   reservation set across a cancel-and-requeue restart."
5. `MCUriSplit.cfg`, `CompleteFile`. `downloadSegmented` gives the file its final
   size at once. If the run is interrupted and the download is continued with
   `split=1`, the size is taken for the progress, the request for the range behind
   it is answered with 416, and the download is complete with holes
   (`downloader.go:1134`). `README.md:148`: "resume through `continue=true` when
   servers support byte ranges"; `download_http_spec_test.go:1154` expects a 416 at
   the existing length to mean a complete file.
6. `MCUriConditional.cfg`, `NotModifiedKeepsFile`. `applyConditionalHeaders`
   (`download_http.go:125`) sends the time of whatever is at the output path. In a
   retry that is the part the failed try has left, and a 304 makes it a complete
   download. `TestContinueDoesNotTreatPartialFileAsConditionallyComplete`
   (`download_http_spec_test.go:562`) requires the opposite for `continue=true`.
7. `MCRpcForce.cfg`, `ForceNotLost`. Between the two selects of
   `RequestShutdown(true)` another graceful request can fill the channel, and the
   forced one is dropped (`engine.go:264`). `engine.go:259`: "Replace a queued
   graceful request so forceShutdown can escalate it."
8. `MCTorrentFailed.cfg`, `FinalizedWereHandled`. When a handler fails, its file is
   released; the next run finds it released and records it as finalized
   (`torrent_download.go:1560`). `engine.go:102`: "torrentFinalized contains
   one-based torrent file indexes successfully handed off to TorrentFileHandler."
9. `MCTorrentDiscard.cfg`, `NeverHandedTwice`. The record of a discarded file is
   saved with the queued session save (`torrent_download.go:1736`). If the process
   ends before, the file is fetched and handed over again. `engine.go:103`: "a
   paused or restored download never hands the same file off twice."

## Not modelled

* `PauseAll`, `UnpauseAll`, `ForcePauseAll`: loops over single calls, each of which
  is an action, with anything in between.
* The rate limiter: arithmetic on the clock. Its waits only delay a worker, which
  the transfer modules allow at every point.
* Queries and the formatting of their answers; the method table and the decoding of
  JSON-RPC: they read, or call one handler.
* The syntax of option values, URIs, headers, torrents and session lines
  below the level of keys and values.
* Adding a torrent (fetching it, parsing it), the peer protocol, trackers and web
  seeds: the torrent library's, or pure I/O.
* Request construction, proxies, redirects, cookies, TLS, the transport caches.
* Checksums, remote-time, speeds, logging, command line flags, the one-shot
  download command.
* Gid prefixes (`findDownloadLocked` accepts a unique prefix): a call names a gid.

## Running

    tlc -config MCEngineScheduler.cfg    MCEngineScheduler
    tlc -config MCEngineProgress.cfg     MCEngineProgress
    tlc -config MCEngineHandler.cfg      MCEngineScheduler       (fails)
    tlc -config MCOutputReservations.cfg MCOutputReservations
    tlc -config MCUriRun.cfg             MCUriRun
    tlc -config MCSegmentedTransfer.cfg  MCSegmentedTransfer
    tlc -config MCSessionStore.cfg       SessionStore
    tlc -config MCSessionCodec.cfg       MCSessionCodec
    tlc -config MCRpcServer.cfg          MCRpcServer
    tlc -config MCNotifications.cfg      Notifications
    tlc -config MCTorrentHandoff.cfg     MCTorrentHandoff
    tlc -config MCResponseTimeouts.cfg   ResponseTimeouts

and, for the other disagreements, `MCOutputOverwrite.cfg`, `MCOutputWriters.cfg`
and `MCOutputLeak.cfg` with `MCOutputReservations`, `MCUriSplit.cfg` and
`MCUriConditional.cfg` with `MCUriRun`, `MCRpcForce.cfg` with `MCRpcServer`,
`MCTorrentFailed.cfg` and `MCTorrentDiscard.cfg` with `MCTorrentHandoff`.

    tlapm EngineRequestProofs.tla        (and each other *Proofs.tla)
