--------------------------- MODULE EngineScheduler ---------------------------
(***************************************************************************)
(* The download queue, the scheduler goroutine and the life cycle of the   *)
(* run goroutines of goaria.Engine (engine.go, engine_scheduler.go).       *)
(*                                                                         *)
(* Every handler is one critical section of e.mu followed by a tail that   *)
(* runs without the lock (cancel the run, notify, e.signal()).  The        *)
(* critical section is one step, except for the two loops in it, the loop  *)
(* of schedule() and the loop of pruneStoppedLocked(): each iteration is a *)
(* step, and mu says who holds e.mu meanwhile.  The tail is a step of its  *)
(* own: callers and exiting count the goroutines that have unlocked e.mu   *)
(* and have not yet called e.signal().                                     *)
(*                                                                         *)
(* A Download is a heap object, distinct from its gid: a removed download  *)
(* whose run has not returned yet can coexist with a new download that was *)
(* added under the same gid.  A Run is the context of one run goroutine.   *)
(*                                                                         *)
(* Left to other modules: output path reservations, the session file and   *)
(* notifications.                                                          *)
(***************************************************************************)
EXTENDS Integers, Sequences, FiniteSets, Functions, WaitingQueue

CONSTANTS
  Gid,            \* the gids in play
  Download,       \* the Download objects that can be allocated
  GidOf,          \* d.gid of every object
  Run,            \* the contexts that schedule() can create
  NoDownload,     \* nil *Download
  NoRun,          \* nil context
  MaxActiveVals,  \* values given to max-concurrent-downloads
  MaxResultVals,  \* values given to max-download-result
  KeepVals,       \* values given to keep-unfinished-download-result
  Positions,      \* values given to the position arguments
  HandlerCancels, \* Config.TorrentFileHandler may fail with a context.Canceled
                  \* of its own, for a context that is not the run's
  MaxCallers,     \* bound: API calls between unlock and signal
  MaxExiting      \* bound: run goroutines between unlock and signal

ASSUME GidAssumption == GidOf \in [Download -> Gid]
ASSUME NilAssumption == NoDownload \notin Download /\ NoRun \notin Run
ASSUME OptionAssumption ==
  /\ MaxActiveVals \subseteq Nat
  /\ MaxResultVals \subseteq Nat
  /\ KeepVals \subseteq BOOLEAN
  /\ Positions \subseteq Int
  /\ HandlerCancels \in BOOLEAN
ASSUME BoundAssumption == MaxCallers \in Nat /\ MaxExiting \in Nat

VARIABLES
  downloads,      \* e.downloads
  status,         \* d.status
  ctx,            \* d.ctx
  cancel,         \* d.cancel, named by the context it cancels
  waiting,        \* e.waiting
  active,         \* e.active
  stopped,        \* e.stopped
  stoppedSet,     \* e.stoppedSet
  maxActive,      \* global option max-concurrent-downloads
  maxResult,      \* global option max-download-result
  keepUnfinished, \* global option keep-unfinished-download-result
  shutdown,       \* e.ctx is done
  closed,         \* e.closeDone is closed
  wake,           \* e.wake holds its one token
  mu,             \* holder of e.mu between two steps
  sched,          \* where the scheduler goroutine is
  candidates,     \* schedule()'s countdown
  starts,         \* schedule()'s runs not launched yet
  runner,         \* the download a context was created for
  canceled,       \* contexts canceled by their own CancelFunc
  callers,        \* API calls still to signal
  exiting         \* run goroutines still to signal

items   == <<downloads, status>>
links   == <<ctx, cancel>>
results == <<stopped, stoppedSet>>
options == <<maxActive, maxResult, keepUnfinished>>
life    == <<shutdown, closed>>
loop    == <<sched, candidates, starts>>
runs    == <<runner, canceled>>
tails   == <<callers, exiting>>

vars == <<items, links, waiting, active, results, options, life, wake, mu,
          loop, runs, tails>>

Unfinished == {"waiting", "active", "paused"}
Terminal   == {"complete", "error", "removed"}
\* An object that was never allocated has status "new".
Status     == Unfinished \cup Terminal \cup {"new"}

Known(g) == downloads[g] # NoDownload
Live(r)  == runner[r] # NoDownload

TypeOK ==
  /\ downloads \in [Gid -> Download \cup {NoDownload}]
  /\ status \in [Download -> Status]
  /\ ctx \in [Download -> Run \cup {NoRun}]
  /\ cancel \in [Download -> Run \cup {NoRun}]
  /\ waiting \in Seq(Gid)
  /\ active \in SUBSET Gid
  /\ stopped \in Seq(Gid)
  /\ stoppedSet \in SUBSET Gid
  /\ maxActive \in Nat /\ maxResult \in Nat /\ keepUnfinished \in BOOLEAN
  /\ shutdown \in BOOLEAN /\ closed \in BOOLEAN /\ wake \in BOOLEAN
  /\ mu \in {"free", "scheduler", "caller", "finisher"}
  /\ sched \in {"select", "woken", "looping", "starting", "exited"}
  /\ candidates \in Nat
  /\ starts \in Seq(Run)
  /\ runner \in [Run -> Download \cup {NoDownload}]
  /\ canceled \in SUBSET Run
  /\ callers \in Nat /\ exiting \in Nat

-----------------------------------------------------------------------------
(* Results                                                                 *)

AppendStopped(g) ==
  /\ stopped' = IF g \in stoppedSet THEN stopped ELSE Append(stopped, g)
  /\ stoppedSet' = stoppedSet \cup {g}

Protected(g) == keepUnfinished /\ Known(g) /\ status[downloads[g]] = "error"

Prunable == {i \in DOMAIN stopped : ~Protected(stopped[i])}

\* One iteration of pruneStoppedLocked that drops a result: the oldest that
\* is not protected.
PruneResult ==
  /\ mu \in {"caller", "finisher"}
  /\ Cardinality(Prunable) > maxResult
  /\ \E i \in Prunable :
       /\ \A j \in Prunable : i <= j
       /\ stopped' = RemoveAt(stopped, i)
       /\ stoppedSet' = stoppedSet \ {stopped[i]}
       /\ downloads' = [downloads EXCEPT ![stopped[i]] = NoDownload]
  /\ UNCHANGED <<status, links, waiting, active, options, life, wake, mu,
                 loop, runs, tails>>

\* Nothing is left to prune: unlock, and go on to the tail.
UnlockAfterPrune ==
  /\ mu \in {"caller", "finisher"}
  /\ Cardinality(Prunable) <= maxResult
  /\ mu' = "free"
  /\ callers' = IF mu = "caller" THEN callers + 1 ELSE callers
  /\ exiting' = IF mu = "finisher" THEN exiting + 1 ELSE exiting
  /\ UNCHANGED <<items, links, waiting, active, results, options, life, wake,
                 loop, runs>>

-----------------------------------------------------------------------------
(* API calls                                                               *)

\* An API call takes e.mu; at most MaxCallers of them are in their tails.
Call == mu = "free" /\ callers < MaxCallers

\* The critical section of a call ends and e.signal() is still to come.
Return == callers' = callers + 1 /\ UNCHANGED <<mu, exiting>>

\* An allocation returns an object nothing refers to.
Fresh(d) == /\ \A g \in Gid : downloads[g] # d
            /\ \A r \in Run : runner[r] # d

\* The d.cancel() of a call that took d.cancel.  The call runs it after
\* unlocking; a run may return with any result before and after it does.
CancelRun(d) ==
  /\ cancel' = [cancel EXCEPT ![d] = NoRun]
  /\ canceled' = IF cancel[d] = NoRun THEN canceled ELSE canceled \cup {cancel[d]}
  /\ UNCHANGED <<ctx, runner>>

AddURI(g, d, paused, pos) ==
  /\ Call
  /\ ~shutdown
  /\ ~Known(g)
  /\ Fresh(d) /\ GidOf[d] = g
  /\ downloads' = [downloads EXCEPT ![g] = d]
  /\ status' = [status EXCEPT ![d] = IF paused THEN "paused" ELSE "waiting"]
  /\ waiting' = IF paused THEN waiting ELSE InsertWaiting(waiting, g, pos)
  /\ Return
  /\ UNCHANGED <<links, active, results, options, life, wake, loop, runs>>

\* Remove and ForceRemove: e.remove.  Removing a stopped download fails, after
\* the queue was cleaned of it.
ForceRemove(g) ==
  /\ Call
  /\ Known(g)
  /\ waiting' = Without(waiting, g)
  /\ LET d == downloads[g] IN
       IF status[d] \in Terminal
       THEN UNCHANGED <<status, links, results, mu, runs>>
       ELSE /\ status' = [status EXCEPT ![d] = "removed"]
            /\ CancelRun(d)
            /\ AppendStopped(g)
            /\ mu' = "caller"
  /\ UNCHANGED <<downloads, active, options, life, wake, loop, tails>>

\* Slip: a paused item stays in e.waiting.
PauseKeepsQueue(g) ==
  /\ Call
  /\ Known(g)
  /\ LET d == downloads[g] IN
       /\ status[d] \notin Terminal
       /\ status' = [status EXCEPT ![d] = "paused"]
       /\ CancelRun(d)
  /\ Return
  /\ UNCHANGED <<downloads, waiting, active, results, options, life, wake, loop>>

Pause(g) ==
  /\ Call
  /\ Known(g)
  /\ LET d == downloads[g] IN
       /\ status[d] \notin Terminal
       /\ status' = [status EXCEPT ![d] = "paused"]
       /\ CancelRun(d)
  /\ waiting' = Without(waiting, g)
  /\ Return
  /\ UNCHANGED <<downloads, active, results, options, life, wake, loop>>

\* Slip: everything that is neither waiting nor active can be resumed.
UnpauseStopped(g) ==
  /\ Call
  /\ Known(g)
  /\ status[downloads[g]] \notin {"waiting", "active"}
  /\ status' = [status EXCEPT ![downloads[g]] = "waiting"]
  /\ waiting' = Append(waiting, g)
  /\ Return
  /\ UNCHANGED <<downloads, links, active, results, options, life, wake, loop,
                 runs>>

Unpause(g) ==
  /\ Call
  /\ Known(g)
  /\ status[downloads[g]] = "paused"
  /\ status' = [status EXCEPT ![downloads[g]] = "waiting"]
  /\ waiting' = Append(waiting, g)
  /\ Return
  /\ UNCHANGED <<downloads, links, active, results, options, life, wake, loop,
                 runs>>

\* No signal: moving an item frees no slot.
ChangePosition(g, pos, how) ==
  /\ Call
  /\ Known(g)
  /\ g \in Range(waiting)
  /\ LET rest == Without(waiting, g)
         idx  == IndexOf(waiting, g) - 1
     IN  waiting' = InsertAt(rest, g, Destination(how, idx, pos, Len(rest)))
  /\ UNCHANGED <<items, links, active, results, options, life, wake, mu, loop,
                 runs, tails>>

\* Slip: the run is canceled and the status left to finishDownload.
RestartKeepsStatus(g) ==
  /\ status[downloads[g]] = "active"
  /\ CancelRun(downloads[g])
  /\ UNCHANGED <<status, waiting>>

\* An active item is queued again behind its current run, which is canceled.
RestartActive(g) ==
  /\ status[downloads[g]] = "active"
  /\ status' = [status EXCEPT ![downloads[g]] = "waiting"]
  /\ waiting' = IF g \in Range(waiting) THEN waiting ELSE Append(waiting, g)
  /\ CancelRun(downloads[g])

\* Of the calls that change a download's URIs or options, the ones that
\* restart an active item.  The others leave the queue alone.
ChangeURI(g) ==
  /\ Call
  /\ Known(g)
  /\ RestartActive(g)
  /\ Return
  /\ UNCHANGED <<downloads, active, results, options, life, wake, loop>>

ChangeOption(g) ==
  /\ Call
  /\ Known(g)
  /\ RestartActive(g)
  /\ Return
  /\ UNCHANGED <<downloads, active, results, options, life, wake, loop>>

\* Slip: the results are not pruned when the limit changes.
ChangeGlobalWithoutPrune(ma, mr, keep) ==
  /\ Call
  /\ maxActive' = ma
  /\ maxResult' = mr
  /\ keepUnfinished' = keep
  /\ Return
  /\ UNCHANGED <<items, links, waiting, active, results, life, wake, loop, runs>>

ChangeGlobalOption(ma, mr, keep) ==
  /\ Call
  /\ maxActive' = ma
  /\ maxResult' = mr
  /\ keepUnfinished' = keep
  /\ mu' = "caller"
  /\ UNCHANGED <<items, links, waiting, active, results, life, wake, loop, runs,
                 tails>>

PurgeDownloadResult ==
  /\ Call
  /\ downloads' = [g \in Gid |-> IF g \in Range(stopped) THEN NoDownload
                                 ELSE downloads[g]]
  /\ stoppedSet' = stoppedSet \ Range(stopped)
  /\ stopped' = <<>>
  /\ UNCHANGED <<status, links, waiting, active, options, life, wake, mu, loop,
                 runs, tails>>

\* Slip: the gid stays in e.stopped.
RemoveKeepsListed(g) ==
  /\ Call
  /\ Known(g)
  /\ status[downloads[g]] \in Terminal
  /\ downloads' = [downloads EXCEPT ![g] = NoDownload]
  /\ stoppedSet' = stoppedSet \ {g}
  /\ UNCHANGED <<status, stopped, links, waiting, active, options, life, wake,
                 mu, loop, runs, tails>>

RemoveDownloadResult(g) ==
  /\ Call
  /\ Known(g)
  /\ status[downloads[g]] \in Terminal
  /\ downloads' = [downloads EXCEPT ![g] = NoDownload]
  /\ stoppedSet' = stoppedSet \ {g}
  /\ stopped' = Without(stopped, g)
  /\ UNCHANGED <<status, links, waiting, active, options, life, wake, mu, loop,
                 runs, tails>>

\* Close takes no lock: e.ctx can be done in the middle of schedule().
Close ==
  /\ shutdown' = TRUE
  /\ wake' = TRUE
  /\ UNCHANGED <<items, links, waiting, active, results, options, closed, mu,
                 loop, runs, tails>>

\* e.signal() at the end of a call.
Signal ==
  /\ callers > 0
  /\ callers' = callers - 1
  /\ wake' = TRUE
  /\ UNCHANGED <<items, links, waiting, active, results, options, life, mu,
                 loop, runs, exiting>>

-----------------------------------------------------------------------------
(* The scheduler goroutine                                                 *)

\* select: a token was received.  e.mu is taken in the next step.
Wake ==
  /\ sched = "select" /\ wake
  /\ sched' = "woken"
  /\ wake' = FALSE
  /\ UNCHANGED <<items, links, waiting, active, results, options, life, mu,
                 candidates, starts, runs, tails>>

\* select: e.ctx is done.
SchedulerExit ==
  /\ sched = "select" /\ shutdown
  /\ sched' = "exited"
  /\ UNCHANGED <<items, links, waiting, active, results, options, life, wake,
                 mu, candidates, starts, runs, tails>>

ScheduleLock ==
  /\ sched = "woken" /\ mu = "free"
  /\ sched' = "looping"
  /\ mu' = "scheduler"
  /\ candidates' = Len(waiting)
  /\ UNCHANGED <<items, links, waiting, active, results, options, life, wake,
                 starts, runs, tails>>

\* Slip: one download too many.
MoreThanLimit ==
  ~shutdown /\ Cardinality(active) <= maxActive /\ waiting # <<>> /\ candidates > 0

MoreCandidates ==
  /\ ~shutdown
  /\ Cardinality(active) < maxActive
  /\ waiting # <<>>
  /\ candidates > 0

\* The head of the queue still has a run: to the back of the queue.
DeferCandidate ==
  /\ sched = "looping"
  /\ MoreCandidates
  /\ Head(waiting) \in active
  /\ candidates' = candidates - 1
  /\ waiting' = Append(Tail(waiting), Head(waiting))
  /\ UNCHANGED <<items, links, active, results, options, life, wake, mu,
                 sched, starts, runs, tails>>

\* A new context r for the head of the queue.  An entry without a waiting
\* download is dropped.
StartCandidate(r) ==
  /\ sched = "looping"
  /\ MoreCandidates
  /\ Head(waiting) \notin active
  /\ ~Live(r)
  /\ candidates' = candidates - 1
  /\ waiting' = Tail(waiting)
  /\ LET g == Head(waiting)
         d == downloads[g]
     IN  IF Known(g) /\ status[d] = "waiting"
         THEN /\ ctx' = [ctx EXCEPT ![d] = r]
              /\ cancel' = [cancel EXCEPT ![d] = r]
              /\ status' = [status EXCEPT ![d] = "active"]
              /\ active' = active \cup {g}
              /\ runner' = [runner EXCEPT ![r] = d]
              /\ starts' = Append(starts, r)
         ELSE UNCHANGED <<ctx, cancel, status, active, runner, starts>>
  /\ UNCHANGED <<downloads, results, options, life, wake, mu, sched, canceled,
                 tails>>

ScheduleUnlock ==
  /\ sched = "looping"
  /\ ~MoreCandidates
  /\ mu' = "free"
  /\ sched' = IF starts = <<>> THEN "select" ELSE "starting"
  /\ candidates' = 0
  /\ UNCHANGED <<items, links, waiting, active, results, options, life, wake,
                 starts, runs, tails>>

\* go func() { runDownload; finishDownload }, after e.mu was released.
LaunchRun ==
  /\ sched = "starting"
  /\ starts' = Tail(starts)
  /\ sched' = IF Tail(starts) = <<>> THEN "select" ELSE "starting"
  /\ UNCHANGED <<items, links, waiting, active, results, options, life, wake,
                 mu, candidates, runs, tails>>

-----------------------------------------------------------------------------
(* The run goroutines                                                      *)

Running(r) == Live(r) /\ r \notin Range(starts)

\* The results runDownload can return.  An error that is context.Canceled means
\* that its context, a child of e.ctx, was canceled, unless it came from the
\* application's TorrentFileHandler.
RunResult(r) ==
  {"ok", "failed"} \cup
  (IF shutdown \/ r \in canceled \/ HandlerCancels THEN {"canceled"} ELSE {})

FinishedStatus(result) ==
  IF result = "ok" THEN "complete"
  ELSE IF shutdown THEN "waiting"
  ELSE IF result = "canceled" THEN "paused" ELSE "error"

\* The context is garbage once its goroutine is past the critical section.
Retire(r) ==
  /\ runner' = [runner EXCEPT ![r] = NoDownload]
  /\ canceled' = canceled \ {r}

\* finishDownload.  A run that is no longer its download's current run
\* returns at once.
FinishDownload(r, result) ==
  /\ mu = "free" /\ exiting < MaxExiting
  /\ Running(r)
  /\ Retire(r)
  /\ LET d == runner[r]
         next == IF status[d] = "active" THEN FinishedStatus(result) ELSE status[d]
     IN  IF ctx[d] # r
         THEN UNCHANGED <<status, links, active, results, mu, exiting>>
         ELSE /\ active' = active \ {GidOf[d]}
              /\ ctx' = [ctx EXCEPT ![d] = NoRun]
              /\ cancel' = IF status[d] = "active"
                           THEN [cancel EXCEPT ![d] = NoRun] ELSE cancel
              /\ status' = [status EXCEPT ![d] = next]
              /\ IF status[d] = "active" /\ next \in Terminal
                 THEN AppendStopped(GidOf[d]) /\ mu' = "finisher"
                      /\ UNCHANGED exiting
                 ELSE UNCHANGED <<results, mu>> /\ exiting' = exiting + 1
  /\ UNCHANGED <<downloads, waiting, options, life, wake, loop, callers>>

\* Slip: finishDownload does not signal.
SilentExit ==
  /\ exiting > 0
  /\ exiting' = exiting - 1
  /\ UNCHANGED <<items, links, waiting, active, results, options, life, wake, mu,
                 loop, runs, callers>>

\* Slip: e.wg.Done() is missing.
ExitWithoutDone ==
  /\ exiting > 0
  /\ wake' = TRUE
  /\ UNCHANGED <<items, links, waiting, active, results, options, life, mu,
                 loop, runs, tails>>

\* e.signal() at the end of finishDownload, and e.wg.Done().
RunExit ==
  /\ exiting > 0
  /\ exiting' = exiting - 1
  /\ wake' = TRUE
  /\ UNCHANGED <<items, links, waiting, active, results, options, life, mu,
                 loop, runs, callers>>

\* The goroutine of Close: e.wg.Wait() returned.  Deferred steps of the
\* goroutines it waits for are over.
CloseDone ==
  /\ shutdown /\ ~closed
  /\ sched = "exited"
  /\ mu # "finisher" /\ exiting = 0
  /\ \A r \in Run : ~Live(r)
  /\ closed' = TRUE
  /\ UNCHANGED <<items, links, waiting, active, results, options, shutdown,
                 wake, mu, loop, runs, tails>>

-----------------------------------------------------------------------------
(* The specification                                                       *)

\* A queue of distinct gids.
QueueOf(S) == UNION {{q \in [1..n -> S] : IsInjective(q)} : n \in 0..Cardinality(S)}

\* NewEngine: a session may have been loaded, with waiting and paused items.
Init ==
  /\ downloads \in [Gid -> Download \cup {NoDownload}]
  /\ \A g \in Gid : Known(g) => GidOf[downloads[g]] = g
  /\ waiting \in QueueOf({g \in Gid : Known(g)})
  /\ status = [d \in Download |->
                 IF downloads[GidOf[d]] # d THEN "new"
                 ELSE IF GidOf[d] \in Range(waiting) THEN "waiting" ELSE "paused"]
  /\ ctx = [d \in Download |-> NoRun]
  /\ cancel = [d \in Download |-> NoRun]
  /\ active = {}
  /\ stopped = <<>> /\ stoppedSet = {}
  /\ maxActive \in MaxActiveVals \ {0}
  /\ maxResult \in MaxResultVals \ {0}
  /\ keepUnfinished = TRUE
  /\ shutdown = FALSE /\ closed = FALSE
  /\ wake = TRUE /\ mu = "free"
  /\ sched = "select" /\ candidates = 0 /\ starts = <<>>
  /\ runner = [r \in Run |-> NoDownload] /\ canceled = {}
  /\ callers = 0 /\ exiting = 0

\* What clients of the engine do.
API ==
  \/ \E g \in Gid, d \in Download, paused \in BOOLEAN, pos \in Positions :
       AddURI(g, d, paused, pos)
  \/ \E g \in Gid : ForceRemove(g)
  \/ \E g \in Gid : Pause(g)
  \/ \E g \in Gid : Unpause(g)
  \/ \E g \in Gid, pos \in Positions, how \in {"POS_SET", "POS_CUR", "POS_END"} :
       ChangePosition(g, pos, how)
  \/ \E g \in Gid : ChangeURI(g)
  \/ \E g \in Gid : ChangeOption(g)
  \/ \E ma \in MaxActiveVals, mr \in MaxResultVals, keep \in KeepVals :
       ChangeGlobalOption(ma, mr, keep)
  \/ PurgeDownloadResult
  \/ \E g \in Gid : RemoveDownloadResult(g)
  \/ Close

Schedule ==
  \/ Wake \/ SchedulerExit \/ ScheduleLock \/ DeferCandidate
  \/ \E r \in Run : StartCandidate(r)
  \/ ScheduleUnlock \/ LaunchRun

Finish(r) == \E result \in RunResult(r) : FinishDownload(r, result)

\* What the engine's own goroutines do.
Engine ==
  \/ PruneResult \/ UnlockAfterPrune \/ Signal
  \/ Schedule
  \/ \E r \in Run : Finish(r)
  \/ RunExit \/ CloseDone

Next == API \/ Engine

Spec == Init /\ [][Next]_vars

-----------------------------------------------------------------------------
(* Safety                                                                  *)

\* e.waiting holds a gid at most once, and only gids of downloads that are
\* waiting: pause, remove, restart and schedule() keep the queue and d.status
\* in step although they are different pieces of state.
QueueConsistent ==
  /\ IsInjective(waiting)
  /\ \A g \in Range(waiting) : Known(g) /\ status[downloads[g]] = "waiting"

\* No download is lost: until shutdown, a download that reports "waiting" is in
\* the queue, whatever mix of pause, unpause, option changes and late run
\* exits led there.  (At shutdown finishDownload leaves an interrupted
\* download waiting without queueing it.)
NoLostDownload ==
  ~shutdown => \A g \in Gid :
    Known(g) /\ status[downloads[g]] = "waiting" => g \in Range(waiting)

\* At most one run goroutine works for a gid, also when a download is paused
\* and resumed, restarted, or removed and added again under the same gid while
\* its old run has not returned ("the replacement cannot overlap it",
\* restartActiveDownloadLocked).
OneRunPerGid ==
  \A r1, r2 \in Run :
    Live(r1) /\ Live(r2) /\ GidOf[runner[r1]] = GidOf[runner[r2]] => r1 = r2

\* e.active is exactly the set of gids that have a run, so the limit on
\* concurrent downloads counts the canceled runs that have not returned yet.
ActiveIsRunning == active = {GidOf[runner[r]] : r \in {s \in Run : Live(s)}}

\* A run that has not finished is its download's current run: the early return
\* of finishDownload (d.ctx != runCtx), which would leave the gid in e.active
\* for ever, is never taken.
RunIsCurrent == \A r \in Run : Live(r) => ctx[runner[r]] = r

\* A download that reports "active" has a run that nobody canceled and that
\* d.cancel still reaches.
ActiveCanBeCanceled ==
  \A d \in Download : status[d] = "active" =>
    /\ ctx[d] # NoRun
    /\ cancel[d] = ctx[d]
    /\ ctx[d] \notin canceled

\* A run whose download was paused, removed or queued again has been canceled:
\* nothing keeps transferring behind the back of the user.
NoRunawayRun ==
  \A r \in Run : Live(r) /\ status[runner[r]] # "active" => r \in canceled

\* e.stopped lists, once each, exactly the downloads that reached a final
\* status and were not pruned or purged; e.stoppedSet agrees.
StoppedExact ==
  /\ IsInjective(stopped)
  /\ stoppedSet = Range(stopped)
  /\ Range(stopped) = {g \in Gid : Known(g) /\ status[downloads[g]] \in Terminal}

\* Whenever e.mu is free, at most max-download-result results that are not
\* protected are kept, also right after the limit was lowered or the protection
\* of failed downloads was switched off.
ResultLimit == mu = "free" => Cardinality(Prunable) <= maxResult

\* Once Close has returned nothing runs, and no download claims to be active.
ClosedIsQuiet ==
  closed => /\ \A r \in Run : ~Live(r)
            /\ \A g \in Gid : Known(g) => status[downloads[g]] # "active"

-----------------------------------------------------------------------------
(* Action properties                                                       *)

\* The limit on concurrent downloads is obeyed by every start, also when it was
\* lowered below the number of running downloads.
StartsWithinLimit ==
  [][~(active' \subseteq active) => Cardinality(active') <= maxActive]_vars

\* A run that ends never pauses a download: canceling a run to restart it, or
\* to shut down, must not leave the download paused.  (Only an error of the
\* application's file handler can, see HandlerCancels.)
RunNeverPauses ==
  [][\A d \in Download :
       ctx[d] # NoRun /\ ctx'[d] = NoRun /\ status[d] # "paused"
       => status'[d] # "paused"]_vars

\* A run that ends although nobody asked it to is reported: the download is
\* complete or failed.  In particular "goaria releases the file storage and
\* reports the handler error as the download error" (README.md, types.go).
RunErrorReported ==
  [][\A r \in Run :
       Live(r) /\ runner'[r] = NoDownload /\ r \notin canceled /\ ~shutdown
       => status'[runner[r]] \in {"complete", "error"}]_vars

-----------------------------------------------------------------------------
(* The inductive invariant                                                 *)

\* The links between gids, objects, contexts and cancel functions, and the
\* little the queue's invariants need to know of the program counters.
Linked ==
  /\ \A g \in Gid : Known(g) => /\ GidOf[downloads[g]] = g
                                /\ status[downloads[g]] # "new"
  /\ \A d \in Download : status[d] \in Unfinished => downloads[GidOf[d]] = d
  /\ \A d \in Download : ctx[d] # NoRun => runner[ctx[d]] = d
  /\ \A d \in Download : cancel[d] # NoRun => status[d] = "active"
  /\ \A r \in canceled : Live(r)
  /\ sched = "starting" => starts # <<>>
  /\ closed => sched = "exited"

\* The safety invariants above hold together: none is inductive alone.  That a
\* removed download's run leaves its successor alone needs Linked and
\* OneRunPerGid, that pruning leaves the queue alone needs StoppedExact.
Inv ==
  /\ TypeOK /\ Linked
  /\ QueueConsistent /\ NoLostDownload /\ StoppedExact
  /\ OneRunPerGid /\ ActiveIsRunning /\ RunIsCurrent
  /\ ActiveCanBeCanceled /\ NoRunawayRun /\ ClosedIsQuiet

=============================================================================
