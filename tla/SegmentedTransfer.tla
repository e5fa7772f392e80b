-------------------------- MODULE SegmentedTransfer --------------------------
(***************************************************************************)
(* One call of downloadSegmented (downloader.go): the event loop that      *)
(* hands ranges to workers and takes their results, the workers, and the   *)
(* progress of the download that both change (download_progress.go).       *)
(*                                                                         *)
(* A chunk is a range of Units[c] units.  The server decides how each      *)
(* request ends; the split options may change while the transfer runs, and *)
(* the run may be canceled.                                                *)
(***************************************************************************)
EXTENDS ConcurrencyController, Sequences, FiniteSets

CONSTANTS
  Chunks,    \* number of chunks
  Units,     \* units of each chunk
  MaxTries,  \* option max-tries, 0 for no limit
  Splits,    \* the values that min(split, max-connection-per-server) takes in turn
  MaxEvents  \* bound: failed requests, changes of those options and cancellations

Chunk == 1..Chunks

ASSUME ChunkAssumption == Chunks \in Nat \ {0} /\ Units \in [Chunk -> Nat \ {0}]
ASSUME OptionAssumption == MaxTries \in Nat /\ Splits \in Seq(Nat \ {0}) /\ Splits # <<>> /\ MaxEvents \in Nat

VARIABLES
  pc,         \* where the event loop is
  tasks,      \* chunks waiting to be fetched, in order
  waiting,    \* those of them whose notBefore has not come
  attempts,   \* requests made for a chunk
  launch,     \* limit and generation a chunk was launched under
  active,     \* as in downloadSegmented
  ctl,        \* controller
  firstErr,   \* as in downloadSegmented
  results,    \* the channel
  worker,     \* what the worker of a chunk is doing
  outcome,    \* the error it ends with
  copied,     \* units it has written in this attempt
  added,      \* units of these it has added to the progress
  canceled,   \* the run's context
  stop,       \* segCtx is canceled
  noticed,    \* ctxDone is nil
  options,    \* the options as they are now, as an index of Splits
  events,     \* such events so far
  disk,       \* units of a chunk that are in the file
  completed,  \* d.completedLen
  bitfield,   \* the pieces of d.bitfield, counted by d.donePieces
  connections, \* d.connections
  kept        \* history: units counted by attempts that failed in closing the file

loopVars   == <<pc, tasks, waiting, attempts, launch, active, ctl, firstErr, noticed, bitfield, connections,
                kept>>
workerVars == <<worker, outcome, copied, added, disk>>
bounds     == <<options, events>>
vars == <<loopVars, results, workerVars, canceled, stop, bounds, completed>>

\* The first f[c] units of each chunk of S, and how many they are.
UnitsOf(f, S) == UNION {{c} \X (1..f[c]) : c \in S}
Sum(f, S)     == Cardinality(UnitsOf(f, S))
Total         == Sum(Units, Chunk)

\* Errors of downloadRange.  Only some ask for another try of the range.  The
\* fatal ones, a 200 that makes downloadURI fall back to a single transfer
\* (Downgrade in UriRun) among them, are all the same to the loop.
Throttles == {"throttled"}
Retryable == {"retryable"}
Errors    == Throttles \cup Retryable \cup {"fatal", "canceled"}

split == Splits[options]

\* segmentedWorkerLimit
WorkerLimit(max) == AtMost(split, AtLeastOne(max))

----------------------------------------------------------------------------
\* The event loop

CanRetry(c) == MaxTries = 0 \/ attempts[c] < MaxTries

\* Slip: the loop leaves the workers to themselves once one has failed.
LoopOverOnError(n, left) == firstErr # "none" \/ (n = 0 /\ left = <<>>)

\* The loop ends when n workers are active and these tasks are left.
LoopOver(n, left) == n = 0 /\ (left = <<>> \/ firstErr # "none")

\* readySegmentedTaskIndex: the first task whose notBefore has come.
Ready(i) ==
  /\ i \in 1..Len(tasks) /\ tasks[i] \notin waiting
  /\ \A j \in 1..(i - 1) : tasks[j] \in waiting

\* The tasks without the one at i.
Without(i) == [j \in 1..(Len(tasks) - 1) |-> IF j < i THEN tasks[j] ELSE tasks[j + 1]]

\* startReady begins with the ceiling.
StartReady ==
  /\ pc = "start"
  /\ ctl' = IF firstErr = "none" THEN ClampCeiling(ctl, WorkerLimit(active + Len(tasks))) ELSE ctl
  /\ pc' = "launch"
  /\ UNCHANGED <<tasks, waiting, attempts, launch, active, firstErr, noticed, bitfield, connections,
                 results, workerVars, canceled, stop, bounds, completed, kept>>

Room == firstErr = "none" /\ active < ctl.limit

\* One turn of its loop: startTask takes a task out of the queue and gives it a
\* worker.  The other workers go on meanwhile.
StartTask ==
  /\ pc = "launch" /\ Room
  /\ \E i \in 1..Len(tasks) :
       LET c == tasks[i] IN
       /\ Ready(i)
       /\ tasks' = Without(i)
       /\ attempts' = [attempts EXCEPT ![c] = @ + 1]
       /\ launch' = [launch EXCEPT ![c] = LaunchState(ctl)]
       /\ worker' = [worker EXCEPT ![c] = "request"]
  /\ active' = active + 1
  /\ connections' = active + 1
  /\ UNCHANGED <<pc, waiting, ctl, firstErr, noticed, bitfield, results, outcome, copied, added, disk,
                 canceled, stop, bounds, completed, kept>>

\* The end of startReady, and the tests that end the loop.
Started ==
  /\ pc = "launch"
  /\ ~(Room /\ \E i \in 1..Len(tasks) : Ready(i))
  /\ pc' = IF LoopOver(active, tasks) THEN "drain" ELSE "select"
  /\ UNCHANGED <<tasks, waiting, attempts, launch, active, ctl, firstErr, noticed, bitfield, connections,
                 results, workerVars, canceled, stop, bounds, completed, kept>>

\* The first error stops the other workers.
Failed(e) ==
  /\ firstErr' = IF firstErr = "none" THEN e ELSE firstErr
  /\ stop' = TRUE

\* Slip: what a failed worker had counted is not taken back.
NoRollback(c) == completed

\* rollbackCompleted: an error in the body carries the units it had counted,
\* one before the body or from closing the file carries none.
Rollback(c) ==
  IF worker[c] = "bodyError" THEN AtLeastOne(completed - added[c] + 1) - 1 ELSE completed

\* What nothing takes back.
Keep(c) == IF worker[c] = "bodyError" THEN kept ELSE kept + added[c]

\* Slip: the task is counted on but not queued.
RequeueNothing(c) == UNCHANGED <<tasks, waiting, firstErr, stop>>

\* Back to the end of the queue, not to be tried before retry-wait is over.
Requeue(c) ==
  /\ tasks' = Append(tasks, c)
  /\ waiting' = waiting \cup {c}
  /\ UNCHANGED <<firstErr, stop>>

MarkPieceComplete(c) == bitfield' = bitfield \cup {c}

\* A result: the piece is complete, or the error is handled.
Receive ==
  /\ pc = "select" /\ results # <<>>
  /\ LET c == Head(results)
         left == active - 1 + Len(tasks)
     IN /\ active' = active - 1
        /\ connections' = active - 1
        /\ results' = Tail(results)
        /\ worker' = [worker EXCEPT ![c] = "idle"]
        /\ copied' = [copied EXCEPT ![c] = 0]
        /\ added' = [added EXCEPT ![c] = 0]
        /\ outcome' = [outcome EXCEPT ![c] = "none"]
        /\ IF outcome[c] = "none"
           THEN /\ MarkPieceComplete(c)
                /\ ctl' = OnSuccess(ctl, launch[c], WorkerLimit(left))
                /\ UNCHANGED <<tasks, waiting, firstErr, stop, completed, kept>>
           ELSE /\ completed' = Rollback(c)
                /\ kept' = Keep(c)
                /\ UNCHANGED bitfield
                /\ \/ /\ outcome[c] \in Throttles
                      /\ ctl' = OnThrottle(ctl, launch[c], WorkerLimit(left + IF CanRetry(c) THEN 1 ELSE 0))
                      /\ IF CanRetry(c) THEN Requeue(c) ELSE Failed(outcome[c]) /\ UNCHANGED <<tasks, waiting>>
                   \/ /\ outcome[c] \in Retryable /\ CanRetry(c)
                      /\ ctl' = OnRetryableError(ctl, launch[c], WorkerLimit(left + 1))
                      /\ Requeue(c)
                   \/ /\ outcome[c] \notin Throttles
                      /\ ~(outcome[c] \in Retryable /\ CanRetry(c))
                      /\ Failed(outcome[c])
                      /\ UNCHANGED <<tasks, waiting, ctl>>
  /\ pc' = "start"
  /\ UNCHANGED <<attempts, launch, noticed, disk, canceled, bounds>>

\* The ticker wakes the loop, after retry-wait of some tasks or for the options.
Tick ==
  /\ pc = "select"
  /\ \E over \in SUBSET waiting : waiting' = waiting \ over
  /\ pc' = "start"
  /\ UNCHANGED <<tasks, attempts, launch, active, ctl, firstErr, noticed, bitfield, connections,
                 results, workerVars, canceled, stop, bounds, completed, kept>>

\* ctxDone: the run is canceled.
NoticeCancel ==
  /\ pc = "select" /\ canceled /\ ~noticed
  /\ noticed' = TRUE
  /\ Failed("canceled")
  /\ pc' = "start"
  /\ UNCHANGED <<tasks, waiting, attempts, launch, active, ctl, bitfield, connections,
                 results, workerVars, canceled, bounds, completed, kept>>

\* cancel(), wg.Wait() and the return.
Return ==
  /\ pc = "drain"
  /\ \A c \in Chunk : worker[c] = "idle"
  /\ stop' = TRUE
  /\ connections' = 0
  /\ firstErr' = IF firstErr = "none" /\ canceled THEN "canceled" ELSE firstErr
  /\ pc' = "returned"
  /\ UNCHANGED <<tasks, waiting, attempts, launch, active, ctl, noticed, bitfield,
                 results, workerVars, canceled, bounds, completed, kept>>

----------------------------------------------------------------------------
\* The worker of a chunk: downloadRange, then the send on the channel

Event == events < MaxEvents /\ events' = events + 1

\* An error that a request can end with here.
Fails(e) ==
  /\ e = "canceled" => stop
  /\ IF e = "canceled" THEN UNCHANGED events ELSE Event

\* addCompleted
AddCompleted(n) == AtMost(completed + n, Total)

\* The reply is a 206 for exactly the range, or an error.
Reply(c) ==
  /\ worker[c] = "request"
  /\ \/ worker' = [worker EXCEPT ![c] = "copy"] /\ UNCHANGED <<outcome, events>>
     \/ \E e \in Errors :
          /\ Fails(e)
          /\ worker' = [worker EXCEPT ![c] = "ended"]
          /\ outcome' = [outcome EXCEPT ![c] = e]
  /\ UNCHANGED <<loopVars, results, copied, added, disk, canceled, stop, options, completed>>

Write(c) ==
  /\ worker[c] = "copy" /\ copied[c] < Units[c]
  /\ copied' = [copied EXCEPT ![c] = @ + 1]
  /\ disk' = [disk EXCEPT ![c] = IF @ > copied[c] THEN @ ELSE copied[c] + 1]
  /\ UNCHANGED <<loopVars, results, worker, outcome, added, canceled, stop, bounds, completed>>

\* flushProgress: what was written since the last time is counted.
Flush(c) ==
  /\ completed' = AddCompleted(copied[c] - added[c])
  /\ added' = [added EXCEPT ![c] = copied[c]]

FlushSome(c) ==
  /\ worker[c] = "copy" /\ added[c] < copied[c]
  /\ Flush(c)
  /\ UNCHANGED <<loopVars, results, worker, outcome, copied, disk, canceled, stop, bounds>>

\* Slip: the end of the body is taken for the end of the range.
CopyEndsShort(c) ==
  /\ worker[c] = "copy"
  /\ Flush(c)
  /\ worker' = [worker EXCEPT ![c] = "ended"]
  /\ \/ UNCHANGED <<outcome, events>>
     \/ \E e \in Retryable \cup {"fatal"} : outcome' = [outcome EXCEPT ![c] = e] /\ Fails(e)
  /\ UNCHANGED <<loopVars, results, copied, disk, canceled, stop, options>>

\* The copy ends with everything written; closing the file may still fail, and
\* isRetryableDownloadError asks for another try if a system call gave the error.
CopyEnds(c) ==
  /\ worker[c] = "copy" /\ copied[c] = Units[c]
  /\ Flush(c)
  /\ worker' = [worker EXCEPT ![c] = "ended"]
  /\ \/ UNCHANGED <<outcome, events>>
     \/ \E e \in Retryable \cup {"fatal"} : outcome' = [outcome EXCEPT ![c] = e] /\ Fails(e)
  /\ UNCHANGED <<loopVars, results, copied, disk, canceled, stop, options>>

CopyFails(c) ==
  /\ worker[c] = "copy"
  /\ \E e \in Errors \ Throttles :
       /\ Fails(e)
       /\ outcome' = [outcome EXCEPT ![c] = e]
  /\ Flush(c)
  /\ worker' = [worker EXCEPT ![c] = "bodyError"]
  /\ UNCHANGED <<loopVars, results, copied, disk, canceled, stop, options>>

\* The channel holds one result.
Send(c) ==
  /\ worker[c] \in {"ended", "bodyError"}
  /\ results = <<>>
  /\ results' = <<c>>
  /\ UNCHANGED <<loopVars, workerVars, canceled, stop, bounds, completed>>

----------------------------------------------------------------------------

Cancel ==
  /\ ~canceled /\ pc # "returned" /\ Event
  /\ canceled' = TRUE /\ stop' = TRUE
  /\ UNCHANGED <<loopVars, results, workerVars, options, completed>>

\* ChangeOption and ChangeGlobalOption reach a running transfer.
ChangeSplit ==
  /\ options < Len(Splits) /\ pc # "returned" /\ Event
  /\ options' = options + 1
  /\ UNCHANGED <<loopVars, results, workerVars, canceled, stop, completed>>

\* resetProgress and the start of downloadSegmented.
Init ==
  /\ pc = "start"
  /\ tasks = [c \in Chunk |-> c] /\ waiting = {}
  /\ attempts = [c \in Chunk |-> 0] /\ launch = [c \in Chunk |-> LaunchState(NewController)]
  /\ active = 0 /\ ctl = NewController /\ firstErr = "none" /\ results = <<>>
  /\ worker = [c \in Chunk |-> "idle"] /\ outcome = [c \in Chunk |-> "none"]
  /\ copied = [c \in Chunk |-> 0] /\ added = copied /\ disk = copied
  /\ canceled = FALSE /\ stop = FALSE /\ noticed = FALSE
  /\ options = 1 /\ events = 0
  /\ completed = 0 /\ bitfield = {} /\ connections = 0 /\ kept = 0

LoopStep == StartReady \/ StartTask \/ Started \/ Receive \/ Tick \/ NoticeCancel \/ Return
WorkerStep(c) == Reply(c) \/ Write(c) \/ FlushSome(c) \/ CopyEnds(c) \/ CopyFails(c) \/ Send(c)

Next == LoopStep \/ (\E c \in Chunk : WorkerStep(c)) \/ Cancel \/ ChangeSplit

\* The loop and each worker are goroutines: one that can go on does.  The loop's
\* select chooses among its ready cases at random, so none is passed over for
\* ever, and time passes, so every retry-wait is over at some tick.
Spec ==
  /\ Init /\ [][Next]_vars
  /\ WF_vars(StartReady \/ StartTask \/ Started) /\ WF_vars(Return)
  /\ SF_vars(Receive) /\ SF_vars(NoticeCancel) /\ SF_vars(Tick /\ waiting' = {})
  /\ \A c \in Chunk : WF_vars(WorkerStep(c))

----------------------------------------------------------------------------

\* Chunks that are being fetched, or whose result is not handled yet.
Busy == {c \in Chunk : worker[c] # "idle"}

\* The chunks that wait to be fetched.
Queued == {tasks[i] : i \in 1..Len(tasks)}

LoopTypes ==
  /\ pc \in {"start", "launch", "select", "drain", "returned"}
  /\ ctl \in Controller /\ launch \in [Chunk -> [limit : Nat \ {0}, generation : Nat]]
  /\ tasks \in Seq(Chunk) /\ results \in {<<>>} \cup {<<c>> : c \in Chunk}
  /\ firstErr \in Errors \cup {"none"} /\ bitfield \subseteq Chunk
  /\ active \in Nat /\ completed \in Nat /\ kept \in Nat /\ options \in 1..Len(Splits)

\* What a worker has counted it has copied, and what it has copied is on disk.
WorkerTypes ==
  /\ worker \in [Chunk -> {"idle", "request", "copy", "ended", "bodyError"}]
  /\ outcome \in [Chunk -> Errors \cup {"none"}]
  /\ copied \in [Chunk -> Nat] /\ added \in [Chunk -> Nat] /\ disk \in [Chunk -> Nat]
  /\ \A c \in Chunk : added[c] <= copied[c] /\ copied[c] <= disk[c] /\ disk[c] <= Units[c]

\* The variables have their types.
TypeOK == LoopTypes /\ WorkerTypes

\* While nothing has failed, every chunk is in exactly one place: waiting to be
\* fetched, with one worker, or complete.  No order of results, retries and
\* changes of the limit loses a chunk or fetches one twice at once, and active
\* counts the workers.
ChunksAccounted ==
  /\ active = Cardinality(Busy)
  /\ Len(tasks) = Cardinality(Queued)
  /\ Queued \cap Busy = {} /\ bitfield \cap (Queued \cup Busy) = {}
  /\ firstErr = "none" => Queued \cup Busy \cup bitfield = Chunk

\* Units of the complete pieces, and those that the workers have counted.
Counted == Sum(Units, bitfield) + Sum(added, Busy)

\* While nothing has failed, the length that the download reports as completed
\* is that of its complete pieces and of what the workers have counted.  Retries
\* of a failed body do not make it drift (rollbackCompleted).  A failed close
\* takes nothing back, so that its range is counted again: the length may then
\* be ahead, by what such attempts had counted and never beyond the whole
\* (addCompleted), and it is never behind.
ProgressAccounted ==
  firstErr = "none" => Counted <= completed /\ completed <= AtMost(Counted + kept, Total)

\* A transfer that returns nil has every unit of every chunk in the file, every
\* piece marked and the whole length counted.
SuccessIsComplete ==
  pc = "returned" /\ firstErr = "none" =>
    disk = Units /\ bitfield = Chunk /\ completed = Total

\* The limit stays below the smallest limit that the server has throttled,
\* whatever late results of earlier launches bring (onSuccess, onThrottle).
StaysBelowRejected == ctl.rejected > 0 => ctl.limit < ctl.rejected

\* With a limit on tries, the call returns with all its workers gone, and with
\* an error if it has been canceled before.
Returns ==
  /\ MaxTries > 0 => <>(pc = "returned" /\ Busy = {})
  /\ canceled ~> (pc = "returned" /\ firstErr # "none")
=============================================================================
