---------------------------- MODULE SessionStore ----------------------------
(***************************************************************************)
(* When the session file is written (session.go, Close in engine.go).      *)
(*                                                                         *)
(* A handler that changes what a session holds saves it before it returns  *)
(* (saveSessionBestEffort).  A torrent that finishes a file queues a save  *)
(* for 250 ms later, so that many finished files cost one save.  Close     *)
(* saves last.  What is saved is only told apart by its age: version       *)
(* counts the changes, and file is the version that is on disk.            *)
(***************************************************************************)
EXTENDS Integers, FiniteSets

CONSTANTS
  Handler,    \* goroutines of requests
  Callback,   \* goroutines of timers that have fired
  Closer,     \* goroutine of Close
  NoOne,
  MaxVersion, \* bound: changes of the session
  MaxCrashes  \* bound: crashes of the process

Saver == Handler \cup Callback \cup {Closer}

ASSUME SaverAssumption == Closer \notin Handler \cup Callback /\ NoOne \notin Saver /\ Handler \cap Callback = {}
ASSUME BoundsAssumption == MaxVersion \in Nat /\ IsFiniteSet(Callback)

VARIABLES
  version,  \* changes so far
  file,     \* the version in the session file
  pc,       \* what each goroutine is doing
  holder,   \* sessionMu
  snapshot, \* the version that holder is writing
  tmp,      \* the temporary file of holder
  pending,  \* sessionSavePending
  timer,    \* sessionSaveTimer: "none", or "armed", or "fired" if its callback runs
  mine,     \* the callback that sessionSaveTimer belongs to
  closed,   \* sessionSaveClosed
  wg,       \* sessionSaveWG
  failed,   \* the last save failed
  crashes

queueVars == <<pending, timer, mine, closed, wg>>
saveVars  == <<file, holder, snapshot, tmp, failed>>
vars      == <<version, pc, crashes, queueVars, saveVars>>

Set(s, l) == pc' = [pc EXCEPT ![s] = l]

----------------------------------------------------------------------------
\* SaveSession: one at a time, a snapshot and then the file

\* Slip: the snapshot is taken before the lock.
TakeLockLate(s) ==
  /\ pc[s] = "save" /\ holder = NoOne
  /\ holder' = s
  /\ snapshot' \in 0..version
  /\ tmp' = "none"
  /\ Set(s, "write")
  /\ UNCHANGED <<version, file, failed, queueVars, crashes>>

TakeLock(s) ==
  /\ pc[s] = "save" /\ holder = NoOne
  /\ holder' = s
  /\ snapshot' = version
  /\ tmp' = "none"
  /\ Set(s, "write")
  /\ UNCHANGED <<version, file, failed, queueVars, crashes>>

\* writeSessionFile: a temporary file is written and synced, then renamed.
WriteTemp(s) ==
  /\ pc[s] = "write" /\ tmp = "none"
  /\ tmp' = "written"
  /\ UNCHANGED <<version, pc, file, holder, snapshot, failed, queueVars, crashes>>

\* What a goroutine does when its save is over.
After(s) == IF s \in Callback THEN "done" ELSE IF s = Closer THEN "closed" ELSE "idle"

Unlock(s) ==
  /\ holder' = NoOne /\ snapshot' = 0 /\ tmp' = "none"
  /\ Set(s, After(s))

\* The rename is followed by a sync of the directory, which may fail.
Rename(s) ==
  /\ pc[s] = "write" /\ tmp = "written"
  /\ file' = snapshot
  /\ failed' \in BOOLEAN
  /\ Unlock(s)
  /\ UNCHANGED <<version, queueVars, crashes>>

\* Any step of the save may fail; the error is logged, or returned by Close.
SaveFails(s) ==
  /\ pc[s] = "write"
  /\ failed' = TRUE
  /\ Unlock(s)
  /\ UNCHANGED <<version, file, queueVars, crashes>>

----------------------------------------------------------------------------
\* The queued save

\* Slip: a stopped timer is still waited for.
StopTimerOnly ==
  /\ timer' = "none" /\ mine' = NoOne
  /\ pending' = FALSE
  /\ UNCHANGED wg

\* cancelQueuedSessionSave: a timer that has not fired is stopped, and what it
\* would have done is not waited for any more.
StopTimer ==
  /\ wg' = IF timer = "armed" THEN wg - 1 ELSE wg
  /\ timer' = "none" /\ mine' = NoOne
  /\ pending' = FALSE

\* Slip: no new save is queued while one is under way.
QueueIfIdle ==
  /\ version' = version + 1
  /\ IF closed \/ pending \/ holder # NoOne
     THEN UNCHANGED queueVars
     ELSE /\ pending' = TRUE /\ timer' = "armed" /\ mine' = NoOne /\ wg' = wg + 1
          /\ UNCHANGED closed
  /\ UNCHANGED <<pc, saveVars, crashes>>

\* A torrent file is finalized, and queueSessionSaveBestEffort.
Queue ==
  /\ version' = version + 1
  /\ IF closed \/ pending
     THEN UNCHANGED queueVars
     ELSE /\ pending' = TRUE /\ timer' = "armed" /\ mine' = NoOne /\ wg' = wg + 1
          /\ UNCHANGED closed
  /\ UNCHANGED <<pc, saveVars, crashes>>

\* Runs end before Close waits for queued saves, so nothing is queued later.
FinalizeFile ==
  /\ version < MaxVersion
  /\ pc[Closer] = "idle"
  /\ Queue

\* The timer fires and its function starts.
Fire(k) ==
  /\ timer = "armed" /\ pc[k] = "idle"
  /\ timer' = "fired" /\ mine' = k
  /\ Set(k, "fired")
  /\ UNCHANGED <<version, saveVars, pending, closed, wg, crashes>>

\* The function first forgets the timer, if it is still the current one.
ForgetTimer(k) ==
  /\ pc[k] = "fired"
  /\ IF mine = k
     THEN pending' = FALSE /\ timer' = "none" /\ mine' = NoOne
     ELSE UNCHANGED <<pending, timer, mine>>
  /\ Set(k, IF closed THEN "done" ELSE "save")
  /\ UNCHANGED <<version, saveVars, closed, wg, crashes>>

CallbackDone(k) ==
  /\ pc[k] = "done"
  /\ wg' = wg - 1
  /\ Set(k, "idle")
  /\ UNCHANGED <<version, saveVars, pending, timer, mine, closed, crashes>>

----------------------------------------------------------------------------
\* Handlers and Close

\* A handler changes the session and unlocks the engine.
Change(h) ==
  /\ version < MaxVersion /\ pc[h] = "idle"
  /\ version' = version + 1
  /\ Set(h, "cancel")
  /\ UNCHANGED <<saveVars, queueVars, crashes>>

\* saveSessionBestEffort: its save stands for the queued one.
CancelQueued(h) ==
  /\ pc[h] = "cancel"
  /\ StopTimer
  /\ Set(h, "save")
  /\ UNCHANGED <<version, saveVars, closed, crashes>>

\* Close, once every run has ended.
BeginClose ==
  /\ pc[Closer] = "idle"
  /\ closed' = TRUE
  /\ StopTimer
  /\ Set(Closer, "wait")
  /\ UNCHANGED <<version, saveVars, crashes>>

\* Slip: Close relies on the saves that it waited for.
CloseWithoutSave ==
  /\ pc[Closer] = "wait" /\ wg = 0
  /\ Set(Closer, "closed")
  /\ UNCHANGED <<version, saveVars, queueVars, crashes>>

CloseWaited ==
  /\ pc[Closer] = "wait" /\ wg = 0
  /\ Set(Closer, "save")
  /\ UNCHANGED <<version, saveVars, queueVars, crashes>>

----------------------------------------------------------------------------

\* The process ends at any moment, and starts again from the session file.
Crash ==
  /\ crashes < MaxCrashes
  /\ crashes' = crashes + 1
  /\ version' = file
  /\ pc' = [s \in Saver |-> "idle"]
  /\ holder' = NoOne /\ snapshot' = 0 /\ tmp' = "none"
  /\ pending' = FALSE /\ timer' = "none" /\ mine' = NoOne /\ closed' = FALSE /\ wg' = 0
  /\ UNCHANGED <<file, failed>>

Init ==
  /\ version = 0 /\ file = 0 /\ crashes = 0 /\ failed = FALSE
  /\ pc = [s \in Saver |-> "idle"]
  /\ holder = NoOne /\ snapshot = 0 /\ tmp = "none"
  /\ pending = FALSE /\ timer = "none" /\ mine = NoOne /\ closed = FALSE /\ wg = 0

SaveStep(s) == TakeLock(s) \/ WriteTemp(s) \/ Rename(s) \/ SaveFails(s)

Next ==
  \/ \E s \in Saver : SaveStep(s)
  \/ \E k \in Callback : Fire(k) \/ ForgetTimer(k) \/ CallbackDone(k)
  \/ \E h \in Handler : Change(h) \/ CancelQueued(h)
  \/ FinalizeFile \/ BeginClose \/ CloseWaited \/ Crash

\* Goroutines and timers go on; sync.Mutex does not starve a waiter.
Spec ==
  /\ Init /\ [][Next]_vars
  /\ \A s \in Saver : SF_vars(TakeLock(s)) /\ WF_vars(SaveStep(s))
  /\ \A k \in Callback : WF_vars(ForgetTimer(k) \/ CallbackDone(k))
  /\ \A h \in Handler : WF_vars(CancelQueued(h))
  /\ WF_vars(\E k \in Callback : Fire(k)) /\ WF_vars(CloseWaited)

----------------------------------------------------------------------------

\* The callbacks that sessionSaveWG still counts.
Unreturned == {k \in Callback : pc[k] # "idle"}

SaveTypes ==
  /\ version \in 0..MaxVersion /\ file \in 0..version /\ snapshot \in 0..version
  /\ holder \in Saver \cup {NoOne}

QueueTypes == timer \in {"none", "armed", "fired"} /\ pending \in BOOLEAN /\ closed \in BOOLEAN

PcTypes ==
  /\ pc \in [Saver -> {"idle", "cancel", "fired", "wait", "save", "write", "done", "closed"}]
  /\ \A h \in Handler : pc[h] \in {"idle", "cancel", "save", "write"}
  /\ \A k \in Callback : pc[k] \in {"idle", "fired", "save", "write", "done"}
  /\ pc[Closer] \in {"idle", "wait", "save", "write", "closed"}

\* The variables have their types, and sessionSaveWG counts the timer and the
\* callbacks that have not returned: it never goes below zero, which would be a
\* panic, and never stays above, which would hang Close.
TypeOK ==
  /\ SaveTypes /\ QueueTypes /\ PcTypes
  /\ wg = Cardinality(Unreturned) + (IF timer = "armed" THEN 1 ELSE 0)

\* A goroutine that will still take a snapshot.
WillSave ==
  \/ \E s \in Saver : pc[s] \in {"cancel", "save"}
  \/ timer = "armed" \/ (\E k \in Callback : pc[k] = "fired" /\ ~closed)
  \/ pc[Closer] = "wait"

\* A change that is not on disk is on its way there: it is in the snapshot
\* being written or some save is still to come, unless the last save failed.  No
\* order of queued saves, saves that replace them and Close drops one.
ChangesOnTheirWay ==
  version > file => (holder # NoOne /\ snapshot = version) \/ WillSave \/ failed

\* The session file never goes back to an earlier version, although several
\* goroutines save (sessionMu covers the snapshot and the rename).
FileNeverGoesBack == [][file' >= file]_vars

\* When Close returns without an error, every change is on disk, except those of
\* handlers that are still saving them.
CloseSaves ==
  pc[Closer] = "closed" /\ ~failed /\ (\A h \in Handler : pc[h] = "idle") => file = version

\* Close does not hang on queued saves: once it waits for them it goes on,
\* unless the process crashes.
CloseEnds == (pc[Closer] = "wait") ~> (pc[Closer] # "wait")

=============================================================================
