------------------------- MODULE SessionStoreProofs -------------------------
(***************************************************************************)
(* Proofs about the two parts that a process has to close in order.        *)
(*                                                                         *)
(* About SessionStore, for any number of handlers, callbacks of the save   *)
(* timer, changes and crashes: no change is left without a save that will  *)
(* take it, a Close without an error leaves every change on disk, and the  *)
(* file only moves forward.                                                *)
(*                                                                         *)
(* About RpcServer, for any number of WebSocket connections and of callers *)
(* of RequestShutdown, and any limit of connections: a server that has     *)
(* closed in time has let go of everything, and every call is answered.    *)
(***************************************************************************)
EXTENDS SessionStore, RpcServer, FiniteSetTheorems, TLAPS

\* Most leaves are first-order: Zenon proves them.  The others name SMT.
USE Zenon

\* sessionMu: its holder is the goroutine that writes, and what it writes is no
\* older than the file.
LockInv ==
  /\ \A s \in Saver : holder = s <=> pc[s] = "write"
  /\ holder # NoOne => file <= snapshot

\* sessionSaveMu: a pending save has its timer, or the callback of its timer has
\* not begun; an armed timer belongs to no callback yet, and there is none once
\* closed; when Close is past its wait no callback is left.
QueueInv ==
  /\ closed <=> pc[Closer] # "idle"
  /\ timer = "armed" => pending /\ mine = NoOne /\ ~closed
  /\ pending => timer = "armed" \/ (mine \in Callback /\ pc[mine] = "fired" /\ ~closed)
  /\ pc[Closer] \in {"save", "write", "closed"} => Unreturned = {}

\* A change made after the snapshot being written has a save of its own to come.
\* ChangesOnTheirWay does not say so while an earlier save counts as failed, and
\* the rename ends that.
LateChange == holder # NoOne /\ snapshot < version => WillSave

SaveInv == TypeOK /\ LockInv /\ QueueInv /\ LateChange /\ ChangesOnTheirWay

----------------------------------------------------------------------------
\* sessionSaveWG while a callback moves on: one that starts is one more, one that
\* returns is one less.
LEMMA UnreturnedMoves ==
  ASSUME TypeOK, NEW s \in Saver, NEW l, Set(s, l)
  PROVE  /\ IsFiniteSet(Unreturned) /\ Cardinality(Unreturned) \in Nat
         /\ IsFiniteSet(Unreturned') /\ Cardinality(Unreturned') \in Nat
         /\ s \notin Callback => Unreturned' = Unreturned
         /\ s \in Callback /\ pc[s] # "idle" /\ l # "idle" => Unreturned' = Unreturned
         /\ s \in Callback /\ pc[s] = "idle" /\ l # "idle"
              => Cardinality(Unreturned') = Cardinality(Unreturned) + 1
         /\ s \in Callback /\ pc[s] # "idle" /\ l = "idle"
              => Cardinality(Unreturned') = Cardinality(Unreturned) - 1 
<1>1. Unreturned \in SUBSET Callback /\ Unreturned' \in SUBSET Callback
  BY DEF Unreturned
<1>2. /\ IsFiniteSet(Unreturned) /\ Cardinality(Unreturned) \in Nat
      /\ IsFiniteSet(Unreturned') /\ Cardinality(Unreturned') \in Nat
  BY <1>1, BoundsAssumption, FS_Subset, FS_CardinalityType
<1>3. /\ s \notin Callback => Unreturned' = Unreturned
      /\ s \in Callback /\ pc[s] # "idle" /\ l # "idle" => Unreturned' = Unreturned
      /\ s \in Callback /\ l # "idle" => Unreturned' = Unreturned \cup {s}
      /\ s \in Callback /\ l = "idle" => Unreturned' = Unreturned \ {s}
  BY DEF TypeOK, PcTypes, Set, Unreturned, Saver
<1>4. pc[s] # "idle" /\ s \in Callback <=> s \in Unreturned
  BY DEF Unreturned
<1> QED
  BY <1>2, <1>3, <1>4, FS_AddElement, FS_RemoveElement, SMTT(30)

\* Nothing has been saved or queued at first.
LEMMA InitSaves == Init => SaveInv
<1> SUFFICES ASSUME Init PROVE SaveInv
  OBVIOUS
<1>1. Unreturned = {}
  BY DEF Init, Unreturned, Saver
<1>2. TypeOK
  <2>1. SaveTypes
    BY SaverAssumption, BoundsAssumption, SMTT(30) DEF Init, SaveTypes
  <2>2. QueueTypes
    BY DEF Init, QueueTypes
  <2>3. PcTypes
    BY DEF Init, PcTypes, Saver
  <2> QED
    BY <1>1, <2>1, <2>2, <2>3, FS_EmptySet, SMTT(30) DEF Init, TypeOK
<1> QED
  BY <1>1, <1>2, SaverAssumption, SMTT(30)
     DEF Init, SaveInv, LockInv, QueueInv, LateChange, ChangesOnTheirWay, Saver

\* The steps of SaveSession, of whatever goroutine.
LEMMA SaveStepInv ==
  ASSUME SaveInv, NEW s \in Saver, SaveStep(s)
  PROVE  SaveInv'
<1> USE DEF SaveInv
<1>1. CASE TakeLock(s)
  <2>1. Set(s, "write") /\ pc[s] = "save" /\ holder = NoOne
    BY <1>1 DEF TakeLock
  <2>2. Unreturned' = Unreturned
    BY <2>1, UnreturnedMoves, SMTT(30)
  <2>3. TypeOK'
    <3>1. SaveTypes'
      BY <1>1, SMTT(30) DEF TakeLock, TypeOK, SaveTypes
    <3>2. PcTypes'
      BY <1>1, SaverAssumption DEF TakeLock, TypeOK, PcTypes, Set, Saver
    <3> QED
      BY <1>1, <2>2, <3>1, <3>2 DEF TakeLock, TypeOK, QueueTypes, queueVars
  <2>4. LockInv'
    BY <1>1, SaverAssumption, SMTT(30) DEF TakeLock, TypeOK, SaveTypes, PcTypes, LockInv, Set, Saver
  <2>5. QueueInv'
    BY <1>1, <2>2, SaverAssumption DEF TakeLock, TypeOK, PcTypes, QueueInv, queueVars, Set, Saver
  <2>6. LateChange' /\ ChangesOnTheirWay'
    BY <1>1, SaverAssumption, SMTT(30) DEF TakeLock, TypeOK, SaveTypes, LateChange, ChangesOnTheirWay
  <2> QED
    BY <2>3, <2>4, <2>5, <2>6
<1>2. CASE WriteTemp(s)
  BY <1>2 DEF WriteTemp, TypeOK, SaveTypes, QueueTypes, PcTypes, LockInv, QueueInv, LateChange,
     ChangesOnTheirWay, WillSave, Unreturned, queueVars
<1>3. CASE Rename(s) \/ SaveFails(s)
  <2>1. /\ Set(s, After(s)) /\ holder' = NoOne /\ snapshot' = 0 /\ pc[s] = "write"
        /\ UNCHANGED <<version, queueVars>> /\ file' \in {file, snapshot}
    BY <1>3 DEF Rename, SaveFails, Unlock
  <2>2. holder = s /\ file <= snapshot
    BY <2>1, SaverAssumption DEF LockInv, TypeOK, SaveTypes, PcTypes
  <2>4. Unreturned' = Unreturned
    BY <2>1, UnreturnedMoves, SMTT(30) DEF After
  <2>5. TypeOK'
    <3>1. SaveTypes'
      BY <2>1, SMTT(30) DEF TypeOK, SaveTypes
    <3>2. PcTypes'
      BY <2>1, SaverAssumption DEF TypeOK, PcTypes, After, Set, Saver
    <3> QED
      BY <2>1, <2>4, <3>1, <3>2 DEF TypeOK, QueueTypes, queueVars
  <2>6. LockInv'
    BY <2>1, <2>2, SaverAssumption DEF TypeOK, SaveTypes, PcTypes, LockInv, After, Set, Saver
  <2>7. QueueInv'
    BY <2>1, <2>4, SaverAssumption DEF TypeOK, PcTypes, QueueInv, After, queueVars, Set, Saver
  <2>8. WillSave => WillSave'
    BY <2>1, SaverAssumption DEF TypeOK, PcTypes, WillSave, After, queueVars, Set, Saver
  <2>9. LateChange' /\ ChangesOnTheirWay'
    BY <1>3, <2>1, <2>2, <2>8, SaverAssumption
       DEF TypeOK, SaveTypes, LateChange, ChangesOnTheirWay, Rename, SaveFails
  <2> QED
    BY <2>5, <2>6, <2>7, <2>9, SMTT(30)
<1> QED
  BY <1>1, <1>2, <1>3 DEF SaveStep

\* The timer fires, and its callback forgets it, saves and returns.
LEMMA CallbackInv ==
  ASSUME SaveInv, NEW k \in Callback, Fire(k) \/ ForgetTimer(k) \/ CallbackDone(k)
  PROVE  SaveInv'
<1> USE DEF SaveInv
<1>k. k \in Saver /\ k # Closer /\ k \notin Handler
  BY SaverAssumption DEF Saver
<1>1. CASE Fire(k)
  <2>1. Set(k, "fired") /\ pc[k] = "idle" /\ timer = "armed" /\ timer' = "fired" /\ mine' = k
        /\ UNCHANGED <<version, file, holder, snapshot, failed, pending, closed, wg>>
    BY <1>1 DEF Fire, saveVars
  <2>2. ~closed /\ pc[Closer] = "idle"
    BY <2>1 DEF QueueInv
  <2>3. TypeOK'
    <3>1. wg' = Cardinality(Unreturned') + (IF timer' = "armed" THEN 1 ELSE 0)
      BY <1>k, <2>1, UnreturnedMoves, SMTT(30) DEF TypeOK
    <3> QED
      BY <1>k, <2>1, <3>1, SMTT(30) DEF TypeOK, SaveTypes, QueueTypes, PcTypes, Set
  <2>4. LockInv' /\ QueueInv'
    BY <1>k, <2>1, <2>2, SMTT(30) DEF TypeOK, SaveTypes, PcTypes, LockInv, QueueInv, Set
  <2>5. WillSave'
    BY <1>k, <2>1, <2>2 DEF TypeOK, PcTypes, WillSave, Set
  <2> QED
    BY <2>3, <2>4, <2>5 DEF LateChange, ChangesOnTheirWay
<1>2. CASE ForgetTimer(k)
  <2>1. /\ Set(k, IF closed THEN "done" ELSE "save") /\ pc[k] = "fired"
        /\ UNCHANGED <<version, file, holder, snapshot, failed, closed, wg>>
    BY <1>2 DEF ForgetTimer, saveVars
  <2>2. \/ mine = k /\ pending' = FALSE /\ timer' = "none" /\ mine' = NoOne /\ timer # "armed"
        \/ mine # k /\ UNCHANGED <<pending, timer, mine>>
    BY <1>2, <1>k, SaverAssumption DEF ForgetTimer, QueueInv
  <2>3. Unreturned' = Unreturned
    BY <1>k, <2>1, UnreturnedMoves, SMTT(30)
  <2>4. TypeOK'
    <3>1. PcTypes'
      BY <1>k, <2>1, SMTT(30) DEF TypeOK, PcTypes, Set
    <3>2. QueueTypes'
      BY <2>1, <2>2 DEF TypeOK, QueueTypes
    <3> QED
      BY <2>1, <2>2, <2>3, <3>1, <3>2 DEF TypeOK, SaveTypes
  <2>5. LockInv' /\ QueueInv'
    BY <1>k, <2>1, <2>2, <2>3, SMTT(30) DEF TypeOK, PcTypes, LockInv, QueueInv, Set
  <2>6. WillSave'
    <3>1. CASE closed
      <4>1. pc[Closer] = "wait"
        BY <2>1, <3>1 DEF TypeOK, PcTypes, QueueInv, Unreturned
      <4> QED
        BY <1>k, <2>1, <4>1, SMTT(30) DEF TypeOK, PcTypes, WillSave, Set
    <3> QED
      BY <1>k, <2>1, <3>1 DEF TypeOK, PcTypes, WillSave, Set
  <2> QED
    BY <2>4, <2>5, <2>6, SMTT(30) DEF LateChange, ChangesOnTheirWay
<1>3. CASE CallbackDone(k)
  <2>1. /\ Set(k, "idle") /\ pc[k] = "done" /\ wg' = wg - 1
        /\ UNCHANGED <<version, file, holder, snapshot, failed, pending, timer, mine, closed>>
    BY <1>3 DEF CallbackDone, saveVars
  <2>2. TypeOK'
    <3>1. wg' = Cardinality(Unreturned') + (IF timer' = "armed" THEN 1 ELSE 0)
      BY <1>k, <2>1, UnreturnedMoves, SMTT(30) DEF TypeOK
    <3> QED
      BY <1>k, <2>1, <3>1, SMTT(30) DEF TypeOK, SaveTypes, QueueTypes, PcTypes, Set
  <2>3. LockInv' /\ QueueInv'
    BY <1>k, <2>1, SMTT(30) DEF TypeOK, PcTypes, LockInv, QueueInv, Unreturned, Set
  <2>4. WillSave => WillSave'
    BY <1>k, <2>1, SMTT(30) DEF TypeOK, PcTypes, WillSave, Set
  <2> QED
    BY <2>1, <2>2, <2>3, <2>4 DEF LateChange, ChangesOnTheirWay
<1> QED
  BY <1>1, <1>2, <1>3

\* cancelQueuedSessionSave: a timer that is stopped is not counted any more.
LEMMA StopTimerCounts ==
  ASSUME SaveInv, StopTimer, Unreturned' = Unreturned
  PROVE  /\ wg' = Cardinality(Unreturned') + (IF timer' = "armed" THEN 1 ELSE 0)
         /\ timer' = "none" /\ pending' = FALSE
<1>1. Cardinality(Unreturned) \in Nat
  BY BoundsAssumption, FS_Subset, FS_CardinalityType DEF Unreturned
<1> QED
  BY <1>1, SMTT(30) DEF SaveInv, TypeOK, StopTimer

\* A handler changes the session, and its save replaces the queued one.
LEMMA HandlerInv ==
  ASSUME SaveInv, NEW h \in Handler, Change(h) \/ CancelQueued(h)
  PROVE  SaveInv'
<1> USE DEF SaveInv
<1>h. h \in Saver /\ h # Closer /\ h \notin Callback
  BY SaverAssumption DEF Saver
<1>1. CASE Change(h)
  <2>1. /\ Set(h, "cancel") /\ pc[h] = "idle" /\ version < MaxVersion /\ version' = version + 1
        /\ UNCHANGED <<file, holder, snapshot, failed, pending, timer, mine, closed, wg>>
    BY <1>1 DEF Change, saveVars, queueVars
  <2>2. Unreturned' = Unreturned
    BY <1>h, <2>1, UnreturnedMoves
  <2>3. TypeOK'
    <3>1. SaveTypes'
      BY <2>1, BoundsAssumption, SMTT(30) DEF TypeOK, SaveTypes
    <3> QED
      BY <1>h, <2>1, <2>2, <3>1, SMTT(30) DEF TypeOK, QueueTypes, PcTypes, Set
  <2>4. LockInv' /\ QueueInv'
    BY <1>h, <2>1, <2>2, SMTT(30) DEF TypeOK, PcTypes, LockInv, QueueInv, Set
  <2>5. WillSave'
    BY <1>h, <2>1 DEF TypeOK, PcTypes, WillSave, Set
  <2> QED
    BY <2>3, <2>4, <2>5 DEF LateChange, ChangesOnTheirWay
<1>2. CASE CancelQueued(h)
  <2>1. /\ Set(h, "save") /\ pc[h] = "cancel" /\ StopTimer
        /\ UNCHANGED <<version, file, holder, snapshot, failed, closed>>
    BY <1>2 DEF CancelQueued, saveVars
  <2>2. Unreturned' = Unreturned
    BY <1>h, <2>1, UnreturnedMoves
  <2>3. TypeOK'
    <3>1. QueueTypes'
      BY <2>1 DEF TypeOK, QueueTypes, StopTimer
    <3>2. wg' = Cardinality(Unreturned') + (IF timer' = "armed" THEN 1 ELSE 0)
      BY <2>1, <2>2, StopTimerCounts
    <3> QED
      BY <1>h, <2>1, <3>1, <3>2, SMTT(30) DEF TypeOK, SaveTypes, PcTypes, Set
  <2>4. LockInv' /\ QueueInv'
    BY <1>h, <2>1, <2>2, SMTT(30) DEF TypeOK, PcTypes, LockInv, QueueInv, StopTimer, Set
  <2>5. WillSave'
    BY <1>h, <2>1 DEF TypeOK, PcTypes, WillSave, Set
  <2> QED
    BY <2>3, <2>4, <2>5, SMTT(30) DEF LateChange, ChangesOnTheirWay
<1> QED
  BY <1>1, <1>2

\* A torrent file is finished while Close has not begun: a save is queued, unless
\* one is pending already, and that one has not taken its snapshot.
LEMMA FinalizeInv ==
  ASSUME SaveInv, FinalizeFile
  PROVE  SaveInv'
<1> USE DEF SaveInv
<1>1. /\ version < MaxVersion /\ version' = version + 1 /\ pc[Closer] = "idle"
      /\ UNCHANGED <<pc, file, holder, snapshot, failed, closed>>
  BY DEF FinalizeFile, Queue, saveVars, queueVars
<1>2. ~closed
  BY <1>1 DEF QueueInv
<1>3. \/ pending /\ UNCHANGED queueVars
      \/ ~pending /\ pending' = TRUE /\ timer' = "armed" /\ mine' = NoOne /\ wg' = wg + 1
  BY <1>2 DEF FinalizeFile, Queue
<1>4. Unreturned' = Unreturned /\ Cardinality(Unreturned) \in Nat
  BY <1>1, BoundsAssumption, FS_Subset, FS_CardinalityType DEF Unreturned
<1>5. ~pending => timer # "armed"
  BY DEF QueueInv
<1>6. TypeOK'
  <2>1. SaveTypes'
    BY <1>1, BoundsAssumption, SMTT(30) DEF TypeOK, SaveTypes
  <2>2. QueueTypes'
    BY <1>1, <1>3 DEF TypeOK, QueueTypes, queueVars
  <2>3. wg' = Cardinality(Unreturned') + (IF timer' = "armed" THEN 1 ELSE 0)
    BY <1>3, <1>4, <1>5, SMTT(30) DEF TypeOK, queueVars
  <2> QED
    BY <1>1, <2>1, <2>2, <2>3 DEF TypeOK, PcTypes
<1>7. LockInv' /\ QueueInv'
  BY <1>1, <1>2, <1>3, <1>4 DEF LockInv, QueueInv, queueVars
<1>8. WillSave'
  BY <1>1, <1>2, <1>3 DEF WillSave, QueueInv, queueVars
<1> QED
  BY <1>6, <1>7, <1>8 DEF LateChange, ChangesOnTheirWay

\* Close stops the timer, waits for the callbacks and saves.
LEMMA CloseInv ==
  ASSUME SaveInv, BeginClose \/ CloseWaited
  PROVE  SaveInv'
<1> USE DEF SaveInv
<1>c. Closer \in Saver /\ Closer \notin Handler /\ Closer \notin Callback
  BY SaverAssumption DEF Saver
<1>1. CASE BeginClose
  <2>1. /\ Set(Closer, "wait") /\ pc[Closer] = "idle" /\ closed' = TRUE /\ StopTimer
        /\ UNCHANGED <<version, file, holder, snapshot, failed>>
    BY <1>1 DEF BeginClose, saveVars
  <2>2. Unreturned' = Unreturned
    BY <1>c, <2>1, UnreturnedMoves
  <2>3. TypeOK'
    <3>1. QueueTypes'
      BY <2>1 DEF TypeOK, QueueTypes, StopTimer
    <3>2. wg' = Cardinality(Unreturned') + (IF timer' = "armed" THEN 1 ELSE 0)
      BY <2>1, <2>2, StopTimerCounts
    <3> QED
      BY <1>c, <2>1, <3>1, <3>2, SMTT(30) DEF TypeOK, SaveTypes, PcTypes, Set
  <2>4. LockInv' /\ QueueInv'
    BY <1>c, <2>1, <2>2 DEF TypeOK, PcTypes, LockInv, QueueInv, StopTimer, Set
  <2>5. WillSave'
    BY <1>c, <2>1 DEF TypeOK, PcTypes, WillSave, Set
  <2> QED
    BY <2>3, <2>4, <2>5 DEF LateChange, ChangesOnTheirWay
<1>2. CASE CloseWaited
  <2>1. /\ Set(Closer, "save") /\ pc[Closer] = "wait" /\ wg = 0
        /\ UNCHANGED <<version, file, holder, snapshot, failed, pending, timer, mine, closed, wg>>
    BY <1>2 DEF CloseWaited, saveVars, queueVars
  <2>2. Unreturned' = Unreturned /\ IsFiniteSet(Unreturned) /\ Cardinality(Unreturned) \in Nat
    BY <1>c, <2>1, UnreturnedMoves
  <2>3. Unreturned = {}
    <3>1. Cardinality(Unreturned) = 0
      BY <2>1, <2>2, SMTT(30) DEF TypeOK
    <3> QED
      BY <2>2, <3>1, FS_EmptySet
  <2>4. TypeOK'
    BY <1>c, <2>1, <2>2, SMTT(30) DEF TypeOK, SaveTypes, QueueTypes, PcTypes, Set
  <2>5. LockInv' /\ QueueInv'
    BY <1>c, <2>1, <2>2, <2>3 DEF TypeOK, PcTypes, LockInv, QueueInv, Set
  <2>6. WillSave'
    BY <1>c, <2>1 DEF TypeOK, PcTypes, WillSave, Set
  <2> QED
    BY <2>4, <2>5, <2>6, SMTT(30) DEF LateChange, ChangesOnTheirWay
<1> QED
  BY <1>1, <1>2

\* The process ends and starts again with what the session file holds.
LEMMA CrashInv ==
  ASSUME SaveInv, Crash
  PROVE  SaveInv'
<1> USE DEF SaveInv
<1>1. Unreturned' = {}
  BY DEF Crash, Unreturned, Saver
<1>2. TypeOK'
  <2>1. SaveTypes'
    BY BoundsAssumption, SMTT(30) DEF Crash, TypeOK, SaveTypes
  <2>2. QueueTypes' /\ PcTypes'
    BY DEF Crash, QueueTypes, PcTypes, Saver
  <2> QED
    BY <1>1, <2>1, <2>2, FS_EmptySet, SMTT(30) DEF Crash, TypeOK
<1>3. LockInv' /\ QueueInv'
  BY <1>1, SaverAssumption DEF Crash, LockInv, QueueInv, Saver
<1> QED
  BY <1>2, <1>3, SMTT(30) DEF Crash, TypeOK, SaveTypes, LateChange, ChangesOnTheirWay

----------------------------------------------------------------------------
\* Every step of the saves keeps the invariant.
LEMMA StepInv == SaveInv /\ [Next]_vars => SaveInv'
<1> SUFFICES ASSUME SaveInv, [Next]_vars PROVE SaveInv'
  OBVIOUS
<1>1. CASE UNCHANGED vars
  BY <1>1 DEF vars, queueVars, saveVars, SaveInv, TypeOK, SaveTypes, QueueTypes, PcTypes, LockInv,
     QueueInv, LateChange, ChangesOnTheirWay, WillSave, Unreturned
<1> QED
  BY <1>1, SaveStepInv, CallbackInv, HandlerInv, FinalizeInv, CloseInv, CrashInv DEF Next

\* SaveInv holds throughout: sessionMu, the queued save and Close work together as
\* they should, whatever the interleaving, the failures and the crashes.
THEOREM SavesInvariant == Spec => []SaveInv
BY InitSaves, StepInv, PTL DEF Spec

\* No change of the session is dropped: it is in the snapshot being written, or a
\* save is still to come, or the last save failed.
THEOREM EveryChangeOnItsWay == Spec => []ChangesOnTheirWay
BY SavesInvariant, PTL DEF SaveInv

\* A Close that returns without an error leaves every change on disk, but for
\* those of handlers that are still saving them.
THEOREM CloseLeavesItSaved == Spec => []CloseSaves
<1>1. SaveInv => CloseSaves
  <2> SUFFICES ASSUME SaveInv, pc[Closer] = "closed", ~failed, \A h \in Handler : pc[h] = "idle"
               PROVE  file = version
    BY DEF CloseSaves
  <2>1. Unreturned = {} /\ timer # "armed"
    BY DEF SaveInv, QueueInv
  <2>2. \A k \in Callback : pc[k] = "idle"
    BY <2>1 DEF Unreturned
  <2>3. ~WillSave
    BY <2>1, <2>2 DEF WillSave, Saver
  <2>4. holder = NoOne
    BY <2>2 DEF SaveInv, LockInv, TypeOK, SaveTypes, Saver
  <2> QED
    BY <2>3, <2>4, SMTT(30) DEF SaveInv, ChangesOnTheirWay, TypeOK, SaveTypes
<1> QED
  BY <1>1, SavesInvariant, PTL

\* The session file never goes back to an earlier version: sessionMu covers the
\* snapshot and the rename, and a restart goes on from the file.
THEOREM FileMovesForward == Spec => FileNeverGoesBack
<1>1. SaveInv /\ [Next]_vars => [file' >= file]_vars
  <2> SUFFICES ASSUME SaveInv, [Next]_vars PROVE file' >= file
    OBVIOUS
  <2>1. file \in Nat
    BY SMTT(30) DEF SaveInv, TypeOK, SaveTypes
  <2>2. CASE \E s \in Saver : Rename(s)
    BY <2>1, <2>2, SaverAssumption DEF Rename, SaveInv, LockInv, TypeOK, SaveTypes
  <2>3. CASE UNCHANGED file
    BY <2>1, <2>3, SMTT(30)
  <2> QED
    BY <2>2, <2>3 DEF Next, vars, saveVars, SaveStep, TakeLock, WriteTemp, SaveFails, Fire, ForgetTimer,
       CallbackDone, Change, CancelQueued, FinalizeFile, Queue, BeginClose, CloseWaited, Crash
<1> QED
  BY <1>1, SavesInvariant, PTL DEF Spec, FileNeverGoesBack

----------------------------------------------------------------------------
\* RpcServer

\* A handler has a call between beginRPC and endRPC; before that, it owns a
\* connection from which calls may come.
InCall  == {"handle", "answered", "unanswered"}
Reading == {"track", "start", "read", "call"}

\* The handlers that beginWebSocket has counted and endWebSocket has not.
Busy == {c \in Conn : ws[c] \notin {"none", "accepted", "ended"}}

\* waitWebSockets has given up and forceCloseWebSockets has closed connections.
Overrun == late /\ serve = "returned"

\* What a handler, its connection and the marks of initiateWebSocketClose have
\* to do with each other.  A connection that is to be closed has no call, and
\* gets none; one that is found closed was closed by the client, or has been
\* marked, in which case no call begins.
Linked(c) ==
  /\ handling[c] <=> ws[c] \in InCall
  /\ ws[c] \in {"none", "accepted", "upgrade", "end", "ended"} => ~open[c]
  /\ ws[c] \in {"none", "accepted", "upgrade", "track", "start", "end", "ended"} => ~subscribed[c]
  /\ c \in toShut => ws[c] = "ended" \/ (closing[c] /\ ws[c] \notin InCall)
  /\ ~open[c] /\ ws[c] \in Reading => gone[c] \/ closing[c] \/ Overrun
  /\ ~open[c] /\ ws[c] \in InCall => gone[c] \/ Overrun
  /\ ws[c] = "unanswered" => ~open[c]

\* The handlers are counted, and once connections are being marked, no handler
\* gets in.
CountInv ==
  /\ IsFiniteSet(Busy) /\ wsActive = Cardinality(Busy)
  /\ serve \in {"mark", "markFailed", "wait", "returned", "aborted"} => wsClosing

\* What a handler may be doing.
Labels == {"none", "accepted", "upgrade", "track", "start", "read", "call", "handle",
           "answered", "unanswered", "cleanup", "end", "ended"}

\* The types of a handler's state, one function at a time.
ConnTypes ==
  /\ ws \in [Conn -> Labels] /\ open \in [Conn -> BOOLEAN] /\ gone \in [Conn -> BOOLEAN]
  /\ handling \in [Conn -> BOOLEAN] /\ closing \in [Conn -> BOOLEAN] /\ subscribed \in [Conn -> BOOLEAN]

\* The types of the rest.
ServerTypes ==
  /\ shutdownReq \in {<<>>, <<FALSE>>, <<TRUE>>}
  /\ caller \in [Caller -> {"idle", "full", "again", "returned"}]
  /\ serve \in {"serving", "shutdown", "grace", "failed", "initiate", "mark", "markFailed",
                "wait", "returned", "aborted"}
  /\ forced \in BOOLEAN /\ listening \in BOOLEAN /\ late \in BOOLEAN /\ mounted \in BOOLEAN
  /\ bounded \in BOOLEAN
  /\ wsClosing \in BOOLEAN

CountTypes ==
  /\ wsActive \in Nat /\ wsActive <= Limit
  /\ tracked \subseteq Conn /\ toMark \subseteq Conn /\ toShut \subseteq Conn

\* The inductive invariant.
RpcInv ==
  /\ ConnTypes /\ ServerTypes /\ CountTypes
  /\ CountInv /\ (\A c \in Conn : Linked(c)) /\ ClosedIsReleased

----------------------------------------------------------------------------

\* An element more, an element less.
LEMMA CountOne ==
  ASSUME NEW S, IsFiniteSet(S), NEW x
  PROVE  /\ Cardinality(S) \in Nat
         /\ IsFiniteSet(S \cup {x}) /\ (x \notin S => Cardinality(S \cup {x}) = Cardinality(S) + 1)
         /\ IsFiniteSet(S \ {x}) /\ (x \in S => Cardinality(S \ {x}) = Cardinality(S) - 1)
         /\ (Cardinality(S) = 0 => S = {})
BY FS_AddElement, FS_RemoveElement, FS_CardinalityType, FS_EmptySet

\* A handler whose own state stays keeps its links: marks are only taken away,
\* and an overrun is for good.
LEMMA LinkedKept ==
  ASSUME NEW d \in Conn, Linked(d), Overrun => Overrun', d \in toShut' => d \in toShut,
         ws'[d] = ws[d], open'[d] = open[d], gone'[d] = gone[d],
         handling'[d] = handling[d], closing'[d] = closing[d], subscribed'[d] = subscribed[d]
  PROVE  Linked(d)'
BY DEF Linked

\* The server returns for good, and its deadline is not taken back.
LEMMA OverrunStays ==
  ASSUME RpcInv, RpcNext PROVE Overrun => Overrun'
BY ZenonT(30) DEF Overrun, RpcNext, ServeStep, ConnStep, AskStop, AskForce, TakeOut, ForceAgain, StopServing,
   Escalate, ShutdownReturns, GraceEnds, Deadline, InitiateClose, Mark, Shut, Marked, Waited, Accept, Begin,
   Upgrade, Track, StartReading, Read, ReadFails, BeginRPC, Handle, EndRPC, Cleanup, End, Disconnect,
   serverVars

\* A step of the handler c, or of its client.
SocketStep(c) ==
  \/ Accept(c) \/ ConnStep(c) \/ Handle(c)
  \/ Read(c) \/ ReadFails(c) \/ Disconnect(c)

\* It changes nothing of another handler, nor of the marks.
LEMMA OthersKept ==
  ASSUME ConnTypes, NEW c \in Conn, SocketStep(c), NEW d \in Conn, d # c
  PROVE  /\ ws'[d] = ws[d] /\ open'[d] = open[d] /\ gone'[d] = gone[d]
         /\ handling'[d] = handling[d] /\ closing'[d] = closing[d] /\ subscribed'[d] = subscribed[d]
BY SMTT(30) DEF SocketStep, ConnStep, Goto, ConnTypes, countVars, Accept, Begin, Upgrade, Track, StartReading, Read,
   ReadFails, BeginRPC, Handle, EndRPC, Cleanup, End, Disconnect

\* It leaves the handlers well typed.
LEMMA SocketTypes ==
  ASSUME ConnTypes, NEW c \in Conn, SocketStep(c)
  PROVE  ConnTypes'
BY ZenonT(30) DEF SocketStep, ConnStep, Goto, ConnTypes, Labels, Accept, Begin, Upgrade, Track, StartReading,
   Read, ReadFails, BeginRPC, Handle, EndRPC, Cleanup, End, Disconnect

\* It keeps the links of c: no call begins on a marked connection, and the end
\* of a call closes it.
LEMMA HandlerLinked ==
  ASSUME ConnTypes, NEW c \in Conn, Linked(c), SocketStep(c), Overrun => Overrun'
  PROVE  Linked(c)'
<1> toShut' = toShut
  BY DEF SocketStep, ConnStep, countVars, Accept, Begin, Upgrade, Track, StartReading, Read, ReadFails,
     BeginRPC, Handle, EndRPC, Cleanup, End, Disconnect
<1>1. CASE Begin(c)
  BY <1>1 DEF Begin, Goto, ConnTypes, Linked, InCall, Reading
<1>2. CASE Upgrade(c)
  BY <1>2 DEF Upgrade, Goto, ConnTypes, Linked, InCall, Reading
<1>3. CASE Track(c)
  BY <1>3 DEF Track, Goto, ConnTypes, Linked, InCall, Reading
<1>4. CASE StartReading(c)
  BY <1>4 DEF StartReading, Goto, ConnTypes, Linked, InCall, Reading
<1>5. CASE Read(c)
  BY <1>5 DEF Read, Goto, ConnTypes, Linked, InCall, Reading
<1>6. CASE ReadFails(c)
  BY <1>6 DEF ReadFails, Goto, ConnTypes, Linked, InCall, Reading
<1>7. CASE BeginRPC(c)
  BY <1>7 DEF BeginRPC, Goto, ConnTypes, Linked, InCall, Reading
<1>8. CASE Handle(c)
  BY <1>8 DEF Handle, Goto, ConnTypes, Linked, InCall, Reading
<1>9. CASE EndRPC(c)
  BY <1>9 DEF EndRPC, Goto, ConnTypes, Linked, InCall, Reading
<1>10. CASE Cleanup(c)
  BY <1>10 DEF Cleanup, Goto, ConnTypes, Linked, InCall, Reading
<1>11. CASE End(c)
  BY <1>11 DEF End, Goto, ConnTypes, Linked, InCall, Reading
<1>12. CASE Disconnect(c)
  BY <1>12 DEF Disconnect, Goto, ConnTypes, Linked, InCall, Reading
<1>13. CASE Accept(c)
  BY <1>13 DEF Accept, Goto, ConnTypes, Linked, InCall, Reading
<1> QED BY <1>1, <1>2, <1>3, <1>4, <1>5, <1>6, <1>7, <1>8, <1>9, <1>10, <1>11, <1>12, <1>13
        DEF SocketStep, ConnStep

\* beginWebSocket counts the handler, within the limit; endWebSocket takes it
\* from the count; nothing else of a handler's changes the count.
LEMMA HandlerCounted ==
  ASSUME RpcInv, NEW c \in Conn, SocketStep(c)
  PROVE  CountTypes' /\ CountInv' /\ UNCHANGED serverVars /\ UNCHANGED wsClosing
<1>t. ConnTypes /\ ServerTypes /\ CountTypes
  BY DEF RpcInv
<1>i. IsFiniteSet(Busy) /\ wsActive = Cardinality(Busy) /\ Busy \subseteq Conn
  BY DEF RpcInv, CountInv, Busy
<1>n. wsActive \in Nat
  BY <1>i, CountOne
<1>1. UNCHANGED serverVars /\ UNCHANGED <<wsClosing, toMark, toShut>>
  BY DEF SocketStep, ConnStep, countVars, Accept, Begin, End, Upgrade, Track, StartReading, Read, ReadFails,
     BeginRPC, Handle, EndRPC, Cleanup, Disconnect
<1>2. tracked' \subseteq Conn
  BY <1>t DEF CountTypes, SocketStep, ConnStep, countVars, Accept, Begin, End, Upgrade, Track, StartReading,
     Read, ReadFails, BeginRPC, Handle, EndRPC, Cleanup, Disconnect
<1>3. ASSUME wsActive' \in Nat, wsActive' <= Limit, IsFiniteSet(Busy'), wsActive' = Cardinality(Busy')
      PROVE  CountTypes' /\ CountInv'
  BY <1>t, <1>1, <1>2, <1>3 DEF CountTypes, CountInv, RpcInv, serverVars
<1>4. CASE Begin(c)
  <2>1. c \notin Busy
    BY <1>4 DEF Begin, Busy
  <2>2. CASE wsClosing \/ wsActive >= Limit
    <3>1. Busy' = Busy /\ wsActive' = wsActive
      BY <1>4, <1>t, <2>2 DEF Begin, Busy, Goto, ConnTypes, countVars
    <3> QED BY <1>1, <1>3, <1>i, <1>t, <3>1 DEF CountTypes
  <2>3. CASE ~(wsClosing \/ wsActive >= Limit)
    <3>1. Busy' = Busy \cup {c} /\ wsActive' = wsActive + 1
      BY <1>4, <1>t, <2>3 DEF Begin, Busy, Goto, ConnTypes
    <3>2. wsActive' \in Nat /\ wsActive' <= Limit
      BY <1>n, <2>3, <3>1, CallerAssumption, SMTT(30)
    <3>3. IsFiniteSet(Busy') /\ wsActive' = Cardinality(Busy')
      BY <1>i, <2>1, <3>1, CountOne
    <3> QED BY <1>1, <1>3, <3>2, <3>3
  <2> QED BY <2>2, <2>3
<1>5. CASE End(c)
  <2>1. c \in Busy
    BY <1>5 DEF End, Busy
  <2>2. Busy' = Busy \ {c} /\ wsActive' = wsActive - 1
    BY <1>5, <1>t DEF End, Busy, Goto, ConnTypes
  <2>3. IsFiniteSet(Busy') /\ wsActive' = Cardinality(Busy') /\ Cardinality(Busy') \in Nat
    BY <1>i, <2>1, <2>2, CountOne
  <2>4. wsActive' \in Nat /\ wsActive' <= Limit
    BY <1>n, <1>t, <2>2, <2>3, CallerAssumption, SMTT(30) DEF CountTypes
  <2> QED BY <1>1, <1>3, <2>3, <2>4
<1>6. CASE ~Begin(c) /\ ~End(c)
  <2>1. wsActive' = wsActive
    BY <1>6 DEF SocketStep, ConnStep, countVars, Accept, Upgrade, Track, StartReading, Read, ReadFails,
       BeginRPC, Handle, EndRPC, Cleanup, Disconnect
  <2>2. Busy' = Busy
    BY <1>6, <1>t DEF SocketStep, ConnStep, Goto, Busy, ConnTypes, Accept, Upgrade, Track, StartReading, Read,
       ReadFails, BeginRPC, Handle, EndRPC, Cleanup, Disconnect
  <2> QED BY <1>1, <1>3, <1>i, <1>t, <2>1, <2>2 DEF CountTypes
<1> QED BY <1>4, <1>5, <1>6

\* No handler comes back once the server has returned in time.
LEMMA HandlerReleased ==
  ASSUME RpcInv, NEW c \in Conn, SocketStep(c)
  PROVE  ClosedIsReleased'
<1>t. ConnTypes
  BY DEF RpcInv
<1>1. UNCHANGED <<serve, late, wsClosing>>
  BY HandlerCounted DEF serverVars
<1>2. SUFFICES ASSUME serve = "returned", ~late, NEW d \in Conn
               PROVE  ws'[d] \in {"none", "accepted", "ended"} /\ ~open'[d] /\ ~subscribed'[d]
  BY <1>1 DEF ClosedIsReleased
<1>3. \A e \in Conn : ws[e] \in {"none", "accepted", "ended"} /\ ~open[e] /\ ~subscribed[e]
  BY <1>2 DEF RpcInv, ClosedIsReleased
<1>4. Accept(c) \/ (Begin(c) /\ wsClosing)
  BY <1>2, <1>3 DEF RpcInv, CountInv, SocketStep, ConnStep, Upgrade, Track, StartReading, Read,
     ReadFails, BeginRPC, Handle, EndRPC, Cleanup, Disconnect, End
<1> QED BY <1>3, <1>4, <1>t DEF Accept, Begin, Goto, ConnTypes

\* The steps of the callers and of the server that leave the connections and
\* their marks alone.
QuietStep ==
  \/ \E r \in Caller : AskStop(r) \/ AskForce(r) \/ TakeOut(r) \/ ForceAgain(r)
  \/ StopServing \/ Escalate \/ ShutdownReturns \/ GraceEnds \/ Deadline \/ Marked

\* They leave the types.
LEMMA QuietTypes ==
  ASSUME ServerTypes, QuietStep PROVE ServerTypes'
<1>c. ASSUME NEW r \in Caller, AskStop(r) \/ AskForce(r) \/ TakeOut(r) \/ ForceAgain(r) PROVE ServerTypes'
  <2>1. /\ shutdownReq' \in {<<>>, <<FALSE>>, <<TRUE>>}
        /\ UNCHANGED <<serverVars, wsClosing>>
    BY <1>c DEF ServerTypes, AskStop, AskForce, TakeOut, ForceAgain, countVars
  <2>2. \E l \in {"idle", "full", "again", "returned"} : caller' = [caller EXCEPT ![r] = l]
    BY <1>c DEF AskStop, AskForce, TakeOut, ForceAgain, SetCaller
  <2>3. caller' \in [Caller -> {"idle", "full", "again", "returned"}]
    BY <2>2 DEF ServerTypes
  <2> QED BY <2>1, <2>3 DEF ServerTypes, serverVars
<1>h. shutdownReq # <<>> => Head(shutdownReq) \in BOOLEAN
  <2>1. \A b : Head(<<b>>) = b
    BY SMTT(30)
  <2> QED BY <2>1 DEF ServerTypes
<1>1. CASE StopServing
  BY <1>1, <1>h DEF StopServing, ServerTypes, requestVars, countVars
<1>2. CASE Escalate
  BY <1>2, <1>h DEF Escalate, ServerTypes, requestVars, countVars
<1>3. CASE ShutdownReturns
  BY <1>3, <1>h DEF ShutdownReturns, ServerTypes, requestVars, countVars
<1>4. CASE GraceEnds
  BY <1>4, <1>h DEF GraceEnds, ServerTypes, requestVars, countVars
<1>5. CASE Deadline
  BY <1>5, <1>h DEF Deadline, ServerTypes, requestVars, countVars
<1>6. CASE Marked
  BY <1>6, <1>h DEF Marked, ServerTypes, requestVars, countVars
<1> QED BY <1>c, <1>1, <1>2, <1>3, <1>4, <1>5, <1>6 DEF QuietStep

\* They keep the invariant: an overrun that begins only weakens it.
LEMMA QuietKeeps ==
  ASSUME RpcInv, QuietStep, Overrun => Overrun'
  PROVE  RpcInv'
<1>1. UNCHANGED <<countVars, connVars>>
  BY DEF QuietStep, StopServing, Escalate, ShutdownReturns, GraceEnds, Deadline, Marked, AskStop,
     AskForce, TakeOut, ForceAgain
<1>2. /\ serve' = serve \/ serve' \notin {"mark", "markFailed", "wait", "returned", "aborted"}
         \/ (serve \in {"mark", "markFailed"} /\ serve' # "returned")
      /\ serve = "returned" => late' = late /\ serve' = serve
  BY DEF QuietStep, serverVars, StopServing, Escalate, ShutdownReturns, GraceEnds, Deadline, Marked,
     AskStop, AskForce, TakeOut, ForceAgain
<1>3. ConnTypes' /\ ServerTypes' /\ CountTypes'
  BY <1>1, QuietTypes DEF RpcInv, ConnTypes, CountTypes, countVars, connVars
<1>4. CountInv'
  <2>1. Busy' = Busy /\ wsActive' = wsActive /\ wsClosing' = wsClosing
    BY <1>1 DEF Busy, countVars, connVars
  <2> QED BY <1>2, <2>1 DEF RpcInv, CountInv
<1>5. ASSUME NEW d \in Conn PROVE Linked(d)'
  <2>1. Linked(d)
    BY DEF RpcInv
  <2>2. toShut' = toShut /\ UNCHANGED <<ws, open, gone, handling, closing, subscribed>>
    BY <1>1 DEF countVars, connVars
  <2> QED BY <2>1, <2>2, LinkedKept
<1>6. ClosedIsReleased'
  BY <1>1, <1>2, SMTT(30) DEF RpcInv, ClosedIsReleased, connVars
<1> QED BY <1>3, <1>4, <1>5, <1>6 DEF RpcInv

\* initiateWebSocketClose and the deadline's forceCloseWebSockets: what is
\* marked is not in a call, and what is closed then has been marked, or the
\* server gives up.
LEMMA ClosingKeeps ==
  ASSUME RpcInv, Overrun => Overrun',
         InitiateClose \/ (\E c \in Conn : Mark(c) \/ Shut(c)) \/ Waited
  PROVE  RpcInv'
<1>t. ConnTypes /\ ServerTypes /\ CountTypes
  BY DEF RpcInv
<1>b. ws' = ws /\ wsActive' = wsActive /\ handling' = handling /\ subscribed' = subscribed /\ gone' = gone
  BY DEF InitiateClose, Mark, Shut, Waited, countVars, connVars
<1>c. Busy' = Busy
  BY <1>b DEF Busy
<1>1. CASE InitiateClose
  <2>1. ConnTypes' /\ ServerTypes' /\ CountTypes'
    <3>1. ServerTypes'
      BY <1>1, <1>t DEF InitiateClose, ServerTypes, requestVars
    <3> QED BY <1>1, <1>t, <3>1 DEF InitiateClose, ConnTypes, CountTypes, connVars
  <2>2. CountInv'
    BY <1>1, <1>b, <1>c DEF InitiateClose, RpcInv, CountInv
  <2>3. ASSUME NEW d \in Conn PROVE Linked(d)'
    BY <1>1, LinkedKept DEF RpcInv, InitiateClose, connVars
  <2>4. ClosedIsReleased'
    BY <1>1 DEF ClosedIsReleased, InitiateClose
  <2> QED BY <2>1, <2>2, <2>3, <2>4 DEF RpcInv
<1>2. ASSUME NEW c \in Conn, Mark(c) PROVE RpcInv'
  <2>1. UNCHANGED <<requestVars, serverVars, wsClosing, wsActive, tracked, ws, open, gone, handling, subscribed>>
    BY <1>2 DEF Mark
  <2>2. toMark' \subseteq Conn /\ toShut' \subseteq Conn /\ closing' \in [Conn -> BOOLEAN]
    BY <1>2, <1>t DEF Mark, CountTypes, ConnTypes
  <2>3. ConnTypes' /\ ServerTypes' /\ CountTypes'
    BY <1>t, <2>1, <2>2, ZenonT(30) DEF ConnTypes, ServerTypes, CountTypes, requestVars, serverVars
  <2>4. CountInv' /\ ClosedIsReleased'
    BY <1>c, <2>1 DEF RpcInv, CountInv, ClosedIsReleased, serverVars
  <2>5. ASSUME NEW d \in Conn, d # c PROVE Linked(d)'
    <3>1. closing'[d] = closing[d] /\ (d \in toShut' => d \in toShut)
      BY <1>2, <1>t, <2>5 DEF Mark, ConnTypes
    <3> QED BY <2>1, <3>1, LinkedKept DEF RpcInv
  <2>6. Linked(c)'
    <3>1. closing'[c] = TRUE /\ (c \in toShut' => c \in toShut \/ ~handling[c])
      BY <1>2, <1>t DEF Mark, ConnTypes
    <3>2. Linked(c)
      BY DEF RpcInv
    <3> QED BY <2>1, <3>1, <3>2 DEF Linked, Overrun, serverVars
  <2> QED BY <2>3, <2>4, <2>5, <2>6 DEF RpcInv
<1>3. ASSUME NEW c \in Conn, Shut(c) PROVE RpcInv'
  <2>1. UNCHANGED <<requestVars, serverVars, wsClosing, wsActive, tracked, toMark, ws, gone, handling,
                  closing, subscribed>>
    BY <1>3 DEF Shut
  <2>2. toShut' \subseteq Conn /\ open' \in [Conn -> BOOLEAN] /\ open'[c] = FALSE
    BY <1>3, <1>t DEF Shut, CountTypes, ConnTypes
  <2>3. ConnTypes' /\ ServerTypes' /\ CountTypes'
    BY <1>t, <2>1, <2>2, ZenonT(30) DEF ConnTypes, ServerTypes, CountTypes, requestVars, serverVars
  <2>4. ASSUME NEW d \in Conn, d # c PROVE Linked(d)' /\ open'[d] = open[d]
    <3>1. open'[d] = open[d] /\ (d \in toShut' => d \in toShut)
      BY <1>3, <1>t, <2>4 DEF Shut, ConnTypes
    <3> QED BY <2>1, <3>1, LinkedKept DEF RpcInv
  <2>5. CountInv' /\ ClosedIsReleased'
    BY <1>c, <2>1, <2>2, <2>4 DEF RpcInv, CountInv, ClosedIsReleased, serverVars
  <2>6. Linked(c)'
    <3>1. c \in toShut /\ c \notin toShut' /\ Linked(c)
      BY <1>3 DEF RpcInv, Shut
    <3> QED BY <2>1, <2>2, <3>1 DEF Linked, Overrun, serverVars, Reading, InCall
  <2> QED BY <2>3, <2>4, <2>5, <2>6 DEF RpcInv
<1>4. CASE Waited
  <2>1. /\ serve = "wait" /\ serve' = "returned"
        /\ UNCHANGED <<forced, listening, late, mounted, bounded, requestVars, countVars, ws, handling,
                        closing, subscribed, gone>>
    BY <1>4 DEF Waited
  <2>2. open' \in [Conn -> BOOLEAN] /\ (\A d \in Conn : open'[d] => open[d])
    BY <1>4, <1>t DEF Waited, ConnTypes
  <2>3. ConnTypes' /\ ServerTypes' /\ CountTypes'
    BY <1>t, <2>1, <2>2 DEF ConnTypes, ServerTypes, CountTypes, requestVars, countVars
  <2>4. CountInv'
    BY <1>c, <2>1 DEF RpcInv, CountInv, countVars
  <2>5. CASE late
    <3>1. Overrun'
      BY <2>1, <2>5 DEF Overrun
    <3>2. ASSUME NEW d \in Conn PROVE Linked(d)'
      BY <2>1, <2>2, <3>1 DEF RpcInv, Linked, countVars
    <3> QED BY <2>1, <2>3, <2>4, <2>5, <3>2 DEF RpcInv, ClosedIsReleased
  <2>6. CASE ~late
    <3>1. open' = open /\ wsActive = 0
      BY <1>4, <2>6 DEF Waited
    <3>2. Busy = {}
      BY <3>1, CountOne DEF RpcInv, CountInv
    <3>3. ClosedIsReleased'
      BY <2>1, <3>1, <3>2 DEF RpcInv, ClosedIsReleased, Busy, Linked
    <3>4. ASSUME NEW d \in Conn PROVE Linked(d)'
      BY <2>1, <3>1, LinkedKept DEF RpcInv, countVars
    <3> QED BY <2>3, <2>4, <3>3, <3>4 DEF RpcInv
  <2> QED BY <2>5, <2>6
<1> QED BY <1>1, <1>2, <1>3, <1>4

----------------------------------------------------------------------------

\* The handlers, their count and the server's marks fit together in every state,
\* and the count never passes maxWebSocketConnections.
THEOREM RpcInvariant == RpcSpec => []RpcInv
<1>1. RpcInit => RpcInv
  <2> SUFFICES ASSUME RpcInit PROVE RpcInv
    BY SMTT(30)
  <2>1. Busy = {}
    BY DEF RpcInit, Busy
  <2>2. ConnTypes /\ ServerTypes /\ CountTypes
    <3>1. ConnTypes
      BY DEF RpcInit, ConnTypes, Labels
    <3>2. ServerTypes
      BY DEF RpcInit, ServerTypes
    <3>3. CountTypes
      BY CallerAssumption, SMTT(30) DEF RpcInit, CountTypes
    <3> QED BY <3>1, <3>2, <3>3
  <2>3. CountInv
    BY <2>1, FS_EmptySet DEF CountInv, RpcInit
  <2>4. (\A c \in Conn : Linked(c)) /\ ClosedIsReleased
    BY DEF RpcInit, Linked, InCall, Reading, ClosedIsReleased
  <2> QED BY <2>2, <2>3, <2>4 DEF RpcInv
<1>2. ASSUME RpcInv, [RpcNext]_rpcVars PROVE RpcInv'
  <2>1. CASE UNCHANGED rpcVars
    <3>1. Busy' = Busy
      BY <2>1 DEF rpcVars, connVars, Busy
    <3>2. ASSUME NEW d \in Conn PROVE Linked(d)'
      BY <1>2, <2>1, LinkedKept DEF RpcInv, rpcVars, connVars, countVars, serverVars, Overrun
    <3>3. ConnTypes' /\ ServerTypes' /\ CountTypes' /\ ClosedIsReleased'
      BY <1>2, <2>1, ZenonT(30) DEF RpcInv, ConnTypes, ServerTypes, CountTypes, ClosedIsReleased,
         rpcVars, connVars, countVars, serverVars, requestVars
    <3> QED BY <1>2, <2>1, <3>1, <3>2, <3>3 DEF RpcInv, CountInv, rpcVars, countVars, serverVars
  <2>2. CASE RpcNext
    <3>o. Overrun => Overrun'
      BY <1>2, <2>2, OverrunStays
    <3>1. CASE QuietStep
      BY <1>2, <3>o, <3>1, QuietKeeps
    <3>2. CASE InitiateClose \/ (\E c \in Conn : Mark(c) \/ Shut(c)) \/ Waited
      BY <1>2, <3>o, <3>2, ClosingKeeps
    <3>3. ASSUME NEW c \in Conn, SocketStep(c) PROVE RpcInv'
      <4>1. ConnTypes /\ ServerTypes /\ CountTypes
        BY <1>2 DEF RpcInv
      <4>2. CountTypes' /\ CountInv' /\ UNCHANGED serverVars /\ UNCHANGED wsClosing
        BY <1>2, <3>3, HandlerCounted
      <4>3. UNCHANGED <<requestVars, toShut>>
        BY <3>3 DEF SocketStep, ConnStep, countVars, Accept, Begin, Upgrade, Track, StartReading, Read,
           ReadFails, BeginRPC, Handle, EndRPC, Cleanup, End, Disconnect
      <4>4. ConnTypes' /\ ServerTypes' /\ CountTypes'
        BY <3>3, <4>1, <4>2, <4>3, SocketTypes DEF ServerTypes, serverVars, requestVars
      <4>5. ASSUME NEW d \in Conn, d # c PROVE Linked(d)'
        BY <1>2, <3>3, <3>o, <4>1, <4>3, <4>5, OthersKept, LinkedKept DEF RpcInv
      <4>6. Linked(c)'
        BY <1>2, <3>3, <3>o, <4>1, HandlerLinked DEF RpcInv
      <4>7. ClosedIsReleased'
        BY <1>2, <3>3, HandlerReleased
      <4> QED BY <4>2, <4>4, <4>5, <4>6, <4>7 DEF RpcInv
    <3> QED BY <2>2, <3>1, <3>2, <3>3 DEF RpcNext, QuietStep, ServeStep, SocketStep
  <2> QED BY <1>2, <2>1, <2>2
<1> QED BY <1>1, <1>2, PTL DEF RpcSpec

\* At no time are there more handlers than maxWebSocketConnections.
THEOREM ConnectionsLimited == RpcSpec => [](Cardinality(Busy) <= Limit)
<1>1. RpcInv => Cardinality(Busy) <= Limit
  BY DEF RpcInv, CountInv, CountTypes
<1> QED BY <1>1, RpcInvariant, PTL

\* Close and ListenAndServe return in time only when every handler is gone, with
\* its connection and its subscription.
THEOREM CloseReleases == RpcSpec => []ClosedIsReleased
<1>1. RpcInv => ClosedIsReleased
  BY DEF RpcInv
<1> QED BY <1>1, RpcInvariant, PTL

\* The shutdown takes no connection from a call that has begun before its
\* deadline: an answer is lost only to a client that went away.
THEOREM EveryCallAnswered == RpcSpec => []CallsAnswered
<1>1. RpcInv => CallsAnswered
  <2> SUFFICES ASSUME RpcInv, NEW c \in Conn, ws[c] = "unanswered" PROVE gone[c] \/ Overrun
    BY DEF CallsAnswered, Overrun
  <2> QED BY DEF RpcInv, Linked, InCall
<1> QED BY <1>1, RpcInvariant, PTL

=============================================================================
