----------------------- MODULE EngineSchedulerProofs ------------------------
(***************************************************************************)
(* Inv is an invariant of EngineScheduler, for every set of gids, objects, *)
(* contexts and options, the limits on runs and results are obeyed, and    *)
(* EngineScheduler implements DownloadLifecycle: every step of the engine  *)
(* is a step of the life cycle of one gid, forgets results, or changes     *)
(* nothing a client of the life cycle can see.                             *)
(***************************************************************************)
EXTENDS EngineRefinement, EngineRunProofs, FiniteSetTheorems

\* Most leaves are first-order: Zenon proves them.  The others name SMT.
USE Zenon

\* Inv is inductive.
LEMMA NextInv ==
  ASSUME Inv, [Next]_vars PROVE Inv'
<1>1. CASE UNCHANGED vars
  <2>1. UNCHANGED <<core, life, sched, starts>> /\ waiting' = waiting
    BY <1>1 DEF vars, core, life, loop
  <2>2. TypeOK'
    BY <1>1, SMTT(30) DEF Inv, TypeOK, vars, items, links, results, options, life, loop, runs, tails
  <2>3. IsInjective(waiting') /\ Range(waiting') = Range(waiting)
    BY <2>1 DEF Inv, QueueConsistent
  <2> QED BY <2>1, <2>2, <2>3, ReorderStep
<1>2. CASE API
  <2>1. ASSUME NEW g \in Gid, NEW d \in Download, NEW paused \in BOOLEAN,
               NEW pos \in Positions, AddURI(g, d, paused, pos)
        PROVE  Inv'
    BY <2>1, AddURIStep
  <2>2. ASSUME NEW g \in Gid, ForceRemove(g) \/ Pause(g) \/ Unpause(g) PROVE Inv'
    BY <2>2, ForceRemoveStep, PauseStep, UnpauseStep
  <2>3. ASSUME NEW g \in Gid, NEW pos \in Positions,
               NEW how \in {"POS_SET", "POS_CUR", "POS_END"}, ChangePosition(g, pos, how)
        PROVE  Inv'
    BY <2>3, ChangePositionStep
  <2>4. ASSUME NEW g \in Gid, ChangeURI(g) \/ ChangeOption(g) PROVE Inv'
    BY <2>4, RestartStep DEF ChangeURI, ChangeOption
  <2>5. ASSUME PurgeDownloadResult \/ \E g \in Gid : RemoveDownloadResult(g) PROVE Inv'
    BY <2>5, PurgeDownloadResultStep, RemoveDownloadResultStep
  <2>6. ASSUME \/ Close
               \/ \E ma \in MaxActiveVals, mr \in MaxResultVals, keep \in KeepVals :
                    ChangeGlobalOption(ma, mr, keep)
        PROVE  Inv'
    BY <2>6, CounterStep
  <2> QED BY <1>2, <2>1, <2>2, <2>3, <2>4, <2>5, <2>6 DEF API
<1>3. CASE Engine
  <2>1. ASSUME PruneResult PROVE Inv'
    BY <2>1, PruneResultStep
  <2>2. ASSUME UnlockAfterPrune \/ Signal \/ RunExit \/ CloseDone PROVE Inv'
    BY <2>2, CounterStep
  <2>3. ASSUME Schedule PROVE Inv'
    BY <2>3, CounterStep, DeferCandidateStep, StartCandidateStep DEF Schedule
  <2>4. ASSUME NEW r \in Run, Finish(r) PROVE Inv'
    BY <2>4, FinishDownloadStep DEF Finish
  <2> QED BY <1>3, <2>1, <2>2, <2>3, <2>4 DEF Engine
<1> QED BY <1>1, <1>2, <1>3 DEF Next

\* Inv holds in every state of every run of the engine.
THEOREM Invariance == Spec => []Inv
BY InitInv, NextInv, PTL DEF Spec

\* The state always has its type.
THEOREM TypeCorrect == Spec => []TypeOK
<1>1. Inv => TypeOK
  BY DEF Inv
<1> QED BY <1>1, Invariance, PTL

\* The queue and the status of the downloads agree, and a waiting download is
\* never missing from the queue before shutdown: pause, unpause, restart,
\* reordering and schedule() together lose and duplicate nothing.
THEOREM QueueSafe == Spec => [](QueueConsistent /\ NoLostDownload)
<1>1. Inv => QueueConsistent /\ NoLostDownload
  BY DEF Inv
<1> QED BY <1>1, Invariance, PTL

\* Runs of one gid never overlap, e.active counts exactly the goroutines that
\* have not returned, and finishDownload always finds its run current.
THEOREM RunsExclusive == Spec => [](OneRunPerGid /\ ActiveIsRunning /\ RunIsCurrent)
<1>1. Inv => OneRunPerGid /\ ActiveIsRunning /\ RunIsCurrent
  BY DEF Inv
<1> QED BY <1>1, Invariance, PTL

\* An active download can be interrupted, and a download that stopped being
\* active has had its run canceled.
THEOREM CancelReaches == Spec => [](ActiveCanBeCanceled /\ NoRunawayRun)
<1>1. Inv => ActiveCanBeCanceled /\ NoRunawayRun
  BY DEF Inv
<1> QED BY <1>1, Invariance, PTL

\* The list of results is the set of downloads with a final status.
THEOREM ResultsExact == Spec => []StoppedExact
<1>1. Inv => StoppedExact
  BY DEF Inv
<1> QED BY <1>1, Invariance, PTL

\* When Close has returned, no run is left and no download says it is active.
THEOREM CloseQuiet == Spec => []ClosedIsQuiet
<1>1. Inv => ClosedIsQuiet
  BY DEF Inv
<1> QED BY <1>1, Invariance, PTL

\* Only schedule() and finishDownload write e.active.
LEMMA ActiveFrame ==
  ASSUME [Next]_vars
  PROVE  \/ \E r \in Run : StartCandidate(r)
         \/ active' \subseteq active
<1>1. ASSUME API \/ UNCHANGED vars PROVE active' = active
  BY <1>1 DEF API, AddURI, ForceRemove, Pause, Unpause, ChangePosition, ChangeURI,
    ChangeOption, ChangeGlobalOption, PurgeDownloadResult, RemoveDownloadResult,
    Close, vars
<1>2. ASSUME \/ PruneResult \/ UnlockAfterPrune \/ Signal \/ RunExit \/ CloseDone
             \/ Wake \/ SchedulerExit \/ ScheduleLock \/ DeferCandidate
             \/ ScheduleUnlock \/ LaunchRun
      PROVE  active' = active
  BY <1>2 DEF PruneResult, UnlockAfterPrune, Signal, RunExit, CloseDone, Wake,
    SchedulerExit, ScheduleLock, DeferCandidate, ScheduleUnlock, LaunchRun
<1>3. ASSUME NEW r \in Run, Finish(r) PROVE active' \subseteq active
  BY <1>3 DEF Finish, FinishDownload
<1> QED BY <1>1, <1>2, <1>3 DEF Next, Engine, Schedule

\* The scheduler never starts a download beyond max-concurrent-downloads.  The
\* limit may be lowered at any time, so the number of runs is not bounded by it
\* in every state; what holds is that no step passes it.
THEOREM StartLimit == Spec => StartsWithinLimit
<1> DEFINE Fin == IsFiniteSet(active)
           Within == ~(active' \subseteq active) => Cardinality(active') <= maxActive
<1>1. Init => Fin
  BY FS_EmptySet DEF Init
<1>2. ASSUME Inv, Fin, NEW r \in Run, StartCandidate(r) PROVE Fin' /\ Within
  <2>1. CASE active' = active
    BY <1>2, <2>1
  <2>2. CASE active' = active \cup {Head(waiting)}
    <3>1. /\ IsFiniteSet(active \cup {Head(waiting)})
          /\ Cardinality(active \cup {Head(waiting)}) = Cardinality(active) + 1
      BY <1>2, FS_AddElement DEF StartCandidate
    <3>2. Cardinality(active) < maxActive
      BY <1>2 DEF StartCandidate, MoreCandidates
    <3>3. Cardinality(active) \in Nat /\ maxActive \in Nat
      BY <1>2, FS_CardinalityType DEF Inv, TypeOK
    <3>4. Cardinality(active) + 1 <= maxActive
      BY <3>2, <3>3, SMTT(30)
    <3> QED BY <2>2, <3>1, <3>4
  <2> QED BY <1>2, <2>1, <2>2 DEF StartCandidate
<1>3. ASSUME Fin, active' \subseteq active PROVE Fin' /\ Within
  BY <1>3, FS_Subset
<1>4. Inv /\ Fin /\ [Next]_vars => Fin' /\ Within
  BY <1>2, <1>3, ActiveFrame
<1> HIDE DEF Fin
<1> QED BY <1>1, <1>4, Invariance, PTL DEF Spec, StartsWithinLimit

----------------------------------------------------------------------------
\* The results that count against the limit, by their gids.
Counted == {g \in stoppedSet : ~Protected(g)}

\* schedule() is in its loop while it holds e.mu, so it never unlocks over a
\* request that has results to prune; while nobody prunes the limit holds.
LimitInv ==
  /\ mu = "scheduler" <=> sched = "looping"
  /\ mu \in {"free", "scheduler"} => Cardinality(Prunable) <= maxResult

\* Places in a list without duplicates are counted by what is at them.
LEMMA PlacesOf ==
  ASSUME NEW S, NEW q \in Seq(S), IsInjective(q), NEW C \in SUBSET Range(q)
  PROVE  LET P == {i \in DOMAIN q : q[i] \in C} IN
         IsFiniteSet(P) /\ IsFiniteSet(C) /\ Cardinality(P) = Cardinality(C)
<1> DEFINE P == {i \in DOMAIN q : q[i] \in C}
           f == [i \in P |-> q[i]]
<1>1. Len(q) \in Nat /\ DOMAIN q = 1..Len(q)
  BY SMTT(30)
<1>2. IsFiniteSet(1..Len(q))
  BY <1>1, FS_Interval, SMTT(30)
<1>3. IsFiniteSet(P)
  BY <1>1, <1>2, FS_Subset
<1>4. f \in Bijection(P, C)
  <2>1. f \in [P -> C]
    OBVIOUS
  <2>2. \A i, j \in P : f[i] = f[j] => i = j
    BY DEF IsInjective
  <2>3. \A c \in C : \E i \in P : f[i] = c
    BY DEF Range
  <2> QED BY <2>1, <2>2, <2>3 DEF Bijection, Injection, IsInjective, Surjection
<1>5. ExistsBijection(P, C)
  BY <1>4 DEF ExistsBijection
<1> QED BY <1>3, <1>5, FS_Bijection

\* So Prunable may be counted by gid.
LEMMA PrunableCount ==
  ASSUME Inv
  PROVE  /\ IsFiniteSet(Counted)
         /\ Cardinality(Prunable) = Cardinality(Counted)
         /\ Cardinality(Prunable) \in Nat
<1>1. stopped \in Seq(Gid) /\ IsInjective(stopped) /\ stoppedSet = Range(stopped)
  BY DEF Inv, TypeOK, StoppedExact
<1>2. Counted \in SUBSET Range(stopped)
  BY <1>1 DEF Counted
<1>3. Prunable = {i \in DOMAIN stopped : stopped[i] \in Counted}
  BY <1>1 DEF Prunable, Counted, Range
<1> QED BY <1>1, <1>2, <1>3, PlacesOf, FS_CardinalityType

\* A step may forget results but does not make others count.
LEMMA FewerCount ==
  ASSUME Inv, Inv', stoppedSet' \subseteq stoppedSet, keepUnfinished' = keepUnfinished,
         \A g \in stoppedSet' : /\ downloads'[g] = downloads[g]
                                /\ status'[downloads[g]] = status[downloads[g]]
  PROVE  /\ Cardinality(Prunable') \in Nat
         /\ Cardinality(Prunable') <= Cardinality(Prunable)
<1>1. Counted' \subseteq Counted
  BY DEF Counted, Protected, Known
<1>2. IsFiniteSet(Counted) /\ Cardinality(Prunable) = Cardinality(Counted)
  BY PrunableCount
<1>3. IsFiniteSet(Counted') /\ Cardinality(Prunable') = Cardinality(Counted')
  <2>1. stopped' \in Seq(Gid) /\ IsInjective(stopped') /\ stoppedSet' = Range(stopped')
    BY DEF Inv, TypeOK, StoppedExact
  <2>2. Counted' \in SUBSET Range(stopped')
    BY <2>1 DEF Counted
  <2>3. Prunable' = {i \in DOMAIN stopped' : stopped'[i] \in Counted'}
    BY <2>1 DEF Prunable, Counted, Range
  <2> QED BY <2>1, <2>2, <2>3, PlacesOf, ZenonT(30)
<1>4. Cardinality(Counted') \in Nat
  BY <1>3, FS_CardinalityType
<1> QED BY <1>1, <1>2, <1>3, <1>4, FS_Subset

\* A step that keeps the limit and the results that are left, and unlocks only
\* what was not pruning.
LEMMA LimitKept ==
  ASSUME Inv, Inv', LimitInv, stoppedSet' \subseteq stoppedSet,
         UNCHANGED <<maxResult, keepUnfinished>>,
         \A g \in stoppedSet' : /\ downloads'[g] = downloads[g]
                                /\ status'[downloads[g]] = status[downloads[g]],
         mu' = "scheduler" <=> sched' = "looping",
         mu' \in {"free", "scheduler"} => mu \in {"free", "scheduler"}
  PROVE  LimitInv'
<1>1. Cardinality(Prunable') \in Nat /\ Cardinality(Prunable') <= Cardinality(Prunable)
  BY FewerCount
<1>2. Cardinality(Prunable) \in Nat /\ maxResult \in Nat
  BY PrunableCount DEF Inv, TypeOK
<1>3. mu' \in {"free", "scheduler"} => Cardinality(Prunable') <= maxResult'
  BY <1>1, <1>2, SMTT(30) DEF LimitInv
<1> QED BY <1>3 DEF LimitInv

\* The status of a stopped download does not change when that of one which has
\* not stopped does.
LEMMA StoppedKeepStatus ==
  ASSUME Inv, NEW d \in Download, status[d] \notin Terminal,
         \A x \in Download \ {d} : status'[x] = status[x]
  PROVE  \A g \in stoppedSet : status'[downloads[g]] = status[downloads[g]]
<1>1. \A g \in stoppedSet : g \in Gid /\ Known(g) /\ status[downloads[g]] \in Terminal
  BY DEF Inv, StoppedExact
<1>2. \A g \in stoppedSet : downloads[g] \in Download \ {d}
  BY <1>1 DEF Inv, TypeOK, Known
<1> QED BY <1>2

\* The requests that change one download.
LEMMA RequestLimit ==
  ASSUME Inv, Inv', LimitInv, NEW g \in Gid,
         \/ ForceRemove(g) \/ Pause(g) \/ Unpause(g) \/ ChangeURI(g) \/ ChangeOption(g)
         \/ RemoveDownloadResult(g)
  PROVE  LimitInv'
<1> USE DEF Call, Return, results, options, loop, RestartActive
<1>1. mu = "free" /\ sched # "looping"
  BY DEF LimitInv, ForceRemove, Pause, Unpause, ChangeURI, ChangeOption, RemoveDownloadResult
<1>2. ASSUME ForceRemove(g), status[downloads[g]] \in Terminal PROVE LimitInv'
  <2>1. UNCHANGED <<downloads, status, stoppedSet, maxResult, keepUnfinished, mu, sched>>
    BY <1>2 DEF ForceRemove
  <2> QED BY <1>1, <2>1, LimitKept
<1>3. ASSUME ForceRemove(g), status[downloads[g]] \notin Terminal PROVE LimitInv'
  <2>1. mu' = "caller" /\ sched' = sched
    BY <1>3 DEF ForceRemove
  <2> QED BY <1>1, <2>1 DEF LimitInv
<1>4. ASSUME Pause(g) \/ Unpause(g) \/ ChangeURI(g) \/ ChangeOption(g) PROVE LimitInv'
  <2> DEFINE d == downloads[g]
  <2>1. /\ UNCHANGED <<downloads, stoppedSet, maxResult, keepUnfinished, mu, sched>>
        /\ Known(g) /\ status[d] \notin Terminal
        /\ \E s \in {"paused", "waiting"} : status' = [status EXCEPT ![d] = s]
    BY <1>4 DEF Pause, Unpause, ChangeURI, ChangeOption, Terminal
  <2>2. d \in Download
    BY <2>1 DEF Inv, TypeOK, Known
  <2>3. \A x \in Download \ {d} : status'[x] = status[x]
    BY <2>1, <2>2 DEF Inv, TypeOK
  <2> HIDE DEF d
  <2>4. \A h \in stoppedSet : status'[downloads[h]] = status[downloads[h]]
    BY <2>1, <2>2, <2>3, StoppedKeepStatus
  <2> QED BY <1>1, <2>1, <2>4, LimitKept
<1>5. ASSUME RemoveDownloadResult(g) PROVE LimitInv'
  <2>1. /\ UNCHANGED <<status, maxResult, keepUnfinished, mu, sched>>
        /\ stoppedSet' = stoppedSet \ {g}
        /\ downloads' = [downloads EXCEPT ![g] = NoDownload]
    BY <1>5 DEF RemoveDownloadResult
  <2>2. \A h \in stoppedSet' : downloads'[h] = downloads[h]
    BY <2>1 DEF Inv, TypeOK
  <2> QED BY <1>1, <2>1, <2>2, LimitKept
<1> QED BY <1>2, <1>3, <1>4, <1>5

\* The other requests.  A changed limit is enforced before e.mu is released.
LEMMA APILimit ==
  ASSUME Inv, Inv', LimitInv, API PROVE LimitInv'
<1> USE DEF Call, Return, results, options, loop
<1>1. ASSUME NEW g \in Gid, NEW d \in Download, NEW paused \in BOOLEAN,
             NEW pos \in Positions, AddURI(g, d, paused, pos)
      PROVE  LimitInv'
  <2>1. /\ UNCHANGED <<stoppedSet, maxResult, keepUnfinished, mu, sched>>
        /\ ~Known(g) /\ \A h \in Gid : downloads[h] # d
        /\ downloads' = [downloads EXCEPT ![g] = d]
        /\ \A x \in Download \ {d} : status'[x] = status[x]
    BY <1>1 DEF AddURI, Fresh, Inv, TypeOK
  <2>2. \A h \in stoppedSet : h \in Gid /\ Known(h)
    BY DEF Inv, StoppedExact
  <2>3. \A h \in stoppedSet : downloads'[h] = downloads[h] /\ downloads[h] \in Download \ {d}
    BY <2>1, <2>2 DEF Inv, TypeOK, Known
  <2>4. mu' = "scheduler" <=> sched' = "looping"
    BY <2>1 DEF LimitInv
  <2> QED BY <2>1, <2>3, <2>4, LimitKept
<1>2. ASSUME Close \/ \E g \in Gid, pos \in Positions, how \in {"POS_SET", "POS_CUR", "POS_END"} :
                        ChangePosition(g, pos, how)
      PROVE  LimitInv'
  <2>1. UNCHANGED <<downloads, status, stoppedSet, maxResult, keepUnfinished, mu, sched>>
    BY <1>2 DEF Close, ChangePosition, items
  <2>2. mu' = "scheduler" <=> sched' = "looping"
    BY <2>1 DEF LimitInv
  <2> QED BY <2>1, <2>2, LimitKept
<1>3. ASSUME NEW ma \in MaxActiveVals, NEW mr \in MaxResultVals, NEW keep \in KeepVals,
             ChangeGlobalOption(ma, mr, keep)
      PROVE  LimitInv'
  BY <1>3 DEF ChangeGlobalOption, LimitInv
<1>4. ASSUME PurgeDownloadResult PROVE LimitInv'
  <2>1. /\ UNCHANGED <<status, maxResult, keepUnfinished, mu, sched>>
        /\ stoppedSet' = stoppedSet \ Range(stopped)
    BY <1>4 DEF PurgeDownloadResult
  <2>2. stoppedSet' = {}
    BY <2>1 DEF Inv, StoppedExact
  <2>3. mu' = "scheduler" <=> sched' = "looping"
    BY <2>1 DEF LimitInv
  <2> QED BY <2>1, <2>2, <2>3, LimitKept
<1> QED BY <1>1, <1>2, <1>3, <1>4, RequestLimit DEF API

\* The end of a run.  A final status is appended to the results, which are then
\* pruned before e.mu is released.
LEMMA FinishLimit ==
  ASSUME Inv, Inv', LimitInv, NEW r \in Run, NEW result, FinishDownload(r, result)
  PROVE  LimitInv'
<1> DEFINE d == runner[r]
<1>1. d \in Download /\ ctx[d] = r /\ mu = "free" /\ sched # "looping"
  BY DEF Inv, TypeOK, RunIsCurrent, FinishDownload, Running, Live, LimitInv
<1>2. /\ UNCHANGED <<downloads, maxResult, keepUnfinished, sched>>
      /\ \/ mu' = "finisher"
         \/ UNCHANGED <<mu, stoppedSet>>
      /\ \A x \in Download \ {d} : status'[x] = status[x]
      /\ status[d] # "active" => status'[d] = status[d]
  BY <1>1 DEF FinishDownload, Inv, TypeOK, options, loop, results
<1> HIDE DEF d
<1>3. CASE mu' = "finisher"
  BY <1>1, <1>2, <1>3 DEF LimitInv
<1>4. CASE UNCHANGED <<mu, stoppedSet>>
  <2>1. \A h \in stoppedSet : status'[downloads[h]] = status[downloads[h]]
    <3>1. CASE status[d] \notin Terminal
      BY <1>1, <1>2, <3>1, StoppedKeepStatus
    <3>2. CASE status[d] \in Terminal
      <4>1. \A h \in stoppedSet : downloads[h] \in Download
        BY DEF Inv, TypeOK, StoppedExact, Known
      <4> QED BY <1>2, <3>2, <4>1 DEF Terminal
    <3> QED BY <3>1, <3>2
  <2> QED BY <1>1, <1>2, <1>4, <2>1, LimitKept
<1> QED BY <1>2, <1>3, <1>4

\* The goroutines of the engine.  e.mu is released by the loop that prunes when
\* there is nothing left to prune, and by schedule(), which was not pruning.
LEMMA EngineKeepsLimit ==
  ASSUME Inv, Inv', LimitInv, Engine PROVE LimitInv'
<1> USE DEF items, results, options, loop
<1>1. ASSUME PruneResult PROVE LimitInv'
  BY <1>1 DEF PruneResult, LimitInv
<1>2. ASSUME UnlockAfterPrune PROVE LimitInv'
  <2>1. /\ UNCHANGED <<downloads, status, stoppedSet, maxResult, keepUnfinished, sched>>
        /\ mu \in {"caller", "finisher"} /\ mu' = "free"
        /\ Cardinality(Prunable) <= maxResult
    BY <1>2 DEF UnlockAfterPrune
  <2>2. Cardinality(Prunable') \in Nat /\ Cardinality(Prunable') <= Cardinality(Prunable)
    BY <2>1, FewerCount
  <2>3. Cardinality(Prunable) \in Nat /\ maxResult \in Nat
    BY PrunableCount DEF Inv, TypeOK
  <2>4. Cardinality(Prunable') <= maxResult'
    BY <2>1, <2>2, <2>3, SMTT(30)
  <2> QED BY <2>1, <2>4 DEF LimitInv
<1>3. ASSUME Signal \/ RunExit \/ CloseDone \/ Wake \/ SchedulerExit \/ ScheduleLock
             \/ DeferCandidate \/ ScheduleUnlock \/ LaunchRun
      PROVE  LimitInv'
  <2>1. UNCHANGED <<downloads, status, stoppedSet, maxResult, keepUnfinished>>
    BY <1>3 DEF Signal, RunExit, CloseDone, Wake, SchedulerExit, ScheduleLock,
      DeferCandidate, ScheduleUnlock, LaunchRun
  <2>2. /\ mu' = "scheduler" <=> sched' = "looping"
        /\ mu' \in {"free", "scheduler"} => mu \in {"free", "scheduler"}
    BY <1>3 DEF LimitInv, Signal, RunExit, CloseDone, Wake, SchedulerExit, ScheduleLock,
      DeferCandidate, ScheduleUnlock, LaunchRun
  <2> QED BY <2>1, <2>2, LimitKept
<1>4. ASSUME NEW r \in Run, StartCandidate(r) PROVE LimitInv'
  <2> DEFINE d == downloads[Head(waiting)]
  <2>1. Head(waiting) \in Gid /\ Known(Head(waiting)) /\ status[d] = "waiting"
    <3>1. Head(waiting) \in Range(waiting) /\ Head(waiting) \in Gid
      BY <1>4, TailOfQueue DEF Inv, TypeOK, StartCandidate, MoreCandidates
    <3> QED BY <3>1 DEF Inv, QueueConsistent
  <2>2. /\ UNCHANGED <<downloads, stoppedSet, maxResult, keepUnfinished, mu, sched>>
        /\ status' = [status EXCEPT ![d] = "active"]
    BY <1>4, <2>1 DEF StartCandidate
  <2>3. d \in Download
    BY <2>1 DEF Inv, TypeOK, Known
  <2>4. \A x \in Download \ {d} : status'[x] = status[x]
    BY <2>2, <2>3 DEF Inv, TypeOK
  <2>5. status[d] \notin Terminal
    BY <2>1 DEF Terminal
  <2> HIDE DEF d
  <2>6. \A h \in stoppedSet : status'[downloads[h]] = status[downloads[h]]
    BY <2>3, <2>4, <2>5, StoppedKeepStatus
  <2>7. mu' = "scheduler" <=> sched' = "looping"
    BY <2>2 DEF LimitInv
  <2> QED BY <2>2, <2>6, <2>7, LimitKept
<1>5. ASSUME NEW r \in Run, Finish(r) PROVE LimitInv'
  BY <1>5, FinishLimit DEF Finish
<1> QED BY <1>1, <1>2, <1>3, <1>4, <1>5 DEF Engine, Schedule

\* Whenever e.mu is free, at most max-download-result results are kept besides
\* the protected ones (pruneStoppedLocked), for any number of downloads.
THEOREM ResultsLimited == Spec => []ResultLimit
<1>1. Init => LimitInv
  <2>1. SUFFICES ASSUME Init PROVE LimitInv
    OBVIOUS
  <2>2. Prunable = {} /\ maxResult \in Nat /\ mu = "free" /\ sched = "select"
    BY <2>1, OptionAssumption, SMTT(30) DEF Init, Prunable
  <2>3. Cardinality(Prunable) = 0
    BY <2>2, FS_EmptySet
  <2> QED BY <2>2, <2>3, SMTT(30) DEF LimitInv
<1>2. Inv /\ Inv' /\ LimitInv /\ [Next]_vars => LimitInv'
  <2>1. SUFFICES ASSUME Inv, Inv', LimitInv, [Next]_vars PROVE LimitInv'
    OBVIOUS
  <2>2. CASE UNCHANGED vars
    <3>1. UNCHANGED <<downloads, status, stoppedSet, maxResult, keepUnfinished, mu, sched>>
      BY <2>2 DEF vars, items, results, options, loop
    <3>2. mu' = "scheduler" <=> sched' = "looping"
      BY <2>1, <3>1 DEF LimitInv
    <3> QED BY <2>1, <3>1, <3>2, LimitKept
  <2> QED BY <2>1, <2>2, APILimit, EngineKeepsLimit DEF Next
<1>3. LimitInv => ResultLimit
  BY DEF LimitInv, ResultLimit
<1> QED BY <1>1, <1>2, <1>3, Invariance, PTL DEF Spec

----------------------------------------------------------------------------
\* A step that touches no status, no link from a gid to an object and not
\* e.active is a stutter.
LEMMA Stutter ==
  ASSUME UNCHANGED <<downloads, status, active>>
  PROVE  UNCHANGED Lifecycle!lvars
BY DEF Lifecycle!lvars, Phase, Known

\* The phase of one gid changes when the status of its download does.
LEMMA PhaseOfOne ==
  ASSUME Inv, NEW g \in Gid, Known(g), NEW s,
         status' = [status EXCEPT ![downloads[g]] = s], downloads' = downloads
  PROVE  Phase[g] = status[downloads[g]] /\ Phase' = [Phase EXCEPT ![g] = s]
<1>1. /\ downloads[g] \in Download
      /\ \A h \in Gid \ {g} : Known(h) => downloads[h] \in Download /\ downloads[h] # downloads[g]
  BY SMTT(30) DEF Inv, TypeOK, Linked, Known
<1>2. /\ status'[downloads[g]] = s
      /\ \A d \in Download \ {downloads[g]} : status'[d] = status[d]
  BY <1>1 DEF Inv, TypeOK
<1>3. \A h \in Gid : Phase'[h] = [Phase EXCEPT ![g] = s][h]
  BY <1>1, <1>2 DEF Phase, Known
<1> QED BY <1>3 DEF Phase

\* Pausing, resuming, restarting and removing are requests.
LEMMA RequestRefines ==
  ASSUME Inv, NEW g \in Gid, Known(g), status[downloads[g]] \in Unfinished,
         NEW s \in {"waiting", "paused", "removed"},
         status' = [status EXCEPT ![downloads[g]] = s],
         UNCHANGED <<downloads, active>>
  PROVE  Lifecycle!Request(g)
<1>1. Phase[g] = status[downloads[g]] /\ Phase' = [Phase EXCEPT ![g] = s]
  BY PhaseOfOne
<1> QED BY <1>1 DEF Lifecycle!Request, Lifecycle!Become, Unfinished

\* A known download that is not final is unfinished.
LEMMA NotFinal ==
  ASSUME Inv, NEW g \in Gid, Known(g), status[downloads[g]] \notin Terminal
  PROVE  status[downloads[g]] \in Unfinished
<1>1. downloads[g] \in Download
  BY DEF Inv, TypeOK, Known
<1>2. status[downloads[g]] \in Status /\ status[downloads[g]] # "new"
  BY <1>1 DEF Inv, TypeOK, Linked
<1> QED BY <1>2 DEF Status

\* AddURI is an Add: the gid was unknown, whatever run of it lingers.
LEMMA AddURIRefines ==
  ASSUME Inv, NEW g \in Gid, NEW d \in Download, NEW paused \in BOOLEAN,
         NEW pos \in Positions, AddURI(g, d, paused, pos)
  PROVE  Lifecycle!Add(g)
<1> DEFINE s == IF paused THEN "paused" ELSE "waiting"
<1>1. /\ ~Known(g) /\ \A h \in Gid : downloads[h] # d
      /\ downloads' = [downloads EXCEPT ![g] = d]
      /\ status' = [status EXCEPT ![d] = s]
      /\ active' = active
  BY DEF AddURI, Fresh
<1>2. s \in {"waiting", "paused"}
  OBVIOUS
<1> HIDE DEF s
<1>3. /\ downloads'[g] = d /\ status'[d] = s /\ d # NoDownload
      /\ \A h \in Gid \ {g} : downloads'[h] = downloads[h]
      /\ \A x \in Download \ {d} : status'[x] = status[x]
  BY <1>1, NilAssumption DEF Inv, TypeOK
<1>4. \A h \in Gid : Known(h) => downloads[h] \in Download \ {d}
  BY <1>1 DEF Inv, TypeOK, Known
<1>5. \A h \in Gid : Phase'[h] = [Phase EXCEPT ![g] = s][h]
  BY <1>3, <1>4 DEF Phase, Known
<1>6. Phase' = [Phase EXCEPT ![g] = s] /\ Phase[g] = "absent"
  BY <1>1, <1>5 DEF Phase
<1> QED BY <1>1, <1>2, <1>6 DEF Lifecycle!Add, Lifecycle!Become

\* Purging, removing and pruning results forget final downloads only.
LEMMA ForgetRefines ==
  ASSUME Inv, NEW S \in SUBSET Range(stopped),
         \A g \in Gid : downloads'[g] = IF g \in S THEN NoDownload ELSE downloads[g],
         UNCHANGED <<status, active>>
  PROVE  Lifecycle!Forget
<1>1. \A g \in S : g \in Gid /\ Known(g) /\ status[downloads[g]] \in Terminal
  BY DEF Inv, StoppedExact
<1>2. S \in SUBSET {g \in Gid : Phase[g] \in Lifecycle!Final}
  BY <1>1 DEF Phase, Lifecycle!Final, Terminal
<1>3. Phase' = [g \in Gid |-> IF g \in S THEN "absent" ELSE Phase[g]]
  BY DEF Phase, Known
<1> QED BY <1>2, <1>3 DEF Lifecycle!Forget

\* An iteration of schedule() that starts an item is a Start; QueueConsistent
\* excludes the iteration that drops one.
LEMMA StartRefines ==
  ASSUME Inv, NEW r \in Run, StartCandidate(r)
  PROVE  Lifecycle!Start(Head(waiting)) /\ Head(waiting) \in Gid
<1> DEFINE g == Head(waiting)
<1>1. g \in Range(waiting) /\ g \in Gid
  BY TailOfQueue DEF Inv, TypeOK, StartCandidate, MoreCandidates
<1>2. Known(g) /\ status[downloads[g]] = "waiting"
  BY <1>1 DEF Inv, QueueConsistent
<1>3. /\ status' = [status EXCEPT ![downloads[g]] = "active"]
      /\ downloads' = downloads /\ g \notin active /\ active' = active \cup {g}
  BY <1>2 DEF StartCandidate
<1> HIDE DEF g
<1>4. Phase[g] = "waiting" /\ Phase' = [Phase EXCEPT ![g] = "active"]
  BY <1>1, <1>2, <1>3, PhaseOfOne
<1> QED BY <1>1, <1>3, <1>4 DEF Lifecycle!Start, Lifecycle!Become, g

\* What finishDownload does, for the run it is called for.
LEMMA FinishEffect ==
  ASSUME ~HandlerCancels, Inv,
         NEW r \in Run, NEW result \in RunResult(r), FinishDownload(r, result)
  PROVE  /\ runner[r] \in Download /\ ctx[runner[r]] = r
         /\ UNCHANGED downloads
         /\ active' = active \ {GidOf[runner[r]]}
         /\ ctx' = [ctx EXCEPT ![runner[r]] = NoRun]
         /\ \E next \in Status :
              /\ status' = [status EXCEPT ![runner[r]] = next]
              /\ status[runner[r]] = "active" => next \in {"complete", "error", "waiting"}
              /\ status[runner[r]] # "active" => next = status[runner[r]]
<1> DEFINE d == runner[r]
           next == IF status[d] = "active" THEN FinishedStatus(result) ELSE status[d]
<1>1. d \in Download /\ ctx[d] = r /\ status[d] \in Status
  BY DEF Inv, TypeOK, RunIsCurrent, FinishDownload, Running, Live
<1>2. /\ UNCHANGED downloads /\ active' = active \ {GidOf[d]}
      /\ ctx' = [ctx EXCEPT ![d] = NoRun]
      /\ status' = [status EXCEPT ![d] = next]
  BY <1>1 DEF FinishDownload
<1>3. ASSUME status[d] = "active"
      PROVE  FinishedStatus(result) \in {"complete", "error", "waiting"}
  <2>1. r \notin canceled
    BY <1>1, <1>3 DEF Inv, ActiveCanBeCanceled
  <2>2. result \in {"ok", "failed"} \/ (result = "canceled" /\ shutdown)
    BY <2>1 DEF RunResult
  <2> QED BY <2>2 DEF FinishedStatus
<1>4. /\ next \in Status
      /\ status[d] = "active" => next \in {"complete", "error", "waiting"}
      /\ status[d] # "active" => next = status[d]
  BY <1>1, <1>3 DEF Status, Terminal, Unfinished
<1> HIDE DEF next
<1> QED BY <1>1, <1>2, <1>4

\* finishDownload is an End.  If a request intervened, the download that the gid
\* names now is not active: were it, its run would be a second run of the gid.
LEMMA FinishRefines ==
  ASSUME ~HandlerCancels, Inv,
         NEW r \in Run, NEW result \in RunResult(r), FinishDownload(r, result)
  PROVE  Lifecycle!End(GidOf[runner[r]]) /\ GidOf[runner[r]] \in Gid
<1> DEFINE d == runner[r]
           g == GidOf[d]
<1>1. /\ d \in Download /\ ctx[d] = r /\ downloads' = downloads
      /\ active' = active \ {g}
  BY FinishEffect
<1>2. PICK next \in Status :
        /\ status' = [status EXCEPT ![d] = next]
        /\ status[d] = "active" => next \in {"complete", "error", "waiting"}
        /\ status[d] # "active" => next = status[d]
  BY FinishEffect
<1>3. Live(r) /\ g \in Gid /\ g \in active
  BY <1>1, GidAssumption DEF FinishDownload, Running, Inv, ActiveIsRunning
<1>4. CASE status[d] = "active"
  <2>1. downloads[g] = d /\ Known(g)
    BY <1>1, <1>4, NilAssumption, SMTT(30) DEF Inv, Linked, Unfinished, Known
  <2>2. Phase[g] = "active" /\ Phase' = [Phase EXCEPT ![g] = next]
    BY <1>1, <1>2, <1>3, <1>4, <2>1, PhaseOfOne
  <2> QED BY <1>1, <1>2, <1>3, <1>4, <2>2, ZenonT(30) DEF Lifecycle!End, Lifecycle!Become
<1>5. CASE status[d] # "active"
  <2>1. status' = status
    BY <1>1, <1>2, <1>5, SMTT(30) DEF Inv, TypeOK
  <2>2. Phase' = Phase
    BY <1>1, <2>1 DEF Phase, Known
  <2>3. Phase[g] # "active"
    <3>1. SUFFICES ASSUME Known(g), status[downloads[g]] = "active" PROVE FALSE
      BY <1>3 DEF Phase
    <3> DEFINE x == downloads[g]
    <3>2. x \in Download /\ GidOf[x] = g
      BY <1>3, <3>1, SMTT(30) DEF Inv, TypeOK, Linked, Known
    <3>3. ctx[x] \in Run /\ runner[ctx[x]] = x
      BY <3>1, <3>2, SMTT(30) DEF Inv, TypeOK, Linked, ActiveCanBeCanceled
    <3>4. ctx[x] = r
      BY <1>3, <3>2, <3>3, NilAssumption DEF Inv, OneRunPerGid, Live
    <3> QED BY <1>5, <3>1, <3>3, <3>4
  <2> QED BY <1>1, <1>3, <2>2, <2>3 DEF Lifecycle!End
<1> QED BY <1>3, <1>4, <1>5

\* A loaded session holds waiting and paused downloads only.
LEMMA InitRefines ==
  ASSUME Init PROVE Lifecycle!Init
<1>1. \A g \in Gid : Known(g) => /\ downloads[g] \in Download
                                 /\ GidOf[downloads[g]] = g
  BY DEF Init, Known
<1>2. \A g \in Gid : Phase[g] \in {"absent", "waiting", "paused"}
  BY <1>1 DEF Init, Phase
<1>3. Phase \in [Gid -> {"absent", "waiting", "paused"}]
  BY <1>2 DEF Phase
<1> QED BY <1>3 DEF Lifecycle!Init, Init

\* Every client call is a step of the life cycle or changes nothing in it.
LEMMA APIRefines ==
  ASSUME Inv, API PROVE [Lifecycle!Next]_Lifecycle!lvars
<1>1. ASSUME NEW g \in Gid, NEW d \in Download, NEW paused \in BOOLEAN,
             NEW pos \in Positions, AddURI(g, d, paused, pos)
      PROVE  Lifecycle!Next
  BY <1>1, AddURIRefines DEF Lifecycle!Next
<1>2. ASSUME NEW g \in Gid, ForceRemove(g) PROVE [Lifecycle!Next]_Lifecycle!lvars
  <2>1. CASE status[downloads[g]] \in Terminal
    <3>1. UNCHANGED <<downloads, status, active>>
      BY <1>2, <2>1 DEF ForceRemove
    <3> QED BY <3>1, Stutter
  <2>2. CASE status[downloads[g]] \notin Terminal
    <3>1. /\ Known(g) /\ status' = [status EXCEPT ![downloads[g]] = "removed"]
          /\ UNCHANGED <<downloads, active>>
      BY <1>2, <2>2 DEF ForceRemove
    <3>2. Lifecycle!Request(g)
      BY <2>2, <3>1, NotFinal, RequestRefines
    <3> QED BY <3>2 DEF Lifecycle!Next
  <2> QED BY <2>1, <2>2
<1>3. ASSUME NEW g \in Gid, Pause(g) PROVE Lifecycle!Next
  <2>1. /\ Known(g) /\ status' = [status EXCEPT ![downloads[g]] = "paused"]
        /\ status[downloads[g]] \notin Terminal /\ UNCHANGED <<downloads, active>>
    BY <1>3 DEF Pause
  <2>2. Lifecycle!Request(g)
    BY <2>1, NotFinal, RequestRefines
  <2> QED BY <2>2 DEF Lifecycle!Next
<1>4. ASSUME NEW g \in Gid, Unpause(g) \/ ChangeURI(g) \/ ChangeOption(g)
      PROVE  Lifecycle!Next
  <2>1. /\ Known(g) /\ status' = [status EXCEPT ![downloads[g]] = "waiting"]
        /\ status[downloads[g]] \in Unfinished /\ UNCHANGED <<downloads, active>>
    BY <1>4 DEF Unpause, ChangeURI, ChangeOption, RestartActive, Unfinished
  <2>2. Lifecycle!Request(g)
    BY <2>1, RequestRefines
  <2> QED BY <2>2, SMTT(30) DEF Lifecycle!Next
<1>5. ASSUME \/ Close
             \/ \E g \in Gid, pos \in Positions, how \in {"POS_SET", "POS_CUR", "POS_END"} :
                  ChangePosition(g, pos, how)
             \/ \E ma \in MaxActiveVals, mr \in MaxResultVals, keep \in KeepVals :
                  ChangeGlobalOption(ma, mr, keep)
      PROVE  UNCHANGED Lifecycle!lvars
  <2>1. UNCHANGED <<downloads, status, active>>
    BY <1>5 DEF Close, ChangePosition, ChangeGlobalOption, items
  <2> QED BY <2>1, Stutter
<1>6. ASSUME PurgeDownloadResult PROVE Lifecycle!Next
  <2>1. /\ \A g \in Gid : downloads'[g] =
             IF g \in Range(stopped) THEN NoDownload ELSE downloads[g]
        /\ UNCHANGED <<status, active>>
    BY <1>6 DEF PurgeDownloadResult
  <2> QED BY <2>1, ForgetRefines DEF Lifecycle!Next
<1>7. ASSUME NEW g \in Gid, RemoveDownloadResult(g) PROVE Lifecycle!Next
  <2>1. /\ \A h \in Gid : downloads'[h] = IF h \in {g} THEN NoDownload ELSE downloads[h]
        /\ UNCHANGED <<status, active>>
    BY <1>7 DEF RemoveDownloadResult, Inv, TypeOK
  <2>2. {g} \in SUBSET Range(stopped)
    BY <1>7 DEF RemoveDownloadResult, Inv, StoppedExact
  <2> QED BY <2>1, <2>2, ForgetRefines DEF Lifecycle!Next
<1> QED BY <1>1, <1>2, <1>3, <1>4, <1>5, <1>6, <1>7 DEF API

\* So is every step of the engine's goroutines.
LEMMA EngineRefines ==
  ASSUME ~HandlerCancels, Inv, Engine PROVE [Lifecycle!Next]_Lifecycle!lvars
<1>1. ASSUME PruneResult PROVE Lifecycle!Next
  <2>1. PICK i \in Prunable : downloads' = [downloads EXCEPT ![stopped[i]] = NoDownload]
    BY <1>1 DEF PruneResult
  <2>2. stopped[i] \in Range(stopped)
    BY DEF Prunable, Range
  <2>3. /\ \A g \in Gid : downloads'[g] =
             IF g \in {stopped[i]} THEN NoDownload ELSE downloads[g]
        /\ UNCHANGED <<status, active>>
    BY <1>1, <2>1 DEF PruneResult, Inv, TypeOK
  <2>4. {stopped[i]} \in SUBSET Range(stopped)
    BY <2>2
  <2> QED BY <2>3, <2>4, ForgetRefines DEF Lifecycle!Next
<1>2. ASSUME \/ UnlockAfterPrune \/ Signal \/ RunExit \/ CloseDone
             \/ Wake \/ SchedulerExit \/ ScheduleLock \/ DeferCandidate
             \/ ScheduleUnlock \/ LaunchRun
      PROVE  UNCHANGED Lifecycle!lvars
  <2>1. UNCHANGED <<downloads, status, active>>
    BY <1>2 DEF UnlockAfterPrune, Signal, RunExit, CloseDone, Wake, SchedulerExit,
      ScheduleLock, DeferCandidate, ScheduleUnlock, LaunchRun, items
  <2> QED BY <2>1, Stutter
<1>3. ASSUME NEW r \in Run, StartCandidate(r) PROVE Lifecycle!Next
  BY <1>3, StartRefines DEF Lifecycle!Next
<1>4. ASSUME NEW r \in Run, Finish(r) PROVE Lifecycle!Next
  BY <1>4, FinishRefines DEF Finish, Lifecycle!Next
<1> QED BY <1>1, <1>2, <1>3, <1>4 DEF Engine, Schedule

\* Every behaviour of the engine is a behaviour of the life cycle, as long as
\* no file handler fails with a context.Canceled of its own.
THEOREM Refinement ==
  ASSUME ~HandlerCancels PROVE Spec => LifecycleSpec
<1>1. Inv /\ [Next]_vars => [Lifecycle!Next]_Lifecycle!lvars
  <2>1. ASSUME UNCHANGED vars PROVE UNCHANGED Lifecycle!lvars
    <3>1. UNCHANGED <<downloads, status, active>>
      BY <2>1 DEF vars, items
    <3> QED BY <3>1, Stutter
  <2> QED BY <2>1, APIRefines, EngineRefines DEF Next
<1> QED BY <1>1, InitRefines, Invariance, PTL DEF Spec, LifecycleSpec, Lifecycle!Spec

\* A run that ends never pauses a download, under the same condition.
THEOREM RunsNeverPause ==
  ASSUME ~HandlerCancels PROVE Spec => RunNeverPauses
<1> DEFINE Ends == \A d \in Download :
             ctx[d] # NoRun /\ ctx'[d] = NoRun /\ status[d] # "paused"
             => status'[d] # "paused"
<1>1. ASSUME Inv, NEW r \in Run, Finish(r) PROVE Ends
  <2>1. PICK result \in RunResult(r) : FinishDownload(r, result)
    BY <1>1 DEF Finish
  <2>2. /\ runner[r] \in Download
        /\ ctx' = [ctx EXCEPT ![runner[r]] = NoRun]
    BY <1>1, <2>1, FinishEffect
  <2>3. PICK next \in Status :
          /\ status' = [status EXCEPT ![runner[r]] = next]
          /\ status[runner[r]] = "active" => next \in {"complete", "error", "waiting"}
          /\ status[runner[r]] # "active" => next = status[runner[r]]
    BY <1>1, <2>1, FinishEffect
  <2> QED BY <1>1, <2>2, <2>3, SMTT(30) DEF Inv, TypeOK
<1>2. ASSUME Inv, NEW r \in Run, StartCandidate(r) PROVE Ends
  <2>1. \A d \in Download : ctx[d] # NoRun => ctx'[d] # NoRun
    BY <1>2, NilAssumption, SMTT(30) DEF StartCandidate, Inv, TypeOK
  <2> QED BY <2>1
<1>3. ASSUME ctx' = ctx PROVE Ends
  BY <1>3
<1>4. ASSUME API \/ UNCHANGED vars PROVE ctx' = ctx
  BY <1>4 DEF API, AddURI, ForceRemove, Pause, Unpause, ChangePosition, ChangeURI,
    ChangeOption, RestartActive, CancelRun, ChangeGlobalOption, PurgeDownloadResult,
    RemoveDownloadResult, Close, links, vars
<1>5. ASSUME \/ PruneResult \/ UnlockAfterPrune \/ Signal \/ RunExit \/ CloseDone
             \/ Wake \/ SchedulerExit \/ ScheduleLock \/ DeferCandidate
             \/ ScheduleUnlock \/ LaunchRun
      PROVE  ctx' = ctx
  BY <1>5 DEF PruneResult, UnlockAfterPrune, Signal, RunExit, CloseDone, Wake,
    SchedulerExit, ScheduleLock, DeferCandidate, ScheduleUnlock, LaunchRun, links
<1>6. Inv /\ [Next]_vars => Ends
  BY <1>1, <1>2, <1>3, <1>4, <1>5 DEF Next, Engine, Schedule
<1> QED BY <1>6, Invariance, PTL DEF Spec, RunNeverPauses

=============================================================================
