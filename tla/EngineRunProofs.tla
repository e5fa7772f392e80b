-------------------------- MODULE EngineRunProofs ---------------------------
(***************************************************************************)
(* Inv holds initially, and is preserved when objects and runs come and    *)
(* go: a download is added, schedule() starts a run, finishDownload ends   *)
(* one.                                                                    *)
(***************************************************************************)
EXTENDS EngineRequestProofs

\* Most leaves are first-order: Zenon proves them.  The others name SMT.
USE Zenon

\* A new download is an object without a run, under a gid nobody uses.  A run
\* of an earlier download of the gid may still be active.
LEMMA AddURIStep ==
  ASSUME Inv, NEW g \in Gid, NEW d \in Download, NEW paused \in BOOLEAN,
         NEW pos \in Positions, AddURI(g, d, paused, pos)
  PROVE  Inv'
<1> DEFINE s == IF paused THEN "paused" ELSE "waiting"
<1>1. /\ ~shutdown /\ shutdown' = shutdown /\ ~Known(g) /\ GidOf[d] = g
      /\ \A h \in Gid : downloads[h] # d
      /\ \A r \in Run : runner[r] # d
      /\ downloads' = [downloads EXCEPT ![g] = d]
      /\ status' = [status EXCEPT ![d] = s]
      /\ waiting' = IF paused THEN waiting ELSE InsertWaiting(waiting, g, pos)
      /\ UNCHANGED <<links, active, results, options, life, wake, loop, runs, mu, exiting>>
      /\ callers' = callers + 1
  BY DEF AddURI, Fresh, Return, life
<1>2. g \notin Range(waiting) /\ pos \in Int
  BY <1>1, OptionAssumption DEF Inv, QueueConsistent
<1>3. /\ waiting' \in Seq(Gid) /\ IsInjective(waiting')
      /\ Range(waiting') = IF paused THEN Range(waiting) ELSE Range(waiting) \cup {g}
  <2>1. waiting \in Seq(Gid) /\ IsInjective(waiting)
    BY DEF Inv, TypeOK, QueueConsistent
  <2>2. CASE paused
    <3>1. waiting' = waiting
      BY <1>1, <2>2
    <3> QED BY <2>1, <2>2, <3>1
  <2>3. CASE ~paused
    <3>1. waiting' = InsertWaiting(waiting, g, pos)
      BY <1>1, <2>3
    <3>2. /\ InsertWaiting(waiting, g, pos) \in Seq(Gid)
          /\ IsInjective(InsertWaiting(waiting, g, pos))
          /\ Range(InsertWaiting(waiting, g, pos)) = Range(waiting) \cup {g}
      BY <1>2, <2>1, InsertWaitingQueue, SMTT(30)
    <3> QED BY <2>3, <3>1, <3>2
  <2> QED BY <2>2, <2>3
<1>4. s \in {"paused", "waiting"}
  OBVIOUS
<1> HIDE DEF s
<1>5. TypeOK'
  BY <1>1, <1>3, <1>4, SMTT(30) DEF Inv, TypeOK, Status, Unfinished, links, results, options,
    life, loop, runs
<1>6. /\ downloads'[g] = d /\ status'[d] = s
      /\ \A h \in Gid \ {g} : downloads'[h] = downloads[h]
      /\ \A x \in Download \ {d} : status'[x] = status[x]
  BY <1>1 DEF Inv, TypeOK
<1>7. ctx[d] = NoRun /\ status[d] # "active"
  <2>1. ctx[d] = NoRun
    BY <1>1, SMTT(30) DEF Inv, TypeOK, Linked
  <2> QED BY <2>1 DEF Inv, ActiveCanBeCanceled
<1>8. d # NoDownload /\ \A h \in Gid \ {g} : Known(h) => downloads[h] \in Download \ {d}
  BY <1>1, NilAssumption DEF Inv, TypeOK, Known
<1>9. ctx' = ctx /\ cancel' = cancel /\ runner' = runner /\ canceled' = canceled
      /\ stopped' = stopped /\ stoppedSet' = stoppedSet /\ active' = active
      /\ closed' = closed /\ sched' = sched /\ starts' = starts
  BY <1>1 DEF links, runs, results, life, loop
<1> USE DEF Known, Live
<1>10. Linked'
  <2>1. \A h \in Gid : Known(h)' => /\ GidOf[downloads'[h]] = h
                                    /\ status'[downloads'[h]] # "new"
    BY <1>1, <1>4, <1>6, <1>8, SMTT(30) DEF Inv, Linked
  <2>2. \A x \in Download : cancel[x] # NoRun => status'[x] = "active"
    BY <1>6, <1>7 DEF Inv, Linked
  <2>3. ASSUME NEW x \in Download, status'[x] \in Unfinished
        PROVE  downloads'[GidOf[x]] = x
    <3>1. CASE x = d
      BY <1>1, <1>6, <3>1
    <3>2. CASE x # d
      <4>1. GidOf[x] \in Gid /\ downloads[GidOf[x]] = x
        BY <1>6, <2>3, <3>2, GidAssumption DEF Inv, Linked
      <4>2. GidOf[x] # g
        BY <1>1, <4>1, NilAssumption
      <4> QED BY <1>6, <4>1, <4>2
    <3> QED BY <3>1, <3>2
  <2> QED BY <1>9, <2>1, <2>2, <2>3 DEF Inv, Linked
<1>11. QueueConsistent'
  <2>1. ASSUME NEW h \in Range(waiting')
        PROVE  Known(h)' /\ status'[downloads'[h]] = "waiting"
    <3>1. CASE h = g
      BY <1>2, <1>3, <1>6, <1>8, <2>1, <3>1 DEF s
    <3>2. CASE h # g
      <4>1. h \in Range(waiting) /\ h \in Gid
        BY <1>3, <2>1, <3>2, QueueRange DEF Inv, TypeOK
      <4> QED BY <1>6, <1>8, <3>2, <4>1 DEF Inv, QueueConsistent
    <3> QED BY <3>1, <3>2
  <2> QED BY <1>3, <2>1 DEF QueueConsistent
<1>12. NoLostDownload'
  <2>1. SUFFICES ASSUME NEW h \in Gid, Known(h)', status'[downloads'[h]] = "waiting"
                 PROVE  h \in Range(waiting')
    BY DEF NoLostDownload
  <2>2. CASE h = g
    BY <1>3, <1>6, <2>1, <2>2 DEF s
  <2>3. CASE h # g
    BY <1>1, <1>3, <1>6, <1>8, <2>1, <2>3, SMTT(30) DEF Inv, NoLostDownload
  <2> QED BY <2>2, <2>3
<1>13. StoppedExact'
  <2>1. ASSUME NEW h \in Gid
        PROVE  (Known(h) /\ status[downloads[h]] \in Terminal)'
                 <=> Known(h) /\ status[downloads[h]] \in Terminal
    <3>1. CASE h = g
      BY <1>1, <1>4, <1>6, <3>1 DEF Terminal
    <3>2. CASE h # g
      BY <1>6, <1>8, <3>2
    <3> QED BY <3>1, <3>2
  <2> QED BY <1>9, <2>1 DEF Inv, StoppedExact
<1>14. OneRunPerGid' /\ RunIsCurrent'
  BY <1>9 DEF Inv, OneRunPerGid, RunIsCurrent
<1>15. ActiveIsRunning'
  BY <1>9 DEF Inv, ActiveIsRunning
<1>16. ActiveCanBeCanceled'
  BY <1>4, <1>6, <1>9 DEF Inv, ActiveCanBeCanceled
<1>17. NoRunawayRun'
  BY <1>1, <1>6, <1>9, SMTT(30) DEF Inv, TypeOK, NoRunawayRun
<1>18. ClosedIsQuiet'
  <2>1. status'[downloads'[g]] # "active"
    BY <1>4, <1>6
  <2> QED BY <1>6, <1>8, <1>9, <2>1 DEF Inv, ClosedIsQuiet
<1> QED BY <1>5, <1>10, <1>11, <1>12, <1>13, <1>14, <1>15, <1>16, <1>17, <1>18 DEF Inv

\* schedule() starts a run: no run of the gid is left, whatever object it was
\* created for.
LEMMA StartCandidateStep ==
  ASSUME Inv, NEW r \in Run, StartCandidate(r) PROVE Inv'
<1> DEFINE g == Head(waiting)
           d == downloads[g]
<1>1. /\ waiting' = Tail(waiting) /\ Tail(waiting) \in Seq(Gid)
      /\ g \in Range(waiting) /\ g \in Gid
      /\ Range(waiting) = Range(waiting') \cup {g}
      /\ IsInjective(waiting') /\ g \notin Range(waiting')
  BY TailOfQueue DEF Inv, TypeOK, QueueConsistent, StartCandidate, MoreCandidates
<1>2. Known(g) /\ d \in Download /\ GidOf[d] = g /\ status[d] = "waiting"
  BY <1>1, SMTT(30) DEF Inv, TypeOK, QueueConsistent, Linked, Known
<1>3. /\ ctx' = [ctx EXCEPT ![d] = r] /\ cancel' = [cancel EXCEPT ![d] = r]
      /\ status' = [status EXCEPT ![d] = "active"]
      /\ active' = active \cup {g}
      /\ runner' = [runner EXCEPT ![r] = d]
      /\ starts' = Append(starts, r)
      /\ g \notin active /\ ~Live(r) /\ ~shutdown /\ sched = "looping"
      /\ candidates > 0 /\ candidates' = candidates - 1
      /\ UNCHANGED <<downloads, results, options, life, wake, mu, sched, canceled, tails>>
  BY <1>2 DEF StartCandidate, MoreCandidates
<1> HIDE DEF g, d
<1>4. starts' \in Seq(Run)
  BY <1>3, SMTT(30) DEF Inv, TypeOK
<1>5. TypeOK'
  BY <1>1, <1>2, <1>3, <1>4, SMTT(30) DEF Inv, TypeOK, Status, Unfinished, results, options,
    life, tails
<1>6. /\ ctx'[d] = r /\ cancel'[d] = r /\ status'[d] = "active" /\ runner'[r] = d
      /\ \A x \in Download \ {d} : /\ ctx'[x] = ctx[x] /\ cancel'[x] = cancel[x]
                                   /\ status'[x] = status[x]
      /\ \A q \in Run \ {r} : runner'[q] = runner[q]
  BY <1>2, <1>3 DEF Inv, TypeOK
<1>7. /\ downloads' = downloads /\ stopped' = stopped /\ stoppedSet' = stoppedSet
      /\ shutdown' = shutdown /\ closed' = closed /\ sched' = sched
      /\ canceled' = canceled
  BY <1>3 DEF results, life
<1>8. /\ d # NoDownload /\ r # NoRun /\ d = downloads[g]
      /\ runner[r] = NoDownload /\ r \notin canceled /\ ~closed
      /\ \A h \in Gid \ {g} : Known(h) => downloads[h] \in Download \ {d}
  BY <1>2, <1>3, NilAssumption, SMTT(30) DEF Inv, TypeOK, Linked, Known, Live, d
<1>9. \A q \in Run : Live(q) => GidOf[runner[q]] # g /\ runner[q] # d
  BY <1>2, <1>3 DEF Inv, ActiveIsRunning
<1>10. \A x \in Download \ {d} : ctx[x] # r /\ cancel[x] # r
  <2>1. ASSUME NEW x \in Download PROVE ctx[x] # r
    BY <1>8, NilAssumption, SMTT(30) DEF Inv, Linked
  <2>2. ASSUME NEW x \in Download, cancel[x] # NoRun PROVE cancel[x] = ctx[x]
    BY <2>2 DEF Inv, Linked, ActiveCanBeCanceled
  <2> QED BY <1>8, <2>1, <2>2
<1> USE DEF Known, Live
<1>11. Linked'
  <2>1. \A h \in Gid : Known(h) => GidOf[downloads[h]] = h /\ status'[downloads[h]] # "new"
    BY <1>1, <1>2, <1>6, <1>8, SMTT(30) DEF Inv, Linked
  <2>2. \A x \in Download : status'[x] \in Unfinished => downloads[GidOf[x]] = x
    BY <1>2, <1>6, <1>8, SMTT(30) DEF Inv, Linked
  <2>3. \A x \in Download : ctx'[x] # NoRun => runner'[ctx'[x]] = x
    BY <1>6, <1>10, SMTT(30) DEF Inv, TypeOK, Linked
  <2>4. \A x \in Download : cancel'[x] # NoRun => status'[x] = "active"
    BY <1>6 DEF Inv, Linked
  <2>5. \A q \in canceled : runner'[q] # NoDownload
    BY <1>6, <1>8, SMTT(30) DEF Inv, TypeOK, Linked
  <2> QED BY <1>3, <1>7, <1>8, <2>1, <2>2, <2>3, <2>4, <2>5 DEF Linked
<1>12. QueueConsistent'
  <2>1. ASSUME NEW h \in Range(waiting')
        PROVE  Known(h) /\ status'[downloads[h]] = "waiting"
    <3>1. h \in Range(waiting) /\ h # g /\ h \in Gid
      BY <1>1, <2>1, QueueRange DEF Inv, TypeOK
    <3> QED BY <1>6, <1>8, <3>1 DEF Inv, QueueConsistent
  <2> QED BY <1>1, <1>7, <2>1 DEF QueueConsistent
<1>13. NoLostDownload'
  <2>1. SUFFICES ASSUME NEW h \in Gid, Known(h), status'[downloads[h]] = "waiting"
                 PROVE  h \in Range(waiting')
    BY <1>7 DEF NoLostDownload
  <2>2. h # g
    BY <1>6, <1>8, <2>1
  <2>3. h \in Range(waiting)
    BY <1>3, <1>6, <1>8, <2>1, <2>2 DEF Inv, NoLostDownload
  <2> QED BY <1>1, <2>2, <2>3
<1>14. StoppedExact'
  <2>1. ASSUME NEW h \in Gid, Known(h)
        PROVE  status'[downloads[h]] \in Terminal <=> status[downloads[h]] \in Terminal
    BY <1>2, <1>6, <1>8, <2>1 DEF Terminal
  <2> QED BY <1>7, <2>1 DEF Inv, StoppedExact
<1>15. OneRunPerGid'
  BY <1>2, <1>6, <1>9, SMTT(30) DEF Inv, OneRunPerGid
<1>16. RunIsCurrent'
  <2>1. ASSUME NEW q \in Run, runner'[q] # NoDownload PROVE ctx'[runner'[q]] = q
    <3>1. CASE q = r
      BY <1>6, <3>1
    <3>2. CASE q # r
      <4>1. runner'[q] = runner[q] /\ runner[q] \in Download \ {d}
        BY <1>6, <1>9, <2>1, <3>2, SMTT(30) DEF Inv, TypeOK
      <4> QED BY <1>6, <2>1, <4>1, SMTT(30) DEF Inv, RunIsCurrent
    <3> QED BY <3>1, <3>2
  <2> QED BY <2>1 DEF RunIsCurrent
<1>17. ActiveIsRunning'
  <2>1. active = {GidOf[runner[q]] : q \in {p \in Run : Live(p)}}
    BY DEF Inv, ActiveIsRunning
  <2>2. ASSUME NEW h \in active' PROVE \E q \in Run : runner'[q] # NoDownload /\ GidOf[runner'[q]] = h
    <3>1. CASE h = g
      BY <1>2, <1>6, <1>8, <3>1
    <3>2. CASE h # g
      <4>1. PICK q \in Run : Live(q) /\ GidOf[runner[q]] = h
        BY <1>3, <2>1, <2>2, <3>2
      <4> QED BY <1>6, <1>8, <4>1
    <3> QED BY <3>1, <3>2
  <2>3. ASSUME NEW q \in Run, runner'[q] # NoDownload PROVE GidOf[runner'[q]] \in active'
    BY <1>2, <1>3, <1>6, <2>1, <2>3, SMTT(30)
  <2> QED BY <2>2, <2>3, SMTT(30) DEF ActiveIsRunning
<1>18. ActiveCanBeCanceled'
  BY <1>6, <1>7, <1>8, SMTT(30) DEF Inv, ActiveCanBeCanceled
<1>19. NoRunawayRun'
  <2>1. SUFFICES ASSUME NEW q \in Run, runner'[q] # NoDownload,
                        status'[runner'[q]] # "active"
                 PROVE  q \in canceled
    BY <1>7 DEF NoRunawayRun
  <2>2. q # r /\ runner'[q] = runner[q]
    BY <1>6, <2>1
  <2>3. runner[q] \in Download \ {d}
    BY <1>9, <2>1, <2>2 DEF Inv, TypeOK
  <2> QED BY <1>6, <2>1, <2>2, <2>3, SMTT(30) DEF Inv, NoRunawayRun
<1>20. ClosedIsQuiet'
  BY <1>7, <1>8 DEF ClosedIsQuiet
<1> QED BY <1>5, <1>11, <1>12, <1>13, <1>14, <1>15, <1>16, <1>17, <1>18, <1>19,
           <1>20 DEF Inv

\* finishDownload: the run is its download's current run, so it takes the gid
\* out of e.active and settles the status of a download that is still active.
LEMMA FinishDownloadStep ==
  ASSUME Inv, NEW r \in Run, NEW result, FinishDownload(r, result) PROVE Inv'
<1> DEFINE d == runner[r]
           g == GidOf[d]
           next == IF status[d] = "active" THEN FinishedStatus(result) ELSE status[d]
           ends == status[d] = "active" /\ next \in Terminal
<1>1. /\ d \in Download /\ d # NoDownload /\ g \in Gid /\ ctx[d] = r /\ r # NoRun
  BY NilAssumption, GidAssumption
  DEF Inv, TypeOK, RunIsCurrent, FinishDownload, Running, Live
<1>2. /\ runner' = [runner EXCEPT ![r] = NoDownload] /\ canceled' = canceled \ {r}
      /\ active' = active \ {g}
      /\ ctx' = [ctx EXCEPT ![d] = NoRun]
      /\ cancel' = IF status[d] = "active" THEN [cancel EXCEPT ![d] = NoRun] ELSE cancel
      /\ status' = [status EXCEPT ![d] = next]
      /\ IF ends THEN AppendStopped(g) /\ mu' = "finisher" /\ UNCHANGED exiting
         ELSE UNCHANGED <<results, mu>> /\ exiting' = exiting + 1
      /\ UNCHANGED <<downloads, waiting, options, life, wake, loop, callers>>
  BY <1>1 DEF FinishDownload, Retire
<1>3. /\ next \in Status
      /\ status[d] = "active" => /\ next \in {"complete", "error", "waiting", "paused"}
                                 /\ next = "waiting" => shutdown
  <2>1. status[d] \in Status
    BY <1>1 DEF Inv, TypeOK
  <2> QED BY <2>1 DEF FinishedStatus, Status, Terminal, Unfinished
<1>4. status[d] # "active" => next = status[d]
  OBVIOUS
<1>5. ends <=> status[d] = "active" /\ next \in Terminal
  OBVIOUS
<1> HIDE DEF d, g, next, ends
<1>6. /\ runner'[r] = NoDownload /\ \A q \in Run \ {r} : runner'[q] = runner[q]
      /\ ctx'[d] = NoRun /\ cancel'[d] = NoRun /\ status'[d] = next
      /\ \A x \in Download \ {d} : /\ ctx'[x] = ctx[x] /\ cancel'[x] = cancel[x]
                                   /\ status'[x] = status[x]
  <2>1. status[d] # "active" => cancel[d] = NoRun
    BY <1>1 DEF Inv, Linked
  <2> QED BY <1>1, <1>2, <2>1 DEF Inv, TypeOK
<1>7. /\ downloads' = downloads /\ waiting' = waiting /\ shutdown' = shutdown
      /\ closed' = closed /\ sched' = sched /\ starts' = starts
      /\ candidates' = candidates
  BY <1>2 DEF life, loop
<1>8. status[d] \in Unfinished => downloads[g] = d
  BY <1>1 DEF Inv, Linked, g
<1>9. \A q \in Run \ {r} : Live(q) => runner[q] \in Download \ {d} /\ GidOf[runner[q]] # g
  BY <1>1 DEF Inv, TypeOK, OneRunPerGid, Live, d, g
<1>10. ends => g \notin stoppedSet /\ g \notin Range(stopped)
  BY <1>5, <1>8 DEF Inv, StoppedExact, Unfinished, Terminal
<1>11. /\ ends => /\ stopped' = Append(stopped, g) /\ stoppedSet' = stoppedSet \cup {g}
       /\ ~ends => stopped' = stopped /\ stoppedSet' = stoppedSet
  BY <1>2, <1>10 DEF AppendStopped, results
<1>12. /\ stopped' \in Seq(Gid) /\ IsInjective(stopped')
       /\ Range(stopped') = IF ends THEN Range(stopped) \cup {g} ELSE Range(stopped)
  <2>1. stopped \in Seq(Gid) /\ IsInjective(stopped)
    BY DEF Inv, TypeOK, StoppedExact
  <2>2. CASE ends
    <3>1. /\ Append(stopped, g) \in Seq(Gid) /\ IsInjective(Append(stopped, g))
          /\ Range(Append(stopped, g)) = Range(stopped) \cup {g}
      BY <1>1, <1>10, <2>1, <2>2, AppendNew, SMTT(30)
    <3> QED BY <1>11, <2>2, <3>1
  <2>3. CASE ~ends
    BY <1>11, <2>1, <2>3
  <2> QED BY <2>2, <2>3
<1>13. TypeOK'
  <2>1. /\ cancel' \in [Download -> Run \cup {NoRun}]
        /\ stoppedSet' \in SUBSET Gid
        /\ mu' \in {"free", "scheduler", "caller", "finisher"} /\ exiting' \in Nat
    BY <1>1, <1>2, <1>11, SMTT(30) DEF Inv, TypeOK, results
  <2> QED BY <1>1, <1>2, <1>3, <1>12, <2>1 DEF Inv, TypeOK, options, life, loop
<1> USE DEF Known, Live
<1>14. \A h \in Gid : Known(h) =>
         downloads[h] \in Download /\ (downloads[h] = d => h = g)
  BY SMTT(30) DEF Inv, TypeOK, Linked, g
<1>15. Linked'
  <2>1. \A h \in Gid : Known(h) => GidOf[downloads[h]] = h /\ status'[downloads[h]] # "new"
    BY <1>1, <1>3, <1>4, <1>6, <1>14, SMTT(30) DEF Inv, Linked
  <2>2. \A x \in Download : status'[x] \in Unfinished => downloads[GidOf[x]] = x
    BY <1>1, <1>4, <1>6, <1>8 DEF Inv, Linked, g, Unfinished
  <2>3. \A x \in Download : ctx'[x] # NoRun => runner'[ctx'[x]] = x
    BY <1>1, <1>6, SMTT(30) DEF Inv, TypeOK, Linked, d
  <2>4. \A x \in Download : cancel'[x] # NoRun => status'[x] = "active"
    BY <1>6 DEF Inv, Linked
  <2>5. \A q \in canceled' : runner'[q] # NoDownload
    BY <1>2, <1>6 DEF Inv, TypeOK, Linked
  <2>6. (sched = "starting" => starts # <<>>) /\ (closed => sched = "exited")
    BY DEF Inv, Linked
  <2> QED BY <1>7, <2>1, <2>2, <2>3, <2>4, <2>5, <2>6 DEF Linked
<1>16. QueueConsistent'
  <2>1. ASSUME NEW h \in Range(waiting)
        PROVE  Known(h) /\ status'[downloads[h]] = "waiting"
    <3>1. Known(h) /\ status[downloads[h]] = "waiting" /\ h \in Gid
      BY <2>1, QueueRange DEF Inv, TypeOK, QueueConsistent
    <3> QED BY <1>4, <1>6, <1>14, <3>1
  <2> QED BY <1>7, <2>1 DEF Inv, QueueConsistent
<1>17. NoLostDownload'
  <2>1. SUFFICES ASSUME ~shutdown, NEW h \in Gid, Known(h), status'[downloads[h]] = "waiting"
                 PROVE  status[downloads[h]] = "waiting"
    BY <1>7 DEF Inv, NoLostDownload
  <2> QED BY <1>3, <1>4, <1>6, <1>14, <2>1
<1>18. StoppedExact'
  <2> DEFINE final == {h \in Gid : Known(h) /\ status[downloads[h]] \in Terminal}
  <2>1. stoppedSet = Range(stopped) /\ Range(stopped) = final
    BY DEF Inv, StoppedExact
  <2>2. \A h \in Gid : h # g => (h \in final' <=> h \in final)
    BY <1>6, <1>7, <1>14
  <2>3. g \in final' <=> ends \/ g \in final
    <3>1. CASE status[d] = "active"
      <4>1. downloads[g] = d
        BY <1>8, <3>1 DEF Unfinished
      <4> QED BY <1>1, <1>5, <1>6, <1>7, <3>1, <4>1 DEF Terminal
    <3>2. CASE status[d] # "active"
      BY <1>1, <1>4, <1>5, <1>6, <1>7, <1>14, <3>2
    <3> QED BY <3>1, <3>2
  <2>4. final' \subseteq Gid /\ final \subseteq Gid
    OBVIOUS
  <2> HIDE DEF final
  <2>5. stoppedSet' = Range(stopped') /\ Range(stopped') = final'
    BY <1>1, <1>11, <1>12, <2>1, <2>2, <2>3, <2>4, SMTT(30)
  <2> QED BY <1>12, <2>5 DEF StoppedExact, final
<1>19. OneRunPerGid'
  BY <1>6, SMTT(30) DEF Inv, OneRunPerGid
<1>20. RunIsCurrent'
  BY <1>6, <1>9, SMTT(30) DEF Inv, RunIsCurrent
<1>21. ActiveIsRunning'
  <2>1. active = {GidOf[runner[q]] : q \in {p \in Run : Live(p)}}
    BY DEF Inv, ActiveIsRunning
  <2>2. ASSUME NEW h \in active'
        PROVE  \E q \in Run : runner'[q] # NoDownload /\ GidOf[runner'[q]] = h
    <3>1. PICK q \in Run : Live(q) /\ GidOf[runner[q]] = h
      BY <1>2, <2>1, <2>2
    <3>2. q # r
      BY <1>2, <2>2, <3>1 DEF g, d
    <3> QED BY <1>6, <3>1, <3>2
  <2>3. ASSUME NEW q \in Run, runner'[q] # NoDownload
        PROVE  GidOf[runner'[q]] \in active'
    <3>1. q # r /\ runner'[q] = runner[q] /\ Live(q)
      BY <1>6, <2>3
    <3>2. GidOf[runner[q]] \in active /\ GidOf[runner[q]] # g
      BY <1>9, <2>1, <3>1
    <3> QED BY <1>2, <3>1, <3>2, SMTT(30)
  <2> QED BY <2>2, <2>3, SMTT(30) DEF ActiveIsRunning
<1>22. ActiveCanBeCanceled'
  <2>1. SUFFICES ASSUME NEW x \in Download, status'[x] = "active"
                 PROVE  /\ ctx'[x] # NoRun /\ cancel'[x] = ctx'[x]
                        /\ ctx'[x] \notin canceled'
    BY DEF ActiveCanBeCanceled
  <2>2. x # d
    BY <1>3, <1>4, <1>6, <2>1
  <2> QED BY <1>2, <1>6, <2>1, <2>2, SMTT(30) DEF Inv, ActiveCanBeCanceled
<1>23. NoRunawayRun'
  <2>1. SUFFICES ASSUME NEW q \in Run, runner'[q] # NoDownload,
                        status'[runner'[q]] # "active"
                 PROVE  q \in canceled'
    BY DEF NoRunawayRun
  <2>2. q # r /\ runner'[q] = runner[q] /\ Live(q)
    BY <1>6, <2>1
  <2>3. status[runner[q]] # "active"
    BY <1>6, <1>9, <2>1, <2>2
  <2> QED BY <1>2, <2>2, <2>3 DEF Inv, NoRunawayRun
<1>24. ClosedIsQuiet'
  BY <1>1, <1>7 DEF Inv, ClosedIsQuiet, d
<1> QED BY <1>13, <1>15, <1>16, <1>17, <1>18, <1>19, <1>20, <1>21, <1>22, <1>23,
           <1>24 DEF Inv

\* Init establishes Inv, also with a loaded session.
LEMMA InitInv ==
  ASSUME Init PROVE Inv
<1> USE DEF Init
<1>1. waiting \in Seq(Gid) /\ IsInjective(waiting) /\ Range(waiting) \subseteq {g \in Gid : Known(g)}
  <2>1. PICK n \in 0 .. Cardinality({g \in Gid : Known(g)}) :
          waiting \in [1 .. n -> {g \in Gid : Known(g)}] /\ IsInjective(waiting)
    BY DEF QueueOf
  <2>2. waiting \in Seq({g \in Gid : Known(g)})
    BY <2>1, SMTT(30)
  <2>3. waiting \in Seq(Gid)
    BY <2>2, SMTT(30)
  <2> QED BY <2>1, <2>2, <2>3, QueueRange
<1>2. TypeOK
  <2>1. status \in [Download -> Status]
    BY DEF Status, Unfinished
  <2>2. maxActive \in Nat /\ maxResult \in Nat
    BY OptionAssumption
  <2>3. starts \in Seq(Run) /\ stopped \in Seq(Gid) /\ candidates \in Nat
        /\ callers \in Nat /\ exiting \in Nat
    BY SMTT(30)
  <2>4. /\ ctx \in [Download -> Run \cup {NoRun}]
        /\ cancel \in [Download -> Run \cup {NoRun}]
        /\ runner \in [Run -> Download \cup {NoDownload}]
        /\ downloads \in [Gid -> Download \cup {NoDownload}]
    OBVIOUS
  <2>5. /\ active \in SUBSET Gid /\ stoppedSet \in SUBSET Gid
        /\ canceled \in SUBSET Run
        /\ mu \in {"free", "scheduler", "caller", "finisher"}
        /\ sched \in {"select", "woken", "looping", "starting", "exited"}
    OBVIOUS
  <2>6. /\ shutdown \in BOOLEAN /\ closed \in BOOLEAN /\ wake \in BOOLEAN
        /\ keepUnfinished \in BOOLEAN
    OBVIOUS
  <2> QED BY <1>1, <2>1, <2>2, <2>3, <2>4, <2>5, <2>6 DEF TypeOK
<1> USE DEF Known, Live
<1>3. \A r \in Run : ~Live(r)
  OBVIOUS
<1>4. \A g \in Gid : Known(g) =>
        /\ downloads[g] \in Download /\ GidOf[downloads[g]] = g
        /\ status[downloads[g]] = IF g \in Range(waiting) THEN "waiting" ELSE "paused"
  BY NilAssumption
<1>5. \A d \in Download : status[d] # "new" => downloads[GidOf[d]] = d
  BY DEF Unfinished
<1>6. \A d \in Download : status[d] \in {"new", "waiting", "paused"}
  OBVIOUS
<1>7. Linked
  BY <1>2, <1>4, <1>5 DEF Linked, Unfinished
<1>8. QueueConsistent /\ NoLostDownload
  BY <1>1, <1>4 DEF QueueConsistent, NoLostDownload
<1>9. StoppedExact
  <2>1. IsInjective(stopped) /\ Range(stopped) = {}
    BY SMTT(30) DEF IsInjective, Range
  <2> QED BY <1>4, <2>1 DEF StoppedExact, Terminal
<1>10. OneRunPerGid /\ RunIsCurrent /\ NoRunawayRun
  BY <1>3 DEF OneRunPerGid, RunIsCurrent, NoRunawayRun
<1>11. ActiveIsRunning
  BY <1>3 DEF ActiveIsRunning
<1>12. ActiveCanBeCanceled
  BY <1>6 DEF ActiveCanBeCanceled
<1>13. ClosedIsQuiet
  BY DEF ClosedIsQuiet
<1> QED BY <1>2, <1>7, <1>8, <1>9, <1>10, <1>11, <1>12, <1>13 DEF Inv

\* The steps that only move program counters, options or tokens.
LEMMA CounterStep ==
  ASSUME Inv,
         \/ UnlockAfterPrune \/ Close \/ Signal \/ RunExit
         \/ \E ma \in MaxActiveVals, mr \in MaxResultVals, keep \in KeepVals :
              ChangeGlobalOption(ma, mr, keep)
         \/ Wake \/ SchedulerExit \/ ScheduleLock \/ ScheduleUnlock \/ LaunchRun
         \/ CloseDone
  PROVE  Inv'
<1> USE DEF items, links, results, options, life, loop, runs, tails, core
<1>1. UNCHANGED core /\ waiting' = waiting
  BY DEF UnlockAfterPrune, Close, Signal, RunExit, ChangeGlobalOption, Wake,
    SchedulerExit, ScheduleLock, ScheduleUnlock, LaunchRun, CloseDone
<1>2. IsInjective(waiting') /\ Range(waiting') = Range(waiting)
  BY <1>1 DEF Inv, QueueConsistent
<1>3. sched = "starting" => starts # <<>>
  BY DEF Inv, Linked
<1>4. closed => sched = "exited" /\ \A r \in Run : ~Live(r)
  BY DEF Inv, Linked, ClosedIsQuiet
<1>5. ASSUME UnlockAfterPrune \/ Close \/ Signal \/ RunExit PROVE Inv'
  <2>1. TypeOK'
    <3>1. CASE UnlockAfterPrune
      BY <3>1, SMTT(30) DEF Inv, TypeOK, UnlockAfterPrune
    <3>2. CASE Close
      BY <3>2 DEF Inv, TypeOK, Close
    <3>3. CASE Signal
      BY <3>3, SMTT(30) DEF Inv, TypeOK, Signal
    <3>4. CASE RunExit
      BY <3>4, SMTT(30) DEF Inv, TypeOK, RunExit
    <3> QED BY <1>5, <3>1, <3>2, <3>3, <3>4
  <2>2. /\ shutdown => shutdown'
        /\ sched' = sched /\ starts' = starts /\ closed' = closed
    <3>1. CASE UnlockAfterPrune
      BY <3>1 DEF UnlockAfterPrune
    <3>2. CASE Close
      BY <3>2 DEF Close
    <3>3. CASE Signal
      BY <3>3 DEF Signal
    <3>4. CASE RunExit
      BY <3>4 DEF RunExit
    <3> QED BY <1>5, <3>1, <3>2, <3>3, <3>4
  <2> QED BY <1>1, <1>2, <1>3, <1>4, <2>1, <2>2, CoreUnchanged
<1>6. ASSUME NEW ma \in MaxActiveVals, NEW mr \in MaxResultVals, NEW keep \in KeepVals,
             ChangeGlobalOption(ma, mr, keep)
      PROVE  Inv'
  <2>1. TypeOK'
    BY <1>6, OptionAssumption DEF Inv, TypeOK, ChangeGlobalOption
  <2>2. UNCHANGED <<shutdown, sched, starts, closed>>
    BY <1>6 DEF ChangeGlobalOption
  <2> QED BY <1>1, <1>2, <1>3, <1>4, <2>1, <2>2, CoreUnchanged
<1>7. ASSUME Wake \/ SchedulerExit \/ ScheduleLock PROVE Inv'
  <2>1. TypeOK'
    <3>1. Len(waiting) \in Nat
      BY SMTT(30) DEF Inv, TypeOK
    <3> QED BY <1>7, <3>1 DEF Inv, TypeOK, Wake, SchedulerExit, ScheduleLock
  <2>2. /\ shutdown' = shutdown /\ closed' = closed /\ sched' # "starting"
        /\ sched # "exited"
    BY <1>7 DEF Wake, SchedulerExit, ScheduleLock
  <2> QED BY <1>1, <1>2, <1>4, <2>1, <2>2, CoreUnchanged
<1>8. ASSUME ScheduleUnlock PROVE Inv'
  <2>1. TypeOK'
    BY <1>8 DEF Inv, TypeOK, ScheduleUnlock
  <2>2. /\ shutdown' = shutdown /\ closed' = closed /\ sched # "exited"
        /\ sched' = "starting" => starts' # <<>>
    BY <1>8 DEF ScheduleUnlock
  <2> QED BY <1>1, <1>2, <1>4, <2>1, <2>2, CoreUnchanged
<1>9. ASSUME LaunchRun PROVE Inv'
  <2>1. Tail(starts) \in Seq(Run)
    BY <1>3, <1>9, SMTT(30) DEF Inv, TypeOK, LaunchRun
  <2>2. TypeOK'
    BY <1>9, <2>1 DEF Inv, TypeOK, LaunchRun
  <2>3. /\ shutdown' = shutdown /\ closed' = closed /\ sched # "exited"
        /\ sched' = "starting" => starts' # <<>>
    BY <1>9 DEF LaunchRun
  <2> QED BY <1>1, <1>2, <1>4, <2>2, <2>3, CoreUnchanged, SMTT(30)
<1>10. ASSUME CloseDone PROVE Inv'
  <2>1. TypeOK'
    BY <1>10 DEF Inv, TypeOK, CloseDone
  <2>2. /\ shutdown' = shutdown /\ sched' = sched /\ sched = "exited"
        /\ \A r \in Run : ~Live(r)
    BY <1>10 DEF CloseDone
  <2> QED BY <1>1, <1>2, <2>1, <2>2, CoreUnchanged
<1> QED BY <1>5, <1>6, <1>7, <1>8, <1>9, <1>10
=============================================================================
