------------------------ MODULE EngineRequestProofs -------------------------
(***************************************************************************)
(* Requests preserve Inv: pausing, resuming, restarting, removing and      *)
(* moving downloads, and forgetting results.  First what the operations on *)
(* a queue of distinct gids (e.waiting, e.stopped) do to its elements.     *)
(***************************************************************************)
EXTENDS EngineScheduler, TLAPS

\* Most leaves are first-order: Zenon proves them.  The others name SMT.
USE Zenon

\* What a queue holds are gids, or whatever its elements are.
LEMMA QueueRange ==
  ASSUME NEW S, NEW q \in Seq(S)
  PROVE  Range(q) \subseteq S
BY SMTT(30) DEF Range

\* Appending a new element, as e.waiting = append(e.waiting, gid).
LEMMA AppendNew ==
  ASSUME NEW S, NEW q \in Seq(S), NEW e \in S
  PROVE  /\ Append(q, e) \in Seq(S)
         /\ Range(Append(q, e)) = Range(q) \cup {e}
         /\ IsInjective(q) /\ e \notin Range(q) => IsInjective(Append(q, e))
<1> DEFINE p == Append(q, e)
<1>1. /\ p \in Seq(S) /\ Len(p) = Len(q) + 1 /\ Len(q) \in Nat
      /\ DOMAIN q = 1 .. Len(q) /\ DOMAIN p = 1 .. Len(q) + 1
      /\ \A i \in 1 .. Len(q) : p[i] = q[i]
      /\ p[Len(q) + 1] = e
  BY SMTT(30)
<1> HIDE DEF p
<1>2. Range(p) = Range(q) \cup {e}
  <2>1. ASSUME NEW x \in Range(p) PROVE x \in Range(q) \cup {e}
    BY <1>1, <2>1, SMTT(30) DEF Range
  <2>2. ASSUME NEW x \in Range(q) PROVE x \in Range(p)
    BY <1>1, <2>2, SMTT(30) DEF Range
  <2>3. e \in Range(p)
    BY <1>1, SMTT(30) DEF Range
  <2> QED BY <2>1, <2>2, <2>3
<1>3. ASSUME IsInjective(q), e \notin Range(q) PROVE IsInjective(p)
  BY <1>1, <1>3, SMTT(30) DEF IsInjective, Range
<1> QED BY <1>1, <1>2, <1>3 DEF p

\* Taking the first element, as e.waiting = e.waiting[1:].
LEMMA TailOfQueue ==
  ASSUME NEW S, NEW q \in Seq(S), q # <<>>
  PROVE  /\ Tail(q) \in Seq(S) /\ Head(q) \in S
         /\ Head(q) \in Range(q)
         /\ Range(q) = Range(Tail(q)) \cup {Head(q)}
         /\ IsInjective(q) =>
              IsInjective(Tail(q)) /\ Head(q) \notin Range(Tail(q))
<1> DEFINE p == Tail(q)
<1>1. /\ p \in Seq(S) /\ Head(q) = q[1] /\ Len(q) \in Nat /\ Len(q) >= 1
      /\ DOMAIN q = 1 .. Len(q) /\ DOMAIN p = 1 .. Len(q) - 1
      /\ \A i \in 1 .. Len(q) - 1 : p[i] = q[i + 1]
      /\ Head(q) \in S
  BY SMTT(30)
<1> HIDE DEF p
<1>2. \A i \in 2 .. Len(q) : q[i] = p[i - 1] /\ i - 1 \in DOMAIN p
  BY <1>1, SMTT(30)
<1>3. Range(q) = Range(p) \cup {Head(q)}
  <2>1. ASSUME NEW x \in Range(q) PROVE x \in Range(p) \cup {Head(q)}
    <3>1. PICK i \in 1 .. Len(q) : q[i] = x
      BY <1>1, <2>1 DEF Range
    <3>2. CASE i = 1
      BY <1>1, <3>1, <3>2
    <3>3. CASE i # 1
      <4>1. i \in 2 .. Len(q)
        BY <3>3, <1>1, SMTT(30)
      <4> QED BY <4>1, <1>2, <3>1 DEF Range
    <3> QED BY <3>2, <3>3
  <2>2. ASSUME NEW x \in Range(p) PROVE x \in Range(q)
    BY <1>1, <2>2, SMTT(30) DEF Range
  <2>3. Head(q) \in Range(q)
    BY <1>1, SMTT(30) DEF Range
  <2> QED BY <2>1, <2>2, <2>3
<1>4. ASSUME IsInjective(q) PROVE IsInjective(p) /\ Head(q) \notin Range(p)
  <2>1. \A i \in DOMAIN p : i + 1 \in DOMAIN q /\ p[i] = q[i + 1] /\ i + 1 # 1
    BY <1>1, SMTT(30)
  <2>2. IsInjective(p)
    BY <1>1, <1>4, <2>1, SMTT(30) DEF IsInjective
  <2>3. ASSUME NEW i \in DOMAIN p PROVE p[i] # Head(q)
    BY <1>1, <1>4, <2>1, SMTT(30) DEF IsInjective
  <2> QED BY <2>2, <2>3 DEF Range
<1> QED BY <1>1, <1>3, <1>4 DEF p

\* Deleting an element of a queue of distinct elements deletes just that one.
LEMMA RemoveAtQueue ==
  ASSUME NEW S, NEW q \in Seq(S), NEW i \in DOMAIN q, IsInjective(q)
  PROVE  /\ RemoveAt(q, i) \in Seq(S)
         /\ IsInjective(RemoveAt(q, i))
         /\ Range(RemoveAt(q, i)) = Range(q) \ {q[i]}
<1> DEFINE p == RemoveAt(q, i)
<1>1. Len(q) \in Nat /\ DOMAIN q = 1 .. Len(q) /\ i \in 1 .. Len(q)
  BY SMTT(30)
<1>2. /\ DOMAIN p = 1 .. Len(q) - 1
      /\ \A j \in 1 .. Len(q) - 1 : p[j] = IF j < i THEN q[j] ELSE q[j + 1]
  BY DEF RemoveAt
<1>3. p \in Seq(S)
  <2>1. \A j \in 1 .. Len(q) : q[j] \in S
    BY SMTT(30)
  <2>2. p \in [1 .. Len(q) - 1 -> S]
    BY <1>1, <2>1, SMTT(30) DEF RemoveAt
  <2>3. Len(q) - 1 \in Nat
    BY <1>1, SMTT(30)
  <2> HIDE DEF p
  <2> QED BY <2>2, <2>3, SMTT(30)
<1> HIDE DEF p
<1> DEFINE old(j) == IF j < i THEN j ELSE j + 1
<1>4. \A j \in DOMAIN p : old(j) \in DOMAIN q /\ p[j] = q[old(j)] /\ old(j) # i
  BY <1>1, <1>2, SMTT(30)
<1>5. \A j, k \in DOMAIN p : old(j) = old(k) => j = k
  BY <1>1, <1>2, SMTT(30)
<1>6. \A k \in DOMAIN q \ {i} : \E j \in DOMAIN p : k = old(j)
  <2>1. TAKE k \in DOMAIN q \ {i}
  <2>2. CASE k < i
    <3>1. k \in DOMAIN p /\ k = old(k)
      BY <1>1, <1>2, <2>2, SMTT(30)
    <3> QED BY <3>1
  <2>3. CASE ~(k < i)
    <3>1. k - 1 \in DOMAIN p /\ k = old(k - 1)
      BY <1>1, <1>2, <2>3, SMTT(30)
    <3> QED BY <3>1
  <2> QED BY <2>2, <2>3
<1> HIDE DEF old
<1>7. IsInjective(p)
  <2>1. SUFFICES ASSUME NEW j \in DOMAIN p, NEW k \in DOMAIN p, p[j] = p[k]
                 PROVE  j = k
    BY DEF IsInjective
  <2>2. old(j) = old(k)
    BY <1>4, <2>1 DEF IsInjective
  <2> QED BY <1>5, <2>2
<1>8. Range(p) = Range(q) \ {q[i]}
  <2>1. ASSUME NEW j \in DOMAIN p PROVE p[j] \in Range(q) \ {q[i]}
    BY <1>1, <1>4, <2>1 DEF IsInjective, Range
  <2>2. ASSUME NEW k \in DOMAIN q, q[k] # q[i] PROVE q[k] \in Range(p)
    <3>1. PICK j \in DOMAIN p : k = old(j)
      BY <1>6, <2>2
    <3> QED BY <1>4, <3>1 DEF Range
  <2> QED BY <2>1, <2>2 DEF Range
<1> QED BY <1>3, <1>7, <1>8 DEF p

\* slices.DeleteFunc(q, ... == g) on a queue of distinct gids.
LEMMA WithoutQueue ==
  ASSUME NEW S, NEW q \in Seq(S), NEW g, IsInjective(q)
  PROVE  /\ Without(q, g) \in Seq(S)
         /\ IsInjective(Without(q, g))
         /\ Range(Without(q, g)) = Range(q) \ {g}
<1>1. CASE g \in Range(q)
  <2>1. IndexOf(q, g) \in DOMAIN q /\ q[IndexOf(q, g)] = g
    <3>1. \E i \in DOMAIN q : q[i] = g
      BY <1>1 DEF Range
    <3> QED BY <3>1 DEF IndexOf
  <2>2. Without(q, g) = RemoveAt(q, IndexOf(q, g))
    BY <1>1 DEF Without
  <2> QED BY <2>1, <2>2, RemoveAtQueue, SMTT(30)
<1>2. CASE g \notin Range(q)
  BY <1>2 DEF Without
<1> QED BY <1>1, <1>2

\* Inserting a new element keeps the elements distinct and loses none.
LEMMA InsertAtQueue ==
  ASSUME NEW S, NEW q \in Seq(S), NEW e \in S, NEW pos \in 0 .. Len(q)
  PROVE  /\ InsertAt(q, e, pos) \in Seq(S)
         /\ Range(InsertAt(q, e, pos)) = Range(q) \cup {e}
         /\ IsInjective(q) /\ e \notin Range(q)
              => IsInjective(InsertAt(q, e, pos))
<1> DEFINE p == InsertAt(q, e, pos)
<1>1. Len(q) \in Nat /\ pos \in Int /\ DOMAIN q = 1 .. Len(q)
  BY SMTT(30)
<1>2. /\ DOMAIN p = 1 .. Len(q) + 1
      /\ \A j \in 1 .. Len(q) + 1 :
           p[j] = IF j <= pos THEN q[j] ELSE IF j = pos + 1 THEN e ELSE q[j - 1]
  BY DEF InsertAt
<1>3. p \in Seq(S)
  <2>1. \A j \in 1 .. Len(q) : q[j] \in S
    BY SMTT(30)
  <2>2. p \in [1 .. Len(q) + 1 -> S]
    BY <1>1, <2>1, SMTT(30) DEF InsertAt
  <2>3. Len(q) + 1 \in Nat
    BY <1>1, SMTT(30)
  <2> HIDE DEF p
  <2> QED BY <2>2, <2>3, SMTT(30)
<1> HIDE DEF p
<1> DEFINE old(j) == IF j <= pos THEN j ELSE j - 1
<1>4. /\ pos + 1 \in DOMAIN p /\ p[pos + 1] = e
      /\ \A j \in DOMAIN p \ {pos + 1} : old(j) \in DOMAIN q /\ p[j] = q[old(j)]
  BY <1>1, <1>2, SMTT(30)
<1>5. \A j, k \in DOMAIN p \ {pos + 1} : old(j) = old(k) => j = k
  BY <1>1, <1>2, SMTT(30)
<1>6. \A k \in DOMAIN q : \E j \in DOMAIN p \ {pos + 1} : k = old(j)
  <2>1. TAKE k \in DOMAIN q
  <2>2. CASE k <= pos
    <3>1. k \in DOMAIN p \ {pos + 1} /\ k = old(k)
      BY <1>1, <1>2, <2>2, SMTT(30)
    <3> QED BY <3>1
  <2>3. CASE ~(k <= pos)
    <3>1. k + 1 \in DOMAIN p \ {pos + 1} /\ k = old(k + 1)
      BY <1>1, <1>2, <2>3, SMTT(30)
    <3> QED BY <3>1
  <2> QED BY <2>2, <2>3
<1> HIDE DEF old
<1>7. Range(p) = Range(q) \cup {e}
  <2>1. ASSUME NEW j \in DOMAIN p PROVE p[j] \in Range(q) \cup {e}
    BY <1>4, <2>1 DEF Range
  <2>2. ASSUME NEW k \in DOMAIN q PROVE q[k] \in Range(p)
    <3>1. PICK j \in DOMAIN p \ {pos + 1} : k = old(j)
      BY <1>6, <2>2
    <3> QED BY <1>4, <3>1 DEF Range
  <2>3. e \in Range(p)
    BY <1>4 DEF Range
  <2> QED BY <2>1, <2>2, <2>3 DEF Range
<1>8. ASSUME IsInjective(q), e \notin Range(q) PROVE IsInjective(p)
  <2>1. SUFFICES ASSUME NEW j \in DOMAIN p, NEW k \in DOMAIN p, p[j] = p[k]
                 PROVE  j = k
    BY DEF IsInjective
  <2>2. \A m \in DOMAIN p \ {pos + 1} : p[m] # e
    BY <1>4, <1>8 DEF Range
  <2>3. CASE j = pos + 1 \/ k = pos + 1
    BY <1>4, <2>1, <2>2, <2>3
  <2>4. CASE j # pos + 1 /\ k # pos + 1
    <3>1. old(j) = old(k)
      BY <1>4, <1>8, <2>1, <2>4 DEF IsInjective
    <3> QED BY <1>5, <2>4, <3>1
  <2> QED BY <2>3, <2>4
<1> QED BY <1>3, <1>7, <1>8 DEF p

\* insertWaitingLocked accepts any position.
LEMMA InsertWaitingQueue ==
  ASSUME NEW S, NEW q \in Seq(S), NEW e \in S, NEW pos \in Int
  PROVE  /\ InsertWaiting(q, e, pos) \in Seq(S)
         /\ Range(InsertWaiting(q, e, pos)) = Range(q) \cup {e}
         /\ IsInjective(q) /\ e \notin Range(q)
              => IsInjective(InsertWaiting(q, e, pos))
<1>1. Len(q) \in Nat
  BY SMTT(30)
<1>2. CASE pos >= Len(q)
  BY <1>2, AppendNew, SMTT(30) DEF InsertWaiting
<1>3. CASE ~(pos >= Len(q))
  <2> DEFINE at == IF pos < 0 THEN 0 ELSE pos
  <2>1. at \in 0 .. Len(q)
    BY <1>1, <1>3, SMTT(30)
  <2>2. InsertWaiting(q, e, pos) = InsertAt(q, e, at)
    BY <1>3 DEF InsertWaiting
  <2> HIDE DEF at
  <2> QED BY <2>1, <2>2, InsertAtQueue, SMTT(30)
<1> QED BY <1>2, <1>3

\* The destination ChangePosition computes is an index of the remaining queue
\* or its end, for every position argument and mode.
LEMMA DestinationInQueue ==
  ASSUME NEW how \in {"POS_SET", "POS_CUR", "POS_END"},
         NEW idx \in Int, NEW pos \in Int, NEW max \in Nat
  PROVE  Destination(how, idx, pos, max) \in 0 .. max
<1>1. \A x \in Int : Clamp(x, max) \in 0 .. max
  BY SMTT(30) DEF Clamp
<1>2. \A x \in Int : ClampedQueuePosition(x, pos, max) \in Int
  BY SMTT(30) DEF ClampedQueuePosition
<1>3. max + 1 \in Int
  BY SMTT(30)
<1> QED BY <1>1, <1>2, <1>3 DEF Destination

----------------------------------------------------------------------------
\* The state Inv speaks about, besides the order of the queue, program counters
\* and options.
core == <<items, links, active, results, runs>>

\* A step that at most reorders the queue.
LEMMA CoreUnchanged ==
  ASSUME Inv, TypeOK', UNCHANGED core,
         IsInjective(waiting'), Range(waiting') = Range(waiting),
         shutdown => shutdown',
         sched' = "starting" => starts' # <<>>,
         closed' => sched' = "exited" /\ \A r \in Run : ~Live(r)
  PROVE  Inv'
<1> USE DEF core, items, links, results, runs, Known, Live
<1>1. Linked'
  BY DEF Inv, Linked
<1>2. QueueConsistent'
  BY DEF Inv, QueueConsistent
<1>3. NoLostDownload'
  BY DEF Inv, NoLostDownload
<1>4. StoppedExact'
  BY DEF Inv, StoppedExact
<1>5. OneRunPerGid' /\ RunIsCurrent' /\ NoRunawayRun'
  BY DEF Inv, OneRunPerGid, RunIsCurrent, NoRunawayRun
<1>6. ActiveIsRunning'
  BY DEF Inv, ActiveIsRunning
<1>7. ActiveCanBeCanceled'
  BY DEF Inv, ActiveCanBeCanceled
<1>8. ClosedIsQuiet'
  <2>1. SUFFICES ASSUME closed', NEW g \in Gid, Known(g),
                        status[downloads[g]] = "active"
                 PROVE  FALSE
    BY DEF ClosedIsQuiet
  <2>2. downloads[g] \in Download
    BY <2>1 DEF Inv, TypeOK
  <2>3. ctx[downloads[g]] \in Run /\ runner[ctx[downloads[g]]] = downloads[g]
    BY <2>1, <2>2, SMTT(30) DEF Inv, TypeOK, Linked, ActiveCanBeCanceled
  <2> QED BY <2>1, <2>2, <2>3, NilAssumption
<1> QED BY <1>1, <1>2, <1>3, <1>4, <1>5, <1>6, <1>7, <1>8 DEF Inv

\* What pause, remove, unpause and restart have in common: the download of one
\* gid gets a status other than active, its run is canceled if it has one, and
\* the queue and the results follow the status.
LEMMA RequestStep ==
  ASSUME Inv, TypeOK', NEW g \in Gid, Known(g),
         status[downloads[g]] \in Unfinished,
         NEW s \in {"waiting", "paused", "removed"},
         status' = [status EXCEPT ![downloads[g]] = s],
         CancelRun(downloads[g]),
         IsInjective(waiting'),
         Range(waiting') = IF s = "waiting" THEN Range(waiting) \cup {g}
                           ELSE Range(waiting) \ {g},
         IF s = "removed" THEN AppendStopped(g) ELSE UNCHANGED results,
         UNCHANGED <<downloads, active, shutdown, closed, sched, starts>>
  PROVE  Inv'
<1> DEFINE d == downloads[g]
<1>1. /\ d \in Download /\ GidOf[d] = g
      /\ \A h \in Gid \ {g} : Known(h) => downloads[h] \in Download /\ downloads[h] # d
  BY SMTT(30) DEF Inv, TypeOK, Linked, Known
<1>2. /\ status'[d] = s
      /\ \A x \in Download \ {d} : status'[x] = status[x]
      /\ cancel'[d] = NoRun
      /\ \A x \in Download \ {d} : cancel'[x] = cancel[x]
      /\ ctx' = ctx /\ runner' = runner
      /\ canceled \subseteq canceled'
      /\ \A r \in canceled' : r \in canceled \/ (r = cancel[d] /\ r # NoRun)
      /\ cancel[d] # NoRun => cancel[d] \in canceled'
  BY <1>1 DEF Inv, TypeOK, CancelRun
<1> HIDE DEF d
<1>3. \A x \in Download : cancel[x] # NoRun =>
        status[x] = "active" /\ cancel[x] = ctx[x] /\ runner[cancel[x]] = x
  BY DEF Inv, TypeOK, Linked, ActiveCanBeCanceled
<1>4. downloads' = downloads /\ status' \in [Download -> Status]
  BY DEF TypeOK
<1> USE DEF Known, Live
<1>5. Linked'
  <2>1. \A r \in canceled' : Live(r)'
    <3>1. \A r \in canceled : Live(r)
      BY DEF Inv, Linked
    <3>2. cancel[d] # NoRun => Live(cancel[d])
      BY <1>1, <1>3, NilAssumption, SMTT(30)
    <3> QED BY <1>2, <3>1, <3>2
  <2>2. \A x \in Download : cancel'[x] # NoRun => status'[x] = "active"
    BY <1>2, <1>3, SMTT(30)
  <2>3. \A h \in Gid : Known(h) => status'[downloads[h]] # "new"
    BY <1>1, <1>2, SMTT(30) DEF Inv, TypeOK, Linked
  <2>4. \A x \in Download : status'[x] \in Unfinished => downloads[GidOf[x]] = x
    BY <1>1, <1>2 DEF Inv, Linked, d
  <2> QED BY <2>1, <2>2, <2>3, <2>4, <1>2, SMTT(30) DEF Inv, Linked
<1>6. QueueConsistent'
  <2>1. ASSUME NEW h \in Range(waiting'), h # g
        PROVE  Known(h)' /\ status'[downloads'[h]] = "waiting"
    <3>1. h \in Range(waiting) /\ h \in Gid
      BY <2>1, QueueRange, SMTT(30) DEF Inv, TypeOK
    <3> QED BY <1>1, <1>2, <2>1, <3>1 DEF Inv, QueueConsistent
  <2>2. ASSUME g \in Range(waiting')
        PROVE  Known(g)' /\ status'[downloads'[g]] = "waiting"
    BY <1>2, <2>2 DEF d
  <2> QED BY <2>1, <2>2 DEF QueueConsistent
<1>7. NoLostDownload'
  <2>1. SUFFICES ASSUME ~shutdown, NEW h \in Gid, Known(h),
                        status'[downloads[h]] = "waiting"
                 PROVE  h \in Range(waiting')
    BY DEF NoLostDownload
  <2>2. CASE h = g
    BY <1>2, <2>1, <2>2 DEF d
  <2>3. CASE h # g
    BY <1>1, <1>2, <2>1, <2>3, SMTT(30) DEF Inv, NoLostDownload
  <2> QED BY <2>2, <2>3
<1>8. StoppedExact'
  <2> DEFINE final == {h \in Gid : Known(h) /\ status[downloads[h]] \in Terminal}
  <2>1. IsInjective(stopped) /\ stoppedSet = Range(stopped) /\ Range(stopped) = final
    BY DEF Inv, StoppedExact
  <2>2. g \notin final
    BY DEF Terminal, Unfinished
  <2>3. final' = IF s = "removed" THEN final \cup {g} ELSE final
    <3>1. ASSUME NEW h \in Gid \ {g} PROVE h \in final' <=> h \in final
      BY <1>1, <1>2, <3>1
    <3>2. g \in final' <=> s = "removed"
      BY <1>2 DEF d, Terminal
    <3> QED BY <2>2, <3>1, <3>2
  <2> HIDE DEF final
  <2>4. CASE s = "removed"
    <3>1. stopped' = Append(stopped, g) /\ stoppedSet' = stoppedSet \cup {g}
      BY <2>1, <2>2, <2>4 DEF AppendStopped
    <3>2. /\ Range(stopped') = Range(stopped) \cup {g}
          /\ IsInjective(stopped')
      BY <2>1, <2>2, <3>1, AppendNew, SMTT(30) DEF Inv, TypeOK
    <3>3. stoppedSet' = Range(stopped') /\ Range(stopped') = final'
      BY <2>1, <2>3, <2>4, <3>1, <3>2
    <3> QED BY <3>2, <3>3 DEF StoppedExact, final
  <2>5. CASE s # "removed"
    <3>1. stopped' = stopped /\ stoppedSet' = stoppedSet
      BY <2>5 DEF results
    <3> QED BY <2>1, <2>3, <2>5, <3>1 DEF StoppedExact, final
  <2> QED BY <2>4, <2>5
<1>9. OneRunPerGid' /\ RunIsCurrent'
  BY <1>2 DEF Inv, OneRunPerGid, RunIsCurrent
<1>10. ActiveIsRunning'
  BY <1>2 DEF Inv, ActiveIsRunning
<1>11. ActiveCanBeCanceled'
  <2>1. SUFFICES ASSUME NEW x \in Download, status'[x] = "active"
                 PROVE  ctx[x] # NoRun /\ cancel'[x] = ctx[x] /\ ctx[x] \notin canceled'
    BY <1>2 DEF ActiveCanBeCanceled
  <2>2. x # d /\ status[x] = "active"
    BY <1>1, <1>2, <2>1
  <2>3. ctx[x] # NoRun /\ cancel[x] = ctx[x] /\ ctx[x] \notin canceled
    BY <2>2 DEF Inv, ActiveCanBeCanceled
  <2>4. ctx[x] # cancel[d]
    BY <1>1, <1>3, <2>2, <2>3, SMTT(30)
  <2> QED BY <1>2, <2>2, <2>3, <2>4
<1>12. NoRunawayRun'
  <2>1. SUFFICES ASSUME NEW r \in Run, Live(r), status'[runner[r]] # "active"
                 PROVE  r \in canceled'
    BY <1>2 DEF NoRunawayRun
  <2>2. CASE status[runner[r]] # "active"
    BY <1>2, <2>1, <2>2 DEF Inv, NoRunawayRun
  <2>3. CASE status[runner[r]] = "active"
    <3>1. runner[r] \in Download
      BY <2>1 DEF Inv, TypeOK
    <3>2. runner[r] = d
      BY <1>2, <2>1, <2>3, <3>1
    <3>3. cancel[d] = r /\ r # NoRun
      BY <2>1, <2>3, <3>1, <3>2, NilAssumption DEF Inv, RunIsCurrent, ActiveCanBeCanceled
    <3> QED BY <1>2, <3>3
  <2> QED BY <2>2, <2>3
<1>13. ClosedIsQuiet'
  <2>1. SUFFICES ASSUME closed
                 PROVE  /\ \A r \in Run : ~Live(r)
                        /\ \A h \in Gid : Known(h) => status'[downloads[h]] # "active"
    BY <1>2 DEF ClosedIsQuiet
  <2>2. status'[downloads[g]] # "active"
    BY <1>2 DEF d
  <2> QED BY <1>1, <1>2, <2>1, <2>2 DEF Inv, ClosedIsQuiet
<1> QED BY <1>5, <1>6, <1>7, <1>8, <1>9, <1>10, <1>11, <1>12, <1>13 DEF Inv

\* pause: the item leaves the queue, its run is canceled and keeps the slot.
LEMMA PauseStep ==
  ASSUME Inv, NEW g \in Gid, Pause(g) PROVE Inv'
<1>1. downloads[g] \in Download /\ status[downloads[g]] \in Status
  BY DEF Inv, TypeOK, Pause, Known
<1>2. status[downloads[g]] \in Unfinished
  <2>1. status[downloads[g]] # "new"
    BY <1>1 DEF Inv, Linked, Pause
  <2> QED BY <1>1, <2>1 DEF Pause, Status
<1>3. /\ waiting' \in Seq(Gid) /\ IsInjective(waiting')
      /\ Range(waiting') = Range(waiting) \ {g}
  BY WithoutQueue DEF Inv, TypeOK, QueueConsistent, Pause
<1>4. TypeOK'
  BY <1>1, <1>3, SMTT(30) DEF Inv, TypeOK, Pause, CancelRun, Return, Status, Unfinished,
    results, options, life, loop
<1>5. /\ Known(g)
      /\ status' = [status EXCEPT ![downloads[g]] = "paused"]
      /\ CancelRun(downloads[g])
      /\ UNCHANGED <<downloads, active, results, shutdown, closed, sched, starts>>
  BY DEF Pause, life, loop
<1> QED BY <1>2, <1>3, <1>4, <1>5, RequestStep

\* remove: as pause, and the download becomes a result; or it was one already.
LEMMA ForceRemoveStep ==
  ASSUME Inv, NEW g \in Gid, ForceRemove(g) PROVE Inv'
<1>1. downloads[g] \in Download /\ status[downloads[g]] \in Status
  BY DEF Inv, TypeOK, ForceRemove, Known
<1>2. status[downloads[g]] # "new"
  BY <1>1 DEF Inv, Linked, ForceRemove
<1>3. /\ waiting' \in Seq(Gid) /\ IsInjective(waiting')
      /\ Range(waiting') = Range(waiting) \ {g}
  BY WithoutQueue DEF Inv, TypeOK, QueueConsistent, ForceRemove
<1>4. CASE status[downloads[g]] \in Terminal
  <2>1. UNCHANGED <<core, mu, options, life, wake, loop, tails>>
    BY <1>4 DEF ForceRemove, core, items
  <2>2. TypeOK'
    BY <1>3, <2>1 DEF Inv, TypeOK, core, items, links, results, runs, options,
      life, loop, tails
  <2>3. Range(waiting') = Range(waiting)
    <3>1. g \notin Range(waiting)
      BY <1>4 DEF Inv, QueueConsistent, Terminal
    <3> QED BY <1>3, <3>1
  <2>4. closed' => sched' = "exited" /\ \A r \in Run : ~Live(r)
    BY <2>1 DEF Inv, Linked, ClosedIsQuiet, life, loop
  <2>5. shutdown' = shutdown /\ (sched' = "starting" => starts' # <<>>)
    BY <2>1 DEF Inv, Linked, life, loop
  <2> QED BY <1>3, <2>1, <2>2, <2>3, <2>4, <2>5, CoreUnchanged
<1>5. CASE status[downloads[g]] \notin Terminal
  <2>1. /\ Known(g)
        /\ status' = [status EXCEPT ![downloads[g]] = "removed"]
        /\ CancelRun(downloads[g])
        /\ AppendStopped(g)
        /\ mu' = "caller"
        /\ UNCHANGED <<downloads, active, options, life, wake, loop, tails>>
    BY <1>5 DEF ForceRemove
  <2>2. stopped' \in Seq(Gid)
    BY <2>1, AppendNew DEF AppendStopped, Inv, TypeOK
  <2>3. TypeOK'
    BY <1>1, <1>3, <2>1, <2>2, SMTT(30) DEF Inv, TypeOK, CancelRun, AppendStopped, Status,
      Terminal, options, life, loop, tails
  <2>4. UNCHANGED <<shutdown, closed, sched, starts>>
    BY <2>1 DEF life, loop
  <2>5. status[downloads[g]] \in Unfinished
    BY <1>1, <1>2, <1>5 DEF Status
  <2> QED BY <1>3, <2>1, <2>3, <2>4, <2>5, RequestStep
<1> QED BY <1>4, <1>5

\* Unpause: a paused item is in no queue, so appending it duplicates nothing.
LEMMA UnpauseStep ==
  ASSUME Inv, NEW g \in Gid, Unpause(g) PROVE Inv'
<1>1. downloads[g] \in Download
  BY DEF Inv, TypeOK, Unpause, Known
<1>2. g \notin Range(waiting)
  BY DEF Inv, QueueConsistent, Unpause
<1>3. /\ waiting' \in Seq(Gid) /\ IsInjective(waiting')
      /\ Range(waiting') = Range(waiting) \cup {g}
  BY <1>2, AppendNew, SMTT(30) DEF Inv, TypeOK, QueueConsistent, Unpause
<1>4. TypeOK'
  BY <1>1, <1>3, SMTT(30) DEF Inv, TypeOK, Unpause, Return, Status, Unfinished,
    links, results, options, life, loop, runs
<1>5. cancel[downloads[g]] = NoRun
  BY <1>1 DEF Inv, Linked, Unpause
<1>6. CancelRun(downloads[g])
  BY <1>1, <1>5 DEF CancelRun, Unpause, links, runs, Inv, TypeOK
<1>7. /\ Known(g) /\ status[downloads[g]] \in Unfinished
      /\ status' = [status EXCEPT ![downloads[g]] = "waiting"]
      /\ UNCHANGED <<downloads, active, results, shutdown, closed, sched, starts>>
  BY DEF Unpause, Unfinished, life, loop
<1> QED BY <1>3, <1>4, <1>6, <1>7, RequestStep

\* ChangeURI and ChangeOption.
LEMMA RestartStep ==
  ASSUME Inv, NEW g \in Gid, Known(g), RestartActive(g), Return,
         UNCHANGED <<downloads, active, results, options, life, wake, loop>>
  PROVE  Inv'
<1>1. downloads[g] \in Download
  BY DEF Inv, TypeOK, Known
<1>2. g \notin Range(waiting)
  BY DEF Inv, QueueConsistent, RestartActive
<1>3. /\ waiting' \in Seq(Gid) /\ IsInjective(waiting')
      /\ Range(waiting') = Range(waiting) \cup {g}
  BY <1>2, AppendNew, SMTT(30) DEF Inv, TypeOK, QueueConsistent, RestartActive
<1>4. TypeOK'
  BY <1>1, <1>3, SMTT(30) DEF Inv, TypeOK, RestartActive, CancelRun, Return, Status,
    Unfinished, results, options, life, loop
<1>5. /\ status[downloads[g]] \in Unfinished
      /\ status' = [status EXCEPT ![downloads[g]] = "waiting"]
      /\ CancelRun(downloads[g])
      /\ UNCHANGED <<downloads, active, results, shutdown, closed, sched, starts>>
  BY DEF RestartActive, Unfinished, life, loop
<1> QED BY <1>3, <1>4, <1>5, RequestStep

\* A step that at most reorders the queue, by a caller or the scheduler.
LEMMA ReorderStep ==
  ASSUME Inv, TypeOK', IsInjective(waiting'), Range(waiting') = Range(waiting),
         UNCHANGED <<core, life, sched, starts>>
  PROVE  Inv'
<1>1. closed' => sched' = "exited" /\ \A r \in Run : ~Live(r)
  BY DEF Inv, Linked, ClosedIsQuiet, life
<1>2. shutdown' = shutdown /\ (sched' = "starting" => starts' # <<>>)
  BY DEF Inv, Linked, life
<1> QED BY <1>1, <1>2, CoreUnchanged

\* ChangePosition puts back what it took out, wherever the clamped position is.
LEMMA ChangePositionStep ==
  ASSUME Inv, NEW g \in Gid, NEW pos \in Positions,
         NEW how \in {"POS_SET", "POS_CUR", "POS_END"},
         ChangePosition(g, pos, how)
  PROVE  Inv'
<1> DEFINE rest == Without(waiting, g)
           idx == IndexOf(waiting, g) - 1
<1>1. /\ rest \in Seq(Gid) /\ IsInjective(rest)
      /\ Range(rest) = Range(waiting) \ {g}
  BY WithoutQueue DEF Inv, TypeOK, QueueConsistent
<1>2. idx \in Int
  <2>1. \E i \in DOMAIN waiting : waiting[i] = g
    BY DEF ChangePosition, Range
  <2>2. IndexOf(waiting, g) \in DOMAIN waiting
    BY <2>1 DEF IndexOf
  <2>3. DOMAIN waiting \subseteq Int
    BY SMTT(30) DEF Inv, TypeOK
  <2> QED BY <2>2, <2>3, SMTT(30)
<1> HIDE DEF rest, idx
<1>3. pos \in Int /\ Len(rest) \in Nat
  BY <1>1, OptionAssumption, SMTT(30)
<1>4. Destination(how, idx, pos, Len(rest)) \in 0 .. Len(rest)
  BY <1>2, <1>3, DestinationInQueue
<1>5. waiting' = InsertAt(rest, g, Destination(how, idx, pos, Len(rest)))
  BY DEF ChangePosition, rest, idx
<1>6. /\ waiting' \in Seq(Gid) /\ IsInjective(waiting')
      /\ Range(waiting') = Range(rest) \cup {g}
  BY <1>1, <1>4, <1>5, InsertAtQueue, SMTT(30)
<1>7. Range(waiting') = Range(waiting)
  BY <1>1, <1>6 DEF ChangePosition
<1>8. TypeOK' /\ UNCHANGED <<core, life, sched, starts>>
  BY <1>6, SMTT(30) DEF Inv, TypeOK, ChangePosition, core, items, links, results, options,
    life, loop, runs, tails
<1> QED BY <1>6, <1>7, <1>8, ReorderStep

\* schedule() rotates the queue past an item whose run has not returned.
LEMMA DeferCandidateStep ==
  ASSUME Inv, DeferCandidate PROVE Inv'
<1> DEFINE g == Head(waiting)
           rest == Tail(waiting)
<1>1. /\ rest \in Seq(Gid) /\ g \in Gid
      /\ Range(waiting) = Range(rest) \cup {g}
      /\ IsInjective(rest) /\ g \notin Range(rest)
  BY TailOfQueue DEF Inv, TypeOK, QueueConsistent, DeferCandidate, MoreCandidates
<1>2. waiting' = Append(rest, g)
  BY DEF DeferCandidate
<1> HIDE DEF g, rest
<1>3. /\ waiting' \in Seq(Gid) /\ IsInjective(waiting')
      /\ Range(waiting') = Range(waiting)
  BY <1>1, <1>2, AppendNew, SMTT(30)
<1>4. candidates' \in Nat
  BY SMTT(30) DEF Inv, TypeOK, DeferCandidate, MoreCandidates
<1>5. UNCHANGED <<core, options, life, wake, mu, sched, starts, tails>>
  BY DEF DeferCandidate, core
<1>6. TypeOK'
  BY <1>3, <1>4, <1>5 DEF Inv, TypeOK, core, items, links, results, options, life,
    runs, tails
<1> QED BY <1>3, <1>5, <1>6, ReorderStep

\* Forgetting results: the downloads of a set of stopped gids are dropped.
LEMMA ForgetStep ==
  ASSUME Inv, TypeOK', NEW S \in SUBSET Range(stopped),
         \A g \in Gid : downloads'[g] = IF g \in S THEN NoDownload ELSE downloads[g],
         IsInjective(stopped'), Range(stopped') = Range(stopped) \ S,
         stoppedSet' = stoppedSet \ S,
         UNCHANGED <<status, links, waiting, active, life, loop, runs>>
  PROVE  Inv'
<1> USE DEF links, life, loop, runs, Known, Live
<1>1. \A g \in S : g \in Gid /\ Known(g) /\ status[downloads[g]] \in Terminal
  BY DEF Inv, StoppedExact
<1>2. Linked'
  <2>1. ASSUME NEW d \in Download, status[d] \in Unfinished
        PROVE  downloads'[GidOf[d]] = d
    <3>1. GidOf[d] \in Gid /\ downloads[GidOf[d]] = d
      BY <2>1, GidAssumption DEF Inv, Linked
    <3>2. GidOf[d] \notin S
      BY <1>1, <2>1, <3>1 DEF Unfinished, Terminal
    <3> QED BY <3>1, <3>2
  <2> QED BY <2>1 DEF Inv, Linked
<1>3. QueueConsistent'
  <2>1. ASSUME NEW g \in Range(waiting)
        PROVE  Known(g)' /\ status[downloads'[g]] = "waiting"
    <3>1. g \in Gid /\ Known(g) /\ status[downloads[g]] = "waiting"
      <4>1. Range(waiting) \in SUBSET Gid
        BY QueueRange DEF Inv, TypeOK
      <4> QED BY <2>1, <4>1 DEF Inv, QueueConsistent
    <3> QED BY <1>1, <3>1 DEF Terminal
  <2> QED BY <2>1 DEF Inv, QueueConsistent
<1>4. NoLostDownload'
  BY DEF Inv, NoLostDownload
<1>5. StoppedExact'
  BY DEF Inv, StoppedExact
<1>6. OneRunPerGid' /\ RunIsCurrent' /\ NoRunawayRun'
  BY DEF Inv, OneRunPerGid, RunIsCurrent, NoRunawayRun
<1>7. ActiveIsRunning'
  BY DEF Inv, ActiveIsRunning
<1>8. ActiveCanBeCanceled'
  BY DEF Inv, ActiveCanBeCanceled
<1>9. ClosedIsQuiet'
  BY DEF Inv, ClosedIsQuiet
<1> QED BY <1>2, <1>3, <1>4, <1>5, <1>6, <1>7, <1>8, <1>9 DEF Inv

\* PurgeDownloadResult forgets all results and nothing else.
LEMMA PurgeDownloadResultStep ==
  ASSUME Inv, PurgeDownloadResult PROVE Inv'
<1>1. stopped' = <<>> /\ stopped' \in Seq(Gid)
  BY SMTT(30) DEF PurgeDownloadResult
<1>2. IsInjective(stopped') /\ Range(stopped') = {}
  BY <1>1, SMTT(30) DEF IsInjective, Range
<1>3. TypeOK'
  BY <1>1 DEF Inv, TypeOK, PurgeDownloadResult, links, options, life, loop, runs,
    tails
<1>4. /\ \A g \in Gid : downloads'[g] =
           IF g \in Range(stopped) THEN NoDownload ELSE downloads[g]
      /\ stoppedSet' = stoppedSet \ Range(stopped)
      /\ UNCHANGED <<status, links, waiting, active, life, loop, runs>>
  BY DEF PurgeDownloadResult
<1>5. Range(stopped') = Range(stopped) \ Range(stopped)
  BY <1>2
<1> QED BY <1>2, <1>3, <1>4, <1>5, ForgetStep

\* RemoveDownloadResult forgets one result.
LEMMA RemoveDownloadResultStep ==
  ASSUME Inv, NEW g \in Gid, RemoveDownloadResult(g) PROVE Inv'
<1>1. /\ stopped' \in Seq(Gid) /\ IsInjective(stopped')
      /\ Range(stopped') = Range(stopped) \ {g}
  BY WithoutQueue DEF Inv, TypeOK, StoppedExact, RemoveDownloadResult
<1>2. TypeOK'
  BY <1>1, SMTT(30) DEF Inv, TypeOK, RemoveDownloadResult, links, options, life, loop, runs,
    tails
<1>3. {g} \in SUBSET Range(stopped)
  BY DEF Inv, StoppedExact, RemoveDownloadResult
<1>4. /\ \A h \in Gid : downloads'[h] =
           IF h \in {g} THEN NoDownload ELSE downloads[h]
      /\ stoppedSet' = stoppedSet \ {g}
      /\ UNCHANGED <<status, links, waiting, active, life, loop, runs>>
  BY DEF RemoveDownloadResult, Inv, TypeOK
<1> QED BY <1>1, <1>2, <1>3, <1>4, ForgetStep

\* pruneStoppedLocked forgets a result, never an item of the queue.
LEMMA PruneResultStep ==
  ASSUME Inv, PruneResult PROVE Inv'
<1>1. PICK i \in Prunable :
        /\ stopped' = RemoveAt(stopped, i)
        /\ stoppedSet' = stoppedSet \ {stopped[i]}
        /\ downloads' = [downloads EXCEPT ![stopped[i]] = NoDownload]
  BY DEF PruneResult
<1> DEFINE g == stopped[i]
<1>2. i \in DOMAIN stopped
  BY DEF Prunable
<1>3. g \in Range(stopped) /\ g \in Gid
  <2>1. stopped \in Seq(Gid)
    BY DEF Inv, TypeOK
  <2>2. g \in Range(stopped)
    BY <1>2 DEF Range
  <2> QED BY <2>1, <2>2, QueueRange
<1>4. /\ stopped' \in Seq(Gid) /\ IsInjective(stopped')
      /\ Range(stopped') = Range(stopped) \ {g}
  BY <1>1, <1>2, RemoveAtQueue DEF Inv, TypeOK, StoppedExact
<1> HIDE DEF g
<1>5. downloads' = [downloads EXCEPT ![g] = NoDownload] /\ stoppedSet' = stoppedSet \ {g}
  BY <1>1 DEF g
<1>6. TypeOK'
  BY <1>4, <1>5 DEF Inv, TypeOK, PruneResult, links, options, life, loop, runs,
    tails
<1>7. /\ \A h \in Gid : downloads'[h] =
           IF h \in {g} THEN NoDownload ELSE downloads[h]
      /\ UNCHANGED <<status, links, waiting, active, life, loop, runs>>
  BY <1>5 DEF PruneResult, Inv, TypeOK
<1>8. {g} \in SUBSET Range(stopped)
  BY <1>3
<1> QED BY <1>4, <1>5, <1>6, <1>7, <1>8, ForgetStep

=============================================================================
