----------------------- MODULE SegmentedTransferProofs -----------------------
(***************************************************************************)
(* A segmented transfer, for every number and size of chunks, every limit  *)
(* and every order of results: no chunk is lost or fetched twice, the      *)
(* progress is accounted for while nothing has failed, a transfer that     *)
(* succeeds is complete, and the limit stays below what the server has     *)
(* throttled.                                                              *)
(*                                                                         *)
(* The first part is about the operations of                               *)
(* segmentedConcurrencyController alone, the second about units.           *)
(***************************************************************************)
EXTENDS SegmentedTransfer, FiniteSetTheorems, TLAPS

\* Most leaves are first-order: Zenon proves them.  The others name SMT.
USE Zenon

Launch == [limit : Nat \ {0}, generation : Nat]

\* The limit is below the smallest one that was throttled.
Below(c) == c.rejected > 0 => c.limit < c.rejected

\* No launch is of a later generation, and those of this one had this limit.
Names(c, l) == l.generation <= c.generation /\ (l.generation = c.generation => l.limit = c.limit)

\* A controller that has handed out the launches L.
Sound(c, L) == c \in Controller /\ c.rejected # 1 /\ Below(c) /\ L \subseteq Launch /\ \A l \in L : Names(c, l)

\* A ceiling is a positive number below what was throttled.
LEMMA CeilingBelow ==
  ASSUME NEW c \in Controller, c.rejected # 1, NEW ceiling \in Int
  PROVE  /\ AdjustedCeiling(c, ceiling) \in Nat \ {0}
         /\ c.rejected > 0 => AdjustedCeiling(c, ceiling) < c.rejected
         /\ AdjustedCeiling(c, ceiling) <= AtLeastOne(ceiling)
BY SMTT(30) DEF AdjustedCeiling, AtLeastOne, Controller

\* The fields of a controller whose count and generation change.
LEMMA RenewedFields ==
  ASSUME NEW c \in Controller, NEW g \in Nat
  PROVE  LET k == [c EXCEPT !.successes = 0, !.generation = g] IN
         k \in Controller /\ k.limit = c.limit /\ k.rejected = c.rejected /\ k.generation = g
BY DEF Controller

\* A controller of the next generation is sound if its limit is: no launch is of
\* that generation.
LEMMA FreshSound ==
  ASSUME NEW c, NEW L, Sound(c, L), NEW k \in Controller, k.rejected # 1, Below(k),
         k.generation = c.generation + 1
  PROVE  Sound(k, L)
<1>1. ASSUME NEW l \in L PROVE Names(k, l)
  <2>1. l.generation \in Nat /\ c.generation \in Nat /\ l.generation <= c.generation
    BY DEF Sound, Names, Launch, Controller
  <2> QED
    BY <2>1, SMTT(30) DEF Names
<1> QED
  BY <1>1 DEF Sound

\* The count of successes does not matter.
LEMMA CountSound ==
  ASSUME NEW c, NEW L, Sound(c, L), NEW n \in Nat
  PROVE  Sound([c EXCEPT !.successes = n], L)
<1> DEFINE k == [c EXCEPT !.successes = n]
<1>1. /\ k \in Controller /\ k.limit = c.limit /\ k.rejected = c.rejected /\ k.generation = c.generation
  BY DEF Sound, Controller
<1> HIDE DEF k
<1>2. Sound(k, L)
  BY <1>1 DEF Sound, Below, Names
<1> QED
  BY <1>2 DEF k

\* A change of the limit to an allowed one makes a new generation.
LEMMA LimitedSound ==
  ASSUME NEW c, NEW L, Sound(c, L), NEW n \in Nat \ {0}, c.rejected > 0 => n < c.rejected
  PROVE  Sound(Limited(c, n), L) /\ Limited(c, n).limit = n
<1>1. CASE n = c.limit
  BY <1>1 DEF Limited
<1>2. CASE n # c.limit
  <2> DEFINE k == [c EXCEPT !.limit = n, !.successes = 0, !.generation = c.generation + 1]
  <2>1. /\ k \in Controller /\ k.limit = n /\ k.rejected = c.rejected /\ k.generation = c.generation + 1
    <3>1. c \in Controller /\ c.generation + 1 \in Nat
      BY SMTT(30) DEF Sound, Controller
    <3>2. PICK g \in Nat : g = c.generation + 1
      BY <3>1
    <3>3. k = [c EXCEPT !.limit = n, !.successes = 0, !.generation = g]
      BY <3>2
    <3> HIDE DEF k
    <3> QED
      BY <3>1, <3>2, <3>3 DEF Controller
  <2>2. Limited(c, n) = k
    BY <1>2 DEF Limited
  <2> HIDE DEF k
  <2>3. k.rejected # 1 /\ Below(k)
    BY <2>1 DEF Sound, Below
  <2> QED
    BY <2>1, <2>2, <2>3, FreshSound
<1> QED
  BY <1>1, <1>2

\* clampCeiling, which every other operation begins with.
LEMMA ClampSound ==
  ASSUME NEW c, NEW L, Sound(c, L), NEW ceiling \in Int
  PROVE  Sound(ClampCeiling(c, ceiling), L) /\ ClampCeiling(c, ceiling).limit <= AtLeastOne(ceiling)
<1> DEFINE n == AtMost(c.limit, AdjustedCeiling(c, ceiling))
<1>1. n \in Nat \ {0} /\ (c.rejected > 0 => n < c.rejected) /\ n <= AtLeastOne(ceiling)
  BY CeilingBelow, SMTT(30) DEF Sound, Below, AtMost, Controller, AtLeastOne
<1>2. Sound(Limited(c, n), L) /\ Limited(c, n).limit = n
  BY <1>1, LimitedSound
<1> QED
  BY <1>1, <1>2 DEF ClampCeiling

\* A new controller is sound.
THEOREM NewControllerSound == Sound(NewController, {})
BY SMTT(30) DEF Sound, NewController, Controller, Below

\* A launch under the current limit and generation (launchState).
THEOREM LaunchSound ==
  ASSUME NEW c, NEW L, Sound(c, L)
  PROVE  Sound(c, L \cup {LaunchState(c)})
BY SMTT(30) DEF Sound, Controller, Launch, LaunchState, Names

\* onSuccess with the result of any launch, however late.
THEOREM OnSuccessSound ==
  ASSUME NEW c, NEW L, Sound(c, L), NEW l \in L, NEW ceiling \in Int
  PROVE  Sound(OnSuccess(c, l, ceiling), L)
<1> DEFINE k == ClampCeiling(c, ceiling)
<1>1. Sound(k, L)
  BY ClampSound
<1> HIDE DEF k
<1>2. k \in Controller /\ k.rejected # 1 /\ k.limit \in Nat /\ k.successes + 1 \in Nat
  BY <1>1, SMTT(30) DEF Sound, Controller
<1>3. Sound([k EXCEPT !.successes = k.successes + 1], L) /\ Sound([k EXCEPT !.successes = 0], L)
  BY <1>1, <1>2, CountSound
<1>4. ASSUME k.limit < AdjustedCeiling(k, ceiling) PROVE Sound(Limited(k, k.limit + 1), L)
  <2>1. k.limit + 1 \in Nat \ {0} /\ (k.rejected > 0 => k.limit + 1 < k.rejected)
    BY <1>2, <1>4, CeilingBelow, SMTT(30) DEF Controller
  <2> QED
    BY <1>1, <2>1, LimitedSound
<1> QED
  BY <1>1, <1>3, <1>4 DEF OnSuccess, k

\* onThrottle: whatever limit a current launch was made under becomes out of
\* reach, and a late result changes nothing but the ceiling.
THEOREM OnThrottleSound ==
  ASSUME NEW c, NEW L, Sound(c, L), NEW l \in L, NEW ceiling \in Int
  PROVE  Sound(OnThrottle(c, l, ceiling), L)
<1> DEFINE k == ClampCeiling(c, ceiling)
           r == Rejected(k, l.limit)
           n == AtMost(AtLeastOne(l.limit - 1), AdjustedCeiling(r, ceiling))
           t == [r EXCEPT !.limit = n, !.successes = 0, !.generation = r.generation + 1]
<1>1. Sound(k, L)
  BY ClampSound, SMTT(30)
<1>2. OnThrottle(c, l, ceiling) = IF ~Current(k, l) THEN k ELSE t
  BY DEF OnThrottle
<1> HIDE DEF k
<1>3. k \in Controller /\ l.limit \in Nat \ {0}
  BY <1>1 DEF Sound, Launch
<1>4. r \in Controller /\ r.rejected # 1 /\ r.generation = k.generation
  BY <1>1, <1>3, SMTT(30) DEF Rejected, Sound, Controller
<1> HIDE DEF r
<1>5. n \in Nat \ {0} /\ (r.rejected > 0 => n < r.rejected)
  BY <1>3, <1>4, CeilingBelow, SMTT(30) DEF AtMost, AtLeastOne, Controller
<1> HIDE DEF n
<1>6. /\ t \in Controller /\ t.limit = n /\ t.rejected = r.rejected
      /\ t.generation = k.generation + 1
  <2>1. r.generation + 1 \in Nat
    BY <1>4, SMTT(30) DEF Controller
  <2>2. PICK g \in Nat : g = r.generation + 1
    BY <2>1
  <2>3. t = [r EXCEPT !.limit = n, !.successes = 0, !.generation = g]
    BY <2>2
  <2> HIDE DEF t
  <2> QED
    BY <1>4, <1>5, <2>2, <2>3 DEF Controller
<1> HIDE DEF t
<1>7. Sound(t, L)
  <2>1. t.rejected # 1 /\ Below(t)
    BY <1>4, <1>5, <1>6 DEF Below
  <2> QED
    BY <1>1, <1>6, <2>1, FreshSound
<1> QED
  BY <1>1, <1>2, <1>7

\* onRetryableError
THEOREM OnRetryableErrorSound ==
  ASSUME NEW c, NEW L, Sound(c, L), NEW l \in L, NEW ceiling \in Int
  PROVE  Sound(OnRetryableError(c, l, ceiling), L)
<1> DEFINE k == ClampCeiling(c, ceiling)
           t == [k EXCEPT !.successes = 0, !.generation = k.generation + 1]
<1>1. Sound(k, L)
  BY ClampSound, SMTT(30)
<1>2. OnRetryableError(c, l, ceiling) \in {k, t}
  BY DEF OnRetryableError
<1> HIDE DEF k
<1>3. /\ t \in Controller /\ t.limit = k.limit /\ t.rejected = k.rejected
      /\ t.generation = k.generation + 1
  <2>1. k \in Controller /\ k.generation + 1 \in Nat
    BY <1>1, SMTT(30) DEF Sound, Controller
  <2> QED
    BY <2>1, RenewedFields
<1> HIDE DEF t
<1>4. Sound(t, L)
  BY <1>1, <1>3, FreshSound DEF Sound, Below
<1> QED
  BY <1>1, <1>2, <1>4

----------------------------------------------------------------------------
\* Counting units

\* The units of a chunk.
LEMMA UnitsOfOne ==
  ASSUME NEW c, NEW n \in Nat
  PROVE  IsFiniteSet({c} \X (1..n)) /\ Cardinality({c} \X (1..n)) = n
<1>1. IsFiniteSet(1..n) /\ Cardinality(1..n) = n
  BY FS_Interval, SMTT(30)
<1>2. IsFiniteSet({c}) /\ Cardinality({c}) = 1
  BY FS_Singleton
<1>3. IsFiniteSet({c} \X (1..n)) /\ Cardinality({c} \X (1..n)) = Cardinality({c}) * Cardinality(1..n)
  BY <1>1, <1>2, FS_Product
<1> QED
  BY <1>1, <1>2, <1>3, SMTT(30)

\* There are finitely many units.
LEMMA UnitsFinite ==
  ASSUME NEW f \in [Chunk -> Nat], NEW S \in SUBSET Chunk
  PROVE  IsFiniteSet(UnitsOf(f, S)) /\ Sum(f, S) \in Nat
<1> DEFINE U == {{c} \X (1..f[c]) : c \in S}
           g == [c \in S |-> {c} \X (1..f[c])]
<1>1. IsFiniteSet(S)
  <2>1. IsFiniteSet(Chunk)
    BY ChunkAssumption, FS_Interval, SMTT(30) DEF Chunk
  <2> QED
    BY <2>1, FS_Subset
<1>2. g \in Surjection(S, U)
  BY DEF Surjection
<1>3. IsFiniteSet(U)
  BY <1>1, <1>2, FS_Surjection
<1>4. \A T \in U : IsFiniteSet(T)
  <2>1. ASSUME NEW c \in S PROVE IsFiniteSet({c} \X (1..f[c]))
    BY UnitsOfOne
  <2> QED
    BY <2>1
<1>5. IsFiniteSet(UNION U)
  BY <1>3, <1>4, FS_UNION
<1> QED
  BY <1>5, FS_CardinalityType DEF UnitsOf, Sum

\* A further chunk adds its units.
LEMMA SumAdd ==
  ASSUME NEW f \in [Chunk -> Nat], NEW S \in SUBSET Chunk, NEW c \in Chunk \ S
  PROVE  Sum(f, S \cup {c}) = Sum(f, S) + f[c]
<1> DEFINE One == {c} \X (1..f[c])
           Old == UnitsOf(f, S)
<1>1. UnitsOf(f, S \cup {c}) = Old \cup One /\ Old \cap One = {}
  BY SMTT(30) DEF UnitsOf
<1>2. /\ IsFiniteSet(Old) /\ Cardinality(Old) \in Nat
      /\ Sum(f, S) = Cardinality(Old) /\ Sum(f, S \cup {c}) = Cardinality(Old \cup One)
  BY <1>1, UnitsFinite DEF Sum
<1>3. IsFiniteSet(One) /\ Cardinality(One) = f[c]
  BY UnitsOfOne
<1> HIDE DEF Old, One
<1>4. Cardinality(Old \cup One) = Cardinality(Old) + Cardinality(One) - Cardinality(Old \cap One)
  BY <1>2, <1>3, FS_Union
<1>5. Cardinality(Old \cap One) = 0
  BY <1>1, FS_EmptySet
<1> QED
  BY <1>2, <1>3, <1>4, <1>5, SMTT(30)

\* A chunk that goes takes its units away.
LEMMA SumRemove ==
  ASSUME NEW f \in [Chunk -> Nat], NEW S \in SUBSET Chunk, NEW c \in S
  PROVE  Sum(f, S) = Sum(f, S \ {c}) + f[c]
<1>1. (S \ {c}) \cup {c} = S /\ c \in Chunk \ (S \ {c}) /\ S \ {c} \in SUBSET Chunk
  OBVIOUS
<1>2. Sum(f, (S \ {c}) \cup {c}) = Sum(f, S \ {c}) + f[c]
  BY <1>1, SumAdd
<1> QED
  BY <1>1, <1>2

\* Only the chunks of the set count.
LEMMA SumSame ==
  ASSUME NEW f, NEW g, NEW S, \A c \in S : f[c] = g[c]
  PROVE  Sum(f, S) = Sum(g, S)
<1>1. UnitsOf(f, S) = UnitsOf(g, S)
  BY DEF UnitsOf
<1> QED
  BY <1>1 DEF Sum

\* One chunk of the set changes.
LEMMA SumChange ==
  ASSUME NEW f \in [Chunk -> Nat], NEW S \in SUBSET Chunk, NEW c \in S, NEW n \in Nat
  PROVE  Sum([f EXCEPT ![c] = n], S) = Sum(f, S) - f[c] + n
<1> DEFINE g == [f EXCEPT ![c] = n]
<1>1. g \in [Chunk -> Nat] /\ g[c] = n /\ \A d \in S \ {c} : f[d] = g[d]
  OBVIOUS
<1> HIDE DEF g
<1>2. Sum(f, S) = Sum(f, S \ {c}) + f[c]
  BY SumRemove
<1>3. Sum(g, S) = Sum(g, S \ {c}) + n
  BY <1>1, SumRemove
<1>4. Sum(f, S \ {c}) = Sum(g, S \ {c})
  BY <1>1, SumSame
<1>5. Sum(f, S \ {c}) \in Nat /\ f[c] \in Nat
  BY UnitsFinite
<1>6. Sum(g, S) = Sum(f, S) - f[c] + n
  BY <1>2, <1>3, <1>4, <1>5, SMTT(30)
<1> QED
  BY <1>6 DEF g

\* Complete pieces and parts of others do not add up to more than the total.
LEMMA SumBound ==
  ASSUME NEW f \in [Chunk -> Nat], NEW B \in SUBSET Chunk, NEW S \in SUBSET Chunk, B \cap S = {},
         \A c \in Chunk : f[c] <= Units[c]
  PROVE  Sum(Units, B) + Sum(f, S) <= Total
<1> DEFINE X == UnitsOf(Units, B)
           Y == UnitsOf(f, S)
           All == UnitsOf(Units, Chunk)
<1>1. Units \in [Chunk -> Nat]
  BY ChunkAssumption
<1>2. /\ IsFiniteSet(X) /\ IsFiniteSet(Y) /\ IsFiniteSet(All)
      /\ Cardinality(X) \in Nat /\ Cardinality(Y) \in Nat /\ Cardinality(All) \in Nat
  BY <1>1, UnitsFinite DEF Sum
<1>3. X \cap Y = {}
  BY SMTT(30) DEF UnitsOf
<1>4. X \cup Y \in SUBSET All
  <2>1. X \subseteq All
    BY DEF UnitsOf
  <2>2. Y \subseteq All
    <3> SUFFICES ASSUME NEW c \in S, NEW n \in 1..f[c] PROVE n \in 1..Units[c]
      BY SMTT(30) DEF UnitsOf
    <3> QED
      BY <1>1, SMTT(30)
  <2> QED
    BY <2>1, <2>2
<1> HIDE DEF X, Y, All
<1>5. Cardinality(X \cup Y) = Cardinality(X) + Cardinality(Y) - Cardinality(X \cap Y)
  BY <1>2, FS_Union
<1>6. Cardinality(X \cap Y) = 0
  BY <1>3, FS_EmptySet
<1>7. Cardinality(X \cup Y) <= Cardinality(All)
  BY <1>2, <1>4, FS_Subset
<1> QED
  BY <1>2, <1>5, <1>6, <1>7, SMTT(30) DEF Sum, Total, X, Y, All

----------------------------------------------------------------------------
\* The invariant

Launches == {launch[c] : c \in Chunk}

\* What the state of a worker says of its range.
WorkerOK(c) ==
  /\ worker[c] \in {"idle", "request"} => added[c] = 0 /\ copied[c] = 0
  /\ worker[c] \in {"idle", "request", "copy"} => outcome[c] = "none"
  /\ worker[c] = "bodyError" => outcome[c] # "none"
  /\ worker[c] = "ended" /\ outcome[c] = "none" => added[c] = Units[c] /\ copied[c] = Units[c]

Elements(q) == {q[i] : i \in 1..Len(q)}
Once(q)     == \A i, j \in 1..Len(q) : q[i] = q[j] => i = j

\* The queue has no chunk twice, and a result is of a worker that has ended.
QueueOK ==
  /\ Once(tasks)
  /\ \A c \in Chunk : results = <<c>> => worker[c] \in {"ended", "bodyError"}

\* Where the chunks are.
Places ==
  /\ active = Cardinality(Busy)
  /\ Queued \cap Busy = {} /\ bitfield \cap (Queued \cup Busy) = {}
  /\ firstErr = "none" => Queued \cup Busy \cup bitfield = Chunk

\* The loop ends with all done, or with an error.
EndOK == pc \in {"drain", "returned"} => active = 0 /\ (firstErr = "none" => tasks = <<>>)

PiecesOK == \A c \in bitfield : disk[c] = Units[c]

SegInv ==
  /\ TypeOK /\ Sound(ctl, Launches) /\ (\A c \in Chunk : WorkerOK(c))
  /\ QueueOK /\ Places /\ EndOK /\ PiecesOK /\ ProgressAccounted

\* Fewer launches, or the same, are sound too.
LEMMA SoundSubset ==
  ASSUME NEW c, NEW L, Sound(c, L), NEW M \in SUBSET L
  PROVE  Sound(c, M)
BY DEF Sound

LEMMA WorkerLimitInt ==
  ASSUME options \in 1..Len(Splits), NEW n \in Int
  PROVE  WorkerLimit(n) \in Int
<1>1. split \in Nat \ {0}
  BY OptionAssumption, SMTT(30) DEF split
<1> QED
  BY <1>1, SMTT(30) DEF WorkerLimit, AtMost, AtLeastOne

LEMMA ChunksFinite == IsFiniteSet(Chunk) /\ Chunk # {} /\ \A S \in SUBSET Chunk : IsFiniteSet(S) /\ Cardinality(S) \in Nat
<1>1. IsFiniteSet(Chunk) /\ 1 \in Chunk
  BY ChunkAssumption, FS_Interval, SMTT(30) DEF Chunk
<1>2. ASSUME NEW S \in SUBSET Chunk PROVE IsFiniteSet(S) /\ Cardinality(S) \in Nat
  <2>1. IsFiniteSet(S)
    BY <1>1, FS_Subset
  <2> QED
    BY <2>1, FS_CardinalityType
<1> QED
  BY <1>1, <1>2

\* downloadSegmented begins with every chunk in the queue.
LEMMA InitSeg == Init => SegInv
<1> SUFFICES ASSUME Init PROVE SegInv
  OBVIOUS
<1>1. Chunk = 1..Chunks /\ Chunks \in Nat /\ Len(tasks) = Chunks /\ tasks \in Seq(Chunk) /\ Queued = Chunk
  BY ChunkAssumption, SMTT(30) DEF Init, Chunk, Queued
<1>2. Busy = {} /\ Cardinality(Busy) = 0
  <2>1. Busy = {}
    BY DEF Init, Busy
  <2> QED
    BY <2>1, FS_EmptySet
<1>3. Sound(ctl, Launches)
  <2>1. Launches \subseteq {} \cup {LaunchState(NewController)} /\ ctl = NewController
    BY DEF Init, Launches
  <2>2. Sound(NewController, {} \cup {LaunchState(NewController)})
    BY NewControllerSound, LaunchSound
  <2> QED
    BY <2>1, <2>2, SoundSubset
<1>4. LoopTypes
  <2>1. LaunchState(NewController) \in [limit : Nat \ {0}, generation : Nat] /\ NewController \in Controller
    BY SMTT(30) DEF LaunchState, NewController, Controller
  <2>2. Len(Splits) >= 1
    BY OptionAssumption, SMTT(30)
  <2> QED
    BY <1>1, <2>1, <2>2, OptionAssumption, SMTT(30) DEF Init, LoopTypes
<1>5. WorkerTypes
  BY ChunkAssumption, SMTT(30) DEF Init, WorkerTypes
<1>6. \A c \in Chunk : WorkerOK(c)
  BY DEF Init, WorkerOK
<1>7. QueueOK
  BY <1>1 DEF Init, QueueOK, Once
<1>8. Places
  BY <1>1, <1>2 DEF Init, Places
<1>9. EndOK /\ PiecesOK
  BY DEF Init, EndOK, PiecesOK
<1>10. ProgressAccounted
  <2>1. Sum(Units, {}) = 0 /\ Sum(added, {}) = 0
    BY FS_EmptySet DEF Sum, UnitsOf
  <2>2. Total \in Nat
    BY UnitsFinite, ChunkAssumption DEF Total
  <2> QED
    BY <1>2, <2>1, <2>2, SMTT(30) DEF Init, ProgressAccounted, Counted, AtMost
<1> QED
  BY <1>3, <1>4, <1>5, <1>6, <1>7, <1>8, <1>9, <1>10 DEF SegInv, TypeOK

\* Steps that leave the chunks where they are and the workers to themselves.
LEMMA QuietStep ==
  ASSUME SegInv, UNCHANGED <<tasks, active, bitfield, results, workerVars, completed, kept>>, LoopTypes',
         Sound(ctl, Launches)', EndOK', firstErr = "none" \/ firstErr' = firstErr
  PROVE  SegInv'
<1>1. UNCHANGED <<Busy, Queued>> /\ UNCHANGED <<worker, outcome, copied, added, disk>>
  BY DEF workerVars, Busy, Queued
<1>2. WorkerTypes' /\ (\A c \in Chunk : WorkerOK(c))' /\ QueueOK' /\ PiecesOK'
  BY <1>1 DEF SegInv, TypeOK, WorkerTypes, WorkerOK, QueueOK, PiecesOK
<1>3. firstErr' = "none" => firstErr = "none"
  OBVIOUS
<1>4. Places'
  BY <1>1, <1>3 DEF SegInv, Places
<1>5. ProgressAccounted'
  BY <1>1, <1>3 DEF SegInv, ProgressAccounted, Counted
<1> QED
  BY <1>2, <1>4, <1>5 DEF SegInv, TypeOK

\* The loop's steps that take no task and no result, and the requests.
LEMMA LoopStepsInv ==
  ASSUME SegInv, StartReady \/ Started \/ Tick \/ NoticeCancel \/ Return \/ Cancel \/ ChangeSplit
  PROVE  SegInv'
<1> LoopTypes /\ Sound(ctl, Launches) /\ EndOK /\ Places
  BY DEF SegInv, TypeOK
<1>1. /\ UNCHANGED <<tasks, active, bitfield, results, workerVars, completed, kept, launch>>
      /\ Launches' = Launches
  BY DEF StartReady, Started, Tick, NoticeCancel, Return, Cancel, ChangeSplit, loopVars, Launches
<1>2. firstErr' \in Errors \cup {"none"} /\ (firstErr = "none" \/ firstErr' = firstErr)
  BY DEF LoopTypes, StartReady, Started, Tick, NoticeCancel, Return, Cancel, ChangeSplit, loopVars, Failed, Errors
<1>3. options' \in 1..Len(Splits)
  BY OptionAssumption, SMTT(30) DEF LoopTypes, StartReady, Started, Tick, NoticeCancel, Return, Cancel, ChangeSplit, bounds
<1>4. pc' \in {"start", "launch", "select", "drain", "returned"}
  BY DEF LoopTypes, StartReady, Started, Tick, NoticeCancel, Return, Cancel, ChangeSplit, loopVars
<1>5. EndOK'
  <2>1. CASE Started
    BY <2>1 DEF Started, LoopOver, EndOK
  <2>2. CASE Cancel \/ ChangeSplit
    BY <2>2 DEF Cancel, ChangeSplit, loopVars, EndOK
  <2>3. CASE StartReady \/ Tick \/ NoticeCancel
    BY <2>3 DEF StartReady, Tick, NoticeCancel, EndOK
  <2>4. CASE Return
    BY <1>1, <1>2, <2>4 DEF Return, EndOK
  <2> QED
    BY <2>1, <2>2, <2>3, <2>4
<1>6. Sound(ctl', Launches)
  <2>1. CASE StartReady
    <3>1. active + Len(tasks) \in Int
      BY SMTT(30) DEF LoopTypes
    <3>2. WorkerLimit(active + Len(tasks)) \in Int
      BY <3>1, WorkerLimitInt DEF LoopTypes
    <3>3. Sound(ClampCeiling(ctl, WorkerLimit(active + Len(tasks))), Launches)
      BY <3>2, ClampSound
    <3> QED
      BY <2>1, <3>3 DEF StartReady
  <2>2. CASE ~StartReady
    BY <2>2 DEF Started, Tick, NoticeCancel, Return, Cancel, ChangeSplit, loopVars
  <2> QED
    BY <2>1, <2>2
<1>7. LoopTypes' /\ Sound(ctl, Launches)'
  BY <1>1, <1>2, <1>3, <1>4, <1>6 DEF LoopTypes, Sound
<1> QED
  BY <1>1, <1>2, <1>5, <1>7, QuietStep

\* Without the task at i the queue has the others, each once.
LEMMA WithoutTask ==
  ASSUME tasks \in Seq(Chunk), Once(tasks), NEW i \in 1..Len(tasks), NEW q, q = Without(i)
  PROVE  q \in Seq(Chunk) /\ Once(q) /\ Elements(q) = Elements(tasks) \ {tasks[i]}
<1>1. PICK n \in Nat : n = Len(tasks) /\ n > 0
  BY SMTT(30)
<1>2. /\ q = [j \in 1..(n - 1) |-> IF j < i THEN tasks[j] ELSE tasks[j + 1]]
      /\ \A j \in 1..n : tasks[j] \in Chunk
  BY <1>1, SMTT(30) DEF Without
<1>3. q \in Seq(Chunk) /\ Len(q) = n - 1
  BY <1>1, <1>2, SMTT(30)
<1>4. Once(q)
  BY <1>1, <1>2, <1>3, SMTT(30) DEF Once
<1>5. ASSUME NEW j \in 1..Len(q) PROVE q[j] \in Elements(tasks) \ {tasks[i]}
  BY <1>1, <1>2, <1>3, SMTT(30) DEF Elements, Once
<1>6. ASSUME NEW k \in 1..n, k # i PROVE tasks[k] \in Elements(q)
  <2>1. CASE k < i
    BY <1>1, <1>2, <1>3, <2>1, SMTT(30) DEF Elements
  <2>2. CASE k > i
    <3>1. k - 1 \in 1..(n - 1) /\ q[k - 1] = tasks[k]
      BY <1>1, <1>2, <2>2, SMTT(30)
    <3> QED
      BY <1>3, <3>1 DEF Elements
  <2> QED
    BY <1>1, <1>6, <2>1, <2>2, SMTT(30)
<1>7. Elements(q) \subseteq Elements(tasks) \ {tasks[i]}
  BY <1>5 DEF Elements
<1>8. Elements(tasks) \ {tasks[i]} \subseteq Elements(q)
  <2> SUFFICES ASSUME NEW k \in 1..n, tasks[k] # tasks[i] PROVE tasks[k] \in Elements(q)
    BY <1>1 DEF Elements
  <2> QED
    BY <1>6
<1> QED
  BY <1>3, <1>4, <1>7, <1>8

\* startTask: a chunk leaves the queue for a worker.
LEMMA StartTaskInv ==
  ASSUME SegInv, StartTask
  PROVE  SegInv'
<1> LoopTypes /\ WorkerTypes /\ Sound(ctl, Launches) /\ QueueOK /\ Places /\ (\A c \in Chunk : WorkerOK(c))
  BY DEF SegInv, TypeOK
<1>1. PICK i \in 1..Len(tasks) :
        /\ tasks' = Without(i)
        /\ launch' = [launch EXCEPT ![tasks[i]] = LaunchState(ctl)]
        /\ worker' = [worker EXCEPT ![tasks[i]] = "request"]
  BY DEF StartTask
<1>2. PICK c \in Chunk : c = tasks[i] /\ c \in Queued
  <2>1. tasks[i] \in Chunk
    BY SMTT(30) DEF LoopTypes
  <2>2. tasks[i] \in Queued
    BY DEF Queued
  <2> QED
    BY <2>1, <2>2
<1>3. /\ pc = "launch" /\ active' = active + 1 /\ firstErr = "none"
      /\ UNCHANGED <<pc, ctl, firstErr, bitfield, results, outcome, copied, added, disk, options, completed, kept>>
  BY DEF StartTask, Room, bounds
<1>4. worker[c] = "idle"
  BY <1>2 DEF Places, Busy
<1>5. tasks' \in Seq(Chunk) /\ Queued' = Queued \ {c} /\ Once(tasks')
  <2>1. tasks' \in Seq(Chunk) /\ Once(tasks') /\ Elements(tasks') = Elements(tasks) \ {tasks[i]}
    BY <1>1, WithoutTask DEF LoopTypes, QueueOK
  <2>2. Queued = Elements(tasks) /\ Queued' = Elements(tasks')
    BY DEF Queued, Elements
  <2> QED
    BY <1>2, <2>1, <2>2
<1>6. Busy' = Busy \cup {c} /\ c \notin Busy /\ Busy \in SUBSET Chunk
  BY <1>1, <1>2, <1>4 DEF Busy, WorkerTypes
<1>7. Cardinality(Busy \cup {c}) = Cardinality(Busy) + 1
  <2>1. IsFiniteSet(Busy)
    BY <1>6, ChunksFinite
  <2> QED
    BY <1>6, <2>1, FS_AddElement
<1>8. LaunchState(ctl) \in [limit : Nat \ {0}, generation : Nat]
  BY DEF LaunchState, LoopTypes, Controller
<1>9. LoopTypes'
  BY <1>1, <1>2, <1>3, <1>5, <1>8, SMTT(30) DEF LoopTypes
<1>10. WorkerTypes'
  BY <1>1, <1>2, <1>3 DEF WorkerTypes
<1>11. Sound(ctl, Launches)'
  <2>1. Sound(ctl, Launches \cup {LaunchState(ctl)})
    BY LaunchSound
  <2>2. Launches' \in SUBSET (Launches \cup {LaunchState(ctl)})
    BY <1>1, <1>2 DEF Launches, LoopTypes
  <2>3. Sound(ctl, Launches')
    BY <2>1, <2>2, SoundSubset
  <2> QED
    BY <1>3, <2>3
<1>12. (\A d \in Chunk : WorkerOK(d))'
  <2> SUFFICES ASSUME NEW d \in Chunk PROVE WorkerOK(d)'
    OBVIOUS
  <2>1. CASE d = c
    BY <1>1, <1>2, <1>3, <1>4, <2>1 DEF WorkerOK, WorkerTypes
  <2>2. CASE d # c
    BY <1>1, <1>2, <1>3, <2>2 DEF WorkerOK, WorkerTypes
  <2> QED
    BY <2>1, <2>2
<1>13. QueueOK'
  BY <1>1, <1>2, <1>3, <1>4, <1>5 DEF QueueOK, WorkerTypes
<1>14. Places'
  BY <1>2, <1>3, <1>5, <1>6, <1>7 DEF Places
<1>15. EndOK' /\ PiecesOK'
  BY <1>3 DEF SegInv, EndOK, PiecesOK
<1>16. ProgressAccounted'
  <2>1. Sum(added, Busy \cup {c}) = Sum(added, Busy) + added[c]
    BY <1>2, <1>6, SumAdd DEF WorkerTypes
  <2>2. added[c] = 0 /\ Sum(added, Busy) \in Nat
    BY <1>4, <1>6, UnitsFinite DEF WorkerOK, WorkerTypes
  <2> QED
    BY <1>3, <1>6, <2>1, <2>2, SMTT(30) DEF SegInv, ProgressAccounted, Counted
<1> QED
  BY <1>9, <1>10, <1>11, <1>12, <1>13, <1>14, <1>15, <1>16 DEF SegInv, TypeOK

\* A worker's step changes nothing of the loop, and its own worker only.
LEMMA WorkerFrame ==
  ASSUME SegInv, NEW c \in Chunk, c \in Busy, c \in Busy', UNCHANGED <<loopVars, options>>,
         results' \in {<<>>} \cup {<<d>> : d \in Chunk}, completed' \in Nat, WorkerTypes', WorkerOK(c)',
         disk'[c] >= disk[c],
         \A d \in Chunk \ {c} :
           /\ worker'[d] = worker[d] /\ outcome'[d] = outcome[d]
           /\ copied'[d] = copied[d] /\ added'[d] = added[d] /\ disk'[d] = disk[d],
         \A d \in Chunk : results' = <<d>> => worker'[d] \in {"ended", "bodyError"},
         ProgressAccounted'
  PROVE  SegInv'
<1> LoopTypes /\ Sound(ctl, Launches) /\ QueueOK /\ Places /\ (\A d \in Chunk : WorkerOK(d)) /\ WorkerTypes
  BY DEF SegInv, TypeOK
<1>1. UNCHANGED <<pc, tasks, launch, active, ctl, firstErr, bitfield, kept>>
  BY DEF loopVars
<1>2. Busy' = Busy /\ Queued' = Queued /\ Launches' = Launches
  BY <1>1, SMTT(30) DEF Busy, Queued, Launches
<1>3. LoopTypes' /\ Sound(ctl, Launches)'
  BY <1>1, <1>2 DEF LoopTypes
<1>4. (\A d \in Chunk : WorkerOK(d))'
  BY SMTT(30) DEF WorkerOK
<1>5. QueueOK' /\ Places' /\ EndOK'
  BY <1>1, <1>2 DEF SegInv, QueueOK, Places, EndOK
<1>6. PiecesOK'
  <2> SUFFICES ASSUME NEW d \in bitfield PROVE disk'[d] = Units[d]
    BY <1>1 DEF PiecesOK
  <2>1. d \in Chunk /\ d # c /\ disk[d] = Units[d]
    BY DEF SegInv, LoopTypes, Places, PiecesOK
  <2> QED
    BY <2>1
<1> QED
  BY <1>3, <1>4, <1>5, <1>6 DEF SegInv, TypeOK

\* flushProgress: what a worker counts is added to the progress, which stays within
\* the total.
LEMMA FlushAccounted ==
  ASSUME SegInv, NEW c \in Busy, Flush(c), UNCHANGED <<firstErr, bitfield, kept>>, Busy' = Busy
  PROVE  ProgressAccounted' /\ completed' \in Nat
<1> LoopTypes /\ WorkerTypes /\ Places /\ Busy \in SUBSET Chunk /\ bitfield \in SUBSET Chunk
  BY DEF SegInv, TypeOK, LoopTypes, Busy
<1>1. PICK n \in Nat : n = copied[c] /\ n <= Units[c] /\ added[c] <= n /\ added[c] \in Nat
  <2>1. Units[c] \in Nat
    BY ChunkAssumption DEF Busy
  <2> QED
    BY <2>1, SMTT(30) DEF WorkerTypes
<1>2. completed' = AtMost(completed + (n - added[c]), Total) /\ added' = [added EXCEPT ![c] = n]
  BY <1>1 DEF Flush, AddCompleted
<1>3. Total \in Nat /\ Sum(Units, bitfield) \in Nat /\ Sum(added, Busy) \in Nat
  BY UnitsFinite, ChunkAssumption DEF Total, WorkerTypes
<1>4. Sum(added', Busy) = Sum(added, Busy) - added[c] + n
  BY <1>1, <1>2, SumChange DEF WorkerTypes
<1>5. Sum(Units, bitfield) + Sum(added', Busy) <= Total
  <2>1. added' \in [Chunk -> Nat] /\ \A d \in Chunk : added'[d] <= Units[d]
    <3>1. \A d \in Chunk : added[d] <= Units[d] /\ Units[d] \in Nat
      BY ChunkAssumption, SMTT(30) DEF WorkerTypes
    <3> QED
      BY <1>1, <1>2, <3>1 DEF WorkerTypes
  <2> QED
    BY <2>1, SumBound DEF Places
<1>6. completed' \in Nat
  BY <1>1, <1>2, <1>3, SMTT(30) DEF AtMost, LoopTypes
<1>7. Counted' = Counted + (n - added[c]) /\ Counted \in Nat /\ Counted' <= Total
  BY <1>1, <1>3, <1>4, <1>5, SMTT(30) DEF Counted
<1>8. ASSUME firstErr = "none" PROVE Counted' <= completed' /\ completed' <= AtMost(Counted' + kept, Total)
  <2>1. Counted <= completed /\ completed <= AtMost(Counted + kept, Total)
    BY <1>8 DEF SegInv, ProgressAccounted
  <2>2. kept \in Nat /\ completed \in Nat
    BY DEF LoopTypes
  <2>3. PICK d \in Nat : d = n - added[c]
    BY <1>1, SMTT(30)
  <2>4. completed' = AtMost(completed + d, Total) /\ Counted' = Counted + d
    BY <1>2, <1>7, <2>3
  <2> QED
    BY <1>3, <1>7, <2>1, <2>2, <2>4, SMTT(30) DEF AtMost
<1> QED
  BY <1>6, <1>8 DEF ProgressAccounted

\* downloadRange of a chunk.
LEMMA WorkerStepInv ==
  ASSUME SegInv, NEW c \in Chunk, WorkerStep(c)
  PROVE  SegInv'
<1> LoopTypes /\ WorkerTypes /\ QueueOK /\ WorkerOK(c) /\ Places
  BY DEF SegInv, TypeOK
<1> Units[c] \in Nat
  BY ChunkAssumption
<1>1. c \in Busy /\ UNCHANGED <<loopVars, options>>
  BY DEF WorkerStep, Reply, Write, FlushSome, CopyEnds, CopyFails, Send, Busy, bounds
<1>2. UNCHANGED <<firstErr, bitfield, kept>>
  BY <1>1 DEF loopVars
<1>3. /\ worker'[c] \in {"request", "copy", "ended", "bodyError"}
      /\ worker' = [worker EXCEPT ![c] = worker'[c]]
      /\ worker[c] \in {"ended", "bodyError"} => worker'[c] = worker[c]
  BY <1>1 DEF WorkerStep, Reply, Write, FlushSome, CopyEnds, CopyFails, Send, WorkerTypes, workerVars, Busy
<1>4. /\ outcome'[c] \in Errors \cup {"none"} /\ outcome' = [outcome EXCEPT ![c] = outcome'[c]]
  <2>1. "fatal" \in Errors /\ Retryable \subseteq Errors
    BY DEF Errors
  <2> QED
    BY <2>1 DEF WorkerStep, Reply, Write, FlushSome, CopyEnds, CopyFails, Send, WorkerTypes, workerVars
<1>5. /\ copied' = [copied EXCEPT ![c] = copied'[c]] /\ added' = [added EXCEPT ![c] = added'[c]]
      /\ disk' = [disk EXCEPT ![c] = disk'[c]]
      /\ {copied'[c], added'[c], disk'[c]} \subseteq Nat
      /\ added'[c] <= copied'[c] /\ copied'[c] <= disk'[c] /\ disk'[c] <= Units[c] /\ disk'[c] >= disk[c]
  <2>1. CASE Reply(c) \/ Send(c)
    BY <2>1, SMTT(30) DEF Reply, Send, workerVars, WorkerTypes
  <2>2. CASE Write(c)
    BY <2>2, SMTT(30) DEF Write, WorkerTypes
  <2>3. CASE FlushSome(c) \/ CopyEnds(c) \/ CopyFails(c)
    BY <2>3, SMTT(30) DEF FlushSome, CopyEnds, CopyFails, Flush, WorkerTypes
  <2> QED
    BY <2>1, <2>2, <2>3 DEF WorkerStep
<1>6. WorkerTypes'
  BY <1>3, <1>4, <1>5, SMTT(30) DEF WorkerTypes
<1>7. Busy' = Busy /\ c \in Busy'
  BY <1>1, <1>3 DEF Busy, WorkerTypes
<1>8. WorkerOK(c)'
  <2>1. CASE Reply(c)
    <3>1. /\ added'[c] = 0 /\ copied'[c] = 0
          /\ \/ worker'[c] = "copy" /\ outcome'[c] = "none"
             \/ worker'[c] = "ended" /\ outcome'[c] \in Errors
      BY <2>1 DEF Reply, WorkerOK, WorkerTypes
    <3>2. "none" \notin Errors
      BY DEF Errors, Throttles, Retryable
    <3> QED
      BY <3>1, <3>2 DEF WorkerOK
  <2>2. CASE Write(c) \/ FlushSome(c)
    BY <2>2 DEF Write, FlushSome, Flush, WorkerOK, WorkerTypes
  <2>3. CASE CopyEnds(c)
    <3>1. /\ worker'[c] = "ended" /\ added'[c] = Units[c] /\ copied'[c] = Units[c]
      BY <2>3 DEF CopyEnds, Flush, WorkerTypes
    <3> QED
      BY <3>1 DEF WorkerOK
  <2>4. CASE CopyFails(c)
    BY <2>4 DEF CopyFails, WorkerOK, WorkerTypes, Errors, Throttles, Retryable
  <2>5. CASE Send(c)
    BY <2>5 DEF Send, workerVars, WorkerOK
  <2> QED
    BY <2>1, <2>2, <2>3, <2>4, <2>5 DEF WorkerStep
<1>9. /\ results' \in {<<>>} \cup {<<d>> : d \in Chunk}
      /\ \A d \in Chunk : results' = <<d>> => worker'[d] \in {"ended", "bodyError"}
  <2>1. CASE Send(c)
    BY <2>1 DEF Send, workerVars
  <2>2. CASE ~Send(c)
    <3>1. results' = results
      BY <2>2 DEF WorkerStep, Reply, Write, FlushSome, CopyEnds, CopyFails
    <3> QED
      BY <1>3, <3>1 DEF LoopTypes, QueueOK, WorkerTypes
  <2> QED
    BY <2>1, <2>2
<1>10. ProgressAccounted' /\ completed' \in Nat
  <2>1. CASE FlushSome(c) \/ CopyEnds(c) \/ CopyFails(c)
    <3>1. Flush(c)
      BY <2>1 DEF FlushSome, CopyEnds, CopyFails
    <3> QED
      BY <1>1, <1>2, <1>7, <3>1, FlushAccounted
  <2>2. CASE Reply(c) \/ Write(c) \/ Send(c)
    <3>1. UNCHANGED <<added, completed>>
      BY <2>2 DEF Reply, Write, Send, workerVars
    <3> QED
      BY <1>2, <1>7, <3>1 DEF SegInv, ProgressAccounted, Counted, LoopTypes
  <2> QED
    BY <2>1, <2>2 DEF WorkerStep
<1>11. \A d \in Chunk \ {c} :
         /\ worker'[d] = worker[d] /\ outcome'[d] = outcome[d]
         /\ copied'[d] = copied[d] /\ added'[d] = added[d] /\ disk'[d] = disk[d]
  BY <1>3, <1>4, <1>5, SMTT(30) DEF WorkerTypes
<1> QED
  BY <1>1, <1>5, <1>6, <1>7, <1>8, <1>9, <1>10, <1>11, WorkerFrame

\* What the loop does with a result: the piece is complete, or the chunk goes back
\* to the queue, or the transfer has failed.
LEMMA ReceiveCases ==
  ASSUME SegInv, Receive
  PROVE  \E c \in Chunk :
           /\ results = <<c>> /\ results' = <<>> /\ pc' = "start" /\ active' = active - 1
           /\ UNCHANGED <<launch, disk, options>>
           /\ worker' = [worker EXCEPT ![c] = "idle"] /\ outcome' = [outcome EXCEPT ![c] = "none"]
           /\ copied' = [copied EXCEPT ![c] = 0] /\ added' = [added EXCEPT ![c] = 0]
           /\ Sound(ctl', Launches)
           /\ \/ /\ outcome[c] = "none" /\ bitfield' = bitfield \cup {c}
                 /\ UNCHANGED <<tasks, firstErr, completed, kept>>
              \/ /\ outcome[c] \in Throttles \cup Retryable /\ tasks' = Append(tasks, c)
                 /\ completed' = Rollback(c) /\ kept' = Keep(c) /\ UNCHANGED <<firstErr, bitfield>>
              \/ /\ firstErr' \in Errors /\ completed' = Rollback(c) /\ kept' = Keep(c) /\ UNCHANGED <<tasks, bitfield>>
<1> LoopTypes /\ WorkerTypes /\ Sound(ctl, Launches)
  BY DEF SegInv, TypeOK
<1>1. PICK c \in Chunk : results = <<c>>
  BY DEF Receive, LoopTypes
<1>2. Head(results) = c /\ Tail(results) = <<>>
  BY <1>1, SMTT(30)
<1>3. PICK left \in Int : left = active - 1 + Len(tasks)
  <2>1. active \in Nat /\ Len(tasks) \in Nat
    BY SMTT(30) DEF LoopTypes
  <2> QED
    BY <2>1, SMTT(30)
<1>4. launch[c] \in Launches
  BY DEF Launches
<1>5. \A n \in Int : /\ Sound(OnSuccess(ctl, launch[c], WorkerLimit(n)), Launches)
                     /\ Sound(OnThrottle(ctl, launch[c], WorkerLimit(n)), Launches)
                     /\ Sound(OnRetryableError(ctl, launch[c], WorkerLimit(n)), Launches)
  <2> SUFFICES ASSUME NEW n \in Int
               PROVE  /\ Sound(OnSuccess(ctl, launch[c], WorkerLimit(n)), Launches)
                      /\ Sound(OnThrottle(ctl, launch[c], WorkerLimit(n)), Launches)
                      /\ Sound(OnRetryableError(ctl, launch[c], WorkerLimit(n)), Launches)
    OBVIOUS
  <2>1. PICK m \in Int : m = WorkerLimit(n)
    BY WorkerLimitInt DEF LoopTypes
  <2> QED
    BY <1>4, <2>1, OnSuccessSound, OnThrottleSound, OnRetryableErrorSound
<1>6. PICK more \in Int : more = left + (IF CanRetry(c) THEN 1 ELSE 0)
  BY <1>3, SMTT(30)
<1>7. PICK one \in Int : one = left + 1
  BY <1>3, SMTT(30)
<1>8. /\ results' = <<>> /\ pc' = "start" /\ active' = active - 1 /\ UNCHANGED <<launch, disk, options>>
      /\ worker' = [worker EXCEPT ![c] = "idle"] /\ outcome' = [outcome EXCEPT ![c] = "none"]
      /\ copied' = [copied EXCEPT ![c] = 0] /\ added' = [added EXCEPT ![c] = 0]
  BY <1>2 DEF Receive, bounds
<1>9. \/ /\ outcome[c] = "none" /\ MarkPieceComplete(c)
         /\ ctl' = OnSuccess(ctl, launch[c], WorkerLimit(left))
         /\ UNCHANGED <<tasks, firstErr, completed, kept>>
      \/ /\ outcome[c] # "none" /\ completed' = Rollback(c) /\ kept' = Keep(c) /\ bitfield' = bitfield
         /\ \/ /\ outcome[c] \in Throttles
               /\ ctl' = OnThrottle(ctl, launch[c], WorkerLimit(more))
               /\ Requeue(c) \/ (Failed(outcome[c]) /\ tasks' = tasks)
            \/ /\ outcome[c] \in Retryable
               /\ ctl' = OnRetryableError(ctl, launch[c], WorkerLimit(one))
               /\ Requeue(c)
            \/ Failed(outcome[c]) /\ UNCHANGED <<tasks, ctl>>
  BY <1>2, <1>3, <1>6, <1>7 DEF Receive
<1>10. Sound(ctl', Launches)
  BY <1>5, <1>9
<1>11. ASSUME outcome[c] # "none", Failed(outcome[c]) PROVE firstErr' \in Errors
  BY <1>11 DEF Failed, LoopTypes, WorkerTypes
<1>12. \/ /\ outcome[c] = "none" /\ bitfield' = bitfield \cup {c}
          /\ UNCHANGED <<tasks, firstErr, completed, kept>>
       \/ /\ outcome[c] \in Throttles \cup Retryable /\ tasks' = Append(tasks, c)
          /\ completed' = Rollback(c) /\ kept' = Keep(c) /\ UNCHANGED <<firstErr, bitfield>>
       \/ /\ firstErr' \in Errors /\ completed' = Rollback(c) /\ kept' = Keep(c) /\ UNCHANGED <<tasks, bitfield>>
  BY <1>9, <1>11 DEF MarkPieceComplete, Requeue
<1> QED
  BY <1>1, <1>8, <1>10, <1>12

\* What is left of the progress when a result that is not a success is handled.
LEMMA RollbackNat ==
  ASSUME completed \in Nat, NEW c, added[c] \in Nat
  PROVE  Rollback(c) \in Nat /\ (worker[c] = "bodyError" /\ completed >= added[c] => Rollback(c) = completed - added[c])
BY SMTT(30) DEF Rollback, AtLeastOne

LEMMA KeepNat ==
  ASSUME kept \in Nat, NEW c, added[c] \in Nat
  PROVE  Keep(c) \in Nat
BY SMTT(30) DEF Keep

\* A task at the end of the queue.
LEMMA AppendTask ==
  ASSUME NEW q \in Seq(Chunk), Once(q), NEW c \in Chunk \ Elements(q), NEW r, r = Append(q, c)
  PROVE  r \in Seq(Chunk) /\ Once(r) /\ Elements(r) = Elements(q) \cup {c}
<1>1. PICK n \in Nat : n = Len(q)
  BY SMTT(30)
<1>2. r \in Seq(Chunk) /\ Len(r) = n + 1 /\ r[n + 1] = c /\ \A i \in 1..n : r[i] = q[i]
  BY <1>1, SMTT(30)
<1>3. \A i \in 1..n : q[i] # c
  BY <1>1 DEF Elements
<1>4. Once(r)
  BY <1>1, <1>2, <1>3, SMTT(30) DEF Once
<1>5. Elements(r) \subseteq Elements(q) \cup {c}
  BY <1>1, <1>2, SMTT(30) DEF Elements
<1>6. Elements(q) \cup {c} \subseteq Elements(r)
  <2>1. \A i \in 1..n : q[i] \in Elements(r)
    BY <1>2, SMTT(30) DEF Elements
  <2>2. c \in Elements(r)
    BY <1>2, SMTT(30) DEF Elements
  <2> QED
    BY <1>1, <2>1, <2>2 DEF Elements
<1> QED
  BY <1>2, <1>4, <1>5, <1>6

\* A result is handled.
LEMMA ReceiveInv ==
  ASSUME SegInv, Receive
  PROVE  SegInv'
<1> LoopTypes /\ WorkerTypes /\ QueueOK /\ Places /\ (\A d \in Chunk : WorkerOK(d))
  BY DEF SegInv, TypeOK
<1>1. PICK c \in Chunk :
        /\ results = <<c>> /\ results' = <<>> /\ pc' = "start" /\ active' = active - 1
        /\ UNCHANGED <<launch, disk, options>>
        /\ worker' = [worker EXCEPT ![c] = "idle"] /\ outcome' = [outcome EXCEPT ![c] = "none"]
        /\ copied' = [copied EXCEPT ![c] = 0] /\ added' = [added EXCEPT ![c] = 0]
        /\ Sound(ctl', Launches)
        /\ \/ /\ outcome[c] = "none" /\ bitfield' = bitfield \cup {c}
              /\ UNCHANGED <<tasks, firstErr, completed, kept>>
           \/ /\ outcome[c] \in Throttles \cup Retryable /\ tasks' = Append(tasks, c)
              /\ completed' = Rollback(c) /\ kept' = Keep(c) /\ UNCHANGED <<firstErr, bitfield>>
           \/ /\ firstErr' \in Errors /\ completed' = Rollback(c) /\ kept' = Keep(c) /\ UNCHANGED <<tasks, bitfield>>
  BY ReceiveCases
<1> DEFINE Success == outcome[c] = "none" /\ bitfield' = bitfield \cup {c} /\ UNCHANGED <<tasks, firstErr, completed, kept>>
           Again   == /\ outcome[c] \in Throttles \cup Retryable /\ tasks' = Append(tasks, c)
                      /\ completed' = Rollback(c) /\ kept' = Keep(c) /\ UNCHANGED <<firstErr, bitfield>>
           Over    == firstErr' \in Errors /\ completed' = Rollback(c) /\ kept' = Keep(c) /\ UNCHANGED <<tasks, bitfield>>
<1>2. Success \/ Again \/ Over
  BY <1>1
<1> HIDE DEF Success, Again, Over
<1>3. worker[c] \in {"ended", "bodyError"} /\ c \in Busy /\ Busy \in SUBSET Chunk /\ c \notin Queued /\ c \notin bitfield
  BY <1>1 DEF QueueOK, Busy, Places
<1>4. Busy' = Busy \ {c} /\ Cardinality(Busy \ {c}) = Cardinality(Busy) - 1 /\ Cardinality(Busy \ {c}) \in Nat
  <2>1. Busy' = Busy \ {c}
    BY <1>1 DEF Busy, WorkerTypes
  <2>2. IsFiniteSet(Busy) /\ Cardinality(Busy \ {c}) \in Nat
    BY <1>3, ChunksFinite
  <2> QED
    BY <1>3, <2>1, <2>2, FS_RemoveElement
<1>5. Queued = Elements(tasks) /\ Queued' = Elements(tasks')
  BY DEF Queued, Elements
<1>6. "none" \notin Errors /\ "none" \notin Throttles \cup Retryable
  BY DEF Errors, Throttles, Retryable
<1>7. tasks' \in Seq(Chunk) /\ Once(tasks') /\ Queued' = IF Again THEN Queued \cup {c} ELSE Queued
  <2>1. CASE Again
    BY <1>3, <1>5, <2>1, AppendTask DEF Again, LoopTypes, QueueOK
  <2>2. CASE ~Again
    BY <1>2, <1>5, <2>2 DEF Success, Over, LoopTypes, QueueOK
  <2> QED
    BY <2>1, <2>2
<1>8. completed \in Nat /\ kept \in Nat /\ added[c] \in Nat /\ Rollback(c) \in Nat /\ Keep(c) \in Nat
  BY RollbackNat, KeepNat DEF LoopTypes, WorkerTypes
<1>9. LoopTypes'
  <2>1. completed' \in Nat /\ kept' \in Nat /\ firstErr' \in Errors \cup {"none"} /\ bitfield' \subseteq Chunk
    BY <1>2, <1>8 DEF Success, Again, Over, LoopTypes
  <2>2. active' \in Nat
    BY <1>1, <1>4 DEF Places
  <2> QED
    BY <1>1, <1>7, <2>1, <2>2 DEF LoopTypes, Sound
<1>10. WorkerTypes'
  BY <1>1, SMTT(30) DEF WorkerTypes
<1>11. Sound(ctl, Launches)'
  <2>1. Launches' = Launches
    BY <1>1 DEF Launches
  <2> QED
    BY <1>1, <2>1
<1>12. (\A d \in Chunk : WorkerOK(d))'
  BY <1>1 DEF WorkerOK, WorkerTypes
<1>13. QueueOK'
  BY <1>1, <1>7 DEF QueueOK
<1>14. Places'
  <2>1. active' = Cardinality(Busy')
    BY <1>1, <1>4 DEF Places
  <2>2. CASE Success
    BY <1>3, <1>4, <1>6, <1>7, <2>1, <2>2 DEF Success, Again, Places
  <2>3. CASE Again
    BY <1>3, <1>4, <1>7, <2>1, <2>3 DEF Again, Places
  <2>4. CASE Over /\ ~Again
    BY <1>3, <1>4, <1>6, <1>7, <2>1, <2>4 DEF Over, Places
  <2> QED
    BY <1>2, <2>2, <2>3, <2>4
<1>15. EndOK'
  BY <1>1 DEF EndOK
<1>16. PiecesOK'
  <2>1. outcome[c] = "none" => disk[c] = Units[c]
    BY <1>3, ChunkAssumption, SMTT(30) DEF WorkerOK, WorkerTypes
  <2> QED
    BY <1>1, <1>2, <2>1 DEF SegInv, PiecesOK, Success, Again, Over
<1>17. ProgressAccounted'
  <2> SUFFICES ASSUME firstErr' = "none" PROVE Counted' <= completed' /\ completed' <= AtMost(Counted' + kept', Total)
    BY DEF ProgressAccounted
  <2>1. firstErr = "none" /\ (Success \/ Again)
    BY <1>2, <1>6 DEF Success, Again, Over
  <2>2. Counted <= completed /\ completed <= AtMost(Counted + kept, Total)
    BY <2>1 DEF SegInv, ProgressAccounted
  <2>3. Sum(added, Busy) = Sum(added, Busy \ {c}) + added[c]
    BY <1>3, SumRemove DEF WorkerTypes
  <2>4. Sum(added', Busy') = Sum(added, Busy \ {c})
    <3>1. \A d \in Busy \ {c} : added'[d] = added[d]
      BY <1>1, <1>3 DEF WorkerTypes
    <3> QED
      BY <1>4, <3>1, SumSame
  <2>5. Sum(Units, bitfield) \in Nat /\ Sum(added, Busy \ {c}) \in Nat /\ Units[c] \in Nat /\ Total \in Nat
    BY <1>3, UnitsFinite, ChunkAssumption DEF LoopTypes, WorkerTypes, Total
  <2>6. CASE Success
    <3>1. added[c] = Units[c]
      BY <1>3, <2>6 DEF Success, WorkerOK
    <3>2. Sum(Units, bitfield \cup {c}) = Sum(Units, bitfield) + Units[c]
      BY <1>3, SumAdd, ChunkAssumption DEF LoopTypes
    <3>3. bitfield' = bitfield \cup {c} /\ completed' = completed /\ kept' = kept
      BY <2>6 DEF Success
    <3>4. Counted' = Counted
      BY <2>3, <2>4, <2>5, <3>1, <3>2, <3>3, SMTT(30) DEF Counted
    <3> QED
      BY <2>2, <3>3, <3>4
  <2>7. CASE Again
    <3>1. completed' = Rollback(c) /\ kept' = Keep(c) /\ bitfield' = bitfield
      BY <2>7 DEF Again
    <3>2. Counted' = Counted - added[c] /\ Counted' \in Nat /\ Counted \in Nat
      BY <1>8, <2>3, <2>4, <2>5, <3>1, SMTT(30) DEF Counted
    <3>3. CASE worker[c] = "bodyError"
      <4>1. Rollback(c) = completed - added[c]
        BY <1>8, <2>2, <3>2, <3>3, RollbackNat, SMTT(30)
      <4> QED
        BY <1>8, <2>2, <2>5, <3>1, <3>2, <3>3, <4>1, SMTT(30) DEF Keep, AtMost
    <3>4. CASE worker[c] # "bodyError"
      BY <1>8, <2>2, <2>5, <3>1, <3>2, <3>4, SMTT(30) DEF Rollback, Keep, AtMost
    <3> QED
      BY <3>3, <3>4
  <2> QED
    BY <2>1, <2>6, <2>7
<1> QED
  BY <1>9, <1>10, <1>11, <1>12, <1>13, <1>14, <1>15, <1>16, <1>17 DEF SegInv, TypeOK

\* Every step keeps the invariant.
LEMMA NextSeg == SegInv /\ [Next]_vars => SegInv'
<1> SUFFICES ASSUME SegInv, [Next]_vars PROVE SegInv'
  OBVIOUS
<1>1. CASE UNCHANGED vars
  <2>1. UNCHANGED <<loopVars, results, workerVars, options, completed>>
    BY <1>1 DEF vars, bounds
  <2>2. UNCHANGED <<pc, tasks, launch, active, ctl, firstErr, bitfield, kept>>
    BY <2>1 DEF loopVars
  <2>3. LoopTypes' /\ EndOK' /\ Sound(ctl, Launches)'
    BY <2>1, <2>2 DEF SegInv, TypeOK, LoopTypes, EndOK, Launches
  <2> QED
    BY <2>1, <2>2, <2>3, QuietStep
<1>2. CASE LoopStep
  BY <1>2, LoopStepsInv, StartTaskInv, ReceiveInv DEF LoopStep
<1> QED
  BY <1>1, <1>2, WorkerStepInv, LoopStepsInv DEF Next

\* The invariant holds throughout: types, chunks, progress and the launches that
\* the controller has handed out (downloadSegmented).
THEOREM TransferInvariant == Spec => []SegInv
BY InitSeg, NextSeg, PTL DEF Spec

\* Every chunk is in one place, and active counts the workers, whatever the order
\* of results, retries and changes of the limit: none is lost, and none is fetched
\* twice at once.
THEOREM NoChunkLost == Spec => []ChunksAccounted
<1>1. SegInv => ChunksAccounted
  <2> SUFFICES ASSUME SegInv PROVE Len(tasks) = Cardinality(Queued)
    BY DEF SegInv, Places, ChunksAccounted
  <2>1. PICK n \in Nat : n = Len(tasks)
    BY SMTT(30) DEF SegInv, TypeOK, LoopTypes
  <2> DEFINE f == [i \in 1..n |-> tasks[i]]
  <2>2. f \in Bijection(1..n, Queued)
    <3>1. f \in [1..n -> Queued] /\ \A q \in Queued : \E i \in 1..n : f[i] = q
      BY <2>1 DEF Queued
    <3>2. \A i, j \in 1..n : f[i] = f[j] => i = j
      BY <2>1 DEF SegInv, QueueOK, Once
    <3> HIDE DEF f
    <3> QED
      BY <3>1, <3>2 DEF Bijection, Injection, IsInjective, Surjection
  <2>3. IsFiniteSet(1..n) /\ Cardinality(1..n) = n
    BY FS_Interval, SMTT(30)
  <2>4. Cardinality(Queued) = Cardinality(1..n)
    BY <2>2, <2>3, FS_Bijection, SMTT(30) DEF ExistsBijection
  <2> QED
    BY <2>1, <2>3, <2>4
<1> QED
  BY <1>1, TransferInvariant, PTL

\* While nothing has failed, the completed length is that of the complete pieces
\* and of what the workers have counted, after any number of retries and of any
\* size: never less, and more by no more than the attempts had counted whose file
\* did not close (addCompleted, rollbackCompleted).
THEOREM ProgressIsAccounted == Spec => []ProgressAccounted
<1>1. SegInv => ProgressAccounted
  BY DEF SegInv
<1> QED
  BY <1>1, TransferInvariant, PTL

\* A transfer that returns nil has the whole resource in the file, every piece
\* marked and the whole length counted.
THEOREM SuccessIsWhole == Spec => []SuccessIsComplete
<1>1. SegInv => SuccessIsComplete
  <2> SUFFICES ASSUME SegInv, pc = "returned", firstErr = "none"
               PROVE  disk = Units /\ bitfield = Chunk /\ completed = Total
    BY DEF SuccessIsComplete
  <2>1. tasks = <<>> /\ active = 0
    BY DEF SegInv, EndOK
  <2>2. Queued = {}
    BY <2>1, SMTT(30) DEF Queued
  <2>3. Busy = {}
    <3>1. Busy \in SUBSET Chunk /\ Cardinality(Busy) = 0
      BY <2>1 DEF Busy, SegInv, Places
    <3>2. IsFiniteSet(Busy)
      BY <3>1, ChunksFinite
    <3> QED
      BY <3>1, <3>2, FS_EmptySet
  <2>4. bitfield = Chunk
    BY <2>2, <2>3 DEF SegInv, Places
  <2>5. disk = Units
    BY <2>4, ChunkAssumption, SMTT(30) DEF SegInv, PiecesOK, TypeOK, WorkerTypes
  <2>6. Sum(added, {}) = 0
    BY FS_EmptySet DEF Sum, UnitsOf
  <2>7. Total \in Nat
    BY UnitsFinite, ChunkAssumption DEF Total
  <2> QED
    BY <2>3, <2>4, <2>5, <2>6, <2>7, SMTT(30) DEF SegInv, ProgressAccounted, Counted, Total, AtMost, TypeOK, LoopTypes
<1> QED
  BY <1>1, TransferInvariant, PTL

\* The limit stays below the smallest one that the server has throttled, whatever
\* late results of earlier launches bring.
THEOREM LimitBelowRejected == Spec => []StaysBelowRejected
<1>1. SegInv => StaysBelowRejected
  BY DEF SegInv, Sound, Below, StaysBelowRejected
<1> QED
  BY <1>1, TransferInvariant, PTL

=============================================================================
