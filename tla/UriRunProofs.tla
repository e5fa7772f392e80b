---------------------------- MODULE UriRunProofs ----------------------------
(***************************************************************************)
(* Proofs about UriRun, for a resource of any size, any number of URIs,    *)
(* runs and file names, and any options: the attempts of a run, a file     *)
(* that is not the download's to touch, and the file that a successful run *)
(* leaves.  And about ResponseTimeouts, a request of an attempt, for any   *)
(* number of reads: TimeoutInv is inductive, and from it follow            *)
(* OwnTimeout, HeaderDecided and NoTimerLeft.                              *)
(***************************************************************************)
EXTENDS UriRun, ResponseTimeouts, FiniteSetTheorems, TLAPS

\* Most leaves are first-order: Zenon proves them.  The others name SMT.
USE Zenon

\* The run has chosen a file and writes it, or is about to.
Writing == {"allocate", "segments", "single", "singleReply", "copy"}

\* The run is inside downloadURI.
Inside == {"probe", "get", "getReply"} \cup Writing

\* The loop of runDownload, between two attempts: a retryable error is the last
\* one only as long as another round will follow, or has just begun.
LoopInv ==
  /\ o \in Opts /\ attempt \in Nat /\ uri \in 0..Uris
  /\ pc \in {"none", "next", "wait"} \cup Inside
  /\ pc # "none" => result = "none"
  /\ lastErr \in Errors \cup {"none"}
  /\ pc \in {"next", "wait"} /\ lastErr = "retryable" => retryRound \/ (uri = 0 /\ TriesLeft)
  /\ TriesUsed

\* The options of a run have their types.
LEMMA OptionTypes == ASSUME NEW p \in Opts PROVE p.tries \in Nat
BY OptsAssumption DEF OptionSet

\* An attempt goes on, or ends downloadURI with an error or without.
LEMMA StepsInside ==
  ASSUME RunStep, pc \in Inside
  PROVE  \/ \E e \in Errors : Fail(e)
         \/ \E way \in {"dryRun", "notModified", "body", "complete"} : Succeed(way)
         \/ UNCHANGED <<loop, o, result>> /\ pc' \in Inside
<1>1. CASE ProbeAndChoose
  BY <1>1, ZenonT(30) DEF ProbeAndChoose, Errors, Inside, Writing
<1>2. CASE Allocate \/ WriteSegment \/ SegmentsDone \/ SegmentsFail \/ Downgrade
  BY <1>2 DEF Allocate, WriteSegment, SegmentsDone, SegmentsFail, Downgrade, Inside, Writing
<1>3. CASE SingleOpen \/ SingleReply
  BY <1>3 DEF SingleOpen, SingleReply, Body, Inside, Writing
<1>4. CASE GetRequest \/ GetFails \/ GetNotModified \/ GetUnsatisfied
  BY <1>4 DEF GetRequest, GetFails, GetNotModified, GetUnsatisfied, Inside
<1>5. CASE GetBody
  BY <1>5 DEF GetBody, Body, Errors, Inside, Writing
<1>6. CASE Copy \/ CopyFails \/ CopyDone
  BY <1>6 DEF Copy, CopyFails, CopyDone, Inside, Writing
<1>7. ~(NextUri \/ Wait)
  BY DEF NextUri, Wait, Inside, Writing
<1> QED
  BY <1>1, <1>2, <1>3, <1>4, <1>5, <1>6, <1>7 DEF RunStep

\* Every step keeps the state of the loop in order.
LEMMA LoopStep == LoopInv /\ [Next]_vars => LoopInv'
<1> SUFFICES ASSUME LoopInv, [Next]_vars PROVE LoopInv'
  OBVIOUS
<1> USE DEF LoopInv
<1>t. o.tries \in Nat
  BY OptionTypes
<1>1. CASE Start
  <2>1. o' \in Opts
    BY <1>1 DEF Start
  <2> QED
    BY <1>1, <2>1, OptionTypes, SizeAssumption, SMTT(30) DEF Start, TriesUsed
<1>2. CASE NextUri
  <2>1. CASE StopHere
    BY <1>2, <2>1 DEF NextUri, Return, loop, TriesUsed
  <2>2. CASE ~StopHere /\ TryNow
    BY <1>2, <1>t, <2>2, SizeAssumption, SMTT(30)
       DEF NextUri, TryNow, TriesLeft, OneMore, TriesUsed, Inside
  <2>3. CASE ~StopHere /\ ~TryNow /\ retryRound /\ TriesLeft
    BY <1>2, <1>t, <2>3, SizeAssumption, SMTT(30) DEF NextUri, TriesLeft, TriesUsed
  <2>4. CASE ~StopHere /\ ~TryNow /\ ~(retryRound /\ TriesLeft)
    BY <1>2, <1>t, <2>4, SizeAssumption, SMTT(30) DEF NextUri, Return, TryNow, TriesLeft, TriesUsed, loop
  <2> QED
    BY <2>1, <2>2, <2>3, <2>4
<1>3. CASE Wait
  BY <1>3 DEF Wait, Return, TriesLeft, TriesUsed, loop
<1>4. CASE RunStep /\ pc \in Inside
  <2>1. CASE \E e \in Errors : Fail(e)
    BY <1>4, <2>1 DEF Fail, Return, TriesLeft, TriesUsed, Inside, Writing, Errors
  <2>2. CASE \E way \in {"dryRun", "notModified", "body", "complete"} : Succeed(way)
    BY <1>4, <2>2 DEF Succeed, Return, TriesUsed, loop
  <2>3. CASE UNCHANGED <<loop, o, result>> /\ pc' \in Inside
    BY <1>4, <2>3 DEF TriesUsed, Inside, Writing, loop
  <2> QED
    BY <1>4, <2>1, <2>2, <2>3, StepsInside
<1>5. CASE RunStep /\ pc \notin Inside
  BY <1>2, <1>3, <1>5
     DEF RunStep, ProbeAndChoose, Allocate, WriteSegment, SegmentsDone, SegmentsFail, Downgrade, SingleOpen,
         SingleReply, GetRequest, GetFails, GetNotModified, GetUnsatisfied, GetBody, Copy, CopyFails,
         CopyDone, Inside, Writing
<1>6. CASE Cancel \/ Restart \/ UNCHANGED vars
  BY <1>6 DEF Cancel, Restart, vars, loop, TriesLeft, TriesUsed
<1> QED
  BY <1>1, <1>4, <1>5, <1>6 DEF Next

\* max-tries bounds the attempts of every run, and no run gives up on a retryable
\* error before it has used them, whatever the order of errors over the URIs.
THEOREM AllTriesUsed == Spec => []TriesUsed
<1>1. Init => LoopInv
  BY OptionTypes, SizeAssumption, SMTT(30) DEF Init, LoopInv, TriesUsed
<1> QED
  BY <1>1, LoopStep, PTL DEF Spec, LoopInv

----------------------------------------------------------------------------
\* Types of the files and of the locals of a transfer; the file that is written
\* is the one that the download reports.
FileTypes ==
  /\ file \in [Suffix -> Seq(Int)] /\ path \in Suffix \cup {NoName} /\ target \in Suffix
  /\ start \in Nat /\ IsFiniteSet(done)
  /\ pc = "getReply" => target = Provisional
  /\ pc \in Writing => path = target

\* File 0 was there before the download and is not to be overwritten or continued.
Foreign == before # NoFile /\ ~o.overwrite /\ ~o.continue

\* A run does not write a foreign file, and reports it only if nothing is to be
\* transferred.
ForeignInv ==
  Foreign =>
    /\ file[0] = before /\ start = 0 /\ created = FALSE
    /\ path = 0 => result = "ok"
    /\ pc \in Writing => target # 0

\* The first blocks of the resource.
Beginning(c) == Len(c) <= Size /\ \A i \in 1..Len(c) : c[i] = i

\* A download that is to continue a file is given one that it can continue.
Honest == o.continue => before = NoFile \/ Beginning(before)

\* What a later attempt may find: the beginning of the resource, or, after a
\* segmented transfer, a file of the final size whose blocks are not all there,
\* which only the probing strategies ever meet.
KeptBlocks ==
  o.continue =>
    \A n \in Suffix : Exists(n) => Beginning(file[n]) \/ (Len(file[n]) = Size /\ ~SingleGet(o))

\* What the transfer under way has in its file.
TransferBlocks ==
  /\ pc = "copy" => Exists(target) /\ Beginning(file[target]) /\ done = 1..Len(file[target])
  /\ pc = "segments" => /\ Len(file[target]) = Size /\ done \subseteq Blocks
                        /\ \A i \in done : file[target][i] = i
  /\ pc = "singleReply" /\ start > 0 => Exists(target) /\ Beginning(file[target]) /\ start = Len(file[target])
  /\ pc = "getReply" /\ start > 0 => o.continue /\ Exists(target) /\ start = Len(file[target]) /\ created = FALSE
  /\ pc \in {"get", "getReply"} => SingleGet(o)
  /\ pc \in {"probe", "allocate", "segments"} => ~SingleGet(o)

ContentInv == Honest => KeptBlocks /\ TransferBlocks /\ CompleteFile

FilesInv == FileTypes /\ ForeignInv /\ ContentInv

FileInv == LoopInv /\ FilesInv

\* A function on 1..n is a sequence of length n.
LEMMA FunctionIsSeq ==
  ASSUME NEW n \in Nat, NEW f \in [1..n -> Int]
  PROVE  f \in Seq(Int) /\ Len(f) = n
BY SMTT(30)

\* The empty file and no file, as sequences.
LEMMA SmallFiles == <<>> \in Seq(Int) /\ NoFile \in Seq(Int) /\ Len(<<>>) = 0 /\ <<>> # NoFile
BY SMTT(30) DEF NoFile

\* One file is written, every other one keeps what it holds.
LEMMA SetFile ==
  ASSUME FileTypes, NEW n \in Suffix, NEW c \in Seq(Int), Set(n, c)
  PROVE  /\ file' \in [Suffix -> Seq(Int)] /\ file'[n] = c
         /\ \A m \in Suffix \ {n} : file'[m] = file[m]
BY DEF FileTypes, Set

\* What is written over a file leaves one that a later attempt can continue,
\* so every file still is.
LEMMA SetKeepsBlocks ==
  ASSUME FileTypes, KeptBlocks, NEW n \in Suffix, NEW c \in Seq(Int), Set(n, c), o' = o,
         o.continue => c = NoFile \/ Beginning(c) \/ (Len(c) = Size /\ ~SingleGet(o))
  PROVE  KeptBlocks'
<1>1. SUFFICES ASSUME o.continue, NEW m \in Suffix, file'[m] # NoFile
               PROVE  Beginning(file'[m]) \/ (Len(file'[m]) = Size /\ ~SingleGet(o))
  BY DEF KeptBlocks, Exists, Beginning, SingleGet
<1>2. CASE m = n
  BY <1>1, <1>2, SetFile
<1>3. CASE m # n
  BY <1>1, <1>3, SetFile DEF KeptBlocks, Exists
<1> QED BY <1>2, <1>3

LEMMA SameFilesKeepBlocks ==
  ASSUME KeptBlocks, file' = file, o' = o
  PROVE  KeptBlocks'
BY DEF KeptBlocks, Exists, Beginning, SingleGet

\* downloadURI returns an error.
LEMMA AttemptFails ==
  ASSUME FileInv, pc \in Inside, NEW e \in Errors, Fail(e),
         file' \in [Suffix -> Seq(Int)], path' \in Suffix \cup {NoName},
         Foreign => file'[0] = before /\ path' # 0, Honest => KeptBlocks'
  PROVE  FilesInv'
<1>1. /\ pc' \in {"none", "next", "wait"} /\ target' = 0 /\ start' = 0 /\ created' = FALSE /\ done' = {}
      /\ before' = before /\ o' = o /\ result' # "ok"
  BY DEF Fail, Return, NoTransfer, FileInv, LoopInv, Errors, Inside, Writing
<1>2. FileTypes'
  BY <1>1, NamesAssumption, FS_EmptySet DEF FileTypes, Writing
<1>3. ForeignInv'
  BY <1>1 DEF ForeignInv, Foreign, Writing
<1>4. ContentInv'
  BY <1>1 DEF ContentInv, Honest, Beginning, TransferBlocks, CompleteFile
<1> QED
  BY <1>2, <1>3, <1>4 DEF FilesInv

\* downloadURI returns nil.
LEMMA AttemptSucceeds ==
  ASSUME FileInv, NEW way, Succeed(way),
         file' \in [Suffix -> Seq(Int)], path' \in Suffix,
         Foreign => file'[0] = before, Honest => KeptBlocks',
         Honest /\ way \in {"body", "complete"} => file'[path'] = Right
  PROVE  FilesInv'
<1>1. /\ pc' = "none" /\ target' = 0 /\ start' = 0 /\ created' = FALSE /\ done' = {}
      /\ before' = before /\ o' = o /\ result' = "ok" /\ how' = way
  BY DEF Succeed, Return, NoTransfer
<1>2. FileTypes'
  BY <1>1, NamesAssumption, FS_EmptySet DEF FileTypes, Writing
<1>3. ForeignInv'
  BY <1>1 DEF ForeignInv, Foreign, Writing
<1>4. ContentInv'
  BY <1>1 DEF ContentInv, Honest, Beginning, TransferBlocks, CompleteFile, Right, Blocks
<1> QED
  BY <1>2, <1>3, <1>4 DEF FilesInv

\* An attempt fails and leaves the files as they are.
LEMMA AttemptFailsAlone ==
  ASSUME FileInv, pc \in Inside, NEW e \in Errors, Fail(e), UNCHANGED <<file, path>>
  PROVE  FilesInv'
<1>1. o' = o /\ result = "none"
  BY DEF Fail, FileInv, LoopInv, Inside, Writing
<1>2. Foreign => file[0] = before /\ path # 0
  BY <1>1 DEF FileInv, FilesInv, ForeignInv
<1>3. Honest => KeptBlocks'
  BY <1>1, SameFilesKeepBlocks DEF FileInv, FilesInv, ContentInv
<1> QED
  BY <1>2, <1>3, AttemptFails DEF FileInv, FilesInv, FileTypes

\* The names that resolveExistingOutputPath can give: never a foreign file.
LEMMA ResolveNames ==
  ASSUME NEW resume \in BOOLEAN
  PROVE  /\ Resolve(resume) \subseteq Suffix
         /\ Exists(0) /\ ~o.overwrite /\ ~resume => 0 \notin Resolve(resume)
BY NamesAssumption DEF Resolve, NextAvailable

\* An attempt goes on: the files and the locals as they are, or as the step says.
LEMMA AttemptGoesOn ==
  ASSUME FileInv, pc' \in Inside, UNCHANGED <<before, o, result>>, pc \in Inside,
         FileTypes', Foreign => /\ file'[0] = before /\ start' = 0 /\ created' = FALSE
                                /\ path' # 0 /\ (pc' \in Writing => target' # 0),
         Honest => KeptBlocks' /\ TransferBlocks'
  PROVE  FilesInv'
<1>1. result = "none"
  BY DEF FileInv, LoopInv, Inside, Writing
<1> QED
  BY <1>1 DEF FilesInv, ForeignInv, Foreign, ContentInv, Honest, Beginning, CompleteFile

\* probe, and the choice of the file and the strategy.
LEMMA ProbeInv ==
  ASSUME FileInv, ProbeAndChoose
  PROVE  FilesInv'
<1>1. pc = "probe" /\ pc \in Inside /\ result = "none"
  BY DEF ProbeAndChoose, Inside, FileInv, LoopInv
<1>2. CASE (\E e \in Errors : Fail(e)) /\ UNCHANGED <<file, path>>
  BY <1>1, <1>2, AttemptFailsAlone
<1>3. CASE (\E way \in {"dryRun", "notModified"} : Succeed(way)) /\ path' = 0 /\ UNCHANGED file
  <2>1. PICK way \in {"dryRun", "notModified"} : Succeed(way)
    BY <1>3
  <2>2. o' = o
    BY <2>1 DEF Succeed
  <2>3. Honest => KeptBlocks'
    BY <1>3, <2>2, SameFilesKeepBlocks DEF FileInv, FilesInv, ContentInv
  <2> QED
    BY <1>3, <2>1, <2>3, AttemptSucceeds, NamesAssumption DEF FileInv, FilesInv, FileTypes, ForeignInv
<1>4. ASSUME NEW m, NEW segmented \in BOOLEAN,
             target' \in IF path # NoName THEN {path} ELSE Resolve(CanResume(0, m, segmented)),
             path' = target', pc' = IF segmented THEN "allocate" ELSE "single",
             UNCHANGED <<file, result, before, o, created, start, done>>
      PROVE  FilesInv'
  <2>1. pc' \in {"allocate", "single"} /\ pc' \in Inside /\ pc' \in Writing
    BY <1>4 DEF Inside, Writing
  <2>2. CanResume(0, m, segmented) \in BOOLEAN /\ (CanResume(0, m, segmented) => o.continue)
    BY DEF CanResume
  <2>3. target' \in Suffix
    BY <1>4, <2>2, ResolveNames DEF FileInv, FilesInv, FileTypes
  <2>4. FileTypes'
    BY <1>4, <2>1, <2>3 DEF FileInv, FilesInv, FileTypes, Writing
  <2>5. Foreign => file[0] = before /\ start = 0 /\ created = FALSE /\ target' # 0
    BY <1>1, <1>4, <2>2, ResolveNames DEF FileInv, FilesInv, ForeignInv, Foreign, Exists
  <2>6. Honest => KeptBlocks' /\ TransferBlocks'
    BY <1>1, <1>4, <2>1, SameFilesKeepBlocks DEF FileInv, FilesInv, ContentInv, TransferBlocks, SingleGet
  <2> QED
    BY <1>1, <1>4, <2>1, <2>4, <2>5, <2>6, AttemptGoesOn
<1>5. PICK m :
        IF m.kind = "error"
        THEN (\E e \in Errors : Fail(e)) /\ UNCHANGED <<file, path>>
        ELSE IF m.kind = "notModified" \/ o.dryRun
        THEN (\E way \in {"dryRun", "notModified"} : Succeed(way)) /\ path' = 0 /\ UNCHANGED file
        ELSE \E segmented \in BOOLEAN :
             \/ Fail("fatal") /\ UNCHANGED <<file, path>>
             \/ /\ target' \in IF path # NoName THEN {path} ELSE Resolve(CanResume(0, m, segmented))
                /\ path' = target' /\ pc' = IF segmented THEN "allocate" ELSE "single"
                /\ UNCHANGED <<file, result, before, o, created, start, done>>
  BY ZenonT(30) DEF ProbeAndChoose
<1>6. "fatal" \in Errors
  BY DEF Errors
<1> QED
  BY <1>2, <1>3, <1>4, <1>5, <1>6

\* A file with every block in its place is the resource.
LEMMA IsRight ==
  ASSUME NEW c \in Seq(Int), Len(c) = Size, \A i \in 1..Size : c[i] = i
  PROVE  c = Right
<1>1. c \in [1..Size -> Int]
  BY SMTT(30)
<1> QED
  BY <1>1 DEF Right, Blocks

\* downloadSegmented allocates the file, writes its blocks in any order, and ends.
LEMMA SegmentsInv ==
  ASSUME FileInv, Allocate \/ WriteSegment \/ SegmentsDone \/ SegmentsFail \/ Downgrade
  PROVE  FilesInv'
<1>0. pc \in {"allocate", "segments"} /\ pc \in Inside /\ pc \in Writing /\ result = "none"
  BY DEF Allocate, WriteSegment, SegmentsDone, SegmentsFail, Downgrade, Inside, Writing, FileInv, LoopInv
<1>t. target \in Suffix /\ path = target /\ file[target] \in Seq(Int) /\ (Foreign => target # 0)
  BY <1>0 DEF FileInv, FilesInv, FileTypes, ForeignInv
<1>s. Size \in Nat \ {0}
  BY SizeAssumption
<1>1. CASE Allocate
  <2> DEFINE c == [i \in Blocks |-> IF i <= Length(target) THEN file[target][i] ELSE 0]
  <2>1. c \in Seq(Int) /\ Len(c) = Size
    <3>1. c \in [1..Size -> Int]
      BY <1>t, <1>s, SMTT(30) DEF Blocks, Length
    <3> QED
      BY <1>s, <3>1, FunctionIsSeq
  <2>2. /\ Set(target, c) /\ pc' = "segments" /\ done' = {} /\ pc = "allocate"
        /\ UNCHANGED <<path, result, before, o, target, created, start>>
    BY <1>1 DEF Allocate, loop
  <2> HIDE DEF c
  <2>3. /\ file' \in [Suffix -> Seq(Int)] /\ file'[target] = c
        /\ \A n \in Suffix \ {target} : file'[n] = file[n]
    BY <1>t, <2>1, <2>2, SetFile DEF FileInv, FilesInv
  <2>4. FileTypes'
    BY <1>t, <2>2, <2>3, FS_EmptySet DEF FileInv, FilesInv, FileTypes, Writing
  <2>5. Honest => KeptBlocks'
    BY <1>t, <2>1, <2>2, SetKeepsBlocks DEF FileInv, FilesInv, ContentInv, TransferBlocks
  <2>6. Honest => TransferBlocks'
    BY <2>1, <2>2, <2>3 DEF FileInv, FilesInv, ContentInv, TransferBlocks, SingleGet
  <2>7. Foreign => file'[0] = before /\ start = 0 /\ created = FALSE /\ path # 0
    BY <1>t, <2>3, NamesAssumption DEF FileInv, FilesInv, ForeignInv
  <2> QED
    BY <1>0, <1>t, <2>2, <2>4, <2>5, <2>6, <2>7, AttemptGoesOn DEF Inside, Writing
<1>2. CASE WriteSegment
  <2>1. PICK i \in Blocks :
          /\ Set(target, [file[target] EXCEPT ![i] = i]) /\ done' = done \cup {i}
          /\ UNCHANGED <<path, result, before, o, pc, target, created, start>> /\ pc = "segments"
    BY <1>2 DEF WriteSegment
  <2> DEFINE c == [file[target] EXCEPT ![i] = i]
  <2>2. /\ c \in Seq(Int) /\ Len(c) = Len(file[target])
        /\ i \in 1..Len(file[target]) => c[i] = i
        /\ \A j \in 1..Len(file[target]) : j # i => c[j] = file[target][j]
    <3>1. file[target] \in [1..Len(file[target]) -> Int] /\ Len(file[target]) \in Nat /\ i \in Int
      BY <1>t, <1>s, SMTT(30) DEF Blocks
    <3>2. c \in [1..Len(file[target]) -> Int]
      BY <3>1
    <3> QED
      BY <3>1, <3>2, FunctionIsSeq
  <2>3. Set(target, c)
    BY <2>1
  <2> HIDE DEF c
  <2>4. /\ file' \in [Suffix -> Seq(Int)] /\ file'[target] = c
        /\ \A n \in Suffix \ {target} : file'[n] = file[n]
    BY <1>t, <2>2, <2>3, SetFile DEF FileInv, FilesInv
  <2>5. FileTypes'
    BY <1>t, <2>1, <2>4, FS_AddElement DEF FileInv, FilesInv, FileTypes, Writing
  <2>6. Honest => KeptBlocks'
    BY <1>t, <2>1, <2>2, <2>3, SetKeepsBlocks DEF FileInv, FilesInv, ContentInv, TransferBlocks
  <2>7. Honest => TransferBlocks'
    BY <1>s, <2>1, <2>2, <2>4 DEF FileInv, FilesInv, ContentInv, TransferBlocks, SingleGet, Blocks
  <2>8. Foreign => file'[0] = before /\ start = 0 /\ created = FALSE /\ path # 0
    BY <1>t, <2>4, NamesAssumption DEF FileInv, FilesInv, ForeignInv
  <2> QED
    BY <1>0, <1>t, <2>1, <2>5, <2>6, <2>7, <2>8, AttemptGoesOn
<1>3. CASE SegmentsDone
  <2>1. pc = "segments" /\ done = Blocks /\ Succeed("body") /\ o' = o /\ UNCHANGED <<file, path>>
    BY <1>3 DEF SegmentsDone, Succeed
  <2>2. Honest => file[path] = Right
    BY <1>t, <2>1, IsRight DEF FileInv, FilesInv, ContentInv, TransferBlocks, Blocks
  <2>3. Honest => KeptBlocks'
    BY <2>1, SameFilesKeepBlocks DEF FileInv, FilesInv, ContentInv
  <2> QED
    BY <1>t, <2>1, <2>2, <2>3, AttemptSucceeds DEF FileInv, FilesInv, FileTypes, ForeignInv
<1>4. CASE SegmentsFail
  BY <1>0, <1>4, AttemptFailsAlone DEF SegmentsFail
<1>5. CASE Downgrade
  <2>1. pc' = "single" /\ UNCHANGED <<file, path, result, before, o, target, created, start, done>>
    BY <1>5 DEF Downgrade
  <2>2. FileTypes'
    BY <1>t, <2>1 DEF FileInv, FilesInv, FileTypes
  <2>3. Honest => KeptBlocks' /\ TransferBlocks'
    BY <2>1, SameFilesKeepBlocks DEF FileInv, FilesInv, ContentInv, TransferBlocks
  <2>4. Foreign => file[0] = before /\ start = 0 /\ created = FALSE /\ path # 0
    BY <1>t DEF FileInv, FilesInv, ForeignInv
  <2> QED
    BY <1>0, <1>t, <2>1, <2>2, <2>3, <2>4, AttemptGoesOn DEF Inside, Writing
<1> QED
  BY <1>1, <1>2, <1>3, <1>4, <1>5

\* A step of a single connection: one file is written, and the run goes on.
LEMMA OneFileGoesOn ==
  ASSUME FileInv, pc \in Inside, pc' \in {"singleReply", "getReply", "copy"}, UNCHANGED <<before, o, result>>,
         NEW c \in Seq(Int), target' \in Suffix, Set(target', c), path' \in Suffix \cup {NoName},
         start' \in Nat, IsFiniteSet(done'),
         IF pc' = "getReply" THEN UNCHANGED path /\ target' = Provisional ELSE path' = target',
         Foreign => /\ start' = 0 /\ created' = FALSE /\ path' # 0
                    /\ target' # 0 \/ (pc' = "getReply" /\ c = file[0]),
         Honest /\ o.continue => c = NoFile \/ Beginning(c) \/ (Len(c) = Size /\ ~SingleGet(o)),
         Honest => /\ pc' = "copy" => c # NoFile /\ Beginning(c) /\ done' = 1..Len(c)
                   /\ pc' = "singleReply" /\ start' > 0 => c # NoFile /\ Beginning(c) /\ start' = Len(c)
                   /\ pc' = "getReply" => SingleGet(o)
                   /\ pc' = "getReply" /\ start' > 0
                        => o.continue /\ c # NoFile /\ start' = Len(c) /\ created' = FALSE
  PROVE  FilesInv'
<1>1. PICK n \in Suffix : n = target'
  OBVIOUS
<1>2. /\ file' \in [Suffix -> Seq(Int)] /\ file'[n] = c
      /\ \A m \in Suffix \ {n} : file'[m] = file[m]
  BY <1>1, SetFile DEF FileInv, FilesInv
<1>3. FileTypes'
  BY <1>1, <1>2 DEF FileTypes, Provisional, Writing
<1>4. Honest => KeptBlocks'
  BY <1>1, SetKeepsBlocks DEF FileInv, FilesInv, ContentInv
<1>5. Honest => TransferBlocks'
  BY <1>1, <1>2 DEF TransferBlocks, Exists, Beginning, SingleGet
<1>6. Foreign => file'[0] = before
  BY <1>1, <1>2, NamesAssumption DEF FileInv, FilesInv, ForeignInv
<1>7. pc' = "getReply" => pc' \notin Writing
  BY DEF Writing
<1>8. pc' \in Inside
  BY DEF Inside, Writing
<1> QED
  BY <1>3, <1>4, <1>5, <1>6, <1>7, <1>8, AttemptGoesOn

\* downloadSingle: the file is emptied or kept, and the reply decides again.
LEMMA SingleInv ==
  ASSUME FileInv, SingleOpen \/ SingleReply
  PROVE  FilesInv'
<1>0. pc \in {"single", "singleReply"} /\ pc \in Inside /\ pc \in Writing /\ result = "none"
  BY DEF SingleOpen, SingleReply, Inside, Writing, FileInv, LoopInv
<1>t. target \in Suffix /\ path = target /\ file[target] \in Seq(Int) /\ Len(file[target]) \in Nat /\ start \in Nat
  BY <1>0, SMTT(30) DEF FileInv, FilesInv, FileTypes
<1>f. Foreign => target # 0 /\ start = 0 /\ created = FALSE
  BY <1>0 DEF FileInv, FilesInv, ForeignInv
<1>e. Beginning(<<>>)
  BY SizeAssumption, SmallFiles, SMTT(30) DEF Beginning
<1>d. \A n \in Nat : IsFiniteSet(1..n)
  BY FS_Interval, SMTT(30)
<1>1. CASE SingleOpen
  <2>1. /\ start' = IF o.continue /\ meta.known /\ meta.ranges /\ Length(target) < Size THEN Length(target) ELSE 0
        /\ Set(target, IF start' > 0 THEN file[target] ELSE <<>>)
        /\ pc' = "singleReply"
        /\ UNCHANGED <<path, result, before, o, target, created, done>>
    BY <1>1 DEF SingleOpen
  <2>2. start' \in Nat /\ (start' > 0 => o.continue /\ Exists(target) /\ start' = Len(file[target]) /\ start' < Size)
    BY <1>t, <2>1, SMTT(30) DEF Length
  <2>3. PICK c \in Seq(Int) : c = IF start' > 0 THEN file[target] ELSE <<>>
    BY <1>t, SmallFiles
  <2>4. Set(target', c) /\ target' \in Suffix /\ path' = target'
    BY <1>t, <2>1, <2>3
  <2>5. Honest => c # NoFile /\ Beginning(c) /\ (start' > 0 => start' = Len(c))
    <3>1. CASE start' > 0
      BY <1>t, <2>2, <2>3, <3>1, SMTT(30) DEF FileInv, FilesInv, ContentInv, KeptBlocks, Exists
    <3>2. CASE ~(start' > 0)
      BY <1>e, <2>3, <3>2, SmallFiles
    <3> QED
      BY <3>1, <3>2
  <2>6. Foreign => start' = 0 /\ created' = FALSE
    BY <1>f, <2>1, <2>2 DEF Foreign
  <2>7. IsFiniteSet(done')
    BY <2>1 DEF FileInv, FilesInv, FileTypes
  <2> QED
    BY <1>0, <1>t, <1>f, <2>1, <2>2, <2>4, <2>5, <2>6, <2>7, OneFileGoesOn
<1>2. CASE SingleReply
  <2>1. CASE (\E e \in Errors : Fail(e)) /\ UNCHANGED <<file, path>>
    BY <1>0, <2>1, AttemptFailsAlone
  <2>2. CASE /\ start > 0 /\ Body(start)
             /\ UNCHANGED <<file, path, result, before, o, target, created, start>>
    <3>1. Set(target', file[target]) /\ target' \in Suffix
      BY <1>t, <2>2 DEF Set, FileInv, FilesInv, FileTypes
    <3>2. pc' = "copy" /\ done' = 1..start /\ IsFiniteSet(done')
      BY <1>t, <1>d, <2>2 DEF Body
    <3>3. pc = "singleReply"
      BY <1>2 DEF SingleReply
    <3>4. Honest => file[target] # NoFile /\ Beginning(file[target]) /\ start = Len(file[target])
      BY <2>2, <3>3 DEF FileInv, FilesInv, ContentInv, TransferBlocks, Exists
    <3> QED
      BY <1>0, <1>t, <1>f, <2>2, <3>1, <3>2, <3>4, OneFileGoesOn
  <2>3. CASE Set(target, <<>>) /\ Body(0) /\ UNCHANGED <<path, result, before, o, target, created, start>>
    <3>1. pc' = "copy" /\ done' = 1..0 /\ IsFiniteSet(done') /\ Set(target', <<>>)
      BY <1>d, <2>3 DEF Body
    <3> QED
      BY <1>0, <1>t, <1>f, <1>e, <2>3, <3>1, SmallFiles, OneFileGoesOn
  <2> QED
    BY <1>2, <2>1, <2>2, <2>3 DEF SingleReply
<1> QED
  BY <1>1, <1>2

\* copyWithProgressBuffer: the body is appended block by block.
LEMMA CopyInv ==
  ASSUME FileInv, Copy \/ CopyFails \/ CopyDone
  PROVE  FilesInv'
<1>0. pc = "copy" /\ pc \in Inside /\ pc \in Writing
  BY DEF Copy, CopyFails, CopyDone, Inside, Writing
<1>t. /\ target \in Suffix /\ path = target /\ file[target] \in Seq(Int) /\ Len(file[target]) \in Nat
      /\ start \in Nat /\ IsFiniteSet(done)
  BY <1>0, SMTT(30) DEF FileInv, FilesInv, FileTypes
<1>f. Foreign => target # 0 /\ start = 0 /\ created = FALSE
  BY <1>0 DEF FileInv, FilesInv, ForeignInv
<1>b. Honest => Beginning(file[target]) /\ done = 1..Len(file[target])
  BY <1>0 DEF FileInv, FilesInv, ContentInv, TransferBlocks
<1>1. CASE Copy
  <2> DEFINE next == Cardinality(done) + 1
             c == Append(file[target], next)
  <2>1. /\ done # Blocks /\ Set(target, c) /\ done' = done \cup {next}
        /\ UNCHANGED <<path, result, before, pc, o, target, created, start>>
    BY <1>1 DEF Copy
  <2>2. next \in Nat /\ next > 0 /\ IsFiniteSet(done')
    <3>1. Cardinality(done) \in Nat
      BY <1>t, FS_CardinalityType
    <3>2. IsFiniteSet(done \cup {next})
      BY <1>t, FS_AddElement
    <3> QED
      BY <2>1, <3>1, <3>2, SMTT(30)
  <2>3. /\ c \in Seq(Int) /\ Len(c) = Len(file[target]) + 1 /\ c[Len(file[target]) + 1] = next
        /\ \A i \in 1..Len(file[target]) : c[i] = file[target][i]
    BY <1>t, <2>2, SMTT(30)
  <2>4. Honest => c # NoFile /\ Beginning(c) /\ done' = 1..Len(c)
    <3> SUFFICES ASSUME Honest PROVE c # NoFile /\ Beginning(c) /\ done' = 1..Len(c)
      OBVIOUS
    <3>0. PICK n \in Nat : n = Len(file[target])
      BY <1>t
    <3>1. next = n + 1
      <4>1. Cardinality(1..n) = n
        BY FS_Interval, SMTT(30)
      <4> QED
        BY <1>b, <3>0, <4>1
    <3>2. Len(file[target]) < Size
      BY <1>t, <1>b, <2>1, SizeAssumption, SMTT(30) DEF Beginning, Blocks
    <3> HIDE DEF next, c
    <3>3. Beginning(c)
      <4>1. n + 1 <= Size /\ Len(c) = n + 1 /\ \A i \in 1..n : file[target][i] = i
        BY <1>b, <2>3, <3>0, <3>2, SizeAssumption, SMTT(30) DEF Beginning
      <4>2. \A i \in 1..(n + 1) : c[i] = i
        BY <2>3, <3>0, <3>1, <4>1, SMTT(30)
      <4> QED
        BY <4>1, <4>2 DEF Beginning
    <3>4. done' = 1..Len(c)
      BY <1>b, <2>1, <2>3, <3>0, <3>1, SMTT(30)
    <3>5. c[1] = 1 /\ Len(c) > 0
      BY <1>t, <2>3, <3>3, SMTT(30) DEF Beginning
    <3>6. c # NoFile
      BY <3>5, SMTT(30) DEF NoFile
    <3> QED
      BY <3>3, <3>4, <3>6
  <2> HIDE DEF next, c
  <2>5. Set(target', c)
    BY <2>1
  <2> QED
    BY <1>0, <1>t, <1>f, <2>1, <2>2, <2>3, <2>4, <2>5, OneFileGoesOn
<1>2. CASE CopyFails
  BY <1>0, <1>2, AttemptFailsAlone DEF CopyFails
<1>3. CASE CopyDone
  <2>1. done = Blocks /\ Succeed("body") /\ o' = o /\ UNCHANGED <<file, path>>
    BY <1>3 DEF CopyDone, Succeed
  <2>2. Honest => Len(file[target]) = Size
    BY <1>t, <1>b, <2>1, SizeAssumption, SMTT(30) DEF Beginning, Blocks
  <2>3. Honest => file[path] = Right
    BY <1>t, <1>b, <2>2, IsRight DEF Beginning
  <2>4. Honest => KeptBlocks'
    BY <2>1, SameFilesKeepBlocks DEF FileInv, FilesInv, ContentInv
  <2> QED
    BY <1>t, <2>1, <2>3, <2>4, AttemptSucceeds DEF FileInv, FilesInv, FileTypes, ForeignInv
<1> QED
  BY <1>1, <1>2, <1>3

\* downloadSingleWithGETProbe: the request may create the file, and a reply
\* without a body leaves none that it made.
LEMMA GetInv ==
  ASSUME FileInv, GetRequest \/ GetFails \/ GetNotModified \/ GetUnsatisfied
  PROVE  FilesInv'
<1>0. pc \in {"get", "getReply"} /\ pc \in Inside /\ result = "none"
  BY DEF GetRequest, GetFails, GetNotModified, GetUnsatisfied, Inside, FileInv, LoopInv
<1>t. /\ target \in Suffix /\ path \in Suffix \cup {NoName} /\ Provisional \in Suffix /\ start \in Nat
      /\ file \in [Suffix -> Seq(Int)] /\ IsFiniteSet(done)
  BY NamesAssumption DEF FileInv, FilesInv, FileTypes, Provisional
<1>f. Foreign => file[0] = before /\ path # 0 /\ start = 0 /\ created = FALSE
  BY <1>0 DEF FileInv, FilesInv, ForeignInv
<1>1. CASE GetRequest
  <2> DEFINE t == Provisional
  <2>1. /\ target' = t /\ created' = (CreateFirst /\ ~Exists(t))
        /\ start' = IF o.continue THEN Length(t) ELSE 0
        /\ IF created' THEN Set(t, <<>>) ELSE UNCHANGED file
        /\ pc' = "getReply" /\ pc = "get"
        /\ UNCHANGED <<path, result, before, o, done>>
    BY <1>1 DEF GetRequest
  <2>2. PICK c \in Seq(Int) : c = IF created' THEN <<>> ELSE file[t]
    BY <1>t, SmallFiles
  <2>3. t \in Suffix /\ file[t] \in Seq(Int) /\ Len(file[t]) \in Nat
    BY <1>t, SMTT(30)
  <2>4. Set(target', c)
    BY <1>t, <2>1, <2>2, <2>3 DEF Set
  <2>5. start' \in Nat /\ (start' > 0 => o.continue /\ Exists(t) /\ start' = Len(file[t]) /\ created' = FALSE)
    <3>1. start' \in Nat /\ (start' > 0 => o.continue /\ Exists(t) /\ start' = Len(file[t]))
      BY <2>1, <2>3, SMTT(30) DEF Length
    <3>2. Exists(t) => created' = FALSE
      BY <2>1
    <3> QED
      BY <3>1, <3>2
  <2>6. Foreign => start' = 0 /\ created' = FALSE /\ (target' # 0 \/ c = file[0])
    BY <2>1, <2>2 DEF Foreign, CreateFirst
  <2>7. Honest => SingleGet(o)
    BY <2>1 DEF FileInv, FilesInv, ContentInv, TransferBlocks
  <2>8. Honest /\ o.continue => c = NoFile \/ Beginning(c) \/ (Len(c) = Size /\ ~SingleGet(o))
    <3>1. Beginning(<<>>)
      BY SizeAssumption, SmallFiles, SMTT(30) DEF Beginning
    <3> QED
      BY <2>2, <2>3, <3>1 DEF FileInv, FilesInv, ContentInv, KeptBlocks, Exists
  <2>9. start' > 0 => c # NoFile /\ start' = Len(c)
    BY <2>2, <2>5 DEF Exists
  <2> QED
    BY <1>0, <1>t, <1>f, <2>1, <2>3, <2>4, <2>5, <2>6, <2>7, <2>8, <2>9, OneFileGoesOn
<1>2. ASSUME DropCreated, o' = o
      PROVE  /\ file' \in [Suffix -> Seq(Int)] /\ (Foreign => file'[0] = before)
             /\ Honest => KeptBlocks'
             /\ created = FALSE => file' = file
  <2>1. CASE created
    BY <1>t, <1>2, <1>f, <2>1, SmallFiles, SetFile, SetKeepsBlocks
       DEF DropCreated, FileInv, FilesInv, ContentInv
  <2>2. CASE ~created
    BY <1>t, <1>2, <1>f, <2>2, SameFilesKeepBlocks DEF DropCreated, FileInv, FilesInv, ContentInv
  <2> QED
    BY <2>1, <2>2
<1>3. CASE GetFails
  <2>1. PICK e \in Errors : Fail(e)
    BY <1>3 DEF GetFails
  <2>2. DropCreated /\ path' = path /\ o' = o
    BY <1>3, <2>1 DEF GetFails, Fail
  <2> QED
    BY <1>0, <1>t, <1>f, <1>2, <2>1, <2>2, AttemptFails
<1>4. CASE GetNotModified
  <2>1. Succeed("notModified") /\ DropCreated /\ path' = target /\ o' = o
    BY <1>4 DEF GetNotModified, Succeed
  <2> QED
    BY <1>t, <1>2, <2>1, AttemptSucceeds
<1>5. CASE GetUnsatisfied
  <2>1. /\ Succeed("complete") /\ DropCreated /\ path' = target /\ o' = o
        /\ start > 0 /\ start = Size /\ pc = "getReply"
    BY <1>5 DEF GetUnsatisfied, Succeed
  <2>2. Honest => /\ o.continue /\ Exists(target) /\ start = Len(file[target]) /\ created = FALSE
                  /\ SingleGet(o)
    BY <2>1 DEF FileInv, FilesInv, ContentInv, TransferBlocks
  <2>3. Honest => Beginning(file[target])
    BY <1>t, <2>2 DEF FileInv, FilesInv, ContentInv, KeptBlocks
  <2>4. Honest => file'[target] = Right
    BY <1>t, <1>2, <2>1, <2>2, <2>3, IsRight DEF Beginning
  <2> QED
    BY <1>t, <1>2, <2>1, <2>4, AttemptSucceeds
<1> QED
  BY <1>1, <1>3, <1>4, <1>5

\* A reply with a body: the file is chosen, emptied or kept.
LEMMA GetBodyInv ==
  ASSUME FileInv, GetBody
  PROVE  FilesInv'
<1>0. pc = "getReply" /\ pc \in Inside /\ result = "none"
  BY DEF GetBody, Inside, FileInv, LoopInv
<1>t. /\ target \in Suffix /\ path \in Suffix \cup {NoName} /\ start \in Nat
      /\ file \in [Suffix -> Seq(Int)] /\ target = Provisional
  BY <1>0 DEF FileInv, FilesInv, FileTypes
<1>f. Foreign => file[0] = before /\ path # 0 /\ start = 0 /\ created = FALSE
  BY <1>0 DEF FileInv, FilesInv, ForeignInv
<1>e. Beginning(<<>>)
  BY SizeAssumption, SmallFiles, SMTT(30) DEF Beginning
<1>1. PICK partial \in BOOLEAN, from \in Nat, names \in SUBSET Suffix :
        /\ from = IF partial THEN start ELSE 0
        /\ names = IF ~created /\ path = NoName /\ from = 0
                   THEN Resolve(o.out /\ o.continue /\ Exists(0) /\ Length(0) = 0) ELSE {target}
        /\ partial => start > 0
        /\ \/ Fail("fatal") /\ UNCHANGED <<file, path>>
           \/ /\ target' \in names /\ path' = target'
              /\ Set(target', IF from > 0 THEN file[target'] ELSE <<>>)
              /\ Body(from)
              /\ UNCHANGED <<result, before, o, created, start>>
           \/ /\ from = 0 /\ path' \in names
              /\ Set(path', IF created THEN NoFile ELSE <<>>)
              /\ Fail("fatal")
  <2>1. start \in Nat /\ 0 \in Nat
    BY <1>t
  <2>2. PICK resume \in BOOLEAN : resume = (o.out /\ o.continue /\ Exists(0) /\ Length(0) = 0)
    OBVIOUS
  <2>3. Resolve(resume) \in SUBSET Suffix /\ {target} \in SUBSET Suffix
    BY <1>t, ResolveNames
  <2>4. Resolve(o.out /\ o.continue /\ Exists(0) /\ Length(0) = 0) \in SUBSET Suffix
    BY <2>2, <2>3
  <2> QED
    BY <2>1, <2>3, <2>4 DEF GetBody
<1>2. names \subseteq Suffix /\ (Foreign => 0 \notin names) /\ (from > 0 => names = {target})
  <2>1. names \subseteq Suffix /\ (from > 0 => names = {target})
    <3>1. PICK resume \in BOOLEAN : resume = (o.out /\ o.continue /\ Exists(0) /\ Length(0) = 0)
      OBVIOUS
    <3>2. Resolve(resume) \subseteq Suffix
      BY ResolveNames
    <3> QED
      BY <1>1, <1>t, <3>1, <3>2, SMTT(30)
  <2>2. Foreign /\ path = NoName => 0 \notin names
    BY <1>1, <1>f, ResolveNames DEF Foreign, Exists
  <2>3. Foreign /\ path # NoName => 0 \notin names
    BY <1>1, <1>f, <1>t DEF Provisional
  <2> QED
    BY <2>1, <2>2, <2>3
<1>3. CASE Fail("fatal") /\ UNCHANGED <<file, path>>
  BY <1>0, <1>3, AttemptFailsAlone DEF Errors
<1>4. CASE /\ target' \in names /\ path' = target'
           /\ Set(target', IF from > 0 THEN file[target'] ELSE <<>>)
           /\ Body(from)
           /\ UNCHANGED <<result, before, o, created, start>>
  <2>1. PICK n \in Suffix : n = target'
    BY <1>2, <1>4
  <2>2. PICK c \in Seq(Int) : c = IF from > 0 THEN file[n] ELSE <<>>
    BY <1>t, SmallFiles
  <2>3. Set(target', c)
    BY <1>4, <2>1, <2>2
  <2>4. pc' = "copy" /\ done' = 1..from /\ IsFiniteSet(done')
    BY <1>4, FS_Interval, SMTT(30) DEF Body
  <2>5. Honest => c # NoFile /\ Beginning(c) /\ from = Len(c)
    <3>1. CASE from > 0
      <4>1. n = target /\ start > 0 /\ from = start
        <5>1. n = target
          BY <1>2, <1>4, <2>1, <3>1
        <5>2. start > 0 /\ from = start
          BY <1>1, <1>t, <3>1, SMTT(30)
        <5> QED BY <5>1, <5>2
      <4> QED
        BY <1>0, <2>2, <3>1, <4>1
           DEF FileInv, FilesInv, ContentInv, KeptBlocks, TransferBlocks, Exists
    <3>2. CASE ~(from > 0)
      BY <1>e, <2>2, <3>2, SmallFiles, SMTT(30)
    <3> QED
      BY <3>1, <3>2
  <2>6. Foreign => start' = 0 /\ created' = FALSE /\ path' # 0 /\ target' # 0
    BY <1>2, <1>4, <1>f
  <2> QED
    BY <1>0, <1>t, <1>4, <2>1, <2>3, <2>4, <2>5, <2>6, OneFileGoesOn
<1>5. CASE /\ from = 0 /\ path' \in names
           /\ Set(path', IF created THEN NoFile ELSE <<>>)
           /\ Fail("fatal")
  <2>1. PICK n \in Suffix : n = path'
    BY <1>2, <1>5
  <2>2. PICK c \in Seq(Int) : c = (IF created THEN NoFile ELSE <<>>) /\ (c = NoFile \/ Beginning(c))
    BY <1>e, SmallFiles
  <2>3. Set(n, c) /\ o' = o
    BY <1>5, <2>1, <2>2 DEF Fail
  <2>4. file' \in [Suffix -> Seq(Int)] /\ (Foreign => file'[0] = before /\ path' # 0)
    BY <1>f, <1>2, <1>5, <2>1, <2>3, SetFile, NamesAssumption DEF FileInv, FilesInv
  <2>5. Honest => KeptBlocks'
    BY <2>2, <2>3, SetKeepsBlocks DEF FileInv, FilesInv, ContentInv
  <2>6. "fatal" \in Errors
    BY DEF Errors
  <2> QED
    BY <1>0, <1>5, <2>1, <2>4, <2>5, <2>6, AttemptFails
<1> QED
  BY <1>1, <1>3, <1>4, <1>5

\* Every step keeps the files in order, while the options stay as they are.
LEMMA FileStep ==
  ASSUME ~Changeable
  PROVE  FileInv /\ [Next]_vars => FileInv'
<1> SUFFICES ASSUME FileInv, [Next]_vars PROVE FilesInv'
  BY LoopStep DEF FileInv
<1>1. CASE Start \/ NextUri \/ Wait \/ Cancel \/ Restart \/ UNCHANGED vars
  <2>0. pc' \in {"none", "next", "probe", "get"} \/ (pc' = pc /\ path' = path)
    BY <1>1 DEF Start, NextUri, Wait, Return, Cancel, Restart, vars
  <2>1. /\ UNCHANGED <<before, file, target, created, start, done>> /\ o' = o /\ path' \in {path, NoName}
    BY <1>1 DEF Start, NextUri, Wait, Cancel, Restart, vars, transfer
  <2>2. FileTypes'
    <3>1. /\ file' \in [Suffix -> Seq(Int)] /\ path' \in Suffix \cup {NoName} /\ target' \in Suffix
          /\ start' \in Nat /\ IsFiniteSet(done')
      BY <2>1 DEF FileInv, FilesInv, FileTypes
    <3>2. path' = path => Provisional' = Provisional
      BY DEF Provisional
    <3> QED
      BY <2>0, <2>1, <3>1, <3>2 DEF FileInv, FilesInv, FileTypes, Writing
  <2>3. ForeignInv'
    <3>1. Foreign' <=> Foreign
      BY <2>1 DEF Foreign
    <3>2. ASSUME Foreign, path' = 0 PROVE result' = "ok"
      <4>1. path = 0
        BY <2>1, <3>2, SMTT(30) DEF NoName
      <4>2. result = "ok" /\ pc = "none"
        BY <3>2, <4>1 DEF FileInv, LoopInv, FilesInv, ForeignInv
      <4> QED
        BY <1>1, <3>2, <4>2 DEF Start, NextUri, Wait, Cancel, Restart, NoName, vars
    <3> QED
      BY <2>0, <2>1, <3>1, <3>2 DEF FileInv, FilesInv, ForeignInv, Writing
  <2>4. Honest => KeptBlocks'
    BY <2>1, SameFilesKeepBlocks DEF FileInv, FilesInv, ContentInv
  <2>5. Honest => TransferBlocks'
    <3>1. CASE Start \/ Wait \/ Restart
      BY <2>1, <3>1 DEF TransferBlocks, Start, Wait, Return, Restart
    <3>2. CASE NextUri
      <4>1. SingleGet(o)' <=> SingleGet(o)
        BY <2>1 DEF SingleGet
      <4>2. pc' \in {"none", "next"} \/ pc' = IF SingleGet(o) THEN "get" ELSE "probe"
        BY <3>2 DEF NextUri, Return
      <4> QED
        BY <4>1, <4>2 DEF TransferBlocks
    <3>3. CASE Cancel \/ UNCHANGED vars
      BY <2>1, <3>3 DEF FileInv, FilesInv, ContentInv, TransferBlocks, Exists, Beginning, SingleGet, Cancel, vars
    <3> QED
      BY <1>1, <3>1, <3>2, <3>3
  <2>6. Honest => CompleteFile'
    <3>1. CASE Start \/ Restart
      BY <3>1 DEF CompleteFile, Start, Restart
    <3>2. CASE NextUri \/ Wait
      <4>1. result' # "ok" \/ lastErr = "ok"
        BY <3>2 DEF FileInv, LoopInv, NextUri, Wait, Return
      <4> QED
        BY <4>1 DEF FileInv, LoopInv, CompleteFile, Errors
    <3>3. CASE Cancel \/ UNCHANGED vars
      BY <2>1, <3>3 DEF FileInv, FilesInv, ContentInv, CompleteFile, Cancel, vars
    <3> QED
      BY <1>1, <3>1, <3>2, <3>3
  <2> QED
    BY <2>1, <2>2, <2>3, <2>4, <2>5, <2>6 DEF FilesInv, ContentInv, Honest, Beginning
<1> QED
  BY <1>1, ProbeInv, SegmentsInv, SingleInv, CopyInv, GetInv, GetBodyInv DEF Next, RunStep

\* Before the first run there is at most the file that was there first.
LEMMA FileInit == Init => FileInv
<1> SUFFICES ASSUME Init PROVE FileInv
  OBVIOUS
<1>1. LoopInv
  BY OptionTypes, SizeAssumption, SMTT(30) DEF Init, LoopInv, TriesUsed
<1>2. FileTypes
  BY NamesAssumption, SmallFiles, FS_EmptySet DEF Init, FileTypes, Writing
<1>3. ForeignInv
  BY NamesAssumption, SMTT(30) DEF Init, ForeignInv, NoName, Writing
<1>4. ContentInv
  BY DEF Init, ContentInv, Honest, KeptBlocks, TransferBlocks, CompleteFile, Exists
<1> QED
  BY <1>1, <1>2, <1>3, <1>4 DEF FileInv, FilesInv

\* A file that was there first is not touched, unless the options allow that it be
\* overwritten or continued: by no strategy, retry, later run or lost path.
THEOREM ForeignFileUntouched ==
  ASSUME ~Changeable
  PROVE  Spec => []ForeignFileKept
<1>1. FileInv => ForeignFileKept
  BY DEF FileInv, FilesInv, ForeignInv, Foreign, ForeignFileKept
<1> QED
  BY <1>1, FileInit, FileStep, PTL DEF Spec

\* Success with a body, or with a 416 taken for the end of one, leaves the whole
\* resource in the file that the download reports, provided that a file it was
\* told to continue is a beginning of the resource.
THEOREM SuccessLeavesTheResource ==
  ASSUME ~Changeable
  PROVE  Spec => [](Honest => CompleteFile)
<1>1. FileInv => (Honest => CompleteFile)
  BY DEF FileInv, FilesInv, ContentInv
<1> QED
  BY <1>1, FileInit, FileStep, PTL DEF Spec

----------------------------------------------------------------------------
\* ResponseTimeouts

\* At first the header's timer is armed and there is no body.
LEMMA InitTimeout == TimeoutInit => TimeoutInv
<1> SUFFICES ASSUME TimeoutInit PROVE TimeoutInv
  BY SMTT(30)
<1>1. TimeoutTypeOK
  BY DEF TimeoutInit, TimeoutTypeOK
<1> QED
  BY <1>1 DEF TimeoutInit, TimeoutInv, HeaderDecided

\* The header's part: its timer is settled before the response is returned.
LEMMA HeaderSteps ==
  ASSUME TimeoutInv,
         TransportReturns \/ HeaderTimerFires \/ HeaderTimerCancels \/ StopHeaderTimer \/ Decide
  PROVE  TimeoutInv'
<1>1. CASE TransportReturns
  BY <1>1, SMTT(30) DEF TimeoutInv, TimeoutTypeOK, HeaderDecided, TransportReturns, bodyVars
<1>2. CASE HeaderTimerFires
  BY <1>2, SMTT(30) DEF TimeoutInv, TimeoutTypeOK, HeaderDecided, HeaderTimerFires, bodyVars
<1>3. CASE HeaderTimerCancels
  BY <1>3, SMTT(30) DEF TimeoutInv, TimeoutTypeOK, HeaderDecided, HeaderTimerCancels, bodyVars
<1>4. CASE StopHeaderTimer
  BY <1>4, SMTT(30) DEF TimeoutInv, TimeoutTypeOK, HeaderDecided, StopHeaderTimer, bodyVars
<1>5. CASE Decide
  BY <1>5, ZenonT(30) DEF TimeoutInv, TimeoutTypeOK, HeaderDecided, Decide
<1> QED
  BY <1>1, <1>2, <1>3, <1>4, <1>5

\* The body's part: Read and Close leave no timer behind, and a timer that fires
\* too late finds another generation or no read.
LEMMA BodySteps ==
  ASSUME TimeoutInv, ReadBegins \/ BodyReturns \/ ReadEnds \/ CloseBegins
  PROVE  TimeoutInv'
<1>1. CASE ReadBegins
  <2>1. CASE timedOut \/ closed
    BY <1>1, <2>1 DEF TimeoutInv, TimeoutTypeOK, HeaderDecided, ReadBegins, headerVars
  <2>2. CASE ~timedOut /\ ~closed
    <3>1. TimeoutTypeOK'
      <4>1. reading' \in BOOLEAN /\ closed' \in BOOLEAN /\ timedOut' \in BOOLEAN /\ bodyClosed' \in BOOLEAN
        BY <1>1, <2>2 DEF TimeoutInv, TimeoutTypeOK, ReadBegins
      <4>2. generation' \in Nat /\ readGen' \in Nat /\ timer' \in Nat /\ armed' \subseteq Nat /\ firing' \subseteq Nat
        <5>1. /\ generation' \in {generation, generation + 1} /\ readGen' \in {readGen, generation + 1}
              /\ timer' \in {timer, 0, generation + 1}
              /\ armed' \subseteq armed \cup {generation + 1} /\ firing' \subseteq firing
          BY <1>1, <2>2 DEF ReadBegins
        <5> QED
          BY <5>1, SMTT(30) DEF TimeoutInv, TimeoutTypeOK
      <4>3. requestPc' \in {"idle", "blocked", "got", "over"} /\ closers' \subseteq {"closer", "timer"}
        BY <1>1, <2>2 DEF TimeoutInv, TimeoutTypeOK, ReadBegins
      <4>4. outcome' \in {"none", "data", "timeout", "closed"} /\ UNCHANGED <<answer, cause, header>>
        BY <1>1, <2>2 DEF TimeoutInv, TimeoutTypeOK, ReadBegins, headerVars
      <4> QED
        BY <4>1, <4>2, <4>3, <4>4 DEF TimeoutInv, TimeoutTypeOK
    <3>2. armed = {} /\ generation \in Nat
      BY <1>1 DEF TimeoutInv, TimeoutTypeOK, ReadBegins
    <3>3. /\ armed' \subseteq {timer'} \ {0}
          /\ \A g \in firing' : g <= generation' /\ g \notin armed'
      BY <1>1, <2>2, <3>2, SMTT(30) DEF TimeoutInv, TimeoutTypeOK, ReadBegins
    <3> QED
      BY <1>1, <2>2, <3>1, <3>3 DEF TimeoutInv, HeaderDecided, ReadBegins, headerVars
  <2> QED
    BY <2>1, <2>2 DEF TimeoutInv, TimeoutTypeOK
<1>2. CASE BodyReturns
  BY <1>2, SMTT(30) DEF TimeoutInv, TimeoutTypeOK, HeaderDecided, BodyReturns, bodyVars
<1>3. CASE ReadEnds
  <2>1. TimeoutTypeOK'
    <3>1. reading' \in BOOLEAN /\ closed' \in BOOLEAN /\ timedOut' \in BOOLEAN /\ bodyClosed' \in BOOLEAN
      BY <1>3 DEF TimeoutInv, TimeoutTypeOK, ReadEnds
    <3>2. generation' \in Nat /\ readGen' \in Nat /\ timer' \in Nat /\ armed' \subseteq Nat /\ firing' \subseteq Nat
      <4>1. /\ generation' \in {generation, generation + 1} /\ readGen' \in {readGen, generation + 1}
            /\ timer' \in {timer, 0, generation + 1}
            /\ armed' \subseteq armed \cup {generation + 1} /\ firing' \subseteq firing
        BY <1>3 DEF ReadEnds
      <4> QED
        BY <4>1, SMTT(30) DEF TimeoutInv, TimeoutTypeOK
    <3>3. requestPc' \in {"idle", "blocked", "got", "over"} /\ closers' \subseteq {"closer", "timer"}
      BY <1>3 DEF TimeoutInv, TimeoutTypeOK, ReadEnds
    <3>4. outcome' \in {"none", "data", "timeout", "closed"} /\ UNCHANGED <<answer, cause, header>>
      BY <1>3 DEF TimeoutInv, TimeoutTypeOK, ReadEnds, headerVars
    <3> QED
      BY <3>1, <3>2, <3>3, <3>4, SMTT(30) DEF TimeoutInv, TimeoutTypeOK
  <2>2. /\ timer' = 0 /\ armed' = {} /\ reading' = FALSE
        /\ UNCHANGED <<generation, closed, timedOut, readGen, firing, cause, header>>
    BY <1>3 DEF TimeoutInv, TimeoutTypeOK, ReadEnds, headerVars
  <2> QED
    BY <1>3, <2>1, <2>2, SMTT(30) DEF TimeoutInv, HeaderDecided, ReadEnds
<1>4. CASE CloseBegins
  <2>1. TimeoutTypeOK'
    <3>1. reading' \in BOOLEAN /\ closed' \in BOOLEAN /\ timedOut' \in BOOLEAN /\ bodyClosed' \in BOOLEAN
      BY <1>4 DEF TimeoutInv, TimeoutTypeOK, CloseBegins
    <3>2. generation' \in Nat /\ readGen' \in Nat /\ timer' \in Nat /\ armed' \subseteq Nat /\ firing' \subseteq Nat
      <4>1. /\ generation' \in {generation, generation + 1} /\ readGen' \in {readGen, generation + 1}
            /\ timer' \in {timer, 0, generation + 1}
            /\ armed' \subseteq armed \cup {generation + 1} /\ firing' \subseteq firing
        BY <1>4 DEF CloseBegins
      <4> QED
        BY <4>1, SMTT(30) DEF TimeoutInv, TimeoutTypeOK
    <3>3. requestPc' \in {"idle", "blocked", "got", "over"} /\ closers' \subseteq {"closer", "timer"}
      BY <1>4 DEF TimeoutInv, TimeoutTypeOK, CloseBegins
    <3>4. outcome' \in {"none", "data", "timeout", "closed"} /\ UNCHANGED <<answer, cause, header>>
      BY <1>4 DEF TimeoutInv, TimeoutTypeOK, CloseBegins, headerVars
    <3> QED
      BY <3>1, <3>2, <3>3, <3>4, SMTT(30) DEF TimeoutInv, TimeoutTypeOK
  <2>2. CASE closed
    BY <1>4, <2>1, <2>2 DEF TimeoutInv, HeaderDecided, CloseBegins, headerVars
  <2>3. CASE ~closed
    <3>1. armed' = {} /\ generation' = generation + 1 /\ firing' = firing
      BY <1>4, <2>3 DEF TimeoutInv, CloseBegins
    <3>2. \A g \in firing' : g <= generation'
      BY <3>1, SMTT(30) DEF TimeoutInv, TimeoutTypeOK
    <3> QED
      BY <1>4, <2>1, <2>3, <3>1, <3>2 DEF TimeoutInv, HeaderDecided, CloseBegins, headerVars
  <2> QED
    BY <2>2, <2>3
<1> QED
  BY <1>1, <1>2, <1>3, <1>4

\* The timers of reads and the goroutines that close the body.
LEMMA TimerSteps ==
  ASSUME TimeoutInv,
         \/ \E g \in armed \cup firing : TimerFires(g) \/ Expire(g)
         \/ \E c \in closers : CloseBody(c)
  PROVE  TimeoutInv'
<1>1. ASSUME NEW g \in armed, TimerFires(g) PROVE TimeoutInv'
  BY <1>1, SMTT(30) DEF TimeoutInv, TimeoutTypeOK, HeaderDecided, TimerFires, headerVars
<1>2. ASSUME NEW g \in firing, Expire(g) PROVE TimeoutInv'
  <2>1. TimeoutTypeOK'
    <3>1. reading' \in BOOLEAN /\ closed' \in BOOLEAN /\ timedOut' \in BOOLEAN /\ bodyClosed' \in BOOLEAN
      BY <1>2 DEF TimeoutInv, TimeoutTypeOK, Expire
    <3>2. generation' \in Nat /\ readGen' \in Nat /\ timer' \in Nat /\ armed' \subseteq Nat /\ firing' \subseteq Nat
      <4>1. /\ generation' \in {generation, generation + 1} /\ readGen' \in {readGen, generation + 1}
            /\ timer' \in {timer, 0, generation + 1}
            /\ armed' \subseteq armed \cup {generation + 1} /\ firing' \subseteq firing
        BY <1>2 DEF Expire
      <4> QED
        BY <4>1, SMTT(30) DEF TimeoutInv, TimeoutTypeOK
    <3>3. requestPc' = requestPc /\ closers' \subseteq {"closer", "timer"}
      BY <1>2 DEF TimeoutInv, TimeoutTypeOK, Expire
    <3>4. outcome' \in {"none", "data", "timeout", "closed"} /\ UNCHANGED <<answer, cause, header>>
      BY <1>2 DEF TimeoutInv, TimeoutTypeOK, Expire, headerVars
    <3> QED
      BY <3>1, <3>2, <3>3, <3>4 DEF TimeoutInv, TimeoutTypeOK
  <2>2. CASE closed \/ ~reading \/ g # generation
    BY <1>2, <2>1, <2>2 DEF TimeoutInv, HeaderDecided, Expire, headerVars
  <2>3. CASE ~(closed \/ ~reading \/ g # generation)
    <3>1. armed = {}
      BY <1>2, <2>3 DEF TimeoutInv
    <3> QED
      BY <1>2, <2>1, <2>3, <3>1 DEF TimeoutInv, HeaderDecided, Expire, headerVars
  <2> QED
    BY <2>2, <2>3
<1>3. ASSUME NEW c \in closers, CloseBody(c) PROVE TimeoutInv'
  BY <1>3, SMTT(30) DEF TimeoutInv, TimeoutTypeOK, HeaderDecided, CloseBody
<1> QED
  BY <1>1, <1>2, <1>3 DEF TimerFires, Expire

\* Every step keeps the invariant.
LEMMA NextTimeout == TimeoutInv /\ [TimeoutNext]_timeoutVars => TimeoutInv'
<1> SUFFICES ASSUME TimeoutInv, [TimeoutNext]_timeoutVars PROVE TimeoutInv'
  BY SMTT(30)
<1>1. CASE UNCHANGED timeoutVars
  BY <1>1, SMTT(30) DEF TimeoutInv, TimeoutTypeOK, HeaderDecided, timeoutVars, headerVars, bodyVars
<1>2. CASE TimeoutNext
  BY <1>2, HeaderSteps, BodySteps, TimerSteps DEF TimeoutNext
<1> QED
  BY <1>1, <1>2

\* The header's timer is settled before a response is returned, and at most one
\* timer of a read is set, that of the read that is going on.
THEOREM Timers == TimeoutSpec => []TimeoutInv
BY InitTimeout, NextTimeout, PTL DEF TimeoutSpec

\* A response that has been returned is not taken back by the header's timer,
\* and no timer is left between reads or after Close.
THEOREM Settled == TimeoutSpec => [](HeaderDecided /\ NoTimerLeft)
<1>1. TimeoutInv => HeaderDecided /\ NoTimerLeft
  BY DEF TimeoutInv, NoTimerLeft
<1> QED
  BY <1>1, Timers, PTL

\* A body is given up as idle only by the timer of the read that is going on:
\* expire compares the generation under the lock.
THEOREM TimeoutIsOwn == TimeoutSpec => OwnTimeout
<1> DEFINE Own ==
  ~timedOut /\ timedOut' =>
    requestPc \in {"blocked", "got"} /\ readGen \in firing /\ readGen \notin firing'
<1>1. TimeoutInv /\ [TimeoutNext]_timeoutVars => [Own]_timeoutVars
  <2> SUFFICES ASSUME TimeoutInv, TimeoutNext, ~timedOut, timedOut' PROVE Own
    OBVIOUS
  <2>1. PICK g \in firing : Expire(g)
    BY DEF TimeoutNext, TransportReturns, HeaderTimerFires, HeaderTimerCancels, StopHeaderTimer, Decide,
       ReadBegins, BodyReturns, ReadEnds, CloseBegins, TimerFires, Expire, CloseBody, bodyVars
  <2> QED
    BY <2>1 DEF TimeoutInv, Expire
<1> QED
  BY <1>1, Timers, PTL DEF TimeoutSpec, OwnTimeout

=============================================================================
