------------------------ MODULE TorrentHandoffProofs ------------------------
(***************************************************************************)
(* Proofs about how files and results reach the program around the engine. *)
(*                                                                         *)
(* About TorrentHandoff, for any torrent, any number of runs, of changes   *)
(* of the selection and of crashes, and any handler: what is reported adds *)
(* up, a download completes with its selection, and no file is handed off  *)
(* twice.                                                                  *)
(*                                                                         *)
(* About Notifications, for any number of subscribers, runs and calls: who *)
(* is notified of what, and in which order.                                *)
(***************************************************************************)
EXTENDS TorrentHandoff, Notifications, FiniteSetTheorems, TLAPS

\* Most leaves are first-order: Zenon proves them.  The others name SMT.
USE Zenon

\* What a file may have, and what a lease may be.
Sizes  == {size \in [File -> Nat] : \A f \in File : size[f] <= Length[f]}
Leases == {"none", "leased", "handling", "waiting", "marking", "recorded", "failed"}

\* The types, by what they are about.
RunTypes ==
  /\ status \in {"waiting", "active", "paused", "complete", "error"}
  /\ run \in {"none", "info", "reconcile", "reserve", "stream", "stopping", "returned"}
  /\ cause \in {"none", "canceled", "error"} /\ result \in {"none", "ok", "error", "canceled"}
  /\ failed \in BOOLEAN /\ closed \in BOOLEAN /\ known \in BOOLEAN
  /\ setup \in Setups /\ crashes \in Nat

SetTypes ==
  /\ selected \subseteq File /\ select \subseteq File /\ finalized \subseteq File /\ saved \subseteq File
  /\ streaming \subseteq File /\ done \subseteq File /\ finished \subseteq File /\ released \subseteq File
  /\ handled \subseteq File /\ delivered \subseteq File

FileTypes ==
  /\ lease \in [File -> Leases] /\ completed \in Sizes /\ verified \in Sizes
  /\ snapshot \in Sizes \cup {NoSnapshot}

\* What a run has, at each of its stages.  While the selection has not been
\* changed, a change makes an active download wait, the run is about all of it.
RunInv ==
  /\ \A f \in File : lease[f] \in Held => run = "stream" /\ Handler
  /\ run \in {"reconcile", "reserve", "stream", "stopping"} \/ (run = "returned" /\ result = "ok") => known
  /\ \A f \in File : lease[f] = "marking" => f \in finalized
  /\ done \subseteq finalized
  /\ run = "stream" /\ closed => streaming \subseteq done
  /\ run = "stream" /\ status = "active" => selected \subseteq streaming \cup finalized
  /\ run \in {"stopping", "returned"} /\ result = "ok" /\ status = "active"
       => \A f \in selected : f \in finalized \/ (~Handler /\ verified[f] = Length[f])

\* Where a delivered file is known to be: among the released ones, which the
\* next run asks for, or among the finalized ones, if it may be discarded.
HandInv ==
  /\ \A f \in File : lease[f] \in {"leased", "handling"} => f \notin delivered
  /\ ~MayDiscard => finished \subseteq released /\ delivered \subseteq released
  /\ MayDiscard => \A f \in delivered : f \in finalized \/ (lease[f] = "waiting" /\ f \in finished)
  /\ run = "reserve" /\ Handler => released \subseteq finalized
  /\ run = "stream" /\ Handler => \A f \in streaming \cap delivered : lease[f] \in {"waiting", "marking", "recorded", "failed"}

\* The inductive invariants.
TorrentInv == RunTypes /\ SetTypes /\ FileTypes /\ ProgressAddsUp /\ RunInv

----------------------------------------------------------------------------
\* Sums

\* A file has finitely many bytes.
LEMMA BytesOfOne ==
  ASSUME NEW f, NEW n \in Nat
  PROVE  IsFiniteSet({f} \X (1..n))
<1>1. IsFiniteSet(1..n)
  BY FS_Interval, SMTT(30)
<1>2. IsFiniteSet({f})
  BY FS_Singleton
<1> QED
  BY <1>1, <1>2, FS_Product

\* So have the files of a torrent.
LEMMA BytesFinite ==
  ASSUME NEW files \in SUBSET File
  PROVE  IsFiniteSet(Bytes(files, Length))
<1> DEFINE U == {{f} \X (1..Length[f]) : f \in files}
           g == [f \in files |-> {f} \X (1..Length[f])]
<1>1. IsFiniteSet(files)
  BY FileAssumption, FS_Subset
<1>2. g \in Surjection(files, U)
  BY DEF Surjection
<1>3. IsFiniteSet(U)
  BY <1>1, <1>2, FS_Surjection
<1>4. \A T \in U : IsFiniteSet(T)
  <2>1. ASSUME NEW f \in files PROVE IsFiniteSet({f} \X (1..Length[f]))
    BY BytesOfOne, FileAssumption
  <2> QED
    BY <2>1
<1> QED
  BY <1>3, <1>4, FS_UNION DEF Bytes

\* What files have is no more than their lengths, and a file has nothing if its
\* length is nothing.
LEMMA SumBound ==
  ASSUME NEW files \in SUBSET File, NEW size \in Sizes
  PROVE  /\ Sum(files, Length) \in Nat /\ Sum(files, size) \in Nat
         /\ Sum(files, size) <= Sum(files, Length)
<1>1. Bytes(files, size) \subseteq Bytes(files, Length)
  <2>1. \A f \in files : size[f] \in Nat /\ Length[f] \in Nat /\ size[f] <= Length[f]
    BY FileAssumption DEF Sizes
  <2>2. \A f \in files : {f} \X (1..size[f]) \subseteq {f} \X (1..Length[f])
    BY <2>1, SMTT(30)
  <2> QED
    BY <2>2, SMTT(30) DEF Bytes
<1>2. IsFiniteSet(Bytes(files, Length))
  BY BytesFinite
<1>3. IsFiniteSet(Bytes(files, size)) /\ Cardinality(Bytes(files, size)) <= Cardinality(Bytes(files, Length))
  BY <1>1, <1>2, FS_Subset
<1> QED
  BY <1>2, <1>3, FS_CardinalityType DEF Sum

\* Files of which nothing is there add up to nothing.
LEMMA SumZero ==
  ASSUME NEW files \in SUBSET File
  PROVE  Sum(files, [f \in File |-> 0]) = 0
<1> DEFINE zero == [f \in File |-> 0]
<1>1. \A f \in files : zero[f] = 0
  OBVIOUS
<1> HIDE DEF zero
<1>2. \A f \in files : {f} \X (1..zero[f]) = {}
  BY <1>1, SMTT(30)
<1>3. Bytes(files, zero) = {}
  BY <1>2 DEF Bytes
<1> QED
  BY <1>3, FS_EmptySet DEF Sum, zero

----------------------------------------------------------------------------
\* Types

\* What is written into torrentFiles.
LEMMA Written ==
  ASSUME NEW size \in Sizes, NEW S
  PROVE  [f \in File |-> IF f \in S THEN Length[f] ELSE size[f]] \in Sizes
BY FileAssumption, SMTT(30) DEF Sizes

\* A file of which nothing is there.
LEMMA Nothing == [f \in File |-> 0] \in Sizes
BY FileAssumption, SMTT(30) DEF Sizes

\* What the client says of the files.
LEMMA SeenTypes ==
  ASSUME FileTypes PROVE Seen \in Sizes
BY Written DEF Seen, FileTypes

\* The state of the run and of the download is typed.
LEMMA RunTypesKept ==
  ASSUME RunTypes, [Next]_vars
  PROVE  RunTypes'
<1>1. CASE Start \/ GotInfo \/ Reconcile
  BY <1>1, ZenonT(30) DEF Start, GotInfo, Reconcile, Files, optionVars, fileVars, storageVars, processVars,
     streamVars, RunTypes
<1>2. CASE EarlyReturn \/ AllVerified \/ StreamReturns
  BY <1>2 DEF EarlyReturn, AllVerified, StreamReturns, Return, Stopping, optionVars, fileVars,
     streamVars, storageVars, processVars, RunTypes
<1>3. CASE BeginStream \/ StopProgress \/ Finish
  BY <1>3 DEF BeginStream, StopProgress, Finish, Indexes, Apply, optionVars, fileVars, storageVars,
     processVars, streamVars, RunTypes
<1>4. CASE WriteChunkFails \/ Look \/ Update \/ Save
  BY <1>4 DEF WriteChunkFails, Look, Update, Save, Apply, optionVars, fileVars, streamVars, storageVars,
     processVars, runVars, RunTypes
<1>5. CASE Crash
  <2>1. known' \in BOOLEAN /\ failed' \in BOOLEAN /\ closed' \in BOOLEAN
    BY <1>5 DEF Crash
  <2>2. /\ status' \in {"waiting", "paused"} /\ run' = "none" /\ cause' = "none" /\ result' = "none"
        /\ setup' = setup /\ crashes' = crashes + 1
    BY <1>5 DEF Crash
  <2> QED
    BY <2>1, <2>2, SMTT(30) DEF RunTypes
<1>6. ASSUME NEW f \in File, Verify(f) \/ Lease(f) PROVE RunTypes'
  BY <1>6, SMTT(30) DEF Verify, Lease, SetLease, Apply, Stopping, runVars, optionVars, fileVars, streamVars,
     processVars, storageVars, RunTypes
<1>7. ASSUME NEW f \in File, CallHandler(f) \/ GiveUp(f) \/ HandlerFails(f) PROVE RunTypes'
  BY <1>7, ZenonT(30) DEF CallHandler, GiveUp, HandlerFails, SetLease, Stopping, Apply, optionVars, fileVars,
     storageVars, processVars, RunTypes
<1>8. ASSUME NEW f \in File, Record(f) PROVE RunTypes'
  BY <1>8 DEF Record, SetLease, Files, runVars, optionVars, storageVars, processVars, RunTypes
<1>9. ASSUME NEW f \in File, Mark(f) PROVE RunTypes'
  BY <1>9 DEF Mark, SetLease, Apply, MarkSelection, runVars, optionVars, storageVars, processVars, RunTypes
<1>10. ASSUME NEW f \in File, FinalizeLease(f) \/ HandlerReturns(f) PROVE RunTypes'
  BY <1>10, SMTT(30) DEF FinalizeLease, HandlerReturns, SetLease, runVars, optionVars, fileVars, processVars,
     storageVars, RunTypes
<1>11. CASE Pause \/ Unpause
  BY <1>11 DEF Pause, Unpause, CancelRun, fileVars, streamVars, storageVars, processVars, runVars,
     optionVars, RunTypes
<1>12. ASSUME NEW sel \in SUBSET File \ {{}}, ChangeOption(sel) PROVE RunTypes'
  BY <1>12, SMTT(30) DEF ChangeOption, CancelRun, Files, fileVars, streamVars, storageVars, processVars, RunTypes
<1>13. CASE UNCHANGED vars
  BY <1>13, SMTT(30) DEF vars, runVars, optionVars, fileVars, streamVars, storageVars, processVars, RunTypes
<1> QED
  BY <1>1, <1>2, <1>3, <1>4, <1>5, <1>6, <1>7, <1>8, <1>9, <1>10, <1>11, <1>12, <1>13
  DEF Next, RunStep, FileStep, HandlerStep

\* The sets of files are typed.
LEMMA SetTypesKept ==
  ASSUME SetTypes, [Next]_vars
  PROVE  SetTypes'
<1>1. CASE Start \/ GotInfo \/ Reconcile
  BY <1>1 DEF Start, GotInfo, Reconcile, Files, optionVars, fileVars, storageVars, processVars,
     streamVars, SetTypes
<1>2. CASE EarlyReturn \/ AllVerified \/ StreamReturns
  BY <1>2 DEF EarlyReturn, AllVerified, StreamReturns, Return, Stopping, optionVars, fileVars,
     streamVars, storageVars, processVars, SetTypes
<1>3. CASE BeginStream \/ StopProgress \/ Finish
  BY <1>3 DEF BeginStream, StopProgress, Finish, Indexes, Apply, optionVars, fileVars, storageVars,
     processVars, streamVars, SetTypes
<1>4. CASE WriteChunkFails \/ Look \/ Update \/ Save
  BY <1>4 DEF WriteChunkFails, Look, Update, Save, Apply, optionVars, fileVars, streamVars, storageVars,
     processVars, runVars, SetTypes
<1>5. CASE Crash
  BY <1>5 DEF Crash, Files, optionVars, storageVars, SetTypes
<1>6. ASSUME NEW f \in File, Verify(f) \/ Lease(f) PROVE SetTypes'
  BY <1>6 DEF Verify, Lease, SetLease, Apply, Stopping, runVars, optionVars, fileVars, streamVars,
     processVars, storageVars, SetTypes
<1>7. ASSUME NEW f \in File, CallHandler(f) \/ GiveUp(f) \/ HandlerFails(f) PROVE SetTypes'
  BY <1>7 DEF CallHandler, GiveUp, HandlerFails, SetLease, Stopping, Apply, optionVars, fileVars,
     storageVars, processVars, SetTypes
<1>8. ASSUME NEW f \in File, Record(f) PROVE SetTypes'
  BY <1>8 DEF Record, SetLease, Files, runVars, optionVars, storageVars, processVars, SetTypes
<1>9. ASSUME NEW f \in File, Mark(f) PROVE SetTypes'
  BY <1>9 DEF Mark, SetLease, Apply, MarkSelection, runVars, optionVars, storageVars, processVars, SetTypes
<1>10. ASSUME NEW f \in File, FinalizeLease(f) \/ HandlerReturns(f) PROVE SetTypes'
  BY <1>10 DEF FinalizeLease, HandlerReturns, SetLease, runVars, optionVars, fileVars, processVars,
     storageVars, SetTypes
<1>11. CASE Pause \/ Unpause
  BY <1>11 DEF Pause, Unpause, CancelRun, fileVars, streamVars, storageVars, processVars, runVars,
     optionVars, SetTypes
<1>12. ASSUME NEW sel \in SUBSET File \ {{}}, ChangeOption(sel) PROVE SetTypes'
  BY <1>12 DEF ChangeOption, CancelRun, Files, fileVars, streamVars, storageVars, processVars, SetTypes
<1>13. CASE UNCHANGED vars
  BY <1>13 DEF vars, runVars, optionVars, fileVars, streamVars, storageVars, processVars, SetTypes
<1> QED
  BY <1>1, <1>2, <1>3, <1>4, <1>5, <1>6, <1>7, <1>8, <1>9, <1>10, <1>11, <1>12, <1>13, ZenonT(30)
  DEF Next, RunStep, FileStep, HandlerStep

\* The leases and the sizes are typed: no file has more than its length.
LEMMA FileTypesKept ==
  ASSUME FileTypes, SetTypes, [Next]_vars
  PROVE  FileTypes'
<1>1. CASE Start
  BY <1>1, Nothing DEF Start, optionVars, fileVars, storageVars, processVars, FileTypes, Leases
<1>2. CASE GotInfo
  BY <1>2, Written, Nothing DEF GotInfo, Files, optionVars, streamVars, storageVars, processVars, FileTypes
<1>3. CASE Reconcile
  BY <1>3, Written DEF Reconcile, Files, optionVars, streamVars, storageVars, processVars, FileTypes
<1>4. CASE EarlyReturn \/ BeginStream \/ AllVerified \/ StreamReturns
  BY <1>4 DEF EarlyReturn, BeginStream, AllVerified, StreamReturns, Return, Indexes, Stopping,
     optionVars, fileVars, streamVars, storageVars, processVars, FileTypes
<1>5. CASE StopProgress
  BY <1>5, Written, SeenTypes DEF StopProgress, Apply, optionVars, streamVars, storageVars, processVars,
     FileTypes
<1>6. CASE Finish
  BY <1>6 DEF Finish, optionVars, streamVars, storageVars, processVars, FileTypes
<1>7. CASE WriteChunkFails \/ Save
  BY <1>7 DEF WriteChunkFails, Save, optionVars, fileVars, streamVars, storageVars, processVars,
     runVars, FileTypes
<1>8. CASE Look
  BY <1>8, SeenTypes DEF Look, runVars, optionVars, fileVars, streamVars, storageVars, processVars, FileTypes
<1>9. CASE Update
  <2>1. snapshot \in Sizes
    BY <1>9 DEF Update, FileTypes
  <2> QED
    BY <1>9, <2>1, Written DEF Update, Apply, runVars, optionVars, streamVars, storageVars, processVars,
       FileTypes
<1>10. CASE Crash
  BY <1>10, Written, Nothing, SMTT(30) DEF Crash, Files, optionVars, storageVars, FileTypes, Leases
<1>11. ASSUME NEW f \in File, Verify(f) PROVE FileTypes'
  <2>1. /\ verified \in [File -> Nat] /\ verified' = [verified EXCEPT ![f] = @ + 1]
        /\ Length \in [File -> Nat] /\ verified[f] < Length[f] /\ \A g \in File : verified[g] <= Length[g]
    BY <1>11, FileAssumption DEF Verify, FileTypes, Sizes
  <2>2. verified' \in [File -> Nat] /\ \A g \in File : verified'[g] <= Length[g]
    BY <2>1, SMTT(30)
  <2>3. verified' \in Sizes
    BY <2>2 DEF Sizes
  <2> QED
    BY <1>11, <2>3 DEF Verify, runVars, optionVars, fileVars, streamVars, processVars, FileTypes
<1>12. ASSUME NEW f \in File, Lease(f) PROVE FileTypes'
  BY <1>12, Written, SeenTypes DEF Lease, SetLease, Apply, Stopping, runVars, optionVars, storageVars,
     processVars, FileTypes, Leases
<1>13. ASSUME NEW f \in File, CallHandler(f) PROVE FileTypes'
  BY <1>13 DEF CallHandler, SetLease, Stopping, optionVars, fileVars, storageVars, processVars,
     FileTypes, Leases
<1>14. ASSUME NEW f \in File, Record(f) PROVE FileTypes'
  BY <1>14, Written, SeenTypes DEF Record, SetLease, Files, runVars, optionVars, storageVars,
     processVars, FileTypes, Leases
<1>15. ASSUME NEW f \in File, Mark(f) PROVE FileTypes'
  BY <1>15, Written, SeenTypes DEF Mark, SetLease, Apply, MarkSelection, runVars, optionVars, storageVars,
     processVars, FileTypes, Leases
<1>16. ASSUME NEW f \in File, GiveUp(f) PROVE FileTypes'
  BY <1>16 DEF GiveUp, SetLease, Stopping, optionVars, fileVars, storageVars, processVars, FileTypes, Leases
<1>17. ASSUME NEW f \in File, FinalizeLease(f) PROVE FileTypes'
  BY <1>17, FileAssumption, SMTT(30) DEF FinalizeLease, runVars, optionVars, fileVars, processVars, FileTypes, Sizes
<1>18. ASSUME NEW f \in File, HandlerReturns(f) PROVE FileTypes'
  BY <1>18 DEF HandlerReturns, SetLease, runVars, optionVars, fileVars, storageVars, processVars,
     FileTypes, Leases
<1>19. ASSUME NEW f \in File, HandlerFails(f) PROVE FileTypes'
  BY <1>19, Written, SeenTypes DEF HandlerFails, SetLease, Apply, optionVars, processVars, FileTypes, Leases
<1>20. CASE Pause \/ Unpause
  BY <1>20 DEF Pause, Unpause, CancelRun, fileVars, streamVars, storageVars, processVars, runVars,
     optionVars, FileTypes
<1>21. ASSUME NEW sel \in SUBSET File \ {{}}, ChangeOption(sel) PROVE FileTypes'
  BY <1>21, Written, SMTT(30) DEF ChangeOption, CancelRun, Files, fileVars, streamVars, storageVars, processVars,
     FileTypes
<1>22. CASE UNCHANGED vars
  BY <1>22 DEF vars, runVars, optionVars, fileVars, streamVars, storageVars, processVars, FileTypes
<1> QED
  BY <1>1, <1>2, <1>3, <1>4, <1>5, <1>6, <1>7, <1>8, <1>9, <1>10, <1>11, <1>12, <1>13, <1>14,
     <1>15, <1>16, <1>17, <1>18, <1>19, <1>20, <1>21, <1>22
  DEF Next, RunStep, FileStep, HandlerStep

----------------------------------------------------------------------------
\* Progress

\* torrentFiles is built around what is finalized.
LEMMA FilesAddUp ==
  ASSUME NEW sel, NEW size, finalized' \subseteq File, Files(sel, size, finalized')
  PROVE  ProgressAddsUp'
BY DEF Files, ProgressAddsUp

\* So is what the progress goroutine writes, whenever it has read it.
LEMMA ApplyAddsUp ==
  ASSUME NEW seen, ProgressAddsUp, finalized \subseteq File, finalized' = finalized, Apply(seen)
  PROVE  ProgressAddsUp'
BY DEF Apply, ProgressAddsUp

\* A download that is complete, or is not, and whose files stay as they are.
LEMMA SameAddsUp ==
  ASSUME ProgressAddsUp, UNCHANGED <<fileVars, finalized>>, status = "complete" => status' = "complete"
  PROVE  ProgressAddsUp'
BY DEF ProgressAddsUp, fileVars

\* The files that are reported add up, whatever happens.
LEMMA ProgressKept ==
  ASSUME SetTypes, FileTypes, ProgressAddsUp, [Next]_vars
  PROVE  ProgressAddsUp'
<1>1. CASE Start
  BY <1>1, SameAddsUp DEF Start
<1>2. CASE GotInfo
  BY <1>2, FilesAddUp DEF GotInfo, SetTypes
<1>3. CASE Reconcile
  BY <1>3, FilesAddUp DEF Reconcile, SetTypes
<1>4. CASE EarlyReturn \/ BeginStream \/ AllVerified \/ StreamReturns
  BY <1>4, SameAddsUp DEF EarlyReturn, BeginStream, AllVerified, StreamReturns
<1>5. CASE StopProgress
  BY <1>5, ApplyAddsUp DEF StopProgress, SetTypes
<1>6. CASE Finish
  <2>1. CASE status = "active" /\ result = "ok"
    <3>1. CASE ~known
      BY <1>6, <3>1 DEF Finish, ProgressAddsUp
    <3>2. CASE known
      <4>1. completedLen = Sum(selected, completed) /\ totalLength = Sum(selected, Length)
        BY <2>1, <3>2 DEF ProgressAddsUp
      <4>2. completedLen \in Nat /\ totalLength \in Nat /\ completedLen <= totalLength
        BY <4>1, SumBound DEF SetTypes, FileTypes
      <4>3. status' = "complete" /\ completedLen' = totalLength /\ totalLength' = totalLength
        BY <1>6, <2>1, <4>2, SMTT(30) DEF Finish
      <4> QED
        BY <1>6, <3>2, <4>1, <4>3 DEF Finish, ProgressAddsUp
    <3> QED
      BY <3>1, <3>2
  <2>2. CASE ~(status = "active" /\ result = "ok")
    BY <1>6, <2>2, SameAddsUp DEF Finish, fileVars
  <2> QED
    BY <2>1, <2>2
<1>7. CASE WriteChunkFails \/ Look \/ Save
  BY <1>7, SameAddsUp DEF WriteChunkFails, Look, Save
<1>8. CASE Update
  BY <1>8, ApplyAddsUp DEF Update, SetTypes
<1>9. CASE Crash
  <2>1. CASE known'
    BY <1>9, <2>1, FilesAddUp DEF Crash, SetTypes
  <2>2. CASE ~known'
    BY <2>2 DEF ProgressAddsUp
  <2> QED
    BY <2>1, <2>2
<1>10. ASSUME NEW f \in File, Verify(f) \/ CallHandler(f) \/ GiveUp(f) \/ FinalizeLease(f) \/ HandlerReturns(f)
       PROVE ProgressAddsUp'
  BY <1>10, SameAddsUp DEF Verify, CallHandler, GiveUp, FinalizeLease, HandlerReturns
<1>11. ASSUME NEW f \in File, Lease(f) \/ HandlerFails(f) PROVE ProgressAddsUp'
  BY <1>11, ApplyAddsUp DEF Lease, HandlerFails, SetTypes
<1>12. ASSUME NEW f \in File, Record(f) PROVE ProgressAddsUp'
  BY <1>12, FilesAddUp DEF Record, SetTypes
<1>13. ASSUME NEW f \in File, Mark(f) PROVE ProgressAddsUp'
  BY <1>13, ApplyAddsUp DEF Mark, SetTypes
<1>14. CASE Pause \/ Unpause
  BY <1>14, SameAddsUp DEF Pause, Unpause
<1>15. ASSUME NEW sel \in SUBSET File \ {{}}, ChangeOption(sel) PROVE ProgressAddsUp'
  <2>1. CASE known
    BY <1>15, <2>1, FilesAddUp DEF ChangeOption, SetTypes
  <2>2. CASE ~known
    BY <1>15, <2>2 DEF ChangeOption, ProgressAddsUp, fileVars
  <2> QED
    BY <2>1, <2>2
<1>16. CASE UNCHANGED vars
  BY <1>16 DEF vars, runVars, optionVars, fileVars, streamVars, storageVars, processVars, ProgressAddsUp
<1> QED
  BY <1>1, <1>2, <1>3, <1>4, <1>5, <1>6, <1>7, <1>8, <1>9, <1>10, <1>11, <1>12, <1>13, <1>14,
     <1>15, <1>16
  DEF Next, RunStep, FileStep, HandlerStep

----------------------------------------------------------------------------
\* The run

\* The run keeps to its selection, until it is changed.
LEMMA RunKept ==
  ASSUME RunTypes, SetTypes, FileTypes, RunInv, [Next]_vars
  PROVE  RunInv'
<1>1. CASE Start
  BY <1>1 DEF Start, optionVars, fileVars, storageVars, processVars, RunTypes, SetTypes, FileTypes,
     RunInv, Handler, Held, Leases
<1>2. CASE GotInfo
  BY <1>2 DEF GotInfo, Files, optionVars, streamVars, storageVars, processVars, RunTypes, SetTypes,
     FileTypes, RunInv, Handler, Held, Leases
<1>3. CASE Reconcile
  BY <1>3 DEF Reconcile, Files, optionVars, streamVars, storageVars, processVars, RunTypes, SetTypes,
     FileTypes, RunInv, Handler, Held, Leases
<1>4. CASE EarlyReturn
  BY <1>4 DEF EarlyReturn, Return, optionVars, fileVars, streamVars, storageVars, processVars, RunTypes,
     SetTypes, FileTypes, RunInv, Handler, Held, Leases
<1>5. CASE BeginStream
  BY <1>5 DEF BeginStream, Indexes, optionVars, fileVars, storageVars, processVars, RunTypes, SetTypes,
     FileTypes, RunInv, Handler, Held, Leases
<1>6. CASE AllVerified
  BY <1>6 DEF AllVerified, Return, optionVars, fileVars, streamVars, storageVars, processVars, RunTypes,
     SetTypes, FileTypes, RunInv, Handler, Held, Leases
<1>7. CASE StreamReturns
  BY <1>7 DEF StreamReturns, Return, Stopping, optionVars, fileVars, storageVars, processVars, RunTypes,
     SetTypes, FileTypes, RunInv, Handler, Held, Leases
<1>8. CASE StopProgress
  BY <1>8 DEF StopProgress, Apply, optionVars, streamVars, storageVars, processVars, RunTypes, SetTypes,
     FileTypes, RunInv, Handler, Held, Leases
<1>9. CASE Finish
  BY <1>9 DEF Finish, optionVars, streamVars, storageVars, processVars, RunTypes, SetTypes, FileTypes,
     RunInv, Handler, Held, Leases
<1>10. CASE WriteChunkFails
  BY <1>10 DEF WriteChunkFails, optionVars, fileVars, streamVars, storageVars, processVars, RunTypes,
     SetTypes, FileTypes, RunInv, Handler, Held, Leases
<1>11. CASE Look
  BY <1>11 DEF Look, runVars, optionVars, fileVars, streamVars, storageVars, processVars, RunTypes,
     SetTypes, FileTypes, RunInv, Handler, Held, Leases
<1>12. CASE Update
  BY <1>12 DEF Update, Apply, runVars, optionVars, streamVars, storageVars, processVars, RunTypes,
     SetTypes, FileTypes, RunInv, Handler, Held, Leases
<1>13. CASE Save
  BY <1>13 DEF Save, runVars, optionVars, fileVars, streamVars, storageVars, processVars, RunTypes,
     SetTypes, FileTypes, RunInv, Handler, Held, Leases
<1>14. CASE Crash
  BY <1>14 DEF Crash, Files, optionVars, storageVars, RunTypes, SetTypes, FileTypes, RunInv, Handler,
     Held, Leases
<1>15. ASSUME NEW f \in File, Verify(f) PROVE RunInv'
  BY <1>15 DEF Verify, runVars, optionVars, fileVars, streamVars, processVars, RunTypes, SetTypes,
     FileTypes, RunInv, Handler, Held, Leases
<1>16. ASSUME NEW f \in File, Lease(f) PROVE RunInv'
  BY <1>16 DEF Lease, SetLease, Apply, Stopping, runVars, optionVars, storageVars, processVars,
     RunTypes, SetTypes, FileTypes, RunInv, Handler, Held, Leases
<1>17. ASSUME NEW f \in File, CallHandler(f) PROVE RunInv'
  BY <1>17 DEF CallHandler, SetLease, Stopping, optionVars, fileVars, storageVars, processVars,
     RunTypes, SetTypes, FileTypes, RunInv, Handler, Held, Leases
<1>18. ASSUME NEW f \in File, Record(f) PROVE RunInv'
  BY <1>18 DEF Record, SetLease, Files, runVars, optionVars, storageVars, processVars, RunTypes,
     SetTypes, FileTypes, RunInv, Handler, Held, Leases
<1>19. ASSUME NEW f \in File, Mark(f) PROVE RunInv'
  BY <1>19 DEF Mark, SetLease, Apply, MarkSelection, runVars, optionVars, storageVars, processVars, RunTypes,
     SetTypes, FileTypes, RunInv, Handler, Held, Leases
<1>20. ASSUME NEW f \in File, GiveUp(f) PROVE RunInv'
  BY <1>20 DEF GiveUp, SetLease, Stopping, optionVars, fileVars, storageVars, processVars, RunTypes,
     SetTypes, FileTypes, RunInv, Handler, Held, Leases
<1>21. ASSUME NEW f \in File, FinalizeLease(f) PROVE RunInv'
  BY <1>21 DEF FinalizeLease, runVars, optionVars, fileVars, processVars, RunTypes, SetTypes, FileTypes,
     RunInv, Handler, Held, Leases
<1>22. ASSUME NEW f \in File, HandlerReturns(f) PROVE RunInv'
  BY <1>22 DEF HandlerReturns, SetLease, runVars, optionVars, fileVars, storageVars, processVars,
     RunTypes, SetTypes, FileTypes, RunInv, Handler, Held, Leases
<1>23. ASSUME NEW f \in File, HandlerFails(f) PROVE RunInv'
  BY <1>23 DEF HandlerFails, SetLease, Apply, optionVars, processVars, RunTypes, SetTypes, FileTypes,
     RunInv, Handler, Held, Leases
<1>24. CASE Pause
  BY <1>24 DEF Pause, CancelRun, fileVars, streamVars, storageVars, processVars, RunTypes, SetTypes,
     FileTypes, RunInv, Handler, Held, Leases
<1>25. CASE Unpause
  BY <1>25 DEF Unpause, runVars, optionVars, fileVars, streamVars, storageVars, processVars, RunTypes,
     SetTypes, FileTypes, RunInv, Handler, Held, Leases
<1>26. ASSUME NEW sel \in SUBSET File \ {{}}, ChangeOption(sel) PROVE RunInv'
  BY <1>26 DEF ChangeOption, CancelRun, Files, fileVars, streamVars, storageVars, processVars, RunTypes,
     SetTypes, FileTypes, RunInv, Handler, Held, Leases
<1>27. CASE UNCHANGED vars
  BY <1>27 DEF vars, runVars, optionVars, fileVars, streamVars, storageVars, processVars, RunTypes,
     SetTypes, FileTypes, RunInv, Handler, Held, Leases
<1> QED
  BY <1>1, <1>2, <1>3, <1>4, <1>5, <1>6, <1>7, <1>8, <1>9, <1>10, <1>11, <1>12, <1>13, <1>14,
     <1>15, <1>16, <1>17, <1>18, <1>19, <1>20, <1>21, <1>22, <1>23, <1>24, <1>25, <1>26, <1>27,
     ZenonT(30)
  DEF Next, RunStep, FileStep, HandlerStep

----------------------------------------------------------------------------
\* The hand-off

\* A discarded file is known to nobody but the process.
DiscardIsKept == \A s \in Setups : s.discard => s.crashes = 0

\* A file that was handed off is not leased again.
LEMMA HandKept ==
  ASSUME DiscardIsKept, RunTypes, SetTypes, FileTypes, RunInv, HandInv, [Next]_vars
  PROVE  HandInv'
<1>1. CASE Start
  BY <1>1 DEF Start, optionVars, fileVars, storageVars, processVars, RunTypes, SetTypes, FileTypes,
     RunInv, HandInv, Handler, MayDiscard, Held, Leases
<1>2. CASE GotInfo
  BY <1>2 DEF GotInfo, Files, optionVars, streamVars, storageVars, processVars, RunTypes, SetTypes,
     FileTypes, RunInv, HandInv, Handler, MayDiscard, Held, Leases
<1>3. CASE Reconcile
  BY <1>3 DEF Reconcile, Files, optionVars, streamVars, storageVars, processVars, RunTypes, SetTypes,
     FileTypes, RunInv, HandInv, Handler, MayDiscard, Held, Leases
<1>4. CASE EarlyReturn
  BY <1>4 DEF EarlyReturn, Return, optionVars, fileVars, streamVars, storageVars, processVars, RunTypes,
     SetTypes, FileTypes, RunInv, HandInv, Handler, MayDiscard, Held, Leases
<1>5. CASE BeginStream
  BY <1>5 DEF BeginStream, Indexes, optionVars, fileVars, storageVars, processVars, RunTypes, SetTypes,
     FileTypes, RunInv, HandInv, Handler, MayDiscard, Held, Leases
<1>6. CASE AllVerified
  BY <1>6 DEF AllVerified, Return, optionVars, fileVars, streamVars, storageVars, processVars, RunTypes,
     SetTypes, FileTypes, RunInv, HandInv, Handler, MayDiscard, Held, Leases
<1>7. CASE StreamReturns
  BY <1>7 DEF StreamReturns, Return, Stopping, optionVars, fileVars, storageVars, processVars, RunTypes,
     SetTypes, FileTypes, RunInv, HandInv, Handler, MayDiscard, Held, Leases
<1>8. CASE StopProgress
  BY <1>8 DEF StopProgress, Apply, optionVars, streamVars, storageVars, processVars, RunTypes, SetTypes,
     FileTypes, RunInv, HandInv, Handler, MayDiscard, Held, Leases
<1>9. CASE Finish
  BY <1>9 DEF Finish, optionVars, streamVars, storageVars, processVars, RunTypes, SetTypes, FileTypes,
     RunInv, HandInv, Handler, MayDiscard, Held, Leases
<1>10. CASE WriteChunkFails
  BY <1>10 DEF WriteChunkFails, optionVars, fileVars, streamVars, storageVars, processVars, RunTypes,
     SetTypes, FileTypes, RunInv, HandInv, Handler, MayDiscard, Held, Leases
<1>11. CASE Look
  BY <1>11 DEF Look, runVars, optionVars, fileVars, streamVars, storageVars, processVars, RunTypes,
     SetTypes, FileTypes, RunInv, HandInv, Handler, MayDiscard, Held, Leases
<1>12. CASE Update
  BY <1>12 DEF Update, Apply, runVars, optionVars, streamVars, storageVars, processVars, RunTypes,
     SetTypes, FileTypes, RunInv, HandInv, Handler, MayDiscard, Held, Leases
<1>13. CASE Save
  BY <1>13 DEF Save, runVars, optionVars, fileVars, streamVars, storageVars, processVars, RunTypes,
     SetTypes, FileTypes, RunInv, HandInv, Handler, MayDiscard, Held, Leases
<1>14. CASE Crash
  <2>1. ~MayDiscard
    BY <1>14, SMTT(30) DEF Crash, DiscardIsKept, MayDiscard, MaxCrashes, RunTypes
  <2>2. /\ run' = "none" /\ \A f \in File : lease'[f] = "none"
        /\ finished' = {} /\ UNCHANGED <<setup, delivered, released>>
    BY <1>14 DEF Crash, storageVars
  <2> QED
    BY <2>1, <2>2 DEF HandInv, MayDiscard
<1>15. ASSUME NEW f \in File, Verify(f) PROVE HandInv'
  BY <1>15 DEF Verify, runVars, optionVars, fileVars, streamVars, processVars, RunTypes, SetTypes,
     FileTypes, RunInv, HandInv, Handler, MayDiscard, Held, Leases
<1>16. ASSUME NEW f \in File, Lease(f) PROVE HandInv'
  BY <1>16 DEF Lease, SetLease, Apply, Stopping, runVars, optionVars, storageVars, processVars,
     RunTypes, SetTypes, FileTypes, RunInv, HandInv, Handler, MayDiscard, Held, Leases
<1>17. ASSUME NEW f \in File, CallHandler(f) PROVE HandInv'
  BY <1>17 DEF CallHandler, SetLease, Stopping, optionVars, fileVars, storageVars, processVars,
     RunTypes, SetTypes, FileTypes, RunInv, HandInv, Handler, MayDiscard, Held, Leases
<1>18. ASSUME NEW f \in File, Record(f) PROVE HandInv'
  BY <1>18 DEF Record, SetLease, Files, runVars, optionVars, storageVars, processVars, RunTypes,
     SetTypes, FileTypes, RunInv, HandInv, Handler, MayDiscard, Held, Leases
<1>19. ASSUME NEW f \in File, Mark(f) PROVE HandInv'
  BY <1>19 DEF Mark, SetLease, Apply, MarkSelection, runVars, optionVars, storageVars, processVars, RunTypes,
     SetTypes, FileTypes, RunInv, HandInv, Handler, MayDiscard, Held, Leases
<1>20. ASSUME NEW f \in File, GiveUp(f) PROVE HandInv'
  BY <1>20 DEF GiveUp, SetLease, Stopping, optionVars, fileVars, storageVars, processVars, RunTypes,
     SetTypes, FileTypes, RunInv, HandInv, Handler, MayDiscard, Held, Leases
<1>21. ASSUME NEW f \in File, FinalizeLease(f) PROVE HandInv'
  BY <1>21 DEF FinalizeLease, runVars, optionVars, fileVars, processVars, RunTypes, SetTypes, FileTypes,
     RunInv, HandInv, Handler, MayDiscard, Held, Leases
<1>22. ASSUME NEW f \in File, HandlerReturns(f) PROVE HandInv'
  BY <1>22 DEF HandlerReturns, SetLease, runVars, optionVars, fileVars, storageVars, processVars,
     RunTypes, SetTypes, FileTypes, RunInv, HandInv, Handler, MayDiscard, Held, Leases
<1>23. ASSUME NEW f \in File, HandlerFails(f) PROVE HandInv'
  BY <1>23 DEF HandlerFails, SetLease, Apply, optionVars, processVars, RunTypes, SetTypes, FileTypes,
     RunInv, HandInv, Handler, MayDiscard, Held, Leases
<1>24. CASE Pause
  BY <1>24 DEF Pause, CancelRun, fileVars, streamVars, storageVars, processVars, RunTypes, SetTypes,
     FileTypes, RunInv, HandInv, Handler, MayDiscard, Held, Leases
<1>25. CASE Unpause
  BY <1>25 DEF Unpause, runVars, optionVars, fileVars, streamVars, storageVars, processVars, RunTypes,
     SetTypes, FileTypes, RunInv, HandInv, Handler, MayDiscard, Held, Leases
<1>26. ASSUME NEW sel \in SUBSET File \ {{}}, ChangeOption(sel) PROVE HandInv'
  BY <1>26 DEF ChangeOption, CancelRun, Files, fileVars, streamVars, storageVars, processVars, RunTypes,
     SetTypes, FileTypes, RunInv, HandInv, Handler, MayDiscard, Held, Leases
<1>27. CASE UNCHANGED vars
  BY <1>27 DEF vars, runVars, optionVars, fileVars, streamVars, storageVars, processVars, RunTypes,
     SetTypes, FileTypes, RunInv, HandInv, Handler, MayDiscard, Held, Leases
<1> QED
  BY <1>1, <1>2, <1>3, <1>4, <1>5, <1>6, <1>7, <1>8, <1>9, <1>10, <1>11, <1>12, <1>13, <1>14,
     <1>15, <1>16, <1>17, <1>18, <1>19, <1>20, <1>21, <1>22, <1>23, <1>24, <1>25, <1>26, <1>27,
     ZenonT(30)
  DEF Next, RunStep, FileStep, HandlerStep

----------------------------------------------------------------------------
\* Theorems

\* The invariants hold at first.
LEMMA InitTorrent == Init => TorrentInv /\ HandInv
<1> SUFFICES ASSUME Init PROVE TorrentInv /\ HandInv
  OBVIOUS
<1>1. RunTypes
  <2>1. failed \in BOOLEAN /\ closed \in BOOLEAN /\ known \in BOOLEAN
    BY DEF Init
  <2> QED
    BY <2>1 DEF Init, RunTypes
<1>2. SetTypes
  BY DEF Init, SetTypes
<1>3. FileTypes
  BY Nothing DEF Init, FileTypes, Leases
<1>4. ProgressAddsUp
  <2>1. Sum(selected, completed) = 0
    BY <1>2, SumZero DEF Init, SetTypes
  <2> QED
    BY <2>1 DEF Init, ProgressAddsUp
<1>5. RunInv
  BY DEF Init, RunInv, Held
<1>6. HandInv
  BY DEF Init, HandInv
<1> QED
  BY <1>1, <1>2, <1>3, <1>4, <1>5, <1>6 DEF TorrentInv

\* Whatever is selected, paused, changed, failed or crashed, the invariant holds.
THEOREM TorrentInvariant == Spec => []TorrentInv
<1>1. Init => TorrentInv
  BY InitTorrent
<1>2. TorrentInv /\ [Next]_vars => TorrentInv'
  BY RunTypesKept, SetTypesKept, FileTypesKept, ProgressKept, RunKept DEF TorrentInv
<1> QED
  BY <1>1, <1>2, PTL DEF Spec

\* What a download reports of its files adds up, in every run and across
\* restarts, and a finalized file stays complete.
THEOREM ProgressRight == Spec => []ProgressAddsUp
<1>1. TorrentInv => ProgressAddsUp
  BY DEF TorrentInv
<1> QED
  BY <1>1, TorrentInvariant, PTL

\* A download never reports more than the length of what is selected, even
\* when finishDownload or a new selection changes one of the two.
THEOREM NeverOverdone == Spec => [](known => completedLen <= totalLength)
<1>1. TorrentInv => (known => completedLen <= totalLength)
  <2> SUFFICES ASSUME TorrentInv, known PROVE completedLen <= totalLength
    OBVIOUS
  <2>1. /\ Sum(selected, Length) \in Nat /\ Sum(selected, completed) \in Nat
        /\ Sum(selected, completed) <= Sum(selected, Length)
    BY SumBound DEF TorrentInv, SetTypes, FileTypes
  <2> QED
    BY <2>1, SMTT(30) DEF TorrentInv, ProgressAddsUp
<1> QED
  BY <1>1, TorrentInvariant, PTL

\* A download completes only when each file that is selected by then has been
\* handed off or verified, whenever the selection was changed.
THEOREM SelectionCompleted == Spec => CompletesSelection
<1> DEFINE Complete == status # "complete" /\ status' = "complete"
                         => \A f \in selected : f \in finalized \/ (~Handler /\ verified[f] = Length[f])
<1>1. TorrentInv /\ [Next]_vars => [Complete]_vars
  <2> SUFFICES ASSUME TorrentInv, Next, status # "complete", status' = "complete"
               PROVE  \A f \in selected : f \in finalized \/ (~Handler /\ verified[f] = Length[f])
    OBVIOUS
  <2>1. Finish
    BY DEF Next, RunStep, FileStep, HandlerStep, Start, GotInfo, Reconcile, EarlyReturn, BeginStream,
       AllVerified, StreamReturns, StopProgress, WriteChunkFails, Look, Update, Save, Crash, Verify,
       Lease, CallHandler, Record, Mark, GiveUp, FinalizeLease, HandlerReturns, HandlerFails, Pause, Unpause,
       ChangeOption, CancelRun
  <2>2. run = "returned" /\ result = "ok" /\ status = "active"
    BY <2>1 DEF Finish
  <2> QED
    BY <2>2 DEF TorrentInv, RunInv
<1> QED
  BY <1>1, TorrentInvariant, PTL DEF Spec, CompletesSelection

\* If a handler discards files only in a process that does not crash, then no
\* file is handed off twice, in one run or in several: a released file is found
\* in the storage, a discarded one among the finalized ones.
THEOREM HandedOnce ==
  ASSUME DiscardIsKept
  PROVE  Spec => NeverHandedTwice
<1> DEFINE Once == \A f \in File : lease[f] = "leased" /\ lease'[f] = "handling" => f \notin delivered
<1>1. Init => TorrentInv /\ HandInv
  BY InitTorrent
<1>2. TorrentInv /\ HandInv /\ [Next]_vars => HandInv'
  BY HandKept DEF TorrentInv
<1>3. HandInv => [Once]_vars
  BY DEF HandInv
<1> QED
  BY <1>1, <1>2, <1>3, TorrentInvariant, PTL DEF Spec, NeverHandedTwice

----------------------------------------------------------------------------
\* Notifications

\* The results of a run.
Results == {"complete", "error"}

\* Notifications, and those that are due.
Events == [what : {"start", "btComplete", "pause", "stop", "complete", "error"}, run : Nat]
Dues   == [by : Nat, event : Events]

\* The start of the run numbered r.
StartOf(r) == [what |-> "start", run |-> r]

\* The start of the run numbered r has been sent.
Announced(r) == \E j \in DOMAIN log : log[j] = StartOf(r)

\* The types.
NoteTypes ==
  /\ state \in {"waiting", "active", "paused"} \cup Terminal
  /\ started \in Nat /\ calls \in Nat
  /\ subscribers \subseteq Sub /\ shut \in [Sub -> BOOLEAN]
  /\ due \subseteq Dues /\ log \in Seq(Events)

\* Who is subscribed has an open channel, and nobody is after Close.
SubscribersOpen ==
  /\ ended => canceled /\ subscribers = {}
  /\ \A s \in subscribers : ~shut[s]

\* A run starts after its start was sent, so the start precedes the run's result
\* while this is about to be sent and when it has been.
StartsFirst ==
  /\ running => Announced(started)
  /\ \A d \in due : d.event.what \in Results => Announced(d.event.run)
  /\ \A i \in DOMAIN log : log[i].what \in Results => \E j \in 1..(i - 1) : log[j] = StartOf(log[i].run)

\* A result is that of a run which nobody interrupted, and so is a download that
\* is still active.
ResultsWanted ==
  /\ \A r \in interrupted : r \in Nat /\ r <= started
  /\ state = "active" => started \notin interrupted
  /\ \A d \in due : d.event.what \in Results => d.event.run \notin interrupted
  /\ \A i \in DOMAIN log : log[i].what \in Results => log[i].run \notin interrupted

\* The inductive invariant.
NotifyInv == NoteTypes /\ SubscribersOpen /\ StartsFirst /\ ResultsWanted /\ OneEnding

----------------------------------------------------------------------------

\* What a notification does to the log.
LEMMA Logged ==
  ASSUME log \in Seq(Events), NEW e \in Events, notify(e)
  PROVE  /\ log' \in Seq(Events) /\ DOMAIN log' = DOMAIN log \cup {Len(log) + 1}
         /\ Len(log) + 1 \notin DOMAIN log /\ log'[Len(log) + 1] = e
         /\ \A i \in DOMAIN log : log'[i] = log[i]
         /\ UNCHANGED <<subscribers, shut>>
BY SMTT(30) DEF notify

\* It keeps every start that was sent, and everything before it.
LEMMA LoggedStarts ==
  ASSUME log \in Seq(Events), NEW e \in Events, notify(e)
  PROVE  /\ \A r : Announced(r) => Announced(r)'
         /\ \A i \in DOMAIN log : \A j \in 1..(i - 1) : log'[j] = log[j]
         /\ \A r : Announced(r) => \E j \in 1..((Len(log) + 1) - 1) : log'[j] = StartOf(r)
<1>1. DOMAIN log = 1..Len(log) /\ Len(log) \in Nat
  BY SMTT(30)
<1> QED BY <1>1, Logged, SMTT(30) DEF Announced, StartOf

\* An ending is sent, or something else is.
LEMMA LoggedSent ==
  ASSUME log \in Seq(Events), NEW e \in Events, notify(e)
  PROVE  /\ e.what \in Endings => Sent' = Sent \cup {Len(log) + 1}
         /\ e.what \notin Endings => Sent' = Sent
<1>1. ASSUME NEW i \in DOMAIN log' PROVE i \in Sent' <=> i \in Sent \/ (i = Len(log) + 1 /\ e.what \in Endings)
  BY Logged DEF Sent
<1>2. Sent' \subseteq DOMAIN log' /\ Sent \subseteq DOMAIN log /\ DOMAIN log \subseteq DOMAIN log'
      /\ Len(log) + 1 \in DOMAIN log'
  BY Logged DEF Sent
<1> QED BY <1>1, <1>2

\* notify keeps what holds of the starts, if the run of a result was announced.
LEMMA NotifyStarts ==
  ASSUME NoteTypes, StartsFirst, NEW e \in Events, notify(e), e.what \in Results => Announced(e.run),
         due' \subseteq due, running' => running \/ e = StartOf(started), started' = started
  PROVE  StartsFirst'
<1>1. log \in Seq(Events)
  BY DEF NoteTypes
<1>2. (running => Announced(started))'
  <2>1. e = StartOf(started) => Announced(started)'
    BY <1>1, Logged DEF Announced, StartOf
  <2> QED BY <1>1, <2>1, LoggedStarts DEF StartsFirst
<1>3. (\A d \in due : d.event.what \in Results => Announced(d.event.run))'
  BY <1>1, LoggedStarts DEF StartsFirst
<1>4. ASSUME NEW i \in DOMAIN log', log'[i].what \in Results
      PROVE  \E j \in 1..(i - 1) : log'[j] = StartOf(log'[i].run)
  <2>1. CASE i = Len(log) + 1
    BY <1>1, <1>4, <2>1, Logged, LoggedStarts
  <2>2. CASE i \in DOMAIN log
    <3>1. log'[i] = log[i]
      BY <1>1, <2>2, Logged
    <3>2. PICK j \in 1..(i - 1) : log[j] = StartOf(log[i].run)
      BY <1>4, <2>2, <3>1 DEF StartsFirst
    <3>3. log'[j] = log[j]
      BY <1>1, <2>2, LoggedStarts
    <3> QED BY <3>1, <3>2, <3>3
  <2> QED BY <1>1, <1>4, <2>1, <2>2, Logged
<1> QED BY <1>2, <1>3, <1>4 DEF StartsFirst

\* notify keeps the results wanted, if that which it sends is.
LEMMA NotifyWanted ==
  ASSUME NoteTypes, ResultsWanted, NEW e \in Events, notify(e), e.what \in Results => e.run \notin interrupted,
         due' \subseteq due, UNCHANGED <<state, started, interrupted>>
  PROVE  ResultsWanted'
<1>1. log \in Seq(Events)
  BY DEF NoteTypes
<1>2. (\A i \in DOMAIN log : log[i].what \in Results => log[i].run \notin interrupted)'
  BY <1>1, Logged DEF ResultsWanted
<1> QED BY <1>2 DEF ResultsWanted

\* A request interrupts the run of an active download, which has sent no result.
LEMMA RequestWanted ==
  ASSUME NotifyInv, Request, state \notin Terminal, state' # "active", UNCHANGED <<started, log>>,
         \A d \in due' : d \in due \/ d.event.what \notin Results
  PROVE  ResultsWanted'
<1>1. /\ \A d \in due : d.event.what \notin Results
      /\ \A i \in DOMAIN log : log[i].what \notin Results
  BY DEF NotifyInv, OneEnding, Sent, Coming, Endings, Results
<1>2. \A r \in interrupted' : r \in interrupted \/ r = started
  BY DEF Request
<1>3. (\A r \in interrupted : r \in Nat /\ r <= started)'
  BY <1>2, SMTT(30) DEF NotifyInv, NoteTypes, ResultsWanted
<1> QED BY <1>1, <1>3 DEF ResultsWanted

\* Steps that send nothing and leave the log alone: the starts stay, if a result
\* that becomes due is that of the run that ends.
LEMMA QuietStarts ==
  ASSUME StartsFirst, log' = log, started' = started \/ ~running', running' => running,
         \A d \in due' : d \in due \/ d.event.what \notin Results \/ (running /\ d.event.run = started)
  PROVE  StartsFirst'
<1>1. \A r : Announced(r) => Announced(r)'
  BY DEF Announced, StartOf
<1> QED BY <1>1 DEF StartsFirst, StartOf

\* A call of pause or remove, and a run, add one notification that is due.
LEMMA DueOne ==
  ASSUME NoteTypes, NEW by \in Nat, NEW what \in {"pause", "stop", "complete", "error"}, Due(by, what)
  PROVE  \E d \in Dues : /\ due' = due \cup {d} /\ due' \subseteq Dues
                         /\ d.event.what = what /\ d.event.run = started
<1> DEFINE d == [by |-> by, event |-> Event(what)]
<1>1. d \in Dues /\ d.event.what = what /\ d.event.run = started
  BY DEF Dues, Events, Event, NoteTypes
<1>2. due' = due \cup {d}
  BY DEF Due
<1> QED BY <1>1, <1>2 DEF NoteTypes

\* The endings when nothing is sent.
LEMMA QuietEndings ==
  ASSUME log' = log, NEW d, due' = due \cup {d}
  PROVE  /\ Sent' = Sent
         /\ d.event.what \in Endings => Coming' = Coming \cup {d}
         /\ d.event.what \notin Endings => Coming' = Coming
BY DEF Sent, Coming

\* schedule, requests and Cancel: nothing is sent and nothing ends.
LEMMA NothingEnds ==
  ASSUME NotifyInv,
         \/ Schedule \/ Requeue \/ Cancel \/ CloseSubscribers
         \/ \E s \in Sub : Subscribe(s) \/ Unsubscribe(s) \/ Take(s)
  PROVE  NotifyInv'
<1>1. /\ log' = log /\ due' = due /\ (started' = started \/ ~running') /\ running' = running
      /\ state' = state \/ (state \notin Terminal /\ state' \notin Terminal)
      /\ state' \in {"waiting", "active", "paused"} \cup Terminal /\ started' \in Nat /\ calls' \in Nat
  <2>1. CASE Schedule
    BY <2>1, SMTT(30) DEF NotifyInv, NoteTypes, Schedule, Terminal
  <2>2. CASE Requeue
    BY <2>2, SMTT(30) DEF NotifyInv, NoteTypes, Requeue, Request, Terminal
  <2>3. CASE Cancel \/ (\E s \in Sub : Subscribe(s) \/ Unsubscribe(s) \/ Take(s)) \/ CloseSubscribers
    <3>1. UNCHANGED <<downloadVars, log>>
      BY <2>3 DEF Cancel, Subscribe, Unsubscribe, Take, CloseSubscribers
    <3> QED BY <3>1 DEF NotifyInv, NoteTypes, downloadVars
  <2> QED BY <2>1, <2>2, <2>3
<1> DEFINE Goal == subscribers' \subseteq Sub /\ shut' \in [Sub -> BOOLEAN] /\ SubscribersOpen'
<1>2. Goal
  <2>1. CASE Schedule \/ Requeue
    BY <2>1, SMTT(30) DEF NotifyInv, NoteTypes, SubscribersOpen, Schedule, Requeue, subVars
  <2>2. CASE Cancel
    BY <2>2 DEF NotifyInv, NoteTypes, SubscribersOpen, Cancel, subVars
  <2>3. ASSUME NEW s \in Sub, Subscribe(s) PROVE Goal
    <3>1. CASE canceled
      <4>1. /\ s \notin subscribers /\ shut' = [shut EXCEPT ![s] = TRUE]
            /\ UNCHANGED <<subscribers, canceled, ended>>
        BY <2>3, <3>1 DEF Subscribe
      <4> QED BY <4>1 DEF NotifyInv, NoteTypes, SubscribersOpen
    <3>2. CASE ~canceled
      <4>1. /\ ~shut[s] /\ subscribers' = subscribers \cup {s}
            /\ UNCHANGED <<shut, canceled, ended>>
        BY <2>3, <3>2 DEF Subscribe
      <4> QED BY <3>2, <4>1 DEF NotifyInv, NoteTypes, SubscribersOpen
    <3> QED BY <3>1, <3>2
  <2>4. ASSUME NEW s \in Sub, Unsubscribe(s) PROVE Goal
    BY <2>4 DEF NotifyInv, NoteTypes, SubscribersOpen, Unsubscribe
  <2>5. ASSUME NEW s \in Sub, Take(s) PROVE Goal
    BY <2>5 DEF NotifyInv, NoteTypes, SubscribersOpen, Take
  <2>6. CASE CloseSubscribers
    BY <2>6 DEF NotifyInv, NoteTypes, SubscribersOpen, CloseSubscribers
  <2> QED BY <2>1, <2>2, <2>3, <2>4, <2>5, <2>6
<1>3. NoteTypes'
  BY <1>1, <1>2 DEF NotifyInv, NoteTypes
<1>4. StartsFirst'
  BY <1>1, QuietStarts DEF NotifyInv
<1>5. OneEnding'
  BY <1>1 DEF NotifyInv, OneEnding, Sent, Coming
<1>6. ResultsWanted'
  <2>1. CASE Schedule
    <3>1. started' = started + 1 /\ started \in Nat /\ interrupted' = interrupted
      BY <2>1 DEF Schedule, NotifyInv, NoteTypes
    <3>2. \A r \in interrupted : r \in Nat /\ r <= started
      BY DEF NotifyInv, ResultsWanted
    <3>3. (\A r \in interrupted : r \in Nat /\ r <= started)' /\ started' \notin interrupted'
      BY <3>1, <3>2, SMTT(30)
    <3> QED BY <1>1, <3>1, <3>3 DEF NotifyInv, ResultsWanted
  <2>2. CASE Requeue
    BY <1>1, <2>2, RequestWanted DEF Requeue, Terminal
  <2>3. CASE Cancel \/ (\E s \in Sub : Subscribe(s) \/ Unsubscribe(s) \/ Take(s)) \/ CloseSubscribers
    <3>1. UNCHANGED <<downloadVars, log>>
      BY <2>3 DEF Cancel, Subscribe, Unsubscribe, Take, CloseSubscribers
    <3> QED BY <3>1 DEF NotifyInv, ResultsWanted, downloadVars
  <2> QED BY <2>1, <2>2, <2>3
<1> QED BY <1>2, <1>3, <1>4, <1>5, <1>6 DEF NotifyInv

\* pause, remove and the end of a run: something becomes due.
LEMMA BecomesDue ==
  ASSUME NotifyInv, PauseDownload \/ Remove \/ FinishDownload
  PROVE  NotifyInv'
<1>1. /\ log' = log /\ started' = started /\ (running' => running) /\ calls' \in Nat
      /\ UNCHANGED <<subscribers, shut, canceled, ended>>
  BY SMTT(30) DEF NotifyInv, NoteTypes, PauseDownload, Remove, FinishDownload, Request, subVars
<1>2. SubscribersOpen'
  BY <1>1 DEF NotifyInv, SubscribersOpen
<1>3. CASE due' = due /\ interrupted' = interrupted
           /\ (state' = state \/ (state = "active" /\ state' \in {"waiting", "paused"}))
  <2>1. NoteTypes'
    BY <1>1, <1>3 DEF NotifyInv, NoteTypes
  <2>2. StartsFirst'
    BY <1>1, <1>3, QuietStarts DEF NotifyInv
  <2>3. OneEnding'
    BY <1>1, <1>3 DEF NotifyInv, OneEnding, Sent, Coming, Terminal
  <2>4. ResultsWanted'
    BY <1>1, <1>3 DEF NotifyInv, ResultsWanted
  <2> QED BY <1>2, <2>1, <2>2, <2>3, <2>4 DEF NotifyInv
<1>4. ASSUME NEW by \in Nat, NEW what \in {"pause", "stop", "complete", "error"}, Due(by, what),
             state \notin Terminal,
             state' = IF what = "pause" THEN "paused" ELSE IF what = "stop" THEN "removed" ELSE what,
             what \in Results => running /\ state = "active" /\ interrupted' = interrupted,
             what \notin Results => Request
      PROVE  NotifyInv'
  <2>1. PICK d \in Dues : /\ due' = due \cup {d} /\ due' \subseteq Dues
                          /\ d.event.what = what /\ d.event.run = started
    BY <1>4, DueOne DEF NotifyInv
  <2>2. NoteTypes'
    BY <1>1, <1>4, <2>1 DEF NotifyInv, NoteTypes, Terminal
  <2>3. StartsFirst'
    <3>1. \A c \in due' : c \in due \/ c.event.what \notin Results \/ (running /\ c.event.run = started)
      BY <1>4, <2>1
    <3> QED BY <1>1, <3>1, QuietStarts DEF NotifyInv
  <2>4. OneEnding'
    <3>1. Sent = {} /\ Coming = {}
      BY <1>4 DEF NotifyInv, OneEnding
    <3>2. Sent' = {} /\ Coming' = IF what \in Endings THEN {d} ELSE {}
      BY <1>1, <2>1, <3>1, QuietEndings
    <3>3. state' \in Terminal <=> what \in Endings
      BY <1>4 DEF Terminal, Endings
    <3> QED BY <2>1, <3>2, <3>3 DEF OneEnding
  <2>5. ResultsWanted'
    <3>1. CASE what \in Results
      <4>1. state' # "active"
        BY <1>4, <3>1 DEF Results
      <4> QED BY <1>1, <1>4, <2>1, <3>1, <4>1 DEF NotifyInv, ResultsWanted
    <3>2. CASE what \notin Results
      <4>1. state' # "active"
        BY <1>4, <3>2 DEF Results
      <4> QED BY <1>1, <1>4, <2>1, <3>2, <4>1, RequestWanted
    <3> QED BY <3>1, <3>2
  <2> QED BY <1>2, <2>2, <2>3, <2>4, <2>5 DEF NotifyInv
<1>5. CASE PauseDownload
  <2>1. calls + 1 \in Nat /\ Due(calls + 1, "pause") /\ state \notin Terminal /\ state' = "paused" /\ Request
    BY <1>5, SMTT(30) DEF PauseDownload, NotifyInv, NoteTypes, Terminal
  <2> QED BY <1>4, <2>1 DEF Results
<1>6. CASE Remove
  <2>1. calls + 1 \in Nat /\ Due(calls + 1, "stop") /\ state \notin Terminal /\ state' = "removed" /\ Request
    BY <1>6, SMTT(30) DEF Remove, NotifyInv, NoteTypes, Terminal
  <2> QED BY <1>4, <2>1 DEF Results
<1>7. CASE FinishDownload
  <2>1. CASE state = "active" /\ \E what \in {"complete", "error"} : state' = what /\ Due(0, what)
    <3>1. PICK what \in {"complete", "error"} : state' = what /\ Due(0, what)
      BY <2>1
    <3>2. state \notin Terminal /\ running /\ interrupted' = interrupted
      BY <1>7, <2>1 DEF FinishDownload, Terminal
    <3> QED BY <1>4, <2>1, <3>1, <3>2 DEF Results
  <2>2. CASE ~(state = "active" /\ \E what \in {"complete", "error"} : state' = what /\ Due(0, what))
    BY <1>3, <1>7, <2>2 DEF FinishDownload
  <2> QED BY <2>1, <2>2
<1> QED BY <1>5, <1>6, <1>7

\* The start of a run is sent, and the run is there.
LEMMA LaunchStep ==
  ASSUME NotifyInv, Launch PROVE NotifyInv'
<1>1. PICK e \in Events : e = Event("start") /\ e = StartOf(started) /\ e.what = "start" /\ notify(e)
  BY DEF Launch, Event, StartOf, Events, NotifyInv, NoteTypes
<1>2. UNCHANGED <<state, started, due, calls, interrupted, canceled, ended>>
  BY DEF Launch
<1>3. log \in Seq(Events)
  BY DEF NotifyInv, NoteTypes
<1>4. NoteTypes' /\ SubscribersOpen'
  BY <1>1, <1>2, <1>3, Logged DEF NotifyInv, NoteTypes, SubscribersOpen
<1>5. StartsFirst'
  BY <1>1, <1>2, NotifyStarts DEF NotifyInv, Results
<1>6. Sent' = Sent /\ Coming' = Coming /\ DOMAIN log \subseteq DOMAIN log'
  BY <1>1, <1>2, <1>3, LoggedSent, Logged DEF Endings, Coming
<1>7. OneEnding'
  BY <1>2, <1>6 DEF NotifyInv, OneEnding
<1>8. ResultsWanted'
  BY <1>1, <1>2, NotifyWanted DEF NotifyInv, Results
<1> QED BY <1>4, <1>5, <1>7, <1>8 DEF NotifyInv

\* A torrent's completion is sent: neither a result nor an ending.
LEMMA BtCompleteStep ==
  ASSUME NotifyInv, BtDownloadComplete PROVE NotifyInv'
<1>1. PICK e \in Events : e.what = "btComplete" /\ notify(e)
  BY DEF BtDownloadComplete, Event, Events, NotifyInv, NoteTypes
<1>2. UNCHANGED <<state, started, running, due, calls, interrupted, canceled, ended>>
  BY DEF BtDownloadComplete, downloadVars
<1>3. log \in Seq(Events)
  BY DEF NotifyInv, NoteTypes
<1>4. NoteTypes' /\ SubscribersOpen'
  BY <1>1, <1>2, <1>3, Logged DEF NotifyInv, NoteTypes, SubscribersOpen
<1>5. StartsFirst'
  BY <1>1, <1>2, NotifyStarts DEF NotifyInv, Results
<1>6. Sent' = Sent /\ Coming' = Coming /\ DOMAIN log \subseteq DOMAIN log'
  BY <1>1, <1>2, <1>3, LoggedSent, Logged DEF Endings, Coming
<1>7. OneEnding'
  BY <1>2, <1>6 DEF NotifyInv, OneEnding
<1>8. ResultsWanted'
  BY <1>1, <1>2, NotifyWanted DEF NotifyInv, Results
<1> QED BY <1>4, <1>5, <1>7, <1>8 DEF NotifyInv

\* What was due is sent: an ending is no longer to come, and is there.
LEMMA NotifyStep ==
  ASSUME NotifyInv, NEW d \in due, Notify(d) PROVE NotifyInv'
<1>1. d.event \in Events /\ notify(d.event) /\ due' = due \ {d}
  BY DEF Notify, NotifyInv, NoteTypes, Dues
<1>2. UNCHANGED <<state, started, starting, running, calls, interrupted, canceled, ended>>
  BY DEF Notify
<1>3. log \in Seq(Events)
  BY DEF NotifyInv, NoteTypes
<1>4. NoteTypes' /\ SubscribersOpen'
  BY <1>1, <1>2, <1>3, Logged DEF NotifyInv, NoteTypes, SubscribersOpen
<1>5. StartsFirst'
  <2>1. d.event.what \in Results => Announced(d.event.run)
    BY DEF NotifyInv, StartsFirst
  <2> QED BY <1>1, <1>2, <2>1, NotifyStarts DEF NotifyInv
<1>6. ResultsWanted'
  <2>1. d.event.what \in Results => d.event.run \notin interrupted
    BY DEF NotifyInv, ResultsWanted
  <2> QED BY <1>1, <1>2, <2>1, NotifyWanted DEF NotifyInv
<1>7. Coming' = Coming \ {d} /\ DOMAIN log \subseteq DOMAIN log' /\ Len(log) + 1 \in DOMAIN log'
  BY <1>1, <1>3, Logged DEF Coming
<1>8. CASE d.event.what \in Endings
  <2>1. d \in Coming
    BY <1>8 DEF Coming
  <2>2. state \in Terminal /\ Sent = {} /\ Coming = {d}
    BY <2>1 DEF NotifyInv, OneEnding
  <2>3. Sent' = {Len(log) + 1} /\ Coming' = {}
    BY <1>1, <1>3, <1>7, <1>8, <2>2, LoggedSent
  <2>4. OneEnding'
    BY <1>2, <1>7, <2>2, <2>3 DEF OneEnding
  <2> QED BY <1>6, <1>4, <1>5, <2>4 DEF NotifyInv
<1>9. CASE d.event.what \notin Endings
  <2>1. Sent' = Sent /\ Coming' = Coming
    BY <1>1, <1>3, <1>7, <1>9, LoggedSent DEF Coming
  <2>2. \A c \in Coming : c \in due'
    BY <1>1, <1>9 DEF Coming
  <2>3. OneEnding'
    BY <1>2, <1>7, <2>1, <2>2 DEF NotifyInv, OneEnding
  <2> QED BY <1>6, <1>4, <1>5, <2>3 DEF NotifyInv
<1> QED BY <1>8, <1>9

----------------------------------------------------------------------------

\* The order of the notifications and the subscribers' channels are sound in
\* every state.
THEOREM NotifyInvariant == NotifySpec => []NotifyInv
<1>1. NotifyInit => NotifyInv
  BY SMTT(30) DEF NotifyInit, NotifyInv, NoteTypes, SubscribersOpen, StartsFirst, ResultsWanted, OneEnding,
     Sent, Coming, Terminal, Events, Dues
<1>2. ASSUME NotifyInv, [NotifyNext]_notifyVars PROVE NotifyInv'
  <2>1. CASE UNCHANGED notifyVars
    BY <1>2, <2>1 DEF notifyVars, downloadVars, subVars, NotifyInv, NoteTypes, SubscribersOpen,
       StartsFirst, Announced, StartOf, ResultsWanted, OneEnding, Sent, Coming
  <2>2. CASE NotifyNext
    BY <1>2, <2>2, NothingEnds, BecomesDue, LaunchStep, BtCompleteStep, NotifyStep DEF NotifyNext, EngineStep
  <2> QED BY <1>2, <2>1, <2>2
<1> QED BY <1>1, <1>2, PTL DEF NotifySpec

\* notify never sends on a closed channel, and after Close nobody is subscribed.
THEOREM NoSendOnClosed == NotifySpec => []NeverSendsOnClosed
<1>1. NotifyInv => NeverSendsOnClosed
  BY DEF NotifyInv, SubscribersOpen, NeverSendsOnClosed
<1> QED BY <1>1, NotifyInvariant, PTL

\* The result of a run is sent after its start, once, and only if nobody paused,
\* removed or requeued the download before the run ended.
THEOREM StartBeforeResult == NotifySpec => []ResultFollowsStart
<1>1. NotifyInv => ResultFollowsStart
  <2> SUFFICES ASSUME NotifyInv, NEW i \in DOMAIN log, log[i].what \in {"complete", "error"}
               PROVE  /\ \E j \in 1..(i - 1) : log[j] = [log[i] EXCEPT !.what = "start"]
                      /\ \A j \in 1..(i - 1) : log[j].what \notin {"complete", "error"}
                      /\ log[i].run \notin interrupted
    BY DEF ResultFollowsStart
  <2>1. log[i] \in Events /\ i \in Nat /\ (\A j \in 1..(i - 1) : j \in DOMAIN log /\ j # i)
    BY SMTT(30) DEF NotifyInv, NoteTypes
  <2>2. [log[i] EXCEPT !.what = "start"] = StartOf(log[i].run)
    BY <2>1, SMTT(30) DEF Events, StartOf
  <2>3. \E j \in 1..(i - 1) : log[j] = StartOf(log[i].run)
    BY DEF NotifyInv, StartsFirst, Results
  <2>4. Sent = {i}
    BY DEF NotifyInv, OneEnding, Sent, Endings
  <2>5. ASSUME NEW j \in 1..(i - 1) PROVE log[j].what \notin {"complete", "error"}
    BY <2>1, <2>4 DEF Sent, Endings
  <2>6. log[i].run \notin interrupted
    BY DEF NotifyInv, ResultsWanted, Results
  <2> QED BY <2>2, <2>3, <2>5, <2>6
<1> QED BY <1>1, NotifyInvariant, PTL

\* A terminal download has exactly one terminal notification.
THEOREM EndsOnce == NotifySpec => []OneEnding
<1>1. NotifyInv => OneEnding
  BY DEF NotifyInv
<1> QED BY <1>1, NotifyInvariant, PTL

=============================================================================
