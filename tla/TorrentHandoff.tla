--------------------------- MODULE TorrentHandoff ---------------------------
(***************************************************************************)
(* A torrent download and the hand-off of its files (torrent_download.go,  *)
(* ChangeOption in engine.go).  With a TorrentFileHandler a run gives each *)
(* selected file to the handler as soon as it is verified; the handler     *)
(* releases or discards the file's storage, and the run records the file   *)
(* as finalized.  The record outlives the run, and reaches the disk with   *)
(* the next saved session (SessionStore); without it, a later run learns   *)
(* from the storage which files have been released.                        *)
(*                                                                         *)
(* The torrent client, its storage and stream.Files are external: files    *)
(* become verified, a released file stays marked as released, a discarded  *)
(* one is gone, and stream.Files hands out verified files of its selection *)
(* until that is closed.  Output paths are in OutputReservations, what may *)
(* start when in EngineScheduler, metadata-only downloads left out.        *)
(***************************************************************************)
EXTENDS Integers, FiniteSets

CONSTANTS
  File,        \* the files of the torrent
  Length,      \* their lengths
  Setups,      \* the ways in which the engine and its handler are set up
  MaxActive,   \* goaria-torrent-max-active-files
  MaxRuns, MaxChanges \* bounds

ASSUME FileAssumption ==
  /\ IsFiniteSet(File) /\ Length \in [File -> Nat]
  /\ MaxActive \in Nat \ {0}
  /\ Setups \subseteq [handler : BOOLEAN, magnet : BOOLEAN, discard : BOOLEAN, fail : BOOLEAN, crashes : Nat]

VARIABLES
  status, run, runs, changes, crashes,
  setup,       \* one of Setups, for good
  cause,       \* why the run's context is done: canceled, an error, or it is not
  failed,      \* a handler has failed: the context of the others is done
  result,      \* what the run returns
  select,      \* the option: which files are wanted
  known,       \* the metadata is known
  selected, completed, \* torrentFiles
  totalLength, completedLen,
  finalized,   \* torrentFinalized
  saved,       \* torrentFinalized in the session file
  streaming,   \* the indexes of the selection controller
  done,        \* selectionCompleted
  closed,      \* selectionClosed
  lease,       \* what became of the file in this run
  finished,    \* leases that are finalized
  verified, released, \* the storage
  snapshot,    \* what the progress goroutine has read and not yet applied
  handled,     \* files for which a handler has returned without an error
  delivered    \* and has finalized its lease

Handler    == setup.handler  \* there is a TorrentFileHandler
Magnet     == setup.magnet   \* the metadata has to come from peers
MayDiscard == setup.discard  \* the handler may discard a file
MayFail    == setup.fail     \* the handler, the disk or a step of the run may fail
MaxCrashes == setup.crashes  \* bound

runVars     == <<run, runs, cause, failed, result>>
optionVars  == <<select, changes>>
fileVars    == <<known, selected, completed, totalLength, completedLen>>
streamVars  == <<streaming, done, closed, lease, finished, handled, delivered>>
storageVars == <<verified, released>>
processVars == <<setup, crashes>>
vars == <<status, runVars, optionVars, fileVars, finalized, saved, streamVars, storageVars,
          snapshot, processVars>>

NoSnapshot == [f \in File |-> -1]

----------------------------------------------------------------------------
\* torrentFileStateProgress and its like: the sums over the selected files, as
\* the number of bytes that the files have.

Bytes(files, size) == UNION {{f} \X (1..size[f]) : f \in files}

Sum(files, size) == Cardinality(Bytes(files, size))

Files(sel, size, final) ==
  /\ selected' = sel
  /\ completed' = [f \in File |-> IF f \in final THEN Length[f] ELSE size[f]]
  /\ totalLength' = Sum(sel, Length)
  /\ completedLen' = Sum(sel, completed')

----------------------------------------------------------------------------
\* The client, and the progress it reports

Verify(f) ==
  /\ run = "stream" /\ f \in streaming /\ f \notin released \cup finished
  /\ verified[f] < Length[f]
  /\ verified' = [verified EXCEPT ![f] = @ + 1]
  /\ UNCHANGED <<status, runVars, optionVars, fileVars, finalized, saved, streamVars, released,
                 snapshot, processVars>>

Seen == [f \in File |-> IF f \in released THEN Length[f] ELSE verified[f]]

\* updateTorrentProgress reads the client's state and applies it under the lock.
Look ==
  /\ run = "stream" /\ snapshot = NoSnapshot
  /\ snapshot' = Seen
  /\ UNCHANGED <<status, runVars, optionVars, fileVars, finalized, saved, streamVars, storageVars, processVars>>

\* Slip: what was read is taken for what is.
ApplySeen(seen) ==
  /\ completed' = seen
  /\ completedLen' = Sum(selected, completed')
  /\ UNCHANGED <<known, selected, totalLength>>

Apply(seen) ==
  /\ completed' = [f \in File |-> IF f \in finalized THEN Length[f] ELSE seen[f]]
  /\ completedLen' = Sum(selected, completed')
  /\ UNCHANGED <<known, selected, totalLength>>

Update ==
  /\ snapshot # NoSnapshot
  /\ Apply(snapshot)
  /\ snapshot' = NoSnapshot
  /\ UNCHANGED <<status, runVars, optionVars, finalized, saved, streamVars, storageVars, processVars>>

----------------------------------------------------------------------------
\* The run

\* The first cause of a cancellation stays.
CancelRun == cause' = IF run # "none" /\ cause = "none" THEN "canceled" ELSE cause

Stopping == cause # "none" \/ failed

\* A handler's goroutine has the file.
Held == {"leased", "handling", "waiting", "marking"}

Start ==
  /\ status = "waiting" /\ run = "none" /\ runs < MaxRuns
  /\ status' = "active" /\ run' = "info" /\ runs' = runs + 1
  /\ cause' = "none" /\ failed' = FALSE /\ result' = "none"
  /\ lease' = [f \in File |-> "none"] /\ finished' = {}
  /\ UNCHANGED <<optionVars, fileVars, finalized, saved, streaming, done, closed, handled, delivered,
                 storageVars, snapshot, processVars>>

Return(r) == run' = (IF run = "stream" THEN "stopping" ELSE "returned") /\ result' = r

\* The client has the metadata: refreshTorrentMetadata.
GotInfo ==
  /\ run = "info"
  /\ known' = TRUE
  /\ Files(select, [f \in File |-> 0], finalized)
  /\ run' = IF Handler THEN "reconcile" ELSE "reserve"
  /\ UNCHANGED <<status, runs, cause, failed, result, optionVars, finalized, saved, streamVars,
                 storageVars, snapshot, processVars>>

\* Slip: the storage is not asked.
ReconcileNothing ==
  /\ run = "reconcile"
  /\ run' = "reserve"
  /\ UNCHANGED <<status, runs, cause, failed, result, optionVars, fileVars, finalized, saved,
                 streamVars, storageVars, snapshot, processVars>>

\* reconcileReleasedTorrentFiles
Reconcile ==
  /\ run = "reconcile"
  /\ finalized' = finalized \cup released
  /\ Files(selected, completed, finalized')
  /\ run' = "reserve"
  /\ UNCHANGED <<status, runs, cause, failed, result, optionVars, known, saved, streamVars,
                 storageVars, snapshot, processVars>>

\* The context is done before the metadata has come, or a step fails.
EarlyReturn ==
  /\ run \in {"info", "reserve"}
  /\ \/ run = "info" /\ cause # "none" /\ Return(cause)
     \/ Return("error")
  /\ UNCHANGED <<status, runs, cause, failed, optionVars, fileVars, finalized, saved, streamVars,
                 storageVars, snapshot, processVars>>

\* selectedTorrentFileIndexesFromStates, selectedTorrentFiles
Indexes == selected \ finalized

\* The paths are reserved, the progress goroutine starts, and the files to get
\* are read: once and for all.
BeginStream ==
  /\ run = "reserve"
  /\ streaming' = Indexes
  /\ done' = {} /\ closed' = FALSE
  /\ run' = "stream"
  /\ UNCHANGED <<status, runs, cause, failed, result, optionVars, fileVars, finalized, saved, lease,
                 finished, handled, delivered, storageVars, snapshot, processVars>>

\* The run without a handler: WaitVerifiedComplete of every file in turn.  Without
\* a file it does not look at its context.
AllVerified ==
  /\ run = "stream" /\ ~Handler
  /\ \/ /\ streaming = {} \/ (cause = "none" /\ \A f \in streaming : verified[f] = Length[f])
        /\ Return("ok")
     \/ streaming # {} /\ cause # "none" /\ Return(cause)
     \/ MayFail /\ streaming # {} /\ cause = "none" /\ Return("error")
  /\ UNCHANGED <<status, runs, cause, failed, optionVars, fileVars, finalized, saved, streamVars,
                 storageVars, snapshot, processVars>>

\* A chunk cannot be written: no more data, and the run is canceled for it.
WriteChunkFails ==
  /\ MayFail /\ run = "stream" /\ cause = "none"
  /\ cause' = "error"
  /\ UNCHANGED <<status, run, runs, failed, result, optionVars, fileVars, finalized, saved, streamVars,
                 storageVars, snapshot, processVars>>

\* stream.Files comes back, the selection is closed by then, and a canceled
\* context has the last word.
StreamReturns ==
  /\ run = "stream" /\ Handler
  /\ \A f \in File : lease[f] \notin Held
  /\ streaming = {} \/ closed \/ Stopping
  /\ Return(IF cause # "none" THEN cause ELSE IF failed THEN "error" ELSE "ok")
  /\ closed' = TRUE
  /\ UNCHANGED <<status, runs, cause, failed, optionVars, fileVars, finalized, saved, streaming, done,
                 lease, finished, handled, delivered, storageVars, snapshot, processVars>>

\* The deferred end of the progress goroutine, and a last look.
StopProgress ==
  /\ run = "stopping" /\ snapshot = NoSnapshot
  /\ Apply(Seen)
  /\ run' = "returned"
  /\ UNCHANGED <<status, runs, cause, failed, result, optionVars, finalized, saved, streamVars,
                 storageVars, snapshot, processVars>>

\* finishDownload
Finish ==
  /\ run = "returned"
  /\ run' = "none"
  /\ IF status = "active"
     THEN /\ status' = IF result = "ok" THEN "complete" ELSE IF result = "error" THEN "error" ELSE "paused"
          /\ completedLen' = IF result = "ok" /\ totalLength > 0 THEN totalLength ELSE completedLen
          /\ totalLength' = IF result = "ok" /\ totalLength = 0 THEN completedLen ELSE totalLength
     ELSE UNCHANGED <<status, completedLen, totalLength>>
  /\ UNCHANGED <<runs, cause, failed, result, optionVars, known, selected, completed, finalized, saved,
                 streamVars, storageVars, snapshot, processVars>>

----------------------------------------------------------------------------
\* A file's handler, in a goroutine of stream.Files

SetLease(f, l) == lease' = [lease EXCEPT ![f] = l]

\* stream.Files leases a verified file of its selection.
Lease(f) ==
  /\ run = "stream" /\ Handler /\ ~Stopping /\ ~closed
  /\ f \in streaming /\ lease[f] = "none" /\ verified[f] = Length[f]
  /\ Cardinality({g \in File : lease[g] \in Held}) < MaxActive
  /\ SetLease(f, "leased")
  /\ Apply(Seen)
  /\ UNCHANGED <<status, runVars, optionVars, finalized, saved, streaming, done, closed, finished, handled, delivered,
                 storageVars, snapshot, processVars>>

\* handleCompletedTorrentFile calls the handler unless the context is done.
CallHandler(f) ==
  /\ lease[f] = "leased"
  /\ IF Stopping
     THEN SetLease(f, "failed") /\ failed' = TRUE
     ELSE SetLease(f, "handling") /\ UNCHANGED failed
  /\ UNCHANGED <<status, run, runs, cause, result, optionVars, fileVars, finalized, saved, streaming,
                 done, closed, finished, handled, delivered, storageVars, snapshot, processVars>>

\* The handler releases or discards the file, before it returns or later.
FinalizeLease(f) ==
  /\ lease[f] \in {"handling", "waiting"} /\ f \notin finished
  /\ finished' = finished \cup {f}
  /\ delivered' = IF lease[f] = "waiting" THEN delivered \cup {f} ELSE delivered
  /\ \/ released' = released \cup {f} /\ UNCHANGED verified
     \/ MayDiscard /\ verified' = [verified EXCEPT ![f] = 0] /\ UNCHANGED released
  /\ UNCHANGED <<status, runVars, optionVars, fileVars, finalized, saved, streaming, done, closed, lease,
                 handled, snapshot, processVars>>

HandlerReturns(f) ==
  /\ lease[f] = "handling"
  /\ SetLease(f, "waiting")
  /\ handled' = handled \cup {f}
  /\ delivered' = IF f \in finished THEN delivered \cup {f} ELSE delivered
  /\ UNCHANGED <<status, runVars, optionVars, fileVars, finalized, saved, streaming, done, closed, finished,
                 storageVars, snapshot, processVars>>

\* The handler fails: the storage is released if the handler has not seen to it.
HandlerFails(f) ==
  /\ MayFail /\ lease[f] = "handling"
  /\ SetLease(f, "failed") /\ failed' = TRUE
  /\ released' = IF f \in finished THEN released ELSE released \cup {f}
  /\ finished' = finished \cup {f}
  /\ Apply(Seen)
  /\ UNCHANGED <<status, run, runs, cause, result, optionVars, finalized, saved, streaming, done, closed,
                 handled, delivered, verified, snapshot, processVars>>

\* Slip: the selection is told the one-based index.
MarkShifted(f) ==
  /\ done' = done
  /\ closed' = (closed \/ streaming \subseteq done')

\* markSelectionCompleted
MarkSelection(f) ==
  /\ done' = done \cup {f}
  /\ closed' = (closed \/ streaming \subseteq done')

\* waitTorrentFileLeaseFinalized, and markTorrentFileFinalized under the lock of
\* the download
Record(f) ==
  /\ lease[f] = "waiting" /\ f \in finished
  /\ SetLease(f, "marking")
  /\ finalized' = finalized \cup {f}
  /\ Files(selected, completed, finalized')
  /\ UNCHANGED <<status, runVars, optionVars, known, saved, streaming, done, closed, finished, handled, delivered,
                 storageVars, snapshot, processVars>>

\* The rest of it under the lock of the selection, and updateTorrentProgress
Mark(f) ==
  /\ lease[f] = "marking"
  /\ SetLease(f, "recorded")
  /\ MarkSelection(f)
  /\ Apply(Seen)
  /\ UNCHANGED <<status, runVars, optionVars, finalized, saved, streaming, finished, handled, delivered,
                 storageVars, snapshot, processVars>>

\* The wait ends with the context, if the lease is not finalized by then.
GiveUp(f) ==
  /\ lease[f] = "waiting" /\ f \notin finished /\ Stopping
  /\ SetLease(f, "failed") /\ failed' = TRUE
  /\ UNCHANGED <<status, run, runs, cause, result, optionVars, fileVars, finalized, saved, streaming, done,
                 closed, finished, handled, delivered, storageVars, snapshot, processVars>>

----------------------------------------------------------------------------
\* Requests, saved sessions, crashes

Pause ==
  /\ status \in {"waiting", "active"} /\ changes < MaxChanges
  /\ changes' = changes + 1
  /\ status' = "paused" /\ CancelRun
  /\ UNCHANGED <<run, runs, failed, result, select, fileVars, finalized, saved, streamVars, storageVars,
                 snapshot, processVars>>

Unpause ==
  /\ status = "paused"
  /\ status' = "waiting"
  /\ UNCHANGED <<runVars, optionVars, fileVars, finalized, saved, streamVars, storageVars, snapshot, processVars>>

\* Slip: the new selection waits for the next run.
ChangeLater(sel) ==
  /\ sel # select /\ changes < MaxChanges
  /\ changes' = changes + 1
  /\ select' = sel
  /\ IF known THEN Files(sel, completed, finalized) /\ UNCHANGED known ELSE UNCHANGED fileVars
  /\ UNCHANGED <<status, runVars, finalized, saved, streamVars, storageVars, snapshot, processVars>>

\* ChangeOption of the selection: rebuilt around what has been completed, and an
\* active download is restarted; a magnet link without metadata needs neither.
ChangeOption(sel) ==
  /\ sel # select /\ changes < MaxChanges
  /\ changes' = changes + 1
  /\ select' = sel
  /\ IF known THEN Files(sel, completed, finalized) /\ UNCHANGED known ELSE UNCHANGED fileVars
  /\ IF known /\ status = "active"
     THEN status' = "waiting" /\ CancelRun
     ELSE UNCHANGED <<status, cause>>
  /\ UNCHANGED <<run, runs, failed, result, finalized, saved, streamVars, storageVars, snapshot, processVars>>

Save ==
  /\ saved # finalized
  /\ saved' = finalized
  /\ UNCHANGED <<status, runVars, optionVars, fileVars, finalized, streamVars, storageVars, snapshot, processVars>>

\* The process ends without warning and another one loads the session, which may
\* be from before the download has ended: restoreTorrentFinalized.  What the
\* client had verified is still on the disk.
Crash ==
  /\ crashes < MaxCrashes
  /\ crashes' = crashes + 1
  /\ status' = IF status = "paused" THEN "paused" ELSE "waiting"
  /\ run' = "none" /\ cause' = "none" /\ failed' = FALSE /\ result' = "none"
  /\ finalized' = saved
  /\ known' = ~Magnet
  /\ IF known' THEN Files(select, [f \in File |-> 0], saved)
     ELSE selected' = {} /\ completed' = [f \in File |-> 0] /\ totalLength' = 0 /\ completedLen' = 0
  /\ snapshot' = NoSnapshot
  /\ streaming' = {} /\ done' = {} /\ closed' = TRUE
  /\ lease' = [f \in File |-> "none"] /\ finished' = {}
  /\ UNCHANGED <<runs, setup, optionVars, saved, handled, delivered, storageVars>>

Init ==
  /\ setup \in Setups
  /\ status = "waiting" /\ run = "none" /\ runs = 0 /\ changes = 0 /\ crashes = 0
  /\ cause = "none" /\ failed = FALSE /\ result = "none"
  /\ select \in SUBSET File \ {{}}
  /\ known = ~Magnet /\ selected = IF known THEN select ELSE {}
  /\ completed = [f \in File |-> 0]
  /\ totalLength = Sum(selected, Length) /\ completedLen = 0
  /\ finalized = {} /\ saved = {}
  /\ streaming = {} /\ done = {} /\ closed = TRUE
  /\ lease = [f \in File |-> "none"] /\ finished = {} /\ handled = {} /\ delivered = {}
  /\ verified = [f \in File |-> 0] /\ released = {} /\ snapshot = NoSnapshot

FileStep(f) == Verify(f) \/ Lease(f) \/ CallHandler(f) \/ Record(f) \/ Mark(f) \/ GiveUp(f)

HandlerStep(f) == FinalizeLease(f) \/ HandlerReturns(f) \/ HandlerFails(f)

RunStep == Start \/ GotInfo \/ Reconcile \/ EarlyReturn \/ BeginStream \/ AllVerified \/ StreamReturns
           \/ StopProgress \/ Finish

Next ==
  \/ RunStep \/ WriteChunkFails \/ Look \/ Update \/ Save \/ Crash
  \/ \E f \in File : FileStep(f) \/ HandlerStep(f)
  \/ Pause \/ Unpause \/ \E sel \in SUBSET File \ {{}} : ChangeOption(sel)

\* Goroutines go on, peers have the files, and handlers finalize their leases
\* and return, as they must.
Spec ==
  /\ Init /\ [][Next]_vars
  /\ WF_vars(RunStep) /\ WF_vars(Update)
  /\ \A f \in File : WF_vars(FileStep(f)) /\ WF_vars(FinalizeLease(f)) /\ WF_vars(HandlerReturns(f) \/ HandlerFails(f))

----------------------------------------------------------------------------

TypeOK ==
  /\ status \in {"waiting", "active", "paused", "complete", "error"}
  /\ run \in {"none", "info", "reconcile", "reserve", "stream", "stopping", "returned"}
  /\ result \in {"none", "ok", "error", "canceled"}
  /\ {selected, select, finalized, saved, streaming, done, finished, released, handled, delivered} \subseteq SUBSET File
  /\ lease \in [File -> {"none", "leased", "handling", "waiting", "marking", "recorded", "failed"}]
  /\ \A f \in File : completed[f] \in 0..Length[f] /\ verified[f] \in 0..Length[f]

\* What the download reports of its files adds up, and a file that was handed
\* off stays complete: neither the progress goroutine, which applies what it
\* read before the hand-off, nor a new selection or a new run takes it back.
ProgressAddsUp ==
  known => /\ totalLength = Sum(selected, Length)
           /\ \A f \in finalized : completed[f] = Length[f]
           /\ completedLen = Sum(selected, completed) \/ (status = "complete" /\ completedLen = totalLength)

\* A "paused or restored download never hands the same file off twice": a file
\* whose handler returned and whose lease was finalized is not handled again.
\* It does not hold if the process ends right after a discarded file: the record
\* is not saved yet and the storage does not know, as it does of a released one.
NeverHandedTwice ==
  [][\A f \in File : lease[f] = "leased" /\ lease'[f] = "handling"
       => f \notin delivered]_vars

\* A download completes when every file that is selected then has been handed
\* off or, without a handler, verified: no change of the selection slips past
\* the run that read it.
CompletesSelection ==
  [][status # "complete" /\ status' = "complete"
       => \A f \in selected : f \in finalized \/ (~Handler /\ verified[f] = Length[f])]_vars

\* torrentFinalized "contains one-based torrent file indexes successfully handed
\* off to TorrentFileHandler".  It does not hold if a handler fails while the
\* download is requeued: its file is released, and the next run records it.
FinalizedWereHandled == finalized \subseteq handled

\* A run ends, once nobody interferes any more: the selection is closed when
\* its last file has been recorded, and a handler that fails ends the others.
HandoffEnds == []<>(run = "none")
=============================================================================
