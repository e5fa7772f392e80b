---------------------- MODULE OutputReservationsProofs ----------------------
(***************************************************************************)
(* Proofs about OutputReservations, for any downloads, paths, directories, *)
(* torrents and numbers of runs and requests.  ReservationInv is           *)
(* inductive, and UriWritersExclusive follows from it: an HTTP run writes  *)
(* only what it was granted, what was granted is held, and what is held    *)
(* has one owner.                                                          *)
(***************************************************************************)
EXTENDS OutputReservations, TLAPS

\* Most leaves are first-order: Zenon proves them.  The others name SMT.
USE Zenon

\* The two maps as values: what ReservationsAgree says of owner and held.
Agree(ow, hd) ==
  /\ ow \in [Key -> Download \cup {NoOwner}] /\ hd \in [Download -> SUBSET Key]
  /\ \A k \in Key, d \in Download : ow[k] = d <=> k \in hd[d]

\* Taking keys that are free or one's own (recordPathReservationLocked).
LEMMA RecordAgrees ==
  ASSUME NEW ow, NEW hd, Agree(ow, hd), NEW d \in Download, NEW ks \in SUBSET Key,
         \A k \in ks : ow[k] \in {NoOwner, d}
  PROVE  Agree(Record(ow, ks, d), [hd EXCEPT ![d] = @ \cup ks])
BY OwnerAssumption, SMTT(30) DEF Agree, Record

\* Giving back everything one holds (releaseOutputPaths).
LEMMA ReleaseAgrees ==
  ASSUME NEW ow, NEW hd, Agree(ow, hd), NEW d \in Download
  PROVE  Agree(Release(ow, hd[d], d), [hd EXCEPT ![d] = {}])
BY OwnerAssumption, SMTT(30) DEF Agree, Release

\* Swapping what one holds for other keys that are free or one's own: the
\* transition that finishDownload makes for a restarted torrent.
LEMMA SwapAgrees ==
  ASSUME NEW ow, NEW hd, Agree(ow, hd), NEW d \in Download, NEW ks \in SUBSET Key,
         \A k \in ks : ow[k] \in {NoOwner, d}
  PROVE  Agree(Record(Delete(ow, hd[d] \ ks), ks, d), [hd EXCEPT ![d] = ks])
BY OwnerAssumption, SMTT(30) DEF Agree, Record, Delete

\* The keys of a selection of files are keys.
LEMMA StorageKeysType ==
  ASSUME NEW t \in Torrent, NEW dir \in Dir, NEW sel \in Selection
  PROVE  StorageKeys(t, dir, sel) \in SUBSET Key
BY PathAssumption, SMTT(30) DEF StorageKeys

\* Nothing is reserved at first.
LEMMA InitInv == Init => ReservationInv
<1> SUFFICES ASSUME Init PROVE ReservationInv
  OBVIOUS
<1> USE DEF Init
<1>1. TypeOK
  BY KindAssumption, PathAssumption, OwnerAssumption DEF TypeOK, Running, Download
<1>2. ReservationsAgree
  BY OwnerAssumption DEF ReservationsAgree
<1>3. RunKeepsGrant /\ TransitionCovered /\ UriRunReserved
  BY DEF RunKeepsGrant, TransitionCovered, UriRunReserved, Download
<1> QED
  BY <1>1, <1>2, <1>3 DEF ReservationInv

\* A request that changes the status, the options or the markers of a restart,
\* and neither the reservations nor a run.
LEMMA RequestInv ==
  ASSUME ReservationInv, NEW d \in Download,
         \/ Pause(d) \/ Unpause(d) \/ Remove(d) \/ ChangeURI(d)
         \/ d \in Uri /\ ((\E p \in Target : ChangeUriOption(d, p)) \/ ChangeOtherOption(d))
  PROVE  ReservationInv'
<1> USE DEF ReservationInv
<1>1. UNCHANGED <<runs, ctx, transition, afterRun, table, content, run>>
  BY DEF Pause, Unpause, Remove, ChangeURI, ChangeUriOption, ChangeOtherOption, markers, table, run
<1>2. /\ status' \in [Download -> {"unknown", "waiting", "active", "paused", "complete", "error", "removed"}]
      /\ retain' \in [Download -> Nat] /\ reset' \in [Download -> Nat]
      /\ \A e \in Download : retain'[e] \in {0, ctx[e]} /\ reset'[e] \in {0, ctx[e]}
  BY SMTT(30) DEF TypeOK, Pause, Unpause, Remove, ChangeURI, ChangeUriOption, ChangeOtherOption, SetStatus, RestartActive,
         RetainIf, ResetIf, markers
<1>3. /\ option' \in [Download -> Target \cup TorrentOption]
      /\ path' \in [Download -> Path \cup {NoPath}]
      /\ \A e \in Uri : option'[e] \in Target
      /\ \A t \in Torrent : option'[t] = option[t]
  <2>1. CASE UNCHANGED <<option, path>>
    BY <2>1 DEF TypeOK
  <2>2. CASE d \in Uri /\ \E p \in Target : ChangeUriOption(d, p)
    BY <2>2, KindAssumption, SMTT(30) DEF TypeOK, ChangeUriOption
  <2> QED
    BY <2>1, <2>2 DEF Pause, Unpause, Remove, ChangeURI, ChangeOtherOption
<1>4. TypeOK'
  BY <1>1, <1>2, <1>3 DEF TypeOK, Running, table, run
<1> QED
  BY <1>1, <1>4 DEF ReservationsAgree, RunKeepsGrant, TransitionCovered, UriRunReserved, table, run

\* ChangeOption of a torrent: when a run is to be followed by another one, the
\* paths of the next are taken in addition to those of the run.
LEMMA ChangeTorrentOptionInv ==
  ASSUME ReservationInv, NEW t \in Torrent, NEW o \in TorrentOption, NEW others \in BOOLEAN,
         ChangeTorrentOption(t, o, others)
  PROVE  ReservationInv'
<1> USE DEF ReservationInv
<1> DEFINE keys == StorageKeys(t, o.dir, o.sel)
<1>1. t \in Download /\ t \notin Uri /\ keys \in SUBSET Key
  BY KindAssumption, StorageKeysType DEF Download, TorrentOption
<1>2. UNCHANGED <<runs, ctx, path, reset, content, run>> /\ option' = [option EXCEPT ![t] = o]
  BY DEF ChangeTorrentOption, run
<1>3. /\ status' \in [Download -> {"unknown", "waiting", "active", "paused", "complete", "error", "removed"}]
      /\ retain' \in [Download -> Nat] /\ \A e \in Download : retain'[e] \in {0, ctx[e]}
  BY <1>1, SMTT(30) DEF ChangeTorrentOption, TypeOK, SetStatus, RestartActive, RetainIf
<1>4. /\ option' \in [Download -> Target \cup TorrentOption]
      /\ \A e \in Uri : option'[e] \in Target
      /\ \A e \in Torrent : option'[e] \in TorrentOption
  BY <1>1, <1>2, SMTT(30) DEF TypeOK
<1>5. CASE Transitioning(t)
  <2>1. /\ owner' = Record(owner, keys, t) /\ held' = [held EXCEPT ![t] = @ \cup keys]
        /\ transition' = [transition EXCEPT ![t] = ctx[t]] /\ afterRun' = [afterRun EXCEPT ![t] = keys]
        /\ \A k \in keys : Available(k, t)
    BY <1>5 DEF ChangeTorrentOption
  <2>2. Agree(owner', held')
    <3>1. Agree(owner, held) /\ \A k \in keys : owner[k] \in {NoOwner, t}
      BY <2>1 DEF TypeOK, ReservationsAgree, Agree, Available
    <3> QED
      BY <1>1, <2>1, <3>1, RecordAgrees
  <2>3. TypeOK'
    BY <1>1, <1>2, <1>3, <1>4, <2>1, <2>2, SMTT(30) DEF TypeOK, Agree, Running, run
  <2> QED
    BY <1>1, <1>2, <2>1, <2>2, <2>3, SMTT(30)
       DEF TypeOK, Agree, ReservationsAgree, RunKeepsGrant, TransitionCovered, UriRunReserved, run, Download
<1>6. CASE ~Transitioning(t)
  <2>1. UNCHANGED <<table, transition, afterRun>>
    BY <1>6 DEF ChangeTorrentOption
  <2>2. TypeOK'
    BY <1>1, <1>2, <1>3, <1>4, <2>1 DEF TypeOK, Running, run, table
  <2> QED
    BY <1>2, <2>1, <2>2
       DEF ReservationsAgree, RunKeepsGrant, TransitionCovered, UriRunReserved, run, table
<1> QED
  BY <1>5, <1>6

\* schedule() starts a run, which holds nothing of its own yet.
LEMMA StartInv ==
  ASSUME ReservationInv, NEW d \in Download, Start(d)
  PROVE  ReservationInv'
<1> USE DEF ReservationInv
<1>1. TypeOK'
  BY SMTT(30) DEF TypeOK, Start, SetStatus, Goto, Running, markers, table
<1> QED
  BY <1>1, SMTT(30) DEF TypeOK, Start, Goto, ReservationsAgree, RunKeepsGrant, TransitionCovered, UriRunReserved,
              markers, table

\* A step that leaves the maps and the markers alone and grants nothing keeps
\* the invariant if the types and what the HTTP runs write are right after it.
LEMMA TableKept ==
  ASSUME ReservationInv, TypeOK', UriRunReserved', UNCHANGED <<table, markers>>,
         \A e \in Download : grant'[e] \subseteq grant[e]
  PROVE  ReservationInv'
BY DEF ReservationInv, ReservationsAgree, RunKeepsGrant, TransitionCovered, table, markers

\* A run reads its options.
LEMMA ReadOptionsInv ==
  ASSUME ReservationInv, NEW d \in Download, ReadOptions(d)
  PROVE  ReservationInv'
<1> USE DEF ReservationInv
<1>1. UNCHANGED <<download, markers, table, content, chosen, want, grant>>
  BY DEF ReadOptions
<1>2. TypeOK'
  BY <1>1, KindAssumption, SMTT(30) DEF TypeOK, ReadOptions, At, Goto, Running, markers, table, download, Download
<1>3. UriRunReserved'
  BY <1>1, SMTT(30) DEF TypeOK, ReadOptions, Goto, UriRunReserved, markers
<1> QED
  BY <1>1, <1>2, <1>3, TableKept

\* A step of a run that neither takes nor gives back a reservation: what an
\* HTTP run opens is what it was granted, and a retry is granted nothing.
LEMMA RunStepInv ==
  ASSUME ReservationInv, NEW d \in Download,
         \/ d \in Uri /\ (Choose(d) \/ ChooseBeforeGet(d) \/ Open(d) \/ Retry(d))
         \/ d \in Torrent /\ (GotInfo(d) \/ ChooseFiles(d) \/ OpenFiles(d))
  PROVE  ReservationInv'
<1> USE DEF ReservationInv
<1>1. UNCHANGED <<markers, table, status, runs, ctx, option>>
  BY DEF Choose, ChooseBeforeGet, Open, Retry, GotInfo, ChooseFiles, OpenFiles, download,
         markers, table
<1>2. ASSUME d \in Uri, Choose(d) \/ ChooseBeforeGet(d) PROVE ReservationInv'
  <2>1. chosen' \in [Download -> Path \cup {NoPath}] /\ \A e \in Download \ {d} : chosen'[e] = chosen[e]
    <3>1. \E out \in Path \cup {NoPath} : chosen' = [chosen EXCEPT ![d] = out]
      BY <1>2, PathAssumption DEF TypeOK, Choose, ChooseBeforeGet
    <3> QED
      BY <3>1, SMTT(30) DEF TypeOK
  <2>2. /\ pc' = [pc EXCEPT ![d] = "reserve"] /\ pc[d] = "choose"
        /\ UNCHANGED <<path, content, opts, want, grant>>
    BY <1>2 DEF Choose, ChooseBeforeGet, At, Goto, download
  <2>3. TypeOK'
    BY <1>1, <1>2, <2>1, <2>2, KindAssumption, SMTT(30) DEF TypeOK, Running, markers, table
  <2>4. UriRunReserved'
    BY <1>1, <2>1, <2>2 DEF TypeOK, UriRunReserved, markers, Download
  <2> QED
    BY <1>1, <2>2, <2>3, <2>4, TableKept
<1>3. ASSUME d \in Uri, Open(d) PROVE ReservationInv'
  <2>1. TypeOK'
    BY <1>1, <1>3, KindAssumption, SMTT(30) DEF TypeOK, UriRunReserved, Open, At, Goto, Running, markers, table
  <2>2. UriRunReserved' /\ UNCHANGED grant
    BY <1>1, <1>3, SMTT(30) DEF TypeOK, Open, At, Goto, UriRunReserved, markers
  <2> QED
    BY <1>1, <2>1, <2>2, TableKept
<1>4. ASSUME d \in Uri, Retry(d) PROVE ReservationInv'
  <2>1. TypeOK'
    BY <1>1, <1>4, KindAssumption, SMTT(30) DEF TypeOK, Retry, Goto, Running, markers, table, download
  <2>2. UriRunReserved'
    BY <1>1, <1>4 DEF TypeOK, Retry, Goto, UriRunReserved, markers, Download
  <2>3. \A e \in Download : grant'[e] \subseteq grant[e]
    BY <1>4 DEF TypeOK, Retry
  <2> QED
    BY <1>1, <2>1, <2>2, <2>3, TableKept
<1>5. ASSUME d \in Torrent, GotInfo(d) \/ ChooseFiles(d) \/ OpenFiles(d) PROVE ReservationInv'
  <2>1. option[d] \in TorrentOption /\ (OpenFiles(d) => opts[d] \in TorrentOption)
    BY <1>5 DEF TypeOK, OpenFiles, At
  <2>2. want' \in [Download -> SUBSET Key]
    BY <1>5, <2>1, StorageKeysType, SMTT(30) DEF TypeOK, GotInfo, ChooseFiles, OpenFiles, TorrentOption
  <2>3. /\ \E l \in {"choose", "reserve", "write"} : pc' = [pc EXCEPT ![d] = l]
        /\ pc[d] \notin {"none", "init"}
        /\ UNCHANGED <<path, opts, chosen, grant>>
    BY <1>5 DEF GotInfo, ChooseFiles, OpenFiles, At, Goto, download
  <2>4. content' \in [Key -> Download \cup {NoOwner}]
    BY <1>5, SMTT(30) DEF TypeOK, GotInfo, ChooseFiles, OpenFiles
  <2>5. TypeOK'
    BY <1>1, <1>5, <2>2, <2>3, <2>4, KindAssumption, SMTT(30) DEF TypeOK, Running, markers, table
  <2>6. \A e \in Uri : pc'[e] = pc[e]
    BY <1>5, <2>3, KindAssumption DEF TypeOK, Download
  <2>7. UriRunReserved'
    BY <1>1, <2>3, <2>6 DEF UriRunReserved, markers
  <2> QED
    BY <1>1, <2>3, <2>5, <2>7, TableKept
<1> QED
  BY <1>2, <1>3, <1>4, <1>5

\* reserveOutputPath by an HTTP run, which is granted the one path it gets.
LEMMA ReserveInv ==
  ASSUME ReservationInv, NEW d \in Uri, Reserve(d)
  PROVE  ReservationInv'
<1> USE DEF ReservationInv
<1>1. d \in Download /\ d \notin Torrent
  BY KindAssumption DEF Download
<1>2. PICK out \in Path :
        /\ ReserveOutputPath(d, chosen[d], rename[d], out)
        /\ chosen' = [chosen EXCEPT ![d] = out] /\ grant' = [grant EXCEPT ![d] = {KeyOf[out]}]
        /\ owner' = Record(owner, {KeyOf[out]}, d) /\ held' = [held EXCEPT ![d] = @ \cup {KeyOf[out]}]
  BY DEF Reserve
<1>3. /\ pc' = [pc EXCEPT ![d] = "open"] /\ pc[d] = "reserve"
      /\ UNCHANGED <<download, markers, content, opts, want>>
  BY DEF Reserve, At, Goto
<1>4. KeyOf[out] \in Key /\ owner[KeyOf[out]] \in {NoOwner, d}
  BY <1>2, PathAssumption DEF ReserveOutputPath, Available, RenameFree
<1>5. Agree(owner', held')
  <2>1. Agree(owner, held)
    BY DEF TypeOK, ReservationsAgree, Agree
  <2> QED
    BY <1>1, <1>2, <1>4, <2>1, RecordAgrees
<1>6. TypeOK'
  <2>1. chosen' \in [Download -> Path \cup {NoPath}] /\ grant' \in [Download -> SUBSET Key]
    BY <1>2, <1>4, ZenonT(30) DEF TypeOK
  <2>2. \A e \in Download : ctx'[e] = IF Running(e)' THEN runs'[e] ELSE 0
    BY <1>1, <1>3 DEF TypeOK, Running, download
  <2>3. \A t \in Torrent : pc'[t] = pc[t]
    BY <1>1, <1>3 DEF TypeOK, Download
  <2> QED
    BY <1>3, <1>5, <2>1, <2>2, <2>3 DEF TypeOK, Agree, download, markers
<1>7. RunKeepsGrant' /\ TransitionCovered'
  BY <1>1, <1>2, <1>3 DEF TypeOK, RunKeepsGrant, TransitionCovered, markers, Download
<1>8. UriRunReserved'
  BY <1>1, <1>2, <1>3 DEF TypeOK, UriRunReserved, markers, Download
<1> QED
  BY <1>5, <1>6, <1>7, <1>8 DEF Agree, ReservationsAgree

\* reserveTorrentOutputPaths: all the paths or none.
LEMMA ReserveFilesInv ==
  ASSUME ReservationInv, NEW t \in Torrent, ReserveFiles(t)
  PROVE  ReservationInv'
<1> USE DEF ReservationInv
<1>1. t \in Download /\ t \notin Uri
  BY KindAssumption DEF Download
<1>2. /\ \A k \in want[t] : owner[k] \in {NoOwner, t}
      /\ owner' = Record(owner, want[t], t) /\ held' = [held EXCEPT ![t] = @ \cup want[t]]
      /\ grant' = [grant EXCEPT ![t] = want[t]]
      /\ pc' = [pc EXCEPT ![t] = "open"] /\ pc[t] = "reserve"
      /\ UNCHANGED <<download, markers, content, opts, chosen, want>>
  BY DEF ReserveFiles, At, Goto, Available
<1>3. Agree(owner', held')
  <2>1. Agree(owner, held) /\ want[t] \in SUBSET Key
    BY <1>1 DEF TypeOK, ReservationsAgree, Agree
  <2> QED
    BY <1>1, <1>2, <2>1, RecordAgrees
<1>4. TypeOK'
  BY <1>1, <1>2, <1>3, SMTT(30) DEF TypeOK, Agree, Running, download, markers
<1>5. RunKeepsGrant' /\ TransitionCovered'
  BY <1>1, <1>2 DEF TypeOK, RunKeepsGrant, TransitionCovered, markers, Download
<1>6. UriRunReserved'
  BY <1>1, <1>2 DEF TypeOK, UriRunReserved, markers, Download
<1> QED
  BY <1>3, <1>4, <1>5, <1>6 DEF Agree, ReservationsAgree

\* finishDownload: what the run holds is swapped, kept or given back, and only
\* then is the run gone with its grant.
LEMMA FinishInv ==
  ASSUME ReservationInv, NEW d \in Download, Finish(d)
  PROVE  ReservationInv'
<1> USE DEF ReservationInv
<1> DEFINE owner1 == IF Swapped(d) THEN Record(Delete(owner, held[d] \ afterRun[d]), afterRun[d], d) ELSE owner
           held1  == IF Swapped(d) THEN [held EXCEPT ![d] = afterRun[d]] ELSE held
<1>1. Agree(owner, held) /\ afterRun[d] \in SUBSET Key
  BY DEF TypeOK, ReservationsAgree, Agree
<1>2. Agree(owner1, held1)
  BY <1>1, SwapAgrees DEF Swapped, Available
<1>3. /\ owner' = IF Keep(d) THEN owner1 ELSE Release(owner1, held1[d], d)
      /\ held' = IF Keep(d) THEN held1 ELSE [held1 EXCEPT ![d] = {}]
  BY DEF Finish, TypeOK
<1>4. Agree(owner', held')
  <2>1. Agree(Release(owner1, held1[d], d), [held1 EXCEPT ![d] = {}])
    BY <1>2, ReleaseAgrees
  <2> QED
    BY <1>2, <1>3, <2>1
<1>5. \A e \in Download \ {d} : held'[e] = held[e]
  BY <1>3 DEF TypeOK
<1>6. /\ pc' = [pc EXCEPT ![d] = "none"] /\ ctx' = [ctx EXCEPT ![d] = 0]
      /\ retain' = [retain EXCEPT ![d] = 0] /\ reset' = [reset EXCEPT ![d] = 0]
      /\ transition' = [transition EXCEPT ![d] = 0]
  BY DEF Finish, Goto, Unmark, TypeOK
<1>7. TypeOK'
  <2>1. /\ status' \in [Download -> {"unknown", "waiting", "active", "paused", "complete", "error", "removed"}]
        /\ path' \in [Download -> Path \cup {NoPath}] /\ chosen' \in [Download -> Path \cup {NoPath}]
        /\ opts' \in [Download -> Target \cup TorrentOption \cup {NoPath}]
    BY SMTT(30) DEF TypeOK, Finish, SetStatus
  <2>2. /\ afterRun' \in [Download -> SUBSET Key]
        /\ want' \in [Download -> SUBSET Key] /\ grant' \in [Download -> SUBSET Key]
    BY DEF TypeOK, Finish
  <2>3. /\ \A e \in Uri : option'[e] \in Target /\ opts'[e] \in Target \cup {NoPath}
        /\ \A t \in Torrent : option'[t] \in TorrentOption
                            /\ (pc'[t] \notin {"none", "init"} => opts'[t] \in TorrentOption)
    BY <1>6 DEF TypeOK, Finish, Download
  <2>4. UNCHANGED <<runs, option, content>>
    BY DEF Finish
  <2>5. \A e \in Download : /\ ctx'[e] = IF Running(e)' THEN runs'[e] ELSE 0
                            /\ {retain'[e], reset'[e], transition'[e]} \subseteq {0, ctx'[e]}
    BY <1>6, <2>4 DEF TypeOK, Running
  <2>6. /\ retain' \in [Download -> Nat] /\ reset' \in [Download -> Nat] /\ transition' \in [Download -> Nat]
        /\ ctx' \in [Download -> Nat]
        /\ pc' \in [Download -> {"none", "init", "info", "choose", "reserve", "open", "write"}]
    BY <1>6 DEF TypeOK
  <2> QED
    BY <1>4, <2>1, <2>2, <2>3, <2>4, <2>5, <2>6 DEF TypeOK, Agree
<1>8. RunKeepsGrant'
  BY <1>5 DEF RunKeepsGrant, Finish, TypeOK
<1>9. UriRunReserved'
  BY <1>6 DEF UriRunReserved, Finish, TypeOK, Download
<1>10. TransitionCovered'
  BY <1>5, <1>6 DEF TransitionCovered, Finish, TypeOK, Download
<1> QED
  BY <1>4, <1>7, <1>8, <1>9, <1>10 DEF Agree, ReservationsAgree

\* Every step keeps the invariant, one action at a time.
LEMMA NextInv == ReservationInv /\ [Next]_vars => ReservationInv'
<1> SUFFICES ASSUME ReservationInv, [Next]_vars PROVE ReservationInv'
  OBVIOUS
<1>1. CASE UNCHANGED vars
  BY <1>1 DEF ReservationInv, TypeOK, ReservationsAgree, RunKeepsGrant, TransitionCovered, UriRunReserved,
              Running, vars, download, markers, table, run
<1>2. ASSUME NEW d \in Download, Pause(d) \/ Unpause(d) \/ Remove(d) \/ ChangeURI(d) PROVE ReservationInv'
  BY <1>2, RequestInv
<1>3. ASSUME NEW d \in Download, Start(d) PROVE ReservationInv'
  BY <1>3, StartInv
<1>4. ASSUME NEW d \in Download, Finish(d) PROVE ReservationInv'
  BY <1>4, FinishInv, SMTT(30)
<1>5. ASSUME NEW d \in Download, ReadOptions(d) PROVE ReservationInv'
  BY <1>5, ReadOptionsInv, SMTT(30)
<1>6. ASSUME NEW d \in Uri, (\E p \in Target : ChangeUriOption(d, p)) \/ ChangeOtherOption(d) PROVE ReservationInv'
  BY <1>6, RequestInv DEF Download
<1>7. ASSUME NEW d \in Uri, Choose(d) \/ ChooseBeforeGet(d) \/ Open(d) \/ Retry(d) PROVE ReservationInv'
  BY <1>7, RunStepInv DEF Download
<1>8. ASSUME NEW d \in Uri, Reserve(d) PROVE ReservationInv'
  BY <1>8, ReserveInv
<1>9. ASSUME NEW t \in Torrent, NEW o \in TorrentOption, NEW others \in BOOLEAN, ChangeTorrentOption(t, o, others)
      PROVE  ReservationInv'
  BY <1>9, ChangeTorrentOptionInv
<1>10. ASSUME NEW t \in Torrent, GotInfo(t) \/ ChooseFiles(t) \/ OpenFiles(t) PROVE ReservationInv'
  BY <1>10, RunStepInv DEF Download
<1>11. ASSUME NEW t \in Torrent, ReserveFiles(t) PROVE ReservationInv'
  BY <1>11, ReserveFilesInv, SMTT(30)
<1> QED
  BY <1>1, <1>2, <1>3, <1>4, <1>5, <1>6, <1>7, <1>8, <1>9, <1>10, <1>11 DEF Next

\* The two reservation maps are inverse, what a run was granted stays reserved
\* until it has returned, and the swap that finishDownload makes is covered.
THEOREM Reservations == Spec => []ReservationInv
BY InitInv, NextInv, PTL DEF Spec

\* No HTTP download writes what another download was granted, and no two of them
\* write the same file, however requests and runs interleave (reserveOutputPath,
\* finishDownload).
THEOREM UriWriters == Spec => []UriWritersExclusive
<1>1. ReservationInv => UriWritersExclusive
  <2> SUFFICES ASSUME ReservationInv, NEW d \in Uri, NEW e \in Download \ {d}
               PROVE  Writes(d) \cap grant[e] = {} /\ (e \in Uri => Writes(d) \cap Writes(e) = {})
    BY DEF UriWritersExclusive
  <2>1. \A u \in Uri : Writes(u) \subseteq grant[u]
    BY DEF ReservationInv, UriRunReserved, Writes, At
  <2>2. grant[d] \cap grant[e] = {}
    BY SMTT(30) DEF ReservationInv, RunKeepsGrant, ReservationsAgree, TypeOK, Download
  <2> QED
    BY <2>1, <2>2
<1> QED
  BY <1>1, Reservations, PTL

----------------------------------------------------------------------------
\* The path of an HTTP download and its options

\* No option change has made d.path of the current run stale.
Settled(d) == ctx[d] = 0 \/ reset[d] # ctx[d]

\* d.dir and d.out are those of the options, or those of d.path if there is one.
\* While no change has made the path stale, the run works with the options in
\* force or with a path that follows them, and is about to publish such a path.
Follows(d) ==
  /\ pc[d] # "none" => ctx[d] # 0
  /\ place[d] = option[d] \/ (path[d] # NoPath /\ place[d] = path[d])
  /\ Settled(d) =>
       /\ path[d] # NoPath => path[d] \in PathsFor(option[d])
       /\ pc[d] \notin {"none", "init"} /\ path[d] = NoPath => opts[d] = option[d]
       /\ pc[d] = "reserve" =>
            IF path[d] = NoPath THEN chosen[d] \in {option[d]} \cup Renames({option[d]})
            ELSE chosen[d] = path[d] /\ rename[d] = FALSE
       /\ pc[d] = "open" =>
            IF path[d] = NoPath THEN chosen[d] \in PathsFor(option[d]) ELSE chosen[d] = path[d]

PathInv ==
  /\ place \in [Download -> Path \cup TorrentOption] /\ rename \in [Download -> BOOLEAN]
  /\ \A d \in Uri : Follows(d)

\* A download whose state does not change keeps following.
LEMMA FollowsKept ==
  ASSUME NEW d, Follows(d),
         place'[d] = place[d], path'[d] = path[d], option'[d] = option[d], ctx'[d] = ctx[d],
         reset'[d] = reset[d], pc'[d] = pc[d], opts'[d] = opts[d], chosen'[d] = chosen[d],
         rename'[d] = rename[d]
  PROVE  Follows(d)'
BY DEF Follows, Settled

\* At first no download has a path.
LEMMA InitPath == Init => PathInv
<1> SUFFICES ASSUME Init PROVE PathInv
  BY SMTT(30)
<1>1. place \in [Download -> Path \cup TorrentOption] /\ rename \in [Download -> BOOLEAN]
  <2>1. place = option /\ \A d \in Download : option[d] \in Path \cup TorrentOption
    BY PathAssumption DEF Init
  <2> QED
    BY <2>1 DEF Init
<1>2. ASSUME NEW d \in Uri PROVE Follows(d)
  BY <1>2 DEF Init, Follows, Settled, Download
<1> QED
  BY <1>1, <1>2 DEF PathInv

\* The requests and the steps of a torrent's run that concern no path of an HTTP
\* download.
LEMMA OthersPath ==
  ASSUME ReservationInv, PathInv, NEW t \in Download,
         \/ Pause(t) \/ Unpause(t) \/ Remove(t) \/ ChangeURI(t)
         \/ t \in Torrent /\ \/ \E o \in TorrentOption, others \in BOOLEAN : ChangeTorrentOption(t, o, others)
                             \/ GotInfo(t) \/ ChooseFiles(t) \/ ReserveFiles(t) \/ OpenFiles(t)
  PROVE  PathInv'
<1>1. /\ UNCHANGED <<place, path, ctx, reset, opts, chosen, rename>>
      /\ \A d \in Uri : option'[d] = option[d] /\ pc'[d] = pc[d]
  <2>1. CASE Pause(t) \/ Unpause(t) \/ Remove(t) \/ ChangeURI(t)
    BY <2>1 DEF Pause, Unpause, Remove, ChangeURI, markers, run
  <2>2. CASE t \in Torrent /\ \E o \in TorrentOption, others \in BOOLEAN : ChangeTorrentOption(t, o, others)
    BY <2>2, KindAssumption, SMTT(30) DEF ChangeTorrentOption, run, ReservationInv, TypeOK, Download
  <2>3. CASE t \in Torrent /\ GotInfo(t)
    BY <2>3, KindAssumption DEF GotInfo, markers, Goto, ReservationInv, TypeOK, Download
  <2>4. CASE t \in Torrent /\ ChooseFiles(t)
    BY <2>4, KindAssumption DEF ChooseFiles, download, markers, Goto, ReservationInv, TypeOK, Download
  <2>5. CASE t \in Torrent /\ ReserveFiles(t)
    BY <2>5, KindAssumption DEF ReserveFiles, download, markers, Goto, ReservationInv, TypeOK, Download
  <2>6. CASE t \in Torrent /\ OpenFiles(t)
    BY <2>6, KindAssumption DEF OpenFiles, download, markers, Goto, ReservationInv, TypeOK, Download
  <2> QED
    BY <2>1, <2>2, <2>3, <2>4, <2>5, <2>6
<1>2. ASSUME NEW d \in Uri PROVE Follows(d)'
  <2>1. Follows(d)
    BY DEF PathInv
  <2> QED
    BY <1>1, <2>1, FollowsKept
<1> QED
  BY <1>1, <1>2 DEF PathInv

\* ChangeOption without dir and out: the path stays.
LEMMA ChangeOtherOptionPath ==
  ASSUME ReservationInv, PathInv, NEW d \in Uri, ChangeOtherOption(d)
  PROVE  PathInv'
<1>1. d \in Download /\ option[d] \in Path
  BY PathAssumption DEF Download, ReservationInv, TypeOK
<1>2. /\ place' = [place EXCEPT ![d] = option[d]]
      /\ UNCHANGED <<option, path, ctx, reset, pc, opts, chosen, rename>>
  BY DEF ChangeOtherOption, run
<1>3. place' \in [Download -> Path \cup TorrentOption] /\ rename' \in [Download -> BOOLEAN]
  BY <1>1, <1>2 DEF PathInv
<1>4. ASSUME NEW e \in Uri PROVE Follows(e)'
  <2>1. Follows(e) /\ place'[e] \in {place[e], option[e]}
    BY <1>1, <1>2 DEF PathInv, Download
  <2> QED
    BY <1>2, <2>1 DEF Follows, Settled
<1> QED
  BY <1>3, <1>4 DEF PathInv

\* ChangeOption: a change of the path makes the one that the run has stale.
LEMMA ChangeUriOptionPath ==
  ASSUME ReservationInv, PathInv, NEW d \in Uri, NEW p \in Target, ChangeUriOption(d, p)
  PROVE  PathInv'
<1>1. p \in Path /\ p # NoPath /\ d \in Download
  BY PathAssumption DEF Download
<1>2. place' \in [Download -> Path \cup TorrentOption] /\ rename' \in [Download -> BOOLEAN]
  BY <1>1 DEF ChangeUriOption, run, PathInv
<1>3. ASSUME NEW e \in Uri \ {d} PROVE Follows(e)'
  <2>1. Follows(e)
    BY DEF PathInv
  <2> QED
    BY <2>1, FollowsKept DEF ChangeUriOption, ResetIf, run, ReservationInv, TypeOK, PathInv, Download
<1>4. Follows(d)'
  <2>1. /\ option'[d] = p /\ place'[d] = p /\ ctx' = ctx
        /\ path'[d] = IF place[d] # p THEN NoPath ELSE path[d]
        /\ reset'[d] = IF place[d] # p /\ ctx[d] # 0 THEN ctx[d] ELSE reset[d]
        /\ pc' = pc /\ opts' = opts /\ chosen' = chosen /\ rename' = rename
    BY <1>1 DEF ChangeUriOption, ResetIf, run, ReservationInv, TypeOK, PathInv
  <2>2. Follows(d)
    BY DEF PathInv
  <2>4. CASE place[d] # p
    BY <1>1, <2>1, <2>2, <2>4 DEF Follows, Settled
  <2>5. CASE place[d] = p /\ path[d] = NoPath
    BY <2>1, <2>2, <2>5 DEF Follows, Settled
  <2>6. CASE place[d] = p /\ path[d] # NoPath
    BY <1>1, <2>1, <2>2, <2>6 DEF Follows, Settled, PathsFor
  <2> QED
    BY <2>4, <2>5, <2>6
<1> QED
  BY <1>2, <1>3, <1>4 DEF PathInv

\* schedule(), and the run reads the options.
LEMMA BeginPath ==
  ASSUME ReservationInv, PathInv, NEW d \in Download, Start(d) \/ ReadOptions(d)
  PROVE  PathInv'
<1>1. UNCHANGED <<option, place, path, reset, chosen, rename>>
  BY DEF Start, ReadOptions, download, markers
<1>2. ASSUME NEW e \in Uri, e # d PROVE Follows(e)'
  <2>1. Follows(e)
    BY DEF PathInv
  <2>2. ctx'[e] = ctx[e] /\ pc'[e] = pc[e] /\ opts'[e] = opts[e]
    BY <1>2 DEF Start, ReadOptions, Goto, download, ReservationInv, TypeOK, Download
  <2> QED
    BY <1>1, <2>1, <2>2, FollowsKept
<1>3. ASSUME d \in Uri PROVE Follows(d)'
  <2>1. Follows(d)
    BY <1>3 DEF PathInv
  <2>2. CASE Start(d)
    <3>1. ctx[d] = 0 /\ ctx'[d] = runs[d] + 1 /\ runs[d] \in Nat /\ reset'[d] = reset[d] /\ pc'[d] = "init"
      BY <1>1, <2>2 DEF Start, Goto, ReservationInv, TypeOK
    <3>2. ctx'[d] # 0 /\ pc'[d] # "reserve" /\ pc'[d] # "open" /\ pc'[d] \in {"none", "init"}
      BY <3>1, SMTT(30)
    <3>3. /\ place[d] = option[d] \/ (path[d] # NoPath /\ place[d] = path[d])
          /\ path[d] # NoPath => path[d] \in PathsFor(option[d])
      BY <2>1, <3>1 DEF Follows, Settled
    <3>4. /\ place'[d] = option'[d] \/ (path'[d] # NoPath /\ place'[d] = path'[d])
          /\ path'[d] # NoPath => path'[d] \in PathsFor(option'[d])
      BY <1>1, <3>3
    <3> QED
      BY <3>2, <3>4 DEF Follows
  <2>3. CASE ReadOptions(d)
    <3>1. ctx' = ctx /\ pc[d] = "init" /\ pc'[d] = "choose" /\ opts'[d] = option[d]
      BY <1>3, <2>3, KindAssumption DEF ReadOptions, At, Goto, download, ReservationInv, TypeOK
    <3> QED
      BY <1>1, <2>1, <3>1 DEF Follows, Settled
  <2> QED
    BY <2>2, <2>3
<1> QED
  BY <1>1, <1>2, <1>3 DEF PathInv

\* A path chosen from the disk is the one asked for or a renamed one.
LEMMA ResolveRenames ==
  ASSUME NEW p, NEW resume, NEW out, ResolveExisting(p, resume, out)
  PROVE  out \in {p} \cup Renames({p})
BY DEF ResolveExisting, Renames

\* A reserved path is the one asked for or, if the caller allows it, a renamed one.
LEMMA ReserveRenames ==
  ASSUME NEW d, NEW p, NEW auto, NEW out, ReserveOutputPath(d, p, auto, out)
  PROVE  out = p \/ (auto /\ out \in Renames({p}))
BY DEF ReserveOutputPath, Renames

\* Two renamings lead to a path for the options.
LEMMA TwiceRenamed ==
  ASSUME NEW p, NEW q \in {p} \cup Renames({p}), NEW out, out = q \/ out \in Renames({q})
  PROVE  out \in PathsFor(p)
BY SMTT(30) DEF PathsFor, Renames

\* The steps by which a run of an HTTP download comes to its path.
LEMMA ChoosePath ==
  ASSUME ReservationInv, PathInv, NEW d \in Uri,
         Choose(d) \/ ChooseBeforeGet(d) \/ Reserve(d) \/ Open(d) \/ Retry(d)
  PROVE  PathInv'
<1>1. UNCHANGED <<option, ctx, reset, opts>> /\ d \in Download
  BY DEF Choose, ChooseBeforeGet, Reserve, Open, Retry, download, markers, Download
<1>2. /\ pc[d] \in {"choose", "reserve", "open", "write"} /\ pc' = [pc EXCEPT ![d] = pc'[d]]
      /\ chosen' = [chosen EXCEPT ![d] = chosen'[d]] /\ rename' = [rename EXCEPT ![d] = rename'[d]]
      /\ rename'[d] \in BOOLEAN
      /\ path' = [path EXCEPT ![d] = path'[d]] /\ place' = [place EXCEPT ![d] = place'[d]]
  <2>1. CASE Choose(d)
    BY <1>1, <2>1, SMTT(30) DEF Choose, At, Goto, download, ReservationInv, TypeOK, PathInv
  <2>2. CASE ChooseBeforeGet(d)
    BY <1>1, <2>2 DEF ChooseBeforeGet, At, Goto, download, ReservationInv, TypeOK, PathInv
  <2>3. CASE Reserve(d)
    BY <1>1, <2>3, SMTT(30) DEF Reserve, At, Goto, download, ReservationInv, TypeOK, PathInv
  <2>4. CASE Open(d)
    BY <1>1, <2>4 DEF Open, At, Goto, ReservationInv, TypeOK, PathInv
  <2>5. CASE Retry(d)
    BY <1>1, <2>5 DEF Retry, At, Goto, download, ReservationInv, TypeOK, PathInv
  <2> QED
    BY <2>1, <2>2, <2>3, <2>4, <2>5
<1>3. ASSUME NEW e \in Uri, e # d PROVE Follows(e)'
  <2>1. Follows(e)
    BY DEF PathInv
  <2> QED
    BY <1>1, <1>2, <1>3, <2>1, FollowsKept DEF ReservationInv, TypeOK, PathInv, Download
<1>4. Follows(d)'
  <2> Follows(d) /\ NoPath \notin Path
    BY PathAssumption DEF PathInv
  <2>1. CASE Choose(d)
    <3>1. PICK resume \in BOOLEAN, out \in Path :
            /\ IF path[d] # NoPath THEN out = path[d] /\ ~resume ELSE ResolveExisting(opts[d], resume, out)
            /\ chosen' = [chosen EXCEPT ![d] = out]
            /\ rename' = [rename EXCEPT ![d] = path[d] = NoPath /\ ~resume /\ ~Overwrite /\ AutoRename]
      BY <2>1 DEF Choose
    <3>2. pc[d] = "choose" /\ pc'[d] = "reserve" /\ chosen'[d] = out /\ path' = path /\ place' = place
      BY <1>1, <2>1, <3>1, SMTT(30) DEF Choose, At, Goto, download, ReservationInv, TypeOK
    <3>3. path[d] # NoPath => rename'[d] = FALSE
      BY <1>1, <3>1 DEF PathInv
    <3>4. path[d] = NoPath => out \in {opts[d]} \cup Renames({opts[d]})
      BY <3>1, ResolveRenames
    <3> QED
      BY <1>1, <3>1, <3>2, <3>3, <3>4 DEF Follows, Settled
  <2>2. CASE ChooseBeforeGet(d)
    <3>1. /\ pc[d] = "choose" /\ pc'[d] = "reserve" /\ path' = path /\ place' = place
          /\ chosen'[d] = IF path[d] # NoPath THEN path[d] ELSE opts[d]
      BY <1>1, <2>2 DEF ChooseBeforeGet, At, Goto, download, ReservationInv, TypeOK
    <3>2. rename'[d] = FALSE
      BY <1>1, <2>2 DEF ChooseBeforeGet, PathInv
    <3> QED
      BY <1>1, <3>1, <3>2 DEF Follows, Settled
  <2>3. CASE Reserve(d)
    <3>1. PICK out \in Path : ReserveOutputPath(d, chosen[d], rename[d], out) /\ chosen' = [chosen EXCEPT ![d] = out]
      BY <2>3 DEF Reserve
    <3>2. pc[d] = "reserve" /\ pc'[d] = "open" /\ path' = path /\ place' = place /\ chosen'[d] = out
      BY <1>1, <2>3, <3>1, SMTT(30) DEF Reserve, At, Goto, download, ReservationInv, TypeOK
    <3>3. out = chosen[d] \/ (rename[d] /\ out \in Renames({chosen[d]}))
      BY <3>1, ReserveRenames
    <3>4. rename[d] = FALSE => out = chosen[d]
      BY <3>3
    <3>5. Settled(d) /\ path[d] = NoPath => out \in PathsFor(option[d])
      BY <3>2, <3>3, TwiceRenamed DEF Follows
    <3> QED
      BY <1>1, <3>2, <3>4, <3>5 DEF Follows, Settled
  <2>4. CASE Open(d)
    <3>1. /\ pc[d] = "open" /\ pc'[d] = "write" /\ chosen[d] \in Path
          /\ path'[d] = chosen[d] /\ place'[d] = chosen[d]
      BY <1>1, <2>4 DEF Open, At, Goto, ReservationInv, TypeOK, UriRunReserved, PathInv
    <3> QED
      BY <1>1, <3>1 DEF Follows, Settled
  <2>5. CASE Retry(d)
    <3>1. pc[d] \notin {"none", "init"} /\ pc'[d] = "choose" /\ path' = path /\ place' = place
      BY <1>1, <2>5 DEF Retry, Goto, download, ReservationInv, TypeOK
    <3> QED
      BY <1>1, <3>1 DEF Follows, Settled
  <2> QED
    BY <2>1, <2>2, <2>3, <2>4, <2>5
<1>5. place' \in [Download -> Path \cup TorrentOption] /\ rename' \in [Download -> BOOLEAN]
  <2>1. place'[d] \in Path \cup TorrentOption
    <3>1. CASE Open(d)
      BY <1>1, <3>1 DEF Open, At, ReservationInv, UriRunReserved, PathInv
    <3>2. CASE ~Open(d)
      BY <1>1, <3>2 DEF Choose, ChooseBeforeGet, Reserve, Retry, download, PathInv
    <3> QED
      BY <3>1, <3>2
  <2> QED
    BY <1>1, <1>2, <2>1 DEF PathInv
<1> QED
  BY <1>3, <1>4, <1>5 DEF PathInv

\* finishDownload drops a path that an option change has made stale.
LEMMA FinishPath ==
  ASSUME ReservationInv, PathInv, NEW d \in Download, Finish(d)
  PROVE  PathInv'
<1>1. /\ option' = option /\ ctx' = [ctx EXCEPT ![d] = 0] /\ pc' = [pc EXCEPT ![d] = "none"]
      /\ reset' = [reset EXCEPT ![d] = reset'[d]]
      /\ path' = [path EXCEPT ![d] = IF reset[d] = ctx[d] THEN NoPath ELSE path[d]]
      /\ place' = [place EXCEPT ![d] = IF reset[d] = ctx[d] THEN option[d] ELSE place[d]]
      /\ opts' = [opts EXCEPT ![d] = NoPath] /\ chosen' = [chosen EXCEPT ![d] = NoPath]
  BY DEF Finish, Goto, Unmark, ReservationInv, TypeOK
<1>2. rename' = [rename EXCEPT ![d] = FALSE] /\ pc[d] # "none"
  BY DEF Finish, Running
<1>3. place' \in [Download -> Path \cup TorrentOption] /\ rename' \in [Download -> BOOLEAN]
  <2>1. option[d] \in Path \cup TorrentOption
    BY PathAssumption DEF ReservationInv, TypeOK
  <2>2. place' \in [Download -> Path \cup TorrentOption]
    BY <1>1, <2>1 DEF PathInv
  <2>3. rename' \in [Download -> BOOLEAN]
    BY <1>2 DEF PathInv
  <2> QED
    BY <2>2, <2>3
<1>4. ASSUME NEW e \in Uri, e # d PROVE Follows(e)'
  <2>1. Follows(e) /\ e \in Download
    BY DEF PathInv, Download
  <2>2. rename'[e] = rename[e]
    BY <1>2, <1>4, <2>1 DEF PathInv
  <2>3. /\ place'[e] = place[e] /\ path'[e] = path[e] /\ ctx'[e] = ctx[e] /\ reset'[e] = reset[e]
        /\ pc'[e] = pc[e] /\ opts'[e] = opts[e] /\ chosen'[e] = chosen[e]
    BY <1>1, <1>4, <2>1, SMTT(30) DEF ReservationInv, TypeOK, PathInv
  <2> QED
    BY <1>1, <2>1, <2>2, <2>3, FollowsKept
<1>5. ASSUME d \in Uri PROVE Follows(d)'
  <2>1. Follows(d)
    BY <1>5 DEF PathInv
  <2>2. /\ path'[d] = IF reset[d] = ctx[d] THEN NoPath ELSE path[d]
        /\ place'[d] = IF reset[d] = ctx[d] THEN option[d] ELSE place[d]
        /\ ctx'[d] = 0 /\ pc'[d] = "none"
    BY <1>1, SMTT(30) DEF ReservationInv, TypeOK, PathInv
  <2> QED
    BY <1>1, <1>2, <2>1, <2>2 DEF Follows, Settled
<1> QED
  BY <1>3, <1>4, <1>5 DEF PathInv

\* Every step keeps the paths in line with the options.
LEMMA NextPath == ReservationInv /\ PathInv /\ [Next]_vars => PathInv'
<1> SUFFICES ASSUME ReservationInv, PathInv, [Next]_vars PROVE PathInv'
  OBVIOUS
<1>1. ASSUME NEW d \in Download, Pause(d) \/ Unpause(d) \/ Remove(d) \/ ChangeURI(d) PROVE PathInv'
  BY <1>1, OthersPath
<1>2. ASSUME NEW d \in Download, Start(d) \/ ReadOptions(d) PROVE PathInv'
  BY <1>2, BeginPath
<1>3. ASSUME NEW d \in Download, Finish(d) PROVE PathInv'
  BY <1>3, FinishPath
<1>4. ASSUME NEW d \in Uri, NEW p \in Target, ChangeUriOption(d, p) PROVE PathInv'
  BY <1>4, ChangeUriOptionPath
<1>5. ASSUME NEW d \in Uri, ChangeOtherOption(d) PROVE PathInv'
  BY <1>5, ChangeOtherOptionPath
<1>6. ASSUME NEW d \in Uri, Choose(d) \/ ChooseBeforeGet(d) \/ Reserve(d) \/ Open(d) \/ Retry(d) PROVE PathInv'
  BY <1>6, ChoosePath
<1>7. ASSUME NEW t \in Torrent,
             \/ \E o \in TorrentOption, others \in BOOLEAN : ChangeTorrentOption(t, o, others)
             \/ GotInfo(t) \/ ChooseFiles(t) \/ ReserveFiles(t) \/ OpenFiles(t)
      PROVE  PathInv'
  <2>1. t \in Download
    BY DEF Download
  <2> QED
    BY <1>7, <2>1, OthersPath
<1>8. CASE UNCHANGED vars
  <2>1. UNCHANGED <<option, place, path, ctx, reset, pc, opts, chosen, rename>>
    BY <1>8 DEF vars, download, markers, run
  <2> QED
    BY <2>1 DEF PathInv, Follows, Settled
<1> QED
  BY <1>1, <1>2, <1>3, <1>4, <1>5, <1>6, <1>7, <1>8 DEF Next

\* The path that the next run of an HTTP download resumes is one that its options
\* ask for, renamed at most twice: no run publishes, after ChangeOption, a path
\* that survives it (ChangeOption, setMetadata, finishDownload).
THEOREM PathsFollow == Spec => []PathFollowsOptions
<1>1. PathInv => PathFollowsOptions
  BY DEF PathInv, Follows, Settled, PathFollowsOptions
<1> QED
  BY <1>1, InitInv, NextInv, InitPath, NextPath, PTL DEF Spec

=============================================================================
