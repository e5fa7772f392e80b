------------------------- MODULE OutputReservations -------------------------
(***************************************************************************)
(* Which download may write which file (download_util.go, with the callers *)
(* in downloader.go, torrent_download.go, engine.go and                    *)
(* engine_scheduler.go).                                                   *)
(*                                                                         *)
(* e.pathReservations maps a canonical path (Key) to the download that may *)
(* write it, e.reservedPathsByGID is the inverse.  A run takes             *)
(* reservations as it goes, and finishDownload gives them back, unless the *)
(* download was restarted under the run: then three markers, each the      *)
(* context of the run it is about, tell finishDownload what to keep, what  *)
(* to swap and whether d.path is stale.                                    *)
(*                                                                         *)
(* A run is a sequence of steps between which every request may come: read *)
(* the options, look at the file system, reserve, open, write.  Contexts   *)
(* are numbered per download and 0 is nil.  A run that was canceled is not *)
(* stopped by that: it goes on until it notices, so it may take any of its *)
(* steps, or return.  Slots, queue order and gid reuse are in              *)
(* EngineScheduler.                                                        *)
(***************************************************************************)
EXTENDS Naturals, Sequences

CONSTANTS
  Uri,         \* the HTTP downloads
  Torrent,     \* the torrent downloads
  Magnet,      \* the torrents whose metadata is not known at first
  Path,        \* output paths, before symlinks are resolved
  Key,         \* canonical paths
  KeyOf,       \* outputPathReservationKey
  Renamed,     \* path.1, path.2, ... of every path
  Target,      \* the paths that options dir and out can ask for
  Dir,         \* directories that a torrent's options can ask for
  File,        \* files of a torrent
  Selection,   \* sets of files that select-file can ask for
  Layout,      \* output path of every file of a torrent in every directory
  AutoRename,  \* option auto-file-renaming
  Overwrite,   \* option allow-overwrite
  Continue,    \* option continue
  MaxRuns,     \* bound: runs of every download
  Added,       \* bound: the sets of downloads that meet in an engine
  MaxRequests, \* bound: requests
  NoPath,      \* ""
  NoOwner      \* no entry in pathReservations

Download == Uri \cup Torrent
TorrentOption == [dir : Dir, sel : Selection]

ASSUME KindAssumption == Uri \cap Torrent = {} /\ Magnet \subseteq Torrent
ASSUME PathAssumption ==
  /\ KeyOf \in [Path -> Key]
  /\ Renamed \in [Path -> Seq(Path)]
  /\ Target \subseteq Path
  /\ NoPath \notin Path
  /\ Layout \in [Torrent -> [Dir -> [File -> Path]]]
  /\ Selection \subseteq SUBSET File
ASSUME OwnerAssumption == NoOwner \notin Download
ASSUME OptionAssumption == {AutoRename, Overwrite, Continue} \subseteq BOOLEAN
ASSUME BoundAssumption == MaxRuns \in [Download -> Nat] /\ Added \subseteq SUBSET Download /\ MaxRequests \in Nat

VARIABLES
  status,      \* d.status, "unknown" if the download was not added
  runs,        \* contexts made for d so far
  ctx,         \* d.ctx
  option,      \* dir and out, or dir and select-file, in d.options
  place,       \* d.dir and d.out of a URI download
  path,        \* d.path
  known,       \* metadataInfoLocked finds the metadata of a torrent
  retain,      \* d.retainReservationsAfterRun
  reset,       \* d.pathResetAfterRun
  transition,  \* d.reservationTransitionAfterRun
  afterRun,    \* d.reservationPathsAfterRun, as keys
  owner,       \* e.pathReservations
  held,        \* e.reservedPathsByGID
  content,     \* whose data a file holds, NoOwner if it does not exist
  pc,          \* where the run of d is
  opts,        \* the options the run has read
  chosen,      \* outPath of a URI run
  rename,      \* autoRename of a URI run
  want,        \* keys a torrent run is about to reserve, or writes
  grant,       \* keys the run has reserved for what it is writing
  requests     \* requests made so far

download == <<status, runs, ctx, option, place, path, known>>
markers  == <<retain, reset, transition, afterRun>>
table    == <<owner, held>>
run      == <<pc, opts, chosen, rename, want, grant>>
vars     == <<download, markers, table, content, run, requests>>

Running(d) == pc[d] # "none"
At(d, p)   == pc[d] = p
Goto(d, p) == pc' = [pc EXCEPT ![d] = p]
Exists(p)  == content[KeyOf[p]] # NoOwner

StorageKeys(t, dir, sel) == {KeyOf[Layout[t][dir][f]] : f \in sel}

\* No two files of the selection share an output path.
Distinct(t, o) ==
  \A f, g \in o.sel : KeyOf[Layout[t][o.dir][f]] = KeyOf[Layout[t][o.dir][g]] => f = g

----------------------------------------------------------------------------
\* The reservation table

\* recordPathReservationLocked for a set of keys.
Record(ow, ks, d) == [k \in Key |-> IF k \in ks THEN d ELSE ow[k]]

\* delete(e.pathReservations, key) for a set of keys.
Delete(ow, ks) == [k \in Key |-> IF k \in ks THEN NoOwner ELSE ow[k]]

\* releaseOutputPaths.
Release(ow, ks, d) == [k \in Key |-> IF k \in ks /\ ow[k] = d THEN NoOwner ELSE ow[k]]

Available(k, d) == owner[k] \in {NoOwner, d}

\* Slip: a renamed path is taken although another download has reserved it.
RenameMissing(p, i) == ~Exists(Renamed[p][i])

RenameFree(p, i) == owner[KeyOf[Renamed[p][i]]] = NoOwner /\ ~Exists(Renamed[p][i])

\* reserveOutputPath: the path asked for, or the first renamed one that is
\* neither reserved nor on disk.
ReserveOutputPath(d, p, auto, out) ==
  \/ Available(KeyOf[p], d) /\ out = p
  \/ /\ ~Available(KeyOf[p], d)
     /\ auto
     /\ \E i \in 1..Len(Renamed[p]) :
          /\ RenameFree(p, i)
          /\ \A j \in 1..(i - 1) : ~RenameFree(p, j)
          /\ out = Renamed[p][i]

----------------------------------------------------------------------------
\* Requests

Terminal(d) == status[d] \in {"complete", "error", "removed"}

\* findDownloadLocked finds the download.  Requests are counted to bound them.
Requested(d) == status[d] # "unknown" /\ requests < MaxRequests /\ requests' = requests + 1

SetStatus(d, s) == status' = [status EXCEPT ![d] = s]

\* Slip: a pause gives the paths back at once, under the run.
PauseReleases(d) ==
  /\ Requested(d)
  /\ ~Terminal(d)
  /\ SetStatus(d, "paused")
  /\ owner' = Release(owner, held[d], d)
  /\ held' = [held EXCEPT ![d] = {}]
  /\ UNCHANGED <<runs, ctx, option, place, path, known, markers, content, run>>

Pause(d) ==
  /\ Requested(d)
  /\ ~Terminal(d)
  /\ SetStatus(d, "paused")
  /\ UNCHANGED <<runs, ctx, option, place, path, known, markers, table, content, run>>

Unpause(d) ==
  /\ Requested(d)
  /\ status[d] = "paused"
  /\ SetStatus(d, "waiting")
  /\ UNCHANGED <<runs, ctx, option, place, path, known, markers, table, content, run>>

Remove(d) ==
  /\ Requested(d)
  /\ ~Terminal(d)
  /\ SetStatus(d, "removed")
  /\ UNCHANGED <<runs, ctx, option, place, path, known, markers, table, content, run>>

\* restartActiveDownloadLocked.
RestartActive(d) == SetStatus(d, IF status[d] = "active" THEN "waiting" ELSE status[d])

RetainIf(d, c) == retain' = [retain EXCEPT ![d] = IF c /\ status[d] = "active" THEN ctx[d] ELSE @]

ChangeURI(d) ==
  /\ Requested(d)
  /\ RetainIf(d, TRUE)
  /\ RestartActive(d)
  /\ UNCHANGED <<runs, ctx, option, place, path, known, reset, transition, afterRun, table, content, run>>

\* Slip: the canceled run is trusted not to publish its path any more.
ResetNothing(d, c) == UNCHANGED reset

ResetIf(d, c) == reset' = [reset EXCEPT ![d] = IF c /\ ctx[d] # 0 THEN ctx[d] ELSE @]

\* ChangeOption of a URI download: dir and out now ask for p.
ChangeUriOption(d, p) ==
  LET pathChanged == place[d] # p IN
  /\ Requested(d)
  /\ option' = [option EXCEPT ![d] = p]
  /\ place' = [place EXCEPT ![d] = p]
  /\ path' = [path EXCEPT ![d] = IF pathChanged THEN NoPath ELSE @]
  /\ ResetIf(d, pathChanged)
  /\ RetainIf(d, ~pathChanged)
  /\ RestartActive(d)
  /\ UNCHANGED <<runs, ctx, known, transition, afterRun, table, content, run>>

\* ChangeOption of a URI download that leaves dir and out as they are: d.dir and
\* d.out are read from the options again, and d.path stays.  A running transfer
\* follows a change of some of the options without a restart.
ChangeOtherOption(d) ==
  /\ Requested(d)
  /\ place' = [place EXCEPT ![d] = option[d]]
  /\ \/ RetainIf(d, TRUE) /\ RestartActive(d)
     \/ UNCHANGED <<retain, status>>
  /\ UNCHANGED <<runs, ctx, option, path, known, reset, transition, afterRun, table, content, run>>

Transitioning(t) ==
  /\ known[t]
  /\ ctx[t] # 0
  /\ \/ status[t] = "active"
     \/ status[t] = "waiting" /\ retain[t] = ctx[t]

\* ChangeOption of a torrent, of other options too if others is true.  A magnet
\* without metadata reads a new selection when the metadata arrives and is not
\* restarted for that alone.
ChangeTorrentOption(t, o, others) ==
  LET keys == StorageKeys(t, o.dir, o.sel)
      restart == known[t] \/ o.dir # option[t].dir \/ others
  IN
  /\ Requested(t)
  /\ option' = [option EXCEPT ![t] = o]
  /\ IF Transitioning(t)
     THEN /\ Distinct(t, o)
          /\ \A k \in keys : Available(k, t)
          /\ owner' = Record(owner, keys, t)
          /\ held' = [held EXCEPT ![t] = @ \cup keys]
          /\ transition' = [transition EXCEPT ![t] = ctx[t]]
          /\ afterRun' = [afterRun EXCEPT ![t] = keys]
     ELSE UNCHANGED <<table, transition, afterRun>>
  /\ RetainIf(t, restart)
  /\ IF restart THEN RestartActive(t) ELSE UNCHANGED status
  /\ UNCHANGED <<runs, ctx, place, path, known, reset, content, run>>

----------------------------------------------------------------------------
\* The run of a download

\* schedule() makes a context and starts the goroutine.
Start(d) ==
  /\ status[d] = "waiting" /\ ctx[d] = 0 /\ runs[d] < MaxRuns[d]
  /\ SetStatus(d, "active")
  /\ runs' = [runs EXCEPT ![d] = @ + 1]
  /\ ctx' = [ctx EXCEPT ![d] = runs[d] + 1]
  /\ Goto(d, "init")
  /\ UNCHANGED <<option, place, path, known, markers, table, content, opts, chosen, rename, want, grant, requests>>

\* runDownload and runTorrentDownload read d.options (and d.dir) once.
ReadOptions(d) ==
  /\ At(d, "init")
  /\ opts' = [opts EXCEPT ![d] = option[d]]
  /\ Goto(d, IF d \in Torrent THEN "info" ELSE "choose")
  /\ UNCHANGED <<download, markers, table, content, chosen, rename, want, grant, requests>>

\* resolveExistingOutputPath: what to write, given what os.Stat says.
ResolveExisting(p, resume, out) ==
  \/ ~Exists(p) /\ out = p
  \/ Exists(p) /\ (resume \/ Overwrite) /\ out = p
  \/ /\ Exists(p) /\ ~resume /\ ~Overwrite /\ AutoRename
     /\ \E i \in 1..Len(Renamed[p]) :
          /\ ~Exists(Renamed[p][i])
          /\ \A j \in 1..(i - 1) : Exists(Renamed[p][j])
          /\ out = Renamed[p][i]

\* The path that an earlier attempt or run selected, or one from the options.
Choose(d) ==
  /\ At(d, "choose") /\ d \in Uri
  /\ \E resume \in BOOLEAN, out \in Path :
       /\ resume => Continue /\ Exists(opts[d])
       /\ IF path[d] # NoPath THEN out = path[d] /\ ~resume ELSE ResolveExisting(opts[d], resume, out)
       /\ chosen' = [chosen EXCEPT ![d] = out]
       /\ rename' = [rename EXCEPT ![d] = path[d] = NoPath /\ ~resume /\ ~Overwrite /\ AutoRename]
  /\ Goto(d, "reserve")
  /\ UNCHANGED <<download, markers, table, content, opts, want, grant, requests>>

\* downloadSingleWithGETProbe with an explicit output and continue reserves
\* before it looks at the disk or asks the server.
ChooseBeforeGet(d) ==
  /\ At(d, "choose") /\ d \in Uri /\ Continue
  /\ chosen' = [chosen EXCEPT ![d] = IF path[d] # NoPath THEN path[d] ELSE opts[d]]
  /\ rename' = [rename EXCEPT ![d] = FALSE]
  /\ Goto(d, "reserve")
  /\ UNCHANGED <<download, markers, table, content, opts, want, grant, requests>>

Reserve(d) ==
  /\ At(d, "reserve") /\ d \in Uri
  /\ \E out \in Path :
       /\ ReserveOutputPath(d, chosen[d], rename[d], out)
       /\ chosen' = [chosen EXCEPT ![d] = out]
       /\ grant' = [grant EXCEPT ![d] = {KeyOf[out]}]
       /\ owner' = Record(owner, {KeyOf[out]}, d)
       /\ held' = [held EXCEPT ![d] = @ \cup {KeyOf[out]}]
  /\ rename' = [rename EXCEPT ![d] = FALSE]
  /\ Goto(d, "open")
  /\ UNCHANGED <<download, markers, content, opts, want, requests>>

\* setMetadata publishes the path, and the file is created, truncated or
\* opened for appending.
Open(d) ==
  /\ At(d, "open") /\ d \in Uri
  /\ path' = [path EXCEPT ![d] = chosen[d]]
  /\ place' = [place EXCEPT ![d] = chosen[d]]
  /\ content' = [content EXCEPT ![KeyOf[chosen[d]]] = d]
  /\ Goto(d, "write")
  /\ UNCHANGED <<status, runs, ctx, option, known, markers, table, opts, chosen, rename, want, grant, requests>>

\* A failed attempt is followed by another one, of the next URI or of the same.
Retry(d) ==
  /\ pc[d] \in {"reserve", "open", "write"} /\ d \in Uri
  /\ Goto(d, "choose")
  /\ chosen' = [chosen EXCEPT ![d] = NoPath]
  /\ rename' = [rename EXCEPT ![d] = FALSE]
  /\ grant' = [grant EXCEPT ![d] = {}]
  /\ UNCHANGED <<download, markers, table, content, opts, want, requests>>

\* The metadata is there: refreshTorrentMetadata.
GotInfo(t) ==
  /\ At(t, "info")
  /\ known' = [known EXCEPT ![t] = TRUE]
  /\ Goto(t, "choose")
  /\ UNCHANGED <<status, runs, ctx, option, place, path, markers, table, content, opts, chosen, rename, want, grant, requests>>

\* reserveTorrentOutputPaths reads d.torrentFiles under d.mu ...
ChooseFiles(t) ==
  /\ At(t, "choose") /\ t \in Torrent
  /\ Distinct(t, option[t])
  /\ want' = [want EXCEPT ![t] = StorageKeys(t, option[t].dir, option[t].sel)]
  /\ Goto(t, "reserve")
  /\ UNCHANGED <<download, markers, table, content, opts, chosen, rename, grant, requests>>

\* ... and reserves them all or none, after it has unlocked.
ReserveFiles(t) ==
  /\ At(t, "reserve") /\ t \in Torrent
  /\ \A k \in want[t] : Available(k, t)
  /\ owner' = Record(owner, want[t], t)
  /\ held' = [held EXCEPT ![t] = @ \cup want[t]]
  /\ grant' = [grant EXCEPT ![t] = want[t]]
  /\ Goto(t, "open")
  /\ UNCHANGED <<download, markers, content, opts, chosen, rename, want, requests>>

\* selectedTorrentFiles reads the selection again; the storage is in the
\* directory that the run started with.
OpenFiles(t) ==
  LET keys == StorageKeys(t, opts[t].dir, option[t].sel) IN
  /\ At(t, "open") /\ t \in Torrent
  /\ want' = [want EXCEPT ![t] = keys]
  /\ content' = [k \in Key |-> IF k \in keys THEN t ELSE content[k]]
  /\ Goto(t, "write")
  /\ UNCHANGED <<download, markers, table, opts, chosen, rename, grant, requests>>

\* The run returns and finishDownload disposes of its reservations.  A run may
\* return from every place: its context is canceled, a request fails, the path
\* is in use.
Swapped(d) == transition[d] = ctx[d] /\ \A k \in afterRun[d] : Available(k, d)
Keep(d)    == status[d] = "waiting" /\ retain[d] = ctx[d] /\ (transition[d] = ctx[d] => Swapped(d))

Unmark(marker, d) == [marker EXCEPT ![d] = IF @ = ctx[d] THEN 0 ELSE @]

Finish(d) ==
  LET owner1 == IF Swapped(d) THEN Record(Delete(owner, held[d] \ afterRun[d]), afterRun[d], d) ELSE owner
      held1  == IF Swapped(d) THEN afterRun[d] ELSE held[d]
  IN
  /\ Running(d)
  /\ owner' = IF Keep(d) THEN owner1 ELSE Release(owner1, held1, d)
  /\ held' = [held EXCEPT ![d] = IF Keep(d) THEN held1 ELSE {}]
  /\ path' = [path EXCEPT ![d] = IF reset[d] = ctx[d] THEN NoPath ELSE @]
  /\ place' = [place EXCEPT ![d] = IF reset[d] = ctx[d] THEN option[d] ELSE @]
  /\ retain' = Unmark(retain, d)
  /\ reset' = Unmark(reset, d)
  /\ transition' = Unmark(transition, d)
  /\ afterRun' = [afterRun EXCEPT ![d] = IF transition[d] = ctx[d] THEN {} ELSE @]
  /\ ctx' = [ctx EXCEPT ![d] = 0]
  /\ \E s \in {"complete", "error"} : SetStatus(d, IF status[d] = "active" THEN s ELSE status[d])
  /\ Goto(d, "none")
  /\ grant' = [grant EXCEPT ![d] = {}]
  /\ want' = [want EXCEPT ![d] = {}]
  /\ opts' = [opts EXCEPT ![d] = NoPath]
  /\ chosen' = [chosen EXCEPT ![d] = NoPath]
  /\ rename' = [rename EXCEPT ![d] = FALSE]
  /\ UNCHANGED <<runs, option, known, content, requests>>

----------------------------------------------------------------------------
Init ==
  /\ \E added \in Added : status = [d \in Download |-> IF d \in added THEN "waiting" ELSE "unknown"]
  /\ runs = [d \in Download |-> 0]
  /\ ctx = [d \in Download |-> 0]
  /\ option \in [Download -> Target \cup TorrentOption]
  /\ \A d \in Download :
       LET asked == IF d \in Uri THEN Target ELSE TorrentOption IN
       /\ option[d] \in asked
       /\ status[d] = "unknown" => option[d] = CHOOSE o \in asked : TRUE
  /\ place = option
  /\ path = [d \in Download |-> NoPath]
  /\ known = [d \in Download |-> d \notin Magnet]
  /\ retain = ctx /\ reset = ctx /\ transition = ctx
  /\ afterRun = [d \in Download |-> {}]
  /\ owner = [k \in Key |-> NoOwner]
  /\ held = afterRun
  /\ content = owner
  /\ pc = [d \in Download |-> "none"]
  /\ opts = path
  /\ chosen = path
  /\ rename = [d \in Download |-> FALSE]
  /\ want = afterRun /\ grant = afterRun
  /\ requests = 0

Next ==
  \/ \E d \in Download :
       \/ Pause(d) \/ Unpause(d) \/ Remove(d) \/ ChangeURI(d)
       \/ Start(d) \/ ReadOptions(d) \/ Finish(d)
  \/ \E d \in Uri :
       \/ \E p \in Target : ChangeUriOption(d, p)
       \/ ChangeOtherOption(d)
       \/ Choose(d) \/ ChooseBeforeGet(d) \/ Reserve(d) \/ Open(d) \/ Retry(d)
  \/ \E t \in Torrent :
       \/ \E o \in TorrentOption, others \in BOOLEAN : ChangeTorrentOption(t, o, others)
       \/ GotInfo(t) \/ ChooseFiles(t) \/ ReserveFiles(t) \/ OpenFiles(t)

Spec == Init /\ [][Next]_vars

----------------------------------------------------------------------------
\* Properties

\* Shapes of the state; a download has a context exactly while it has a run,
\* and a marker never names any run but the current one (engine.go:115-128).
TypeOK ==
  /\ status \in [Download -> {"unknown", "waiting", "active", "paused", "complete", "error", "removed"}]
  /\ runs \in [Download -> Nat] /\ ctx \in [Download -> Nat]
  /\ retain \in [Download -> Nat] /\ reset \in [Download -> Nat] /\ transition \in [Download -> Nat]
  /\ option \in [Download -> Target \cup TorrentOption]
  /\ opts \in [Download -> Target \cup TorrentOption \cup {NoPath}]
  /\ path \in [Download -> Path \cup {NoPath}] /\ chosen \in [Download -> Path \cup {NoPath}]
  /\ owner \in [Key -> Download \cup {NoOwner}] /\ content \in [Key -> Download \cup {NoOwner}]
  /\ held \in [Download -> SUBSET Key] /\ grant \in [Download -> SUBSET Key]
  /\ afterRun \in [Download -> SUBSET Key] /\ want \in [Download -> SUBSET Key]
  /\ pc \in [Download -> {"none", "init", "info", "choose", "reserve", "open", "write"}]
  /\ \A d \in Download :
       /\ ctx[d] = IF Running(d) THEN runs[d] ELSE 0
       /\ {retain[d], reset[d], transition[d]} \subseteq {0, ctx[d]}
  /\ \A d \in Uri : option[d] \in Target /\ opts[d] \in Target \cup {NoPath}
  /\ \A t \in Torrent :
       /\ option[t] \in TorrentOption
       /\ pc[t] \notin {"none", "init"} => opts[t] \in TorrentOption

\* pathReservations and reservedPathsByGID are inverses of each other: an
\* entry without its counterpart could never be given back, or be taken twice
\* (download_util.go:407-449).
ReservationsAgree == \A k \in Key, d \in Download : owner[k] = d <=> k \in held[d]

\* What a run has reserved for the files it writes stays reserved for it until
\* it has returned, whatever requests come meanwhile (engine.go:123-127).
RunKeepsGrant == \A d \in Download : grant[d] \subseteq held[d]

Writes(d) ==
  IF ~At(d, "write") THEN {} ELSE IF d \in Uri THEN {KeyOf[chosen[d]]} ELSE want[d]

\* Two HTTP downloads never write the same file at the same time, and none
\* writes a file that another download has reserved (download_util.go:289-292).
UriWritersExclusive ==
  \A d \in Uri : \A e \in Download \ {d} :
    /\ Writes(d) \cap grant[e] = {}
    /\ e \in Uri => Writes(d) \cap Writes(e) = {}

\* The paths that a restarted torrent will need are reserved for it from the
\* option change on, so that the swap in finishDownload cannot fail
\* (engine_scheduler.go:106-118).
TransitionCovered ==
  \A t \in Torrent : transition[t] # 0 => afterRun[t] \subseteq held[t]

\* What an HTTP run opens and writes is what it has reserved, and it has no swap
\* to make when it returns.
UriRunReserved ==
  \A d \in Uri :
    /\ transition[d] = 0
    /\ pc[d] \in {"open", "write"} => chosen[d] \in Path /\ grant[d] = {KeyOf[chosen[d]]}

\* The invariant behind UriWritersExclusive.  Every part needs the others: what a
\* run has been granted stays reserved only if the swap that finishDownload makes
\* is covered, and a swap is right only if the maps agree.
ReservationInv == TypeOK /\ ReservationsAgree /\ RunKeepsGrant /\ TransitionCovered /\ UriRunReserved

\* What Renamed makes of a set of paths.
Renames(ps) == UNION {{Renamed[p][i] : i \in 1..Len(Renamed[p])} : p \in ps}

\* The path that a file can have that the options ask for at p: what is on disk
\* makes resolveExistingOutputPath rename it, and what is reserved then makes
\* reserveOutputPath rename the result again.
PathsFor(p) == {p} \cup Renames({p}) \cup Renames(Renames({p}))

\* The path that the next run will resume is one that the options in force ask
\* for: a canceled run cannot publish a path of the old options over them
\* (engine_scheduler.go:100-105).
PathFollowsOptions ==
  \A d \in Uri : ctx[d] = 0 /\ path[d] # NoPath => path[d] \in PathsFor(option[d])

\* No two downloads of an engine write the same destination concurrently, as
\* the comment on reserveOutputPath has it (download_util.go:289-292).  It does
\* not hold for a torrent whose selection changes while its canceled run is
\* between the reservation and the choice of the files.
WritersExclusive == \A d, e \in Download : d # e => Writes(d) \cap Writes(e) = {}

\* A download that is paused or stopped and has no run blocks no path: the
\* reservations are kept across a restart only (engine.go:120-122).  It does not
\* hold for a download that is paused after the run it restarted has returned.
IdleHoldsNothing ==
  \A d \in Download : ~Running(d) /\ status[d] # "waiting" => held[d] = {}

\* Without allow-overwrite and continue, a file that another download has
\* written is not opened again for writing (download_util.go:289-292,
\* download_test.go:962).  It does not hold: the file is looked for before its
\* path is reserved, and may be created and finished in between.
FileKept ==
  \A k \in Key : content[k] # NoOwner => content'[k] = content[k]
FilesKept == [][FileKept]_vars
=============================================================================
