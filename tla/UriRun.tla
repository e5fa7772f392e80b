------------------------------- MODULE UriRun -------------------------------
(***************************************************************************)
(* The runs of one HTTP download and the file they leave behind            *)
(* (downloader.go, download_util.go, download_http.go): the retry loop of  *)
(* runDownload, the choice of strategy in downloadURI, the probe, and the  *)
(* three ways to transfer a body, with what each does to the file.         *)
(*                                                                         *)
(* The resource is blocks 1..Size and never changes.  A file is the        *)
(* sequence of the blocks it holds, 0 where it has a hole; it is right if  *)
(* it is <<1, ..., Size>>.  Files are named by the suffix that             *)
(* auto-file-renaming gives them: 0 is the path the options ask for.  The  *)
(* server answers every request as it likes, within what a server can say. *)
(*                                                                         *)
(* Other downloads are in OutputReservations, the workers of a segmented   *)
(* transfer in SegmentedTransfer.                                          *)
(***************************************************************************)
EXTENDS Integers, Sequences, FiniteSets

CONSTANTS
  Size,        \* blocks of the resource
  Suffix,      \* the names 0..n a file can get
  Uris,        \* number of URIs of the download
  Tries,       \* values of option max-tries, 0 for no limit
  MaxNotFound, \* option max-file-not-found, 0 for no limit
  Opts,        \* the sets of options that the download can have
  Existing,    \* contents that file 0 can have before the download starts
  Changeable,  \* options may change from one run to the next
  MaxRuns      \* bound: runs of the download

\* Options: split > 1, more than one connection to start with, continue, an
\* explicit out, conditional-get, http-accept-gzip, dry-run, allow-overwrite,
\* auto-file-renaming, max-tries.
OptionSet ==
  [split : BOOLEAN, many : BOOLEAN, continue : BOOLEAN, out : BOOLEAN, conditional : BOOLEAN,
   gzip : BOOLEAN, dryRun : BOOLEAN, overwrite : BOOLEAN, rename : BOOLEAN, tries : Tries]

NoFile == <<-1>>
NoName == -1
Blocks == 1..Size
Right  == [i \in Blocks |-> i]

ASSUME SizeAssumption == Size \in Nat \ {0} /\ Uris \in Nat \ {0} /\ MaxNotFound \in Nat
ASSUME NamesAssumption == 0 \in Suffix /\ Suffix \subseteq Nat /\ Existing \subseteq Seq(Int)
ASSUME OptsAssumption == Tries \subseteq Nat /\ Opts \subseteq OptionSet /\ Changeable \in BOOLEAN

VARIABLES
  before,    \* what file 0 was before the download
  file,      \* the files on disk
  path,      \* d.path
  canceled,  \* the context of the run is canceled
  result,    \* what the last run returned
  how,       \* how the last run came to succeed
  runs,      \* runs so far
  pc,        \* where the run is
  o,         \* opts of the run
  uri,       \* URIs tried in this round
  attempt, notFound, retryRound, lastErr,  \* as in runDownload
  meta,      \* remoteMeta: is the length known, are ranges accepted
  target,    \* the path being transferred to
  created,   \* createdNew: the file was made before the request
  start,     \* offset the request asks for
  done       \* blocks of the body that are in the file

loop     == <<uri, attempt, notFound, retryRound, lastErr>>
transfer == <<meta, target, created, start, done>>
vars     == <<before, file, path, canceled, result, how, runs, pc, o, loop, transfer>>

Exists(n)   == file[n] # NoFile
Length(n)   == IF Exists(n) THEN Len(file[n]) ELSE 0
Set(n, c)   == file' = [file EXCEPT ![n] = c]
NoMeta      == [kind |-> "meta", known |-> FALSE, ranges |-> FALSE]

\* Classes of errors: isFileNotFoundError, isRetryableDownloadError, the
\* cancellation of the run, everything else.
Errors == {"notFound", "retryable", "canceled", "fatal"}

\* Only a canceled run can fail with context.Canceled.
Possible(e) == e = "canceled" => canceled

----------------------------------------------------------------------------
\* runDownload

\* The scheduler starts a run, which copies the options.
Start ==
  /\ pc = "none" /\ runs < MaxRuns /\ result # "ok"
  /\ runs' = runs + 1
  /\ o' \in IF Changeable THEN {p \in Opts : p.out = o.out} ELSE {o}
  /\ canceled' = FALSE
  /\ result' = "none" /\ how' = "none"
  /\ uri' = 0 /\ attempt' = 0 /\ notFound' = 0 /\ retryRound' = FALSE /\ lastErr' = "none"
  /\ pc' = "next"
  /\ UNCHANGED <<before, file, path, transfer>>

\* The locals of a transfer end with the call of downloadURI they belong to.
NoTransfer == meta' = NoMeta /\ target' = 0 /\ created' = FALSE /\ start' = 0 /\ done' = {}

Return(r) ==
  /\ pc' = "none"
  /\ result' = r

TriesLeft == o.tries = 0 \/ attempt < o.tries

\* The counters are only ever compared with their limits: they stay at 0 where
\* there is none.
OneMore(n, limit) == IF limit = 0 THEN 0 ELSE n + 1

\* canUseSingleGETProbe
SingleGet(p) ==
  LET get == p.out \/ ~p.continue IN
  /\ ~p.dryRun
  /\ IF ~p.split THEN get
     ELSE ~p.many /\ IF p.gzip THEN get ELSE p.out /\ p.continue

\* Slip: the context is looked at by the requests only.
NeverStop == FALSE

\* The loop looks at the context before each attempt.
StopHere == uri < Uris /\ canceled

\* Slip: the limit is checked once per round.
TryAnyway == uri < Uris

TryNow == uri < Uris /\ TriesLeft

\* The head of the loops: a canceled run stops here, and so does one that has
\* no tries left or whose last round met no error worth a retry.
NextUri ==
  /\ pc = "next"
  /\ IF StopHere
     THEN Return("canceled") /\ UNCHANGED loop
     ELSE IF TryNow
     THEN /\ uri' = uri + 1 /\ attempt' = OneMore(attempt, o.tries)
          /\ pc' = IF SingleGet(o) THEN "get" ELSE "probe"
          /\ UNCHANGED <<result, notFound, retryRound, lastErr>>
     ELSE IF retryRound /\ TriesLeft
     THEN /\ uri' = 0 /\ retryRound' = FALSE
          /\ UNCHANGED <<pc, result, attempt, notFound, lastErr>>
     ELSE Return(lastErr) /\ UNCHANGED loop
  /\ UNCHANGED <<file, path, canceled, how, before, runs, o, transfer>>

\* downloadURI fails with e, and the loop goes on or gives up.
Fail(e) ==
  /\ Possible(e)
  /\ lastErr' = e
  /\ notFound' = IF e = "notFound" THEN OneMore(notFound, MaxNotFound) ELSE notFound
  /\ retryRound' = (retryRound \/ e = "retryable")
  /\ IF e = "notFound" /\ MaxNotFound > 0 /\ notFound + 1 >= MaxNotFound
     THEN Return(e)
     ELSE pc' = (IF e = "retryable" /\ TriesLeft THEN "wait" ELSE "next") /\ UNCHANGED result
  /\ NoTransfer
  /\ UNCHANGED <<canceled, before, runs, o, uri, attempt>>

\* retry-wait, cut short by a cancellation.
Wait ==
  /\ pc = "wait"
  /\ \/ pc' = "next" /\ UNCHANGED result
     \/ canceled /\ Return("canceled")
  /\ UNCHANGED <<file, path, canceled, how, before, runs, o, loop, transfer>>

\* downloadURI returns nil.
Succeed(way) ==
  /\ Return("ok")
  /\ how' = way
  /\ NoTransfer
  /\ UNCHANGED <<canceled, before, runs, o, loop>>

----------------------------------------------------------------------------
\* Choice of the file

NextAvailable == {n \in Suffix \ {0} : ~Exists(n) /\ \A m \in 1..(n - 1) : Exists(m)}

\* Slip: a download that may be renamed may have the name as well.
ResolveAnyway(resume) == IF ~Exists(0) \/ resume \/ o.overwrite \/ o.rename THEN {0} ELSE {}

\* resolveExistingOutputPath and nextAvailableOutputPath: empty if it fails.
Resolve(resume) ==
  IF ~Exists(0) \/ resume \/ o.overwrite THEN {0}
  ELSE IF o.rename THEN NextAvailable ELSE {}

\* canResumeExistingOutput
CanResume(n, m, segmented) ==
  /\ ~segmented /\ o.continue /\ m.ranges /\ m.known
  /\ 0 < Length(n) /\ Length(n) < Size

----------------------------------------------------------------------------
\* probe

\* What HEAD can tell: a 304 needs a conditional header, which needs a file.
\* "none" is a request that failed or use-head=false; "refused" is 403, 405
\* and 501.
HeadReply ==
  {"none", "refused", "error", "length", "noLength"} \cup
  (IF o.conditional /\ ~o.continue /\ Exists(0) THEN {"notModified"} ELSE {})

\* What GET with a small range can tell.
GetReply ==
  {"error", "ok", "partial", "partialTotal", "badPartial", "unsatisfied"} \cup
  (IF o.conditional /\ ~o.continue /\ Exists(0) THEN {"notModified"} ELSE {})

Meta(known, ranges) == [kind |-> "meta", known |-> known, ranges |-> ranges]
NotModified == [NoMeta EXCEPT !.kind = "notModified"]
ProbeError == [NoMeta EXCEPT !.kind = "error"]

\* What the two replies come to.
Probe(head, ranges, get) ==
  LET headMeta == IF head = "noLength" THEN {Meta(FALSE, ranges)} ELSE {ProbeError} IN
  IF head = "notModified" THEN {NotModified}
  ELSE IF head = "length" THEN {Meta(TRUE, ranges)}
  ELSE IF head = "error" THEN {ProbeError}
  ELSE IF get = "notModified" THEN {NotModified}
  ELSE IF get = "unsatisfied" THEN {Meta(TRUE, TRUE)}
  ELSE IF get \in {"error", "badPartial"} THEN headMeta
  ELSE IF get = "ok" THEN {Meta(known, FALSE) : known \in BOOLEAN}
  ELSE {Meta(get = "partialTotal", TRUE)}

\* The probe, and what downloadURI makes of it.  A file may be too short to be
\* split (meetsSegmentedMinimum).
ProbeAndChoose ==
  /\ pc = "probe"
  /\ \E head \in HeadReply, ranges \in BOOLEAN, get \in GetReply : \E m \in Probe(head, ranges, get) :
       IF m.kind = "error"
       THEN /\ \E e \in Errors : Fail(e)
            /\ UNCHANGED <<file, path, how>>
       ELSE IF m.kind = "notModified" \/ o.dryRun
       THEN /\ path' = 0
            /\ Succeed(IF o.dryRun THEN "dryRun" ELSE "notModified")
            /\ UNCHANGED file
       ELSE \E segmented \in {FALSE, m.known /\ m.ranges /\ o.split} :
            LET names == IF path # NoName THEN {path} ELSE Resolve(CanResume(0, m, segmented)) IN
            \/ /\ names = {}
               /\ Fail("fatal")
               /\ UNCHANGED <<file, path, how>>
            \/ /\ target' \in names
               /\ path' = target'
               /\ meta' = m
               /\ pc' = IF segmented THEN "allocate" ELSE "single"
               /\ UNCHANGED <<file, canceled, result, how, before, runs, o, loop, created, start, done>>

----------------------------------------------------------------------------
\* downloadSegmented, as far as the file is concerned

\* The file is created or kept, and extended or cut to its final size.
Allocate ==
  /\ pc = "allocate"
  /\ Set(target, [i \in Blocks |-> IF i <= Length(target) THEN file[target][i] ELSE 0])
  /\ done' = {}
  /\ pc' = "segments"
  /\ UNCHANGED <<path, canceled, result, how, before, runs, o, loop, meta, target, created, start>>

WriteSegment ==
  /\ pc = "segments"
  /\ \E i \in Blocks \ done :
       /\ Set(target, [file[target] EXCEPT ![i] = i])
       /\ done' = done \cup {i}
  /\ UNCHANGED <<path, canceled, result, how, before, runs, pc, o, loop, meta, target, created, start>>

SegmentsDone ==
  /\ pc = "segments"
  /\ done = Blocks
  /\ Succeed("body")
  /\ UNCHANGED <<file, path>>

SegmentsFail ==
  /\ pc = "segments"
  /\ \E e \in Errors : Fail(e)
  /\ UNCHANGED <<file, path, how>>

\* shouldDowngradeSegmentedDownload: the server ignores ranges after all.
Downgrade ==
  /\ pc = "segments"
  /\ meta' = [meta EXCEPT !.ranges = FALSE]
  /\ pc' = "single"
  /\ UNCHANGED <<file, path, canceled, result, how, before, runs, o, loop, target, created, start, done>>

----------------------------------------------------------------------------
\* downloadSingle

\* The file is opened, and unless it can be resumed emptied, before the
\* request is sent.
SingleOpen ==
  /\ pc = "single"
  /\ start' = IF o.continue /\ meta.known /\ meta.ranges /\ Length(target) < Size THEN Length(target) ELSE 0
  /\ Set(target, IF start' > 0 THEN file[target] ELSE <<>>)
  /\ pc' = "singleReply"
  /\ UNCHANGED <<path, canceled, result, how, before, runs, o, loop, meta, target, created, done>>

\* A body that begins at offset n is about to be copied.
Body(n) ==
  /\ done' = 1..n
  /\ pc' = "copy"

\* 206 is a reply to a range only, and 200 restarts the file.
SingleReply ==
  /\ pc = "singleReply"
  /\ \/ /\ \E e \in Errors : Fail(e)
        /\ UNCHANGED <<file, path, how>>
     \/ /\ start > 0
        /\ Body(start)
        /\ UNCHANGED <<file, path, canceled, result, how, before, runs, o, loop, meta, target, created, start>>
     \/ /\ Set(target, <<>>)
        /\ Body(0)
        /\ UNCHANGED <<path, canceled, result, how, before, runs, o, loop, meta, target, created, start>>

----------------------------------------------------------------------------
\* downloadSingleWithGETProbe

\* canCreateSingleDestinationBeforeGET
CreateFirst == o.out /\ o.continue /\ ~o.conditional

Provisional == IF path # NoName THEN path ELSE 0

\* Before the request the file may be created, or its size be the offset.
GetRequest ==
  /\ pc = "get"
  /\ target' = Provisional
  /\ created' = (CreateFirst /\ ~Exists(Provisional))
  /\ start' = IF o.continue THEN Length(Provisional) ELSE 0
  /\ IF created' THEN Set(Provisional, <<>>) ELSE UNCHANGED file
  /\ pc' = "getReply"
  /\ UNCHANGED <<path, canceled, result, how, before, runs, o, loop, meta, done>>

\* The file made before the request does not outlive a reply without a body.
DropCreated == IF created THEN Set(target, NoFile) ELSE UNCHANGED file

GetFails ==
  /\ pc = "getReply"
  /\ \E e \in Errors : Fail(e)
  /\ DropCreated
  /\ UNCHANGED <<path, how>>

\* 304 needs the conditional header, which needs a file and no range.
GetNotModified ==
  /\ pc = "getReply"
  /\ o.conditional /\ start = 0 /\ Exists(target)
  /\ path' = target
  /\ DropCreated
  /\ Succeed("notModified")

\* Slip: the total of the 416 is not compared with the offset.
GetUnsatisfiedAny ==
  /\ pc = "getReply"
  /\ start > 0
  /\ path' = target
  /\ DropCreated
  /\ Succeed("complete")

\* 416 whose total is the offset: the file is taken to be complete.
GetUnsatisfied ==
  /\ pc = "getReply"
  /\ start > 0 /\ start = Size
  /\ path' = target
  /\ DropCreated
  /\ Succeed("complete")

\* 200 or 206: the file is chosen, now that the name is known, and opened; only
\* 206 leaves what it holds.  A body that cannot be decoded is an error.
GetBody ==
  /\ pc = "getReply"
  /\ \E partial \in BOOLEAN :
       LET from  == IF partial THEN start ELSE 0
           names == IF ~created /\ path = NoName /\ from = 0
                    THEN Resolve(o.out /\ o.continue /\ Exists(0) /\ Length(0) = 0)
                    ELSE {target} IN
       /\ partial => start > 0
       /\ \/ /\ names = {}
             /\ Fail("fatal")
             /\ UNCHANGED <<file, path, how>>
          \/ /\ target' \in names
             /\ path' = target'
             /\ Set(target', IF from > 0 THEN file[target'] ELSE <<>>)
             /\ Body(from)
             /\ UNCHANGED <<canceled, result, how, before, runs, o, loop, meta, created, start>>
          \/ /\ o.gzip /\ from = 0
             /\ path' \in names
             /\ Set(path', IF created THEN NoFile ELSE <<>>)
             /\ Fail("fatal")
             /\ UNCHANGED how

----------------------------------------------------------------------------
\* copyWithProgressBuffer and what follows it in downloadURI

Copy ==
  /\ pc = "copy"
  /\ done # Blocks
  /\ LET next == Cardinality(done) + 1 IN
       /\ Set(target, Append(file[target], next))
       /\ done' = done \cup {next}
  /\ UNCHANGED <<path, canceled, result, how, before, runs, pc, o, loop, meta, target, created, start>>

\* The body ends early, too slowly or with an error; or the checksum is wrong.
CopyFails ==
  /\ pc = "copy"
  /\ \E e \in Errors : Fail(e)
  /\ UNCHANGED <<file, path, how>>

CopyDone ==
  /\ pc = "copy"
  /\ done = Blocks
  /\ Succeed("body")
  /\ UNCHANGED <<file, path>>

----------------------------------------------------------------------------

\* The download is paused, removed or restarted while it runs.
Cancel ==
  /\ pc # "none" /\ ~canceled
  /\ canceled' = TRUE
  /\ UNCHANGED <<file, path, result, how, before, runs, pc, o, loop, transfer>>

\* The process is started again, and the download comes from the session file.
Restart ==
  /\ pc = "none" /\ path # NoName /\ result # "ok"
  /\ path' = NoName
  /\ UNCHANGED <<file, canceled, result, how, before, runs, pc, o, loop, transfer>>

Init ==
  /\ before \in Existing
  /\ file = [n \in Suffix |-> IF n = 0 THEN before ELSE NoFile]
  /\ path = NoName
  /\ canceled = FALSE /\ result = "none" /\ how = "none" /\ runs = 0 /\ pc = "none"
  /\ o \in Opts
  /\ uri = 0 /\ attempt = 0 /\ notFound = 0 /\ retryRound = FALSE /\ lastErr = "none"
  /\ meta = NoMeta /\ target = 0 /\ created = FALSE /\ start = 0 /\ done = {}

RunStep ==
  \/ NextUri \/ Wait \/ ProbeAndChoose
  \/ Allocate \/ WriteSegment \/ SegmentsDone \/ SegmentsFail \/ Downgrade
  \/ SingleOpen \/ SingleReply
  \/ GetRequest \/ GetFails \/ GetNotModified \/ GetUnsatisfied \/ GetBody
  \/ Copy \/ CopyFails \/ CopyDone

Next ==
  Start \/ RunStep \/ Cancel \/ Restart

\* Requests have deadlines and every loop of a run goes on, so a run that can
\* take a step takes one.
Spec == Init /\ [][Next]_vars /\ WF_vars(RunStep)

----------------------------------------------------------------------------

\* The variables have their types: a file is a sequence of blocks and holes no
\* longer than the resource, and a body is copied to where the file ends.
TypeOK ==
  /\ file \in [Suffix -> {NoFile} \cup UNION {[1..n -> 0..Size] : n \in 0..Size}]
  /\ path \in Suffix \cup {NoName} /\ target \in Suffix /\ start \in 0..Size
  /\ result \in Errors \cup {"none", "ok"} /\ lastErr \in Errors \cup {"none"}
  /\ o \in Opts /\ uri \in 0..Uris /\ runs \in 0..MaxRuns
  /\ pc = "copy" => done = 1..Length(target)
  /\ pc = "segments" => done \subseteq Blocks /\ Length(target) = Size

\* A run that transferred a body, or that took a 416 for the end of one,
\* leaves the whole resource in the file it reports (runDownload returns nil):
\* after any number of failed attempts, pauses, restarts and servers that
\* ignore, refuse or misreport ranges.  It does not hold if a download that had
\* several connections is given one before it is continued (Changeable): the
\* file then has its final size from the start, and its size is all that the
\* next run looks at.
CompleteFile ==
  result = "ok" /\ how \in {"body", "complete"} => file[path] = Right

\* A 304 is success without a transfer (downloadURI returns nil on
\* NotModified), so the file it vouches for was there before the download.  It
\* does not hold for a conditional download without continue that is retried:
\* the 304 is then about the part that the first try has left.
NotModifiedKeepsFile ==
  result = "ok" /\ how = "notModified" => path = 0 /\ file[0] = before

\* A file that was there first is not touched, unless the options allow that
\* it be overwritten or continued (resolveExistingOutputPath): no retry, no
\* later run and no forgotten path changes that.
ForeignFileKept ==
  before # NoFile /\ ~o.overwrite /\ ~o.continue => file[0] = before

\* max-tries bounds the attempts of a run, and a run gives up on an error that
\* is worth a retry only when it has used them all.
TriesUsed ==
  /\ o.tries > 0 => attempt <= o.tries
  /\ result = "retryable" => o.tries > 0 /\ attempt = o.tries

\* A canceled run returns, even with unlimited tries and a server that keeps
\* failing in ways worth a retry.
CanceledRunEnds == canceled ~> pc = "none"
=============================================================================
