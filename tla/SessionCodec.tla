---------------------------- MODULE SessionCodec ----------------------------
(***************************************************************************)
(* What a session file holds: sessionSnapshot, writeSessionFile,           *)
(* parseSession and loadSession of session.go, and the layers of options   *)
(* of options.go that they take apart and put together again.              *)
(*                                                                         *)
(* An engine's downloads are chosen freely, saved and loaded into another  *)
(* engine.  A file is a sequence of lines, and keys, values and URIs are   *)
(* names: white space is seen only in the URIs that have it.  Every option *)
(* value is a sequence of items: the code keeps a sequence of one as a     *)
(* string, and reads both alike (optionStringList).                        *)
(***************************************************************************)
EXTENDS Integers, Sequences, FiniteSets, SequencesExt, Functions

CONSTANTS
  Gid,          \* gids, a sequence: the order in which downloads are created
  Key,          \* option keys, in the order of sort.Strings
  Item,         \* items of option values
  Uri,          \* HTTP URIs that validateHTTPURI accepts
  Spaced,       \* those of them with white space
  Link,         \* magnet links and torrent data: their size, 0 for a link, and web seeds
  Index,        \* indexes of the files of a torrent
  MaxKeys,      \* maxDownloadOptionKeys
  MaxItems,     \* maxDownloadOptionListItems and maxSessionOptionValues
  MaxUris,      \* maxDownloadURIs and maxTorrentWebSeeds
  MaxDownloads, \* maxSessionDownloads
  MaxFile,      \* maxSessionFileSize
  MaxTorrent,   \* defaultMaxTorrentSize
  Layers,       \* bound: the two option layers that downloads have
  Crowd         \* bound: the downloads of which there are more than two

GID       == "gid"
PAUSE     == "pause"
EXPLICIT  == "goaria-internal-explicit-options"
FINALIZED == "goaria-internal-torrent-finalized-files"
SAVE      == "save-session"
SIZE      == "goaria-max-torrent-size"

ASSUME KeyAssumption == {GID, PAUSE, EXPLICIT, FINALIZED} \subseteq ToSet(Key)
ASSUME UriAssumption == Spaced \subseteq Uri /\ Uri \cap DOMAIN Link = {} /\ "uri" \notin DOMAIN Link
ASSUME LayerAssumption ==
  \A l \in Layers : \A layer \in {l.base, l.overlay} :
    /\ Cardinality(DOMAIN layer \ {GID, PAUSE}) <= MaxKeys
    /\ \A k \in DOMAIN layer : Len(layer[k]) <= MaxItems

VARIABLES
  downloads, \* e.downloads: a function on some of the gids
  waiting,   \* e.waiting
  lines,     \* the session file
  restored,  \* e.downloads after loadSession
  queue,     \* e.waiting after loadSession
  stage      \* "running", "saved" or "unsaved", "loaded" or "unloaded"

vars == <<downloads, waiting, lines, restored, queue, stage>>

Empty == <<>>

----------------------------------------------------------------------------
\* Layers of options

\* optionsForRPC: a layer over another.
Effective(base, overlay) ==
  [k \in DOMAIN base \cup DOMAIN overlay |-> IF k \in DOMAIN overlay THEN overlay[k] ELSE base[k]]

\* validateOptionLayerSize
LayerFits(layer) == Cardinality(DOMAIN layer \ {GID, PAUSE, EXPLICIT, FINALIZED}) <= MaxKeys

\* encodeSessionExplicitOptions: the keys of the overlay, as one item.
ExplicitKeys(overlay) == DOMAIN overlay \ {GID, PAUSE, EXPLICIT, FINALIZED}

\* restoreSessionOptionLayers
RestoreLayers(effective, explicit) ==
  LET over == DOMAIN effective \cap (explicit \cup {GID, PAUSE}) IN
  [base |-> Restrict(effective, DOMAIN effective \ over), overlay |-> Restrict(effective, over)]

----------------------------------------------------------------------------
\* Saving

Position(gid) == IF \E i \in DOMAIN waiting : waiting[i] = gid
                 THEN CHOOSE i \in DOMAIN waiting : waiting[i] = gid
                 ELSE Len(waiting) + 1

Created(gid) == CHOOSE i \in DOMAIN Gid : Gid[i] = gid

\* The URIs of an entry: a torrent's begin with its magnet link or its data.
EntryUris(d) == IF d.kind = "uri" THEN d.uris ELSE <<d.kind>> \o d.uris

EntryOptions(gid, d) ==
  LET private == {SAVE, EXPLICIT, FINALIZED, GID, PAUSE}
      plain   == Effective(d.base, d.overlay)
      added   == [k \in {GID, PAUSE, EXPLICIT} \cup (IF d.finalized # {} THEN {FINALIZED} ELSE {}) |->
                    IF k = GID THEN <<gid>>
                    ELSE IF k = PAUSE THEN <<d.status = "paused">>
                    ELSE IF k = EXPLICIT THEN <<ExplicitKeys(d.overlay)>>
                    ELSE <<d.finalized>>]
  IN Effective(Restrict(plain, DOMAIN plain \ private), added)

\* sessionSnapshot: what is neither complete nor removed, the waiting ones first
\* and in their order.
Snapshot ==
  LET saved == {g \in DOMAIN downloads : downloads[g].status \notin {"complete", "removed"}}
      before(g, h) == \/ Position(g) < Position(h)
                      \/ Position(g) = Position(h) /\ Created(g) < Created(h)
      order == SetToSortSeq(saved, before)
  IN [i \in DOMAIN order |->
        [uris |-> EntryUris(downloads[order[i]]), options |-> EntryOptions(order[i], downloads[order[i]])]]

\* validateSessionDownload
EntryFits(entry) ==
  /\ Len(entry.uris) <= MaxUris + (IF entry.uris[1] \in DOMAIN Link THEN 1 ELSE 0)
  /\ ToSet(entry.uris) \cap Spaced = {}
  /\ Cardinality(DOMAIN entry.options) <= 2 * MaxKeys + 4
  /\ \A k \in DOMAIN entry.options : Len(entry.options[k]) <= MaxItems

\* One line for each item of each option.
OptionLines(options) ==
  LET keys == SelectSeq(Key, LAMBDA k : k \in DOMAIN options) IN
  FlattenSeq([i \in DOMAIN keys |->
                [j \in DOMAIN options[keys[i]] |-> [key |-> keys[i], value |-> options[keys[i]][j]]]])

\* The length of a line: the more URIs, the longer.
Bytes(line) == IF "uris" \in DOMAIN line THEN Len(line.uris) ELSE 1

FileSize(file) == FoldLeft(LAMBDA n, line : n + Bytes(line), 0, file)

Lines(entries) == FlattenSeq([i \in DOMAIN entries |-> <<[uris |-> entries[i].uris]>> \o OptionLines(entries[i].options)])

\* writeSessionFile: an entry without URIs is left out, and the size is counted
\* as it is written (sessionSizeWriter).
Written == SelectSeq(Snapshot, LAMBDA e : e.uris # <<>>)

SaveSession ==
  /\ stage = "running"
  /\ IF /\ \A i \in DOMAIN Written : EntryFits(Written[i])
        /\ Len(Written) <= MaxDownloads
        /\ FileSize(Lines(Written)) <= MaxFile
     THEN lines' = Lines(Written) /\ stage' = "saved"
     ELSE stage' = "unsaved" /\ UNCHANGED lines
  /\ UNCHANGED <<downloads, waiting, restored, queue>>

----------------------------------------------------------------------------
\* Loading

Failure == [failed |-> TRUE, bytes |-> 0, items |-> <<>>]

\* Slip: a repeated key replaces the value.
AddOptionLast(options, k, v) == Effective(options, [x \in {k} |-> <<v>>])

\* addOption: the items of a repeated key are collected.
AddOption(options, k, v) ==
  Effective(options, [x \in {k} |-> IF k \in DOMAIN options THEN Append(options[k], v) ELSE <<v>>])

\* A line that is not an option begins an item.
ParseUris(state, line) ==
  IF Len(line.uris) > MaxUris + 1 \/ Len(state.items) >= MaxDownloads THEN Failure
  ELSE [state EXCEPT !.items = Append(@, [uris |-> line.uris, options |-> Empty])]

ParseOption(state, line) ==
  LET last == state.items[Len(state.items)]
      new  == AddOption(last.options, line.key, line.value)
  IN IF state.items = <<>> \/ Len(new[line.key]) > MaxItems \/ Cardinality(DOMAIN new) > 2 * MaxKeys + 4
     THEN Failure
     ELSE [state EXCEPT !.items[Len(state.items)] = [last EXCEPT !.options = new]]

\* One line of parseSession.
ParseLine(state, line) ==
  LET counted == [state EXCEPT !.bytes = @ + Bytes(line)] IN
  IF state.failed \/ counted.bytes > MaxFile THEN Failure
  ELSE IF "uris" \in DOMAIN line THEN ParseUris(counted, line) ELSE ParseOption(counted, line)

Parse(file) == FoldLeft(ParseLine, [failed |-> FALSE, bytes |-> 0, items |-> <<>>], file)

\* One item of loadSession becomes a download.
Loaded(item) ==
  LET effective == Restrict(item.options, DOMAIN item.options \ {EXPLICIT, FINALIZED})
      layers    == RestoreLayers(effective, item.options[EXPLICIT][1])
      torrent   == item.uris[1] \in DOMAIN Link
  IN [kind      |-> IF torrent THEN item.uris[1] ELSE "uri",
      uris      |-> IF torrent THEN Tail(item.uris) ELSE item.uris,
      base      |-> layers.base,
      overlay   |-> layers.overlay,
      finalized |-> IF FINALIZED \in DOMAIN item.options THEN item.options[FINALIZED][1] ELSE {},
      status    |-> IF effective[PAUSE][1] THEN "paused" ELSE "waiting"]

\* torrentSizeLimit
SizeLimit(options) == IF SIZE \in DOMAIN options THEN options[SIZE][1] ELSE MaxTorrent

\* decodeSessionTorrentDataURI, and mergeTorrentWebSeedURLs of a torrent's own web
\* seeds and those that it was given.
TorrentFits(d) ==
  d.kind \in DOMAIN Link =>
    /\ Link[d.kind].size <= SizeLimit(Effective(d.base, d.overlay))
    /\ Cardinality(Link[d.kind].seeds \cup ToSet(d.uris)) <= MaxUris

\* Slip: no room for the gid and the pause flag.
LoadableTight(item) ==
  LET effective == DOMAIN item.options \ {EXPLICIT, FINALIZED}
      d         == Loaded(item)
  IN /\ Cardinality(effective) <= 2 * MaxKeys
     /\ Cardinality(item.options[EXPLICIT][1]) <= MaxKeys
     /\ LayerFits(d.base) /\ LayerFits(d.overlay)
     /\ Len(d.uris) <= MaxUris
     /\ TorrentFits(d)
     /\ d.finalized # {} => d.kind # "uri"

\* What loadSession refuses.  The values of the options and the selection of files
\* pass the same checks as when the download got them.
Loadable(item) ==
  LET effective == DOMAIN item.options \ {EXPLICIT, FINALIZED}
      d         == Loaded(item)
  IN /\ Cardinality(effective) <= 2 * MaxKeys + 2
     /\ Cardinality(item.options[EXPLICIT][1]) <= MaxKeys
     /\ LayerFits(d.base) /\ LayerFits(d.overlay)
     /\ Len(d.uris) <= MaxUris
     /\ TorrentFits(d)
     /\ d.finalized # {} => d.kind # "uri"

\* loadSession, on an engine that has just been made.
LoadSession ==
  /\ stage = "saved"
  /\ LET parsed == Parse(lines)
         items  == parsed.items
         gid(i) == items[i].options[GID][1]
         ok     == /\ ~parsed.failed
                   /\ \A i \in DOMAIN items : Loadable(items[i])
                   /\ \A i, j \in DOMAIN items : gid(i) = gid(j) => i = j
     IN IF ok
        THEN /\ restored' = [g \in {gid(i) : i \in DOMAIN items} |->
                               Loaded(items[CHOOSE i \in DOMAIN items : gid(i) = g])]
             /\ queue' = SelectSeq([i \in DOMAIN items |-> gid(i)], LAMBDA g : restored'[g].status = "waiting")
             /\ stage' = "loaded"
        ELSE stage' = "unloaded" /\ UNCHANGED <<restored, queue>>
  /\ UNCHANGED <<downloads, waiting, lines>>

----------------------------------------------------------------------------

Status == {"active", "waiting", "paused", "complete", "error", "removed"}

\* A download as the engine's own checks let it be.  ChangeURI and ChangeOption
\* look neither at the web seeds of a torrent nor at its size.  The first URI of a
\* torrent's entry stands for its kind.
Download ==
  {d \in [kind : {"uri"} \cup DOMAIN Link, uris : UNION {[1..n -> Uri] : n \in 0..MaxUris},
          base : {l.base : l \in Layers}, overlay : {l.overlay : l \in Layers},
          status : Status, finalized : SUBSET Index] :
     /\ \E l \in Layers : d.base = l.base /\ d.overlay = l.overlay
     /\ d.kind = "uri" => d.finalized = {} /\ d.uris # <<>>}

Init ==
  /\ \E n \in 0..Len(Gid) :
       downloads \in [ToSet(SubSeq(Gid, 1, n)) -> IF n <= 2 THEN Download ELSE Crowd]
  /\ LET queued == {g \in DOMAIN downloads : downloads[g].status = "waiting"} IN
     waiting \in {s \in [1..Cardinality(queued) -> queued] : IsInjective(s)}
  /\ lines = <<>> /\ restored = Empty /\ queue = <<>> /\ stage = "running"

Next == SaveSession \/ LoadSession

Spec == Init /\ [][Next]_vars

----------------------------------------------------------------------------

\* Downloads that the next process should have.
Unfinished == {g \in DOMAIN downloads : downloads[g].status \notin {"complete", "removed"}}

\* A save is refused only for a URI with white space, too many downloads or too
\* large a file.  What is saved can be loaded, unless a torrent has outgrown its
\* options since it was added: the limits on keys, items, URIs, downloads and size
\* are the same for both, and leave room for both layers of options and for what
\* the session adds.
RefusalsExplained ==
  /\ stage = "unsaved" =>
       \/ \E g \in Unfinished : ToSet(downloads[g].uris) \cap Spaced # {}
       \/ Cardinality(Unfinished) > MaxDownloads
       \/ FileSize(Lines(Written)) > MaxFile
  /\ stage = "unloaded" => \E g \in Unfinished : ~TorrentFits(downloads[g])

\* Nothing that an empty sequence of items says is kept.
Meaning(layer) == Restrict(layer, {k \in DOMAIN layer : layer[k] # <<>>})

\* A download comes back with its gid, kind, URIs, finalized files, paused or
\* not, every option with the same effective value, and inheriting the same
\* options as before; and the queue keeps its order, ahead of what was running.
RoundTrip ==
  stage = "loaded" =>
    /\ DOMAIN restored = Unfinished /\ IsPrefix(waiting, queue)
    /\ \A g \in Unfinished :
         LET d == downloads[g]
             r == restored[g]
             kept(f) == Restrict(f, DOMAIN f \ {GID, PAUSE, SAVE})
         IN /\ r.kind = d.kind /\ r.uris = d.uris /\ r.finalized = d.finalized
            /\ r.status = IF d.status = "paused" THEN "paused" ELSE "waiting"
            /\ Meaning(kept(Effective(r.base, r.overlay))) = Meaning(kept(Effective(d.base, d.overlay)))
            /\ ExplicitKeys(Meaning(kept(r.overlay))) = ExplicitKeys(Meaning(kept(d.overlay)))
=============================================================================
