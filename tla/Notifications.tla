---------------------------- MODULE Notifications ----------------------------
(***************************************************************************)
(* The notifications of the engine (notifications.go) and the places they  *)
(* come from (engine_scheduler.go).  A change of a download's state is made *)
(* under Engine.mu; its notification follows after the unlock, so other    *)
(* goroutines come in between.  notify goes over all subscribers under     *)
(* subMu and leaves out those whose channel is full.                       *)
(*                                                                         *)
(* One download is enough to tell the orders apart; the scheduler's choice *)
(* among several is in EngineScheduler.                                    *)
(***************************************************************************)
EXTENDS Integers, Sequences

CONSTANTS
  Sub,       \* calls of Subscribe
  Buffer,    \* their buffer
  MaxStarts, \* bound: starts of the download
  MaxCalls   \* bound: pauses, removals and changes

ASSUME BufferAssumption == Buffer \in Nat \ {0}

VARIABLES
  state,       \* of the download
  started,     \* how often it has been started
  starting,    \* schedule is between its unlock and the start's notification
  running,     \* a run's goroutine is there
  due,         \* notifications of other goroutines that are past their unlock
  calls,
  canceled,    \* Engine.ctx is done
  ended,       \* Close has come to its end
  subscribers, \* as in Engine
  chan, shut,  \* the channels; shut: closed
  log,         \* all calls of notify, in the order in which subMu was taken
  interrupted  \* history: the runs whose download was paused, removed or requeued under them

downloadVars == <<state, started, starting, running, due, calls, interrupted>>
subVars      == <<subscribers, chan, shut>>
notifyVars   == <<downloadVars, subVars, canceled, ended, log>>

Event(what) == [what |-> what, run |-> started]

\* A notification that the call numbered by, or a run, is about to send.
Due(by, what) == due' = due \cup {[by |-> by, event |-> Event(what)]}

----------------------------------------------------------------------------
\* Subscribers

Subscribe(s) ==
  /\ chan[s] = <<>> /\ ~shut[s] /\ s \notin subscribers
  /\ IF canceled
     THEN shut' = [shut EXCEPT ![s] = TRUE] /\ UNCHANGED subscribers
     ELSE subscribers' = subscribers \cup {s} /\ UNCHANGED shut
  /\ UNCHANGED <<chan, downloadVars, canceled, ended, log>>

\* Slip: the cancel function closes the channel and leaves the entry.
UnsubscribeLater(s) ==
  /\ s \in subscribers
  /\ shut' = [shut EXCEPT ![s] = TRUE]
  /\ UNCHANGED <<subscribers, chan, downloadVars, canceled, ended, log>>

\* The function that Subscribe returns; a second call does nothing.
Unsubscribe(s) ==
  /\ s \in subscribers
  /\ subscribers' = subscribers \ {s}
  /\ shut' = [shut EXCEPT ![s] = TRUE]
  /\ UNCHANGED <<chan, downloadVars, canceled, ended, log>>

Take(s) ==
  /\ chan[s] # <<>>
  /\ chan' = [chan EXCEPT ![s] = Tail(@)]
  /\ UNCHANGED <<subscribers, shut, downloadVars, canceled, ended, log>>

notify(e) ==
  /\ chan' = [s \in Sub |-> IF s \in subscribers /\ Len(chan[s]) < Buffer
                            THEN Append(chan[s], e) ELSE chan[s]]
  /\ log' = Append(log, e)
  /\ UNCHANGED <<subscribers, shut>>

----------------------------------------------------------------------------
\* The engine

\* Slip: the run is launched before the start is notified.
ScheduleLaunches ==
  /\ state = "waiting" /\ ~running /\ ~canceled /\ ~starting /\ started < MaxStarts
  /\ state' = "active" /\ started' = started + 1
  /\ starting' = TRUE /\ running' = TRUE
  /\ UNCHANGED <<due, calls, interrupted, subVars, canceled, ended, log>>

\* schedule, up to its unlock
Schedule ==
  /\ state = "waiting" /\ ~running /\ ~canceled /\ ~starting /\ started < MaxStarts
  /\ state' = "active" /\ started' = started + 1
  /\ starting' = TRUE
  /\ UNCHANGED <<running, due, calls, interrupted, subVars, canceled, ended, log>>

\* The run has announced that its torrent is complete.
BtAnnounced == \E i \in DOMAIN log : log[i] = Event("btComplete")

\* the rest of schedule
Launch ==
  /\ starting
  /\ starting' = FALSE /\ running' = TRUE
  /\ notify(Event("start"))
  /\ UNCHANGED <<state, started, due, calls, interrupted, canceled, ended>>

\* runTorrentDownload announces the end of a torrent, then returns nil.
BtDownloadComplete ==
  /\ running /\ ~BtAnnounced
  /\ notify(Event("btComplete"))
  /\ UNCHANGED <<downloadVars, canceled, ended>>

\* Slip: the result of a run that has been paused or removed is notified too.
FinishAlways ==
  /\ running
  /\ running' = FALSE
  /\ \E result \in {"complete", "error"} : state' = result /\ Due(0, result)
  /\ UNCHANGED <<started, starting, calls, interrupted, subVars, canceled, ended, log>>

\* finishDownload, up to its unlock: no error, any error while the engine closes,
\* context.Canceled, and the others
FinishDownload ==
  /\ running
  /\ running' = FALSE
  /\ IF state = "active"
     THEN \/ state' = "complete" /\ Due(0, "complete")
          \/ ~BtAnnounced /\ canceled /\ state' = "waiting" /\ UNCHANGED due
          \/ ~BtAnnounced /\ ~canceled /\ state' = "paused" /\ UNCHANGED due
          \/ ~BtAnnounced /\ ~canceled /\ state' = "error" /\ Due(0, "error")
     ELSE UNCHANGED <<state, due>>
  /\ UNCHANGED <<started, starting, calls, interrupted, subVars, canceled, ended, log>>

Request ==
  /\ calls < MaxCalls /\ calls' = calls + 1
  /\ interrupted' = IF state = "active" THEN interrupted \cup {started} ELSE interrupted

\* pause and remove, up to their unlock
PauseDownload ==
  /\ Request /\ state \in {"waiting", "active", "paused"}
  /\ state' = "paused" /\ Due(calls + 1, "pause")
  /\ UNCHANGED <<started, starting, running, subVars, canceled, ended, log>>

Remove ==
  /\ Request /\ state \in {"waiting", "active", "paused"}
  /\ state' = "removed" /\ Due(calls + 1, "stop")
  /\ UNCHANGED <<started, starting, running, subVars, canceled, ended, log>>

\* Unpause, and ChangeURI or ChangeOption of an active download
Requeue ==
  /\ Request /\ state \in {"active", "paused"}
  /\ state' = "waiting"
  /\ UNCHANGED <<started, starting, running, due, subVars, canceled, ended, log>>

\* the rest of finishDownload, pause and remove
Notify(d) ==
  /\ d \in due
  /\ due' = due \ {d}
  /\ notify(d.event)
  /\ UNCHANGED <<state, started, starting, running, calls, interrupted, canceled, ended>>

Cancel ==
  /\ ~canceled
  /\ canceled' = TRUE
  /\ UNCHANGED <<downloadVars, subVars, ended, log>>

\* The runs are gone with their notifications, and the scheduler with its own:
\* closeSubscribers.  A caller of pause or remove may still be about to notify.
CloseSubscribers ==
  /\ canceled /\ ~ended /\ ~running /\ ~starting
  /\ \A d \in due : d.event.what \notin {"complete", "error"}
  /\ ended' = TRUE
  /\ subscribers' = {}
  /\ shut' = [s \in Sub |-> shut[s] \/ s \in subscribers]
  /\ UNCHANGED <<chan, downloadVars, canceled, log>>

NotifyInit ==
  /\ state = "waiting" /\ started = 0 /\ starting = FALSE /\ running = FALSE /\ due = {} /\ calls = 0
  /\ interrupted = {}
  /\ canceled = FALSE /\ ended = FALSE
  /\ subscribers = {} /\ chan = [s \in Sub |-> <<>>] /\ shut = [s \in Sub |-> FALSE]
  /\ log = <<>>

EngineStep == Schedule \/ Launch \/ FinishDownload \/ (\E d \in due : Notify(d)) \/ CloseSubscribers

NotifyNext ==
  \/ \E s \in Sub : Subscribe(s) \/ Unsubscribe(s) \/ Take(s)
  \/ EngineStep \/ BtDownloadComplete \/ PauseDownload \/ Remove \/ Requeue \/ Cancel

\* Runs end once they are canceled, and unlocked code goes on to its notification.
NotifySpec == NotifyInit /\ [][NotifyNext]_notifyVars /\ WF_notifyVars(EngineStep)

----------------------------------------------------------------------------

NotifyTypeOK ==
  /\ state \in {"waiting", "active", "paused", "removed", "complete", "error"}
  /\ started \in 0..MaxStarts /\ calls \in 0..MaxCalls
  /\ {starting, running, canceled, ended} \subseteq BOOLEAN
  /\ interrupted \subseteq 1..started
  /\ subscribers \subseteq Sub /\ shut \in [Sub -> BOOLEAN]
  /\ \A s \in Sub : Len(chan[s]) <= Buffer

\* notify never sends on a closed channel, which would panic: whoever closes a
\* channel, the subscriber or Close, takes it out of the subscribers first.  And
\* after Close nobody is subscribed, however Subscribe and Close interleave, so
\* every reader's loop over its channel ends ("Subscribe returned an open channel
\* after Engine.Close" is a test's failure).
NeverSendsOnClosed ==
  /\ \A s \in subscribers : ~shut[s]
  /\ ended => subscribers = {}

\* The result of a run follows its start and comes once, although other
\* goroutines send each of them; and it is sent only if nobody paused, removed
\* or requeued the download before the run ended.
ResultFollowsStart ==
  \A i \in DOMAIN log : log[i].what \in {"complete", "error"} =>
    /\ \E j \in 1..(i - 1) : log[j] = [log[i] EXCEPT !.what = "start"]
    /\ \A j \in 1..(i - 1) : log[j].run = log[i].run => log[j].what \notin {"complete", "error"}
    /\ log[i].run \notin interrupted

\* The terminal statuses; the terminal notifications that have been sent, and
\* those that a goroutine is about to send.
Terminal == {"complete", "error", "removed"}
Endings  == {"complete", "error", "stop"}
Sent     == {i \in DOMAIN log : log[i].what \in Endings}
Coming   == {d \in due : d.event.what \in Endings}

\* A terminal download has one terminal notification, sent or about to be: it
\* is never announced as both finished and stopped.
OneEnding ==
  IF state \in Terminal
  THEN \/ Sent = {} /\ \E d \in due : Coming = {d}
       \/ Coming = {} /\ \E i \in DOMAIN log : Sent = {i}
  ELSE Sent = {} /\ Coming = {}

=============================================================================
