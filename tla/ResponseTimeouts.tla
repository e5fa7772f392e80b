-------------------------- MODULE ResponseTimeouts --------------------------
(***************************************************************************)
(* One HTTP request and its two timeouts (proxy.go): the one for the       *)
(* response's header, responseHeaderTimeoutRoundTripper, and the one for   *)
(* each read of its body, idleTimeoutBody.  Timers run in goroutines of    *)
(* their own: a timer that cannot be stopped any more waits for the lock   *)
(* with its decision, while the request goes on.                           *)
(*                                                                         *)
(* The transport is external: it answers or not, and gives up when the     *)
(* request's context is done or the body is closed.                        *)
(***************************************************************************)
EXTENDS Integers, FiniteSets

CONSTANT MaxReads  \* bound: reads of the body

ASSUME MaxReadsAssumption == MaxReads \in Nat

VARIABLES
  requestPc,  \* the request: "header", "stop", "decide", "idle", "blocked", "got", "over"
  answer,     \* what the transport returned: "none", "response", "error"
  cause,      \* why the context is done: "none", "timeout", "other"
  header,     \* the header's timer: "armed", "firing", "done", "stopped"
  generation, reading, closed, timedOut, timer, \* as in idleTimeoutBody, 0: nil
  readGen,    \* the generation of the read that is going on
  armed,      \* timers of reads that may fire
  firing,     \* timers that have fired and wait for the lock
  closers,    \* goroutines that have unlocked and are about to close the body
  bodyClosed, \* the transport's body is closed
  outcome     \* of the last read: "none", "data", "timeout", "closed"

headerVars == <<answer, cause, header>>
bodyVars   == <<generation, reading, closed, timedOut, timer, readGen, armed, firing, closers, bodyClosed, outcome>>
timeoutVars == <<requestPc, headerVars, bodyVars>>

----------------------------------------------------------------------------
\* responseHeaderTimeoutRoundTripper.RoundTrip

\* The transport returns, and has to once the context is done.
TransportReturns ==
  /\ requestPc = "header"
  /\ answer' \in {"response", "error"}
  /\ requestPc' = "stop"
  /\ UNCHANGED <<cause, header, bodyVars>>

HeaderTimerFires ==
  /\ header = "armed"
  /\ header' = "firing"
  /\ UNCHANGED <<requestPc, answer, cause, bodyVars>>

\* The timer's function cancels the context, then closes timerDone.
HeaderTimerCancels ==
  /\ header = "firing"
  /\ header' = "done"
  /\ cause' = IF cause = "none" THEN "timeout" ELSE cause
  /\ UNCHANGED <<requestPc, answer, bodyVars>>

\* timer.Stop, or <-timerDone.
StopHeaderTimer ==
  /\ requestPc = "stop" /\ header # "firing"
  /\ header' = IF header = "armed" THEN "stopped" ELSE header
  /\ requestPc' = "decide"
  /\ UNCHANGED <<answer, cause, bodyVars>>

\* A response that came too late is closed and not returned.
Decide ==
  /\ requestPc = "decide"
  /\ IF cause = "timeout"
     THEN /\ bodyClosed' = (answer = "response") /\ requestPc' = "over"
          /\ UNCHANGED cause
     ELSE IF answer = "error"
          THEN cause' = "other" /\ requestPc' = "over" /\ UNCHANGED bodyClosed
          ELSE requestPc' = "idle" /\ UNCHANGED <<cause, bodyClosed>>
  /\ UNCHANGED <<answer, header, generation, reading, closed, timedOut, timer, readGen, armed, firing,
                 closers, outcome>>

----------------------------------------------------------------------------
\* idleTimeoutBody.Read, up to its unlock

ReadBegins ==
  /\ requestPc = "idle" /\ generation < MaxReads
  /\ IF timedOut \/ closed
     THEN /\ outcome' = IF timedOut THEN "timeout" ELSE "closed"
          /\ requestPc' = "over"
          /\ UNCHANGED <<generation, readGen, reading, timer, armed>>
     ELSE /\ generation' = generation + 1 /\ readGen' = generation + 1
          /\ reading' = TRUE
          /\ timer' = generation + 1 /\ armed' = armed \cup {generation + 1}
          /\ outcome' = "none"
          /\ requestPc' = "blocked"
  /\ UNCHANGED <<headerVars, closed, timedOut, firing, closers, bodyClosed>>

\* The transport's Read comes back: with data, or with an error, which ends the
\* context (cancelContextBody.Read).
BodyReturns ==
  /\ requestPc = "blocked"
  /\ requestPc' = "got"
  /\ cause' \in {cause, IF cause = "none" THEN "other" ELSE cause}
  /\ UNCHANGED <<answer, header, bodyVars>>

\* Slip: the timer of a read that is over goes on.
ReadKeepsTimer ==
  /\ requestPc = "got"
  /\ reading' = IF readGen = generation THEN FALSE ELSE reading
  /\ outcome' = IF timedOut THEN "timeout" ELSE "data"
  /\ requestPc' = IF timedOut THEN "over" ELSE "idle"
  /\ UNCHANGED <<headerVars, generation, closed, timedOut, timer, readGen, armed, firing, closers, bodyClosed>>

\* the rest of Read
ReadEnds ==
  /\ requestPc = "got"
  /\ IF readGen = generation
     THEN reading' = FALSE /\ armed' = armed \ {timer} /\ timer' = 0
     ELSE UNCHANGED <<reading, armed, timer>>
  /\ outcome' = IF timedOut THEN "timeout" ELSE "data"
  /\ requestPc' = IF timedOut THEN "over" ELSE "idle"
  /\ UNCHANGED <<headerVars, generation, closed, timedOut, readGen, firing, closers, bodyClosed>>

\* Close, by the reader or by another goroutine, up to its unlock
CloseBegins ==
  /\ requestPc \in {"idle", "blocked", "got"} /\ "closer" \notin closers
  /\ IF closed
     THEN UNCHANGED <<closed, reading, generation, armed, timer>>
     ELSE /\ closed' = TRUE /\ reading' = FALSE /\ generation' = generation + 1
          /\ armed' = armed \ {timer} /\ timer' = 0
  /\ closers' = closers \cup {"closer"}
  /\ UNCHANGED <<requestPc, headerVars, timedOut, readGen, firing, bodyClosed, outcome>>

TimerFires(g) ==
  /\ g \in armed
  /\ armed' = armed \ {g} /\ firing' = firing \cup {g}
  /\ UNCHANGED <<requestPc, headerVars, generation, reading, closed, timedOut, timer, readGen,
                 closers, bodyClosed, outcome>>

\* Slip: the timer does not look whether its read is still going on.
ExpireAny(g) ==
  /\ g \in firing
  /\ firing' = firing \ {g}
  /\ IF closed \/ g # generation
     THEN UNCHANGED <<closed, reading, timedOut, timer, closers>>
     ELSE /\ closed' = TRUE /\ reading' = FALSE /\ timedOut' = TRUE /\ timer' = 0
          /\ closers' = closers \cup {"timer"}
  /\ UNCHANGED <<requestPc, headerVars, generation, readGen, armed, bodyClosed, outcome>>

\* expire, up to its unlock
Expire(g) ==
  /\ g \in firing
  /\ firing' = firing \ {g}
  /\ IF closed \/ ~reading \/ g # generation
     THEN UNCHANGED <<closed, reading, timedOut, timer, closers>>
     ELSE /\ closed' = TRUE /\ reading' = FALSE /\ timedOut' = TRUE /\ timer' = 0
          /\ closers' = closers \cup {"timer"}
  /\ UNCHANGED <<requestPc, headerVars, generation, readGen, armed, bodyClosed, outcome>>

\* Slip: only Close closes the transport's body.
CloseBodyOnce(c) ==
  /\ c \in closers
  /\ closers' = closers \ {c}
  /\ bodyClosed' = (bodyClosed \/ c = "closer")
  /\ UNCHANGED <<requestPc, headerVars, generation, reading, closed, timedOut, timer, readGen, armed,
                 firing, outcome>>

\* closeBody, and the context with it (cancelContextBody)
CloseBody(c) ==
  /\ c \in closers
  /\ closers' = closers \ {c}
  /\ bodyClosed' = TRUE
  /\ cause' = IF cause = "none" THEN "other" ELSE cause
  /\ UNCHANGED <<requestPc, answer, header, generation, reading, closed, timedOut, timer, readGen, armed,
                 firing, outcome>>

----------------------------------------------------------------------------

TimeoutInit ==
  /\ requestPc = "header" /\ answer = "none" /\ cause = "none" /\ header = "armed"
  /\ generation = 0 /\ reading = FALSE /\ closed = FALSE /\ timedOut = FALSE /\ timer = 0
  /\ readGen = 0 /\ armed = {} /\ firing = {} /\ closers = {} /\ bodyClosed = FALSE
  /\ outcome = "none"

TimeoutNext ==
  \/ TransportReturns \/ HeaderTimerFires \/ HeaderTimerCancels \/ StopHeaderTimer \/ Decide
  \/ ReadBegins \/ BodyReturns \/ ReadEnds
  \/ CloseBegins
  \/ \E g \in armed \cup firing : TimerFires(g) \/ Expire(g)
  \/ \E c \in closers : CloseBody(c)

\* Timers fire and their functions run, goroutines go on, and the transport comes
\* back when it is told to.  A server owes nothing.
TimeoutSpec ==
  /\ TimeoutInit /\ [][TimeoutNext]_timeoutVars
  /\ WF_timeoutVars(HeaderTimerFires) /\ WF_timeoutVars(HeaderTimerCancels)
  /\ WF_timeoutVars(TransportReturns /\ cause # "none")
  /\ WF_timeoutVars(StopHeaderTimer \/ Decide \/ ReadEnds)
  /\ WF_timeoutVars(\E g \in armed \cup firing : TimerFires(g) \/ Expire(g))
  /\ WF_timeoutVars(\E c \in closers : CloseBody(c))
  /\ WF_timeoutVars(BodyReturns /\ bodyClosed)

----------------------------------------------------------------------------

TimeoutTypeOK ==
  /\ requestPc \in {"header", "stop", "decide", "idle", "blocked", "got", "over"}
  /\ answer \in {"none", "response", "error"} /\ cause \in {"none", "timeout", "other"}
  /\ header \in {"armed", "firing", "done", "stopped"}
  /\ generation \in Nat /\ readGen \in Nat /\ timer \in Nat
  /\ reading \in BOOLEAN /\ closed \in BOOLEAN /\ timedOut \in BOOLEAN /\ bodyClosed \in BOOLEAN
  /\ armed \subseteq Nat /\ firing \subseteq Nat /\ closers \subseteq {"closer", "timer"}
  /\ outcome \in {"none", "data", "timeout", "closed"}

\* A response that has been returned is not taken back by the header's timer,
\* however late it fired: nothing but the end of the body ends its context.
HeaderDecided == requestPc \in {"idle", "blocked", "got"} => cause # "timeout"

\* A body is given up as idle only by the timer of the read that is going on: no
\* timer that an earlier read could not stop any more cuts off a later one.
OwnTimeout ==
  [][~timedOut /\ timedOut' =>
       requestPc \in {"blocked", "got"} /\ readGen \in firing /\ readGen \notin firing']_timeoutVars

\* Between reads, and once the body is closed, no timer is left that could fire.
NoTimerLeft == (requestPc \in {"idle", "over"} \/ closed) => armed = {}

\* The inductive invariant behind these: the header's timer is settled before
\* the response is returned, and a timer that is set or has fired belongs to a
\* read that is not after the current one.
TimeoutInv ==
  /\ TimeoutTypeOK
  /\ requestPc \in {"decide", "idle", "blocked", "got"} => header \in {"done", "stopped"}
  /\ HeaderDecided
  /\ requestPc \in {"header", "stop", "decide"} => ~reading /\ ~timedOut
  /\ reading => requestPc \in {"blocked", "got"} /\ readGen = generation /\ ~closed
  /\ timer # 0 => reading /\ timer = generation
  /\ armed \subseteq {timer} \ {0}
  /\ \A g \in firing : g <= generation /\ g \notin armed
  /\ timedOut => closed

\* A request is never stuck on a silent server: the header and every read end.
NeverStuck == []<>(requestPc \notin {"header", "stop", "decide", "blocked", "got"})
=============================================================================
