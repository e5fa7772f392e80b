------------------------------ MODULE RpcServer ------------------------------
(***************************************************************************)
(* How the JSON-RPC server stops (jsonrpc/server.go, RequestShutdown in    *)
(* engine.go, runDaemon in cmd/goaria/main.go): the shutdown requests, the *)
(* HTTP server, and the WebSocket connections, which the HTTP server does  *)
(* not know of and which the Server counts, tracks and closes itself.      *)
(*                                                                         *)
(* Either ListenAndServe runs the HTTP server, or the handlers are mounted *)
(* on a server of somebody else's and Close ends their connections.        *)
(* WebSocket messages come from clients at any time; what a call does to   *)
(* the engine is in EngineScheduler.  Plain HTTP requests touch none of    *)
(* this and only delay Shutdown, which takes any time up to its deadline.  *)
(* net/http and the WebSocket library are external: Shutdown refuses new   *)
(* requests, and closing a connection fails its next read and write.       *)
(***************************************************************************)
EXTENDS Integers, Sequences, FiniteSets

CONSTANTS
  Conn,            \* goroutines of handleWebSocket
  Forcer, Stopper, \* callers of RequestShutdown(true) and (false)
  Limit            \* maxWebSocketConnections

Caller == Forcer \cup Stopper

ASSUME CallerAssumption == Forcer \cap Stopper = {} /\ Limit \in Nat

VARIABLES
  shutdownReq, \* the channel of one request: is it forced
  caller,      \* what a caller of RequestShutdown is doing
  serve,       \* what ListenAndServe is doing
  forced,      \* it has received a request to force
  listening,   \* the HTTP server accepts requests
  late,        \* shutdownCtx, or the context given to Close, is over
  mounted,     \* the handlers are mounted on a server of somebody else's
  bounded,     \* that context has a deadline; shutdownCtx has
  wsClosing, wsActive, \* as in Server; wsWG counts what wsActive counts
  tracked,     \* wsConns
  toMark,      \* states that initiateWebSocketClose has still to mark
  toShut,      \* marked idle connections that it has still to close
  ws,          \* what a handleWebSocket is doing
  open,        \* the connection is open
  gone,        \* the client has gone away
  handling, closing, \* as in webSocketState
  subscribed   \* the connection's notifications

requestVars == <<shutdownReq, caller>>
serverVars  == <<serve, forced, listening, late, mounted, bounded>>
countVars   == <<wsClosing, wsActive, tracked, toMark, toShut>>
connVars    == <<ws, open, gone, handling, closing, subscribed>>
rpcVars == <<requestVars, serverVars, countVars, connVars>>

----------------------------------------------------------------------------
\* RequestShutdown: the channel holds one request.  Only ListenAndServe receives
\* from it, until the HTTP server has stopped: requests that come when nobody
\* will receive are left out.

Received == ~mounted /\ serve \in {"serving", "shutdown"}

SetCaller(r, l) == caller' = [caller EXCEPT ![r] = l]

AskStop(r) ==
  /\ r \in Stopper /\ caller[r] = "idle" /\ Received
  /\ shutdownReq' = IF shutdownReq = <<>> THEN <<FALSE>> ELSE shutdownReq
  /\ SetCaller(r, "returned")
  /\ UNCHANGED <<serverVars, countVars, connVars>>

\* A forced request tries to send, then takes out what is there, then tries
\* again; the channel is free in between.
AskForce(r) ==
  /\ r \in Forcer /\ caller[r] = "idle" /\ Received
  /\ IF shutdownReq = <<>>
     THEN shutdownReq' = <<TRUE>> /\ SetCaller(r, "returned")
     ELSE SetCaller(r, "full") /\ UNCHANGED shutdownReq
  /\ UNCHANGED <<serverVars, countVars, connVars>>

TakeOut(r) ==
  /\ caller[r] = "full"
  /\ shutdownReq' = <<>>
  /\ SetCaller(r, "again")
  /\ UNCHANGED <<serverVars, countVars, connVars>>

\* Slip: the request is not sent again.
ForceOnce(r) ==
  /\ caller[r] = "again"
  /\ SetCaller(r, "returned")
  /\ UNCHANGED <<shutdownReq, serverVars, countVars, connVars>>

ForceAgain(r) ==
  /\ caller[r] = "again"
  /\ shutdownReq' = IF shutdownReq = <<>> THEN <<TRUE>> ELSE shutdownReq
  /\ SetCaller(r, "returned")
  /\ UNCHANGED <<serverVars, countVars, connVars>>

----------------------------------------------------------------------------
\* ListenAndServe

\* SIGINT or SIGTERM, or a request, or the listener fails; or Close is called.
StopServing ==
  /\ serve = "serving"
  /\ \/ /\ ~mounted
        /\ serve' = "shutdown"
        /\ UNCHANGED <<forced, shutdownReq>>
     \/ /\ ~mounted /\ shutdownReq # <<>>
        /\ shutdownReq' = <<>>
        /\ forced' = Head(shutdownReq)
        /\ serve' = IF forced' THEN "grace" ELSE "shutdown"
     \/ /\ ~mounted
        /\ serve' = "failed"
        /\ UNCHANGED <<forced, shutdownReq>>
     \/ /\ mounted
        /\ serve' = "initiate"
        /\ UNCHANGED <<forced, shutdownReq>>
  /\ listening' = mounted
  /\ UNCHANGED <<caller, late, mounted, bounded, countVars, connVars>>

\* A forced request while the HTTP server drains.
Escalate ==
  /\ serve = "shutdown" /\ shutdownReq # <<>>
  /\ shutdownReq' = <<>>
  /\ forced' = Head(shutdownReq)
  /\ serve' = IF forced' THEN "grace" ELSE serve
  /\ UNCHANGED <<caller, listening, late, mounted, bounded, countVars, connVars>>

\* Shutdown returns: every request has been answered, or its deadline is over.
\* A connection is the handler's own once upgraded.
ShutdownReturns ==
  /\ serve = "shutdown"
  /\ late \/ \A c \in Conn : ws[c] \notin {"accepted", "upgrade"}
  /\ serve' = "initiate"
  /\ UNCHANGED <<forced, listening, late, mounted, bounded, requestVars, countVars, connVars>>

\* A forced shutdown: the grace period ends with Close.
GraceEnds ==
  /\ serve = "grace"
  /\ serve' = "initiate"
  /\ UNCHANGED <<forced, listening, late, mounted, bounded, requestVars, countVars, connVars>>

Deadline ==
  /\ bounded /\ ~late /\ serve \in {"shutdown", "grace", "initiate", "mark", "wait"}
  /\ late' = TRUE
  /\ UNCHANGED <<serve, forced, listening, mounted, bounded, requestVars, countVars, connVars>>

\* initiateWebSocketClose under wsMu: the connections tracked by now are to be
\* marked, later ones will not get in.
InitiateClose ==
  /\ serve \in {"initiate", "failed"}
  /\ wsClosing' = TRUE
  /\ toMark' = tracked
  /\ serve' = IF serve = "failed" THEN "markFailed" ELSE "mark"
  /\ UNCHANGED <<forced, listening, late, mounted, bounded, wsActive, tracked, toShut, requestVars, connVars>>

\* Slip: the connection is closed whatever it is doing.
MarkAndClose(c) ==
  /\ c \in toMark
  /\ toMark' = toMark \ {c}
  /\ closing' = [closing EXCEPT ![c] = TRUE]
  /\ toShut' = toShut \cup {c}
  /\ UNCHANGED <<requestVars, serverVars, wsClosing, wsActive, tracked, ws, open, gone, handling, subscribed>>

\* A connection is marked under its lock, and closed after it unless it was
\* handling a call: the end of the call closes it then.
Mark(c) ==
  /\ c \in toMark
  /\ toMark' = toMark \ {c}
  /\ closing' = [closing EXCEPT ![c] = TRUE]
  /\ toShut' = IF handling[c] THEN toShut ELSE toShut \cup {c}
  /\ UNCHANGED <<requestVars, serverVars, wsClosing, wsActive, tracked, ws, open, gone, handling, subscribed>>

Shut(c) ==
  /\ c \in toShut
  /\ toShut' = toShut \ {c}
  /\ open' = [open EXCEPT ![c] = FALSE]
  /\ UNCHANGED <<requestVars, serverVars, wsClosing, wsActive, tracked, toMark, ws, gone, handling, closing, subscribed>>

Marked ==
  /\ serve \in {"mark", "markFailed"} /\ toMark = {} /\ toShut = {}
  /\ serve' = IF serve = "mark" THEN "wait" ELSE "aborted"
  /\ UNCHANGED <<forced, listening, late, mounted, bounded, requestVars, countVars, connVars>>

\* Slip: the wait has no deadline.
WaitedForAll ==
  /\ serve = "wait" /\ wsActive = 0
  /\ serve' = "returned"
  /\ UNCHANGED <<forced, listening, late, mounted, bounded, requestVars, countVars, connVars>>

\* waitWebSockets, and forceCloseWebSockets if it fails.
Waited ==
  /\ serve = "wait"
  /\ \/ /\ wsActive = 0
        /\ UNCHANGED open
     \/ /\ late
        /\ open' = [c \in Conn |-> open[c] /\ c \notin tracked]
  /\ serve' = "returned"
  /\ UNCHANGED <<forced, listening, late, mounted, bounded, requestVars, countVars, ws, handling, closing, subscribed, gone>>

----------------------------------------------------------------------------
\* handleWebSocket

Goto(c, l) == ws' = [ws EXCEPT ![c] = l]

\* The HTTP server has a request for its handler.
Accept(c) ==
  /\ ws[c] = "none" /\ listening
  /\ Goto(c, "accepted")
  /\ UNCHANGED <<requestVars, serverVars, countVars, open, handling, closing, subscribed, gone>>

\* beginWebSocket
Begin(c) ==
  /\ ws[c] = "accepted"
  /\ IF wsClosing \/ wsActive >= Limit
     THEN Goto(c, "ended") /\ UNCHANGED countVars
     ELSE /\ wsActive' = wsActive + 1
          /\ Goto(c, "upgrade")
          /\ UNCHANGED <<wsClosing, tracked, toMark, toShut>>
  /\ UNCHANGED <<requestVars, serverVars, open, handling, closing, subscribed, gone>>

Upgrade(c) ==
  /\ ws[c] = "upgrade"
  /\ \/ Goto(c, "track") /\ open' = [open EXCEPT ![c] = TRUE]
     \/ Goto(c, "end") /\ UNCHANGED open
  /\ UNCHANGED <<requestVars, serverVars, countVars, handling, closing, subscribed, gone>>

\* trackWebSocket
Track(c) ==
  /\ ws[c] = "track"
  /\ IF wsClosing
     THEN /\ open' = [open EXCEPT ![c] = FALSE]
          /\ Goto(c, "end")
          /\ UNCHANGED tracked
     ELSE /\ tracked' = tracked \cup {c}
          /\ Goto(c, "start")
          /\ UNCHANGED open
  /\ UNCHANGED <<requestVars, serverVars, wsClosing, wsActive, toMark, toShut, handling, closing, subscribed, gone>>

\* Notifications start at once, or with the first call that proves the secret.
\* A read deadline that cannot be set ends the handler before its cleanup is
\* deferred: the connection, which is closed by then, stays tracked.
StartReading(c) ==
  /\ ws[c] = "start"
  /\ \/ Goto(c, "read") /\ subscribed' \in {[subscribed EXCEPT ![c] = s] : s \in BOOLEAN}
     \/ ~open[c] /\ Goto(c, "end") /\ UNCHANGED subscribed
  /\ UNCHANGED <<requestVars, serverVars, countVars, open, handling, closing, gone>>

\* A message, which may prove the secret; one that was read ahead is there after
\* the connection has been closed.
Read(c) ==
  /\ ws[c] = "read"
  /\ Goto(c, "call")
  /\ subscribed' \in {subscribed, [subscribed EXCEPT ![c] = TRUE]}
  /\ UNCHANGED <<requestVars, serverVars, countVars, open, gone, handling, closing>>

\* The connection has ended, the message is too long or the secret too late.
ReadFails(c) ==
  /\ ws[c] = "read"
  /\ Goto(c, "cleanup")
  /\ UNCHANGED <<requestVars, serverVars, countVars, open, gone, handling, closing, subscribed>>

\* beginRPC
BeginRPC(c) ==
  /\ ws[c] = "call"
  /\ IF closing[c]
     THEN Goto(c, "cleanup") /\ UNCHANGED handling
     ELSE Goto(c, "handle") /\ handling' = [handling EXCEPT ![c] = TRUE]
  /\ UNCHANGED <<requestVars, serverVars, countVars, open, closing, subscribed, gone>>

\* The call is made and its answer, if it has one, is written.
Handle(c) ==
  /\ ws[c] = "handle"
  /\ \/ Goto(c, IF open[c] THEN "answered" ELSE "unanswered")
     \/ Goto(c, "answered")
  /\ UNCHANGED <<requestVars, serverVars, countVars, open, gone, handling, closing, subscribed>>

\* Slip: the end of a call does not look whether the server is closing.
EndRPCOnly(c) ==
  /\ ws[c] \in {"answered", "unanswered"}
  /\ handling' = [handling EXCEPT ![c] = FALSE]
  /\ Goto(c, IF ws[c] = "unanswered" THEN "cleanup" ELSE "read")
  /\ UNCHANGED <<requestVars, serverVars, countVars, open, closing, subscribed, gone>>

\* endRPC
EndRPC(c) ==
  /\ ws[c] \in {"answered", "unanswered"}
  /\ handling' = [handling EXCEPT ![c] = FALSE]
  /\ open' = [open EXCEPT ![c] = @ /\ ~closing[c]]
  /\ Goto(c, IF closing[c] \/ ws[c] = "unanswered" THEN "cleanup" ELSE "read")
  /\ UNCHANGED <<requestVars, serverVars, countVars, closing, subscribed, gone>>

\* Slip: the subscription is left to the end of the notifications.
CleanupConnection(c) ==
  /\ ws[c] = "cleanup"
  /\ open' = [open EXCEPT ![c] = FALSE]
  /\ tracked' = tracked \ {c}
  /\ Goto(c, "end")
  /\ UNCHANGED <<requestVars, serverVars, wsClosing, wsActive, toMark, toShut, handling, closing, subscribed, gone>>

\* The deferred cleanup: close, unsubscribe, wait for the writer, untrack.
Cleanup(c) ==
  /\ ws[c] = "cleanup"
  /\ open' = [open EXCEPT ![c] = FALSE]
  /\ subscribed' = [subscribed EXCEPT ![c] = FALSE]
  /\ tracked' = tracked \ {c}
  /\ Goto(c, "end")
  /\ UNCHANGED <<requestVars, serverVars, wsClosing, wsActive, toMark, toShut, handling, closing, gone>>

\* endWebSocket; the webSocketState goes with its handler.
End(c) ==
  /\ ws[c] = "end"
  /\ wsActive' = wsActive - 1
  /\ Goto(c, "ended")
  /\ closing' = [closing EXCEPT ![c] = FALSE] /\ gone' = [gone EXCEPT ![c] = FALSE]
  /\ UNCHANGED <<requestVars, serverVars, wsClosing, tracked, toMark, toShut, open, handling, subscribed>>

\* The client goes away, or a notification cannot be written and the writer
\* closes the connection.
Disconnect(c) ==
  /\ open[c]
  /\ open' = [open EXCEPT ![c] = FALSE]
  /\ gone' = [gone EXCEPT ![c] = TRUE]
  /\ UNCHANGED <<requestVars, serverVars, countVars, ws, handling, closing, subscribed>>

----------------------------------------------------------------------------

RpcInit ==
  /\ shutdownReq = <<>> /\ caller = [r \in Caller |-> "idle"]
  /\ serve = "serving" /\ forced = FALSE /\ listening = TRUE /\ late = FALSE
  /\ mounted \in BOOLEAN /\ bounded \in {TRUE, ~mounted}
  /\ wsClosing = FALSE /\ wsActive = 0 /\ tracked = {} /\ toMark = {} /\ toShut = {}
  /\ ws = [c \in Conn |-> "none"]
  /\ open = [c \in Conn |-> FALSE] /\ gone = open /\ handling = open /\ closing = open /\ subscribed = open

ServeStep == StopServing \/ Escalate \/ ShutdownReturns \/ GraceEnds \/ InitiateClose
             \/ (\E c \in Conn : Mark(c) \/ Shut(c)) \/ Marked \/ Waited

ConnStep(c) == Begin(c) \/ Upgrade(c) \/ Track(c) \/ StartReading(c) \/ BeginRPC(c) \/ EndRPC(c)
               \/ Cleanup(c) \/ End(c)

RpcNext ==
  \/ \E r \in Caller : AskStop(r) \/ AskForce(r) \/ TakeOut(r) \/ ForceAgain(r)
  \/ ServeStep \/ Deadline
  \/ \E c \in Conn : Accept(c) \/ ConnStep(c) \/ Handle(c) \/ Read(c) \/ ReadFails(c) \/ Disconnect(c)

\* The server's goroutine goes on and receives what is in the channel, a caller
\* that has entered RequestShutdown goes on, and a deadline passes; the handlers
\* go on too, and reading a closed connection comes to an end, as little was read
\* ahead.  Clients owe nothing, and a call may take as long as it likes.
RpcSpec ==
  /\ RpcInit /\ [][RpcNext]_rpcVars
  /\ WF_rpcVars(ServeStep /\ (serve # "serving" \/ shutdownReq # <<>>)) /\ WF_rpcVars(Deadline)
  /\ \A r \in Forcer : WF_rpcVars(TakeOut(r) \/ ForceAgain(r))
  /\ \A c \in Conn : WF_rpcVars(ConnStep(c)) /\ SF_rpcVars(ReadFails(c) /\ ~open[c])

----------------------------------------------------------------------------

RpcTypeOK ==
  /\ shutdownReq \in {<<>>, <<FALSE>>, <<TRUE>>}
  /\ caller \in [Caller -> {"idle", "full", "again", "returned"}]
  /\ serve \in {"serving", "shutdown", "grace", "failed", "initiate", "mark", "markFailed",
                "wait", "returned", "aborted"}
  /\ {forced, listening, late, mounted, bounded, wsClosing} \subseteq BOOLEAN
  /\ wsActive \in 0..Limit
  /\ {tracked, toMark, toShut} \subseteq SUBSET Conn
  /\ ws \in [Conn -> {"none", "accepted", "upgrade", "track", "start", "read", "call", "handle",
                     "answered", "unanswered", "cleanup", "end", "ended"}]
  /\ {open, gone, handling, closing, subscribed} \subseteq [Conn -> BOOLEAN]

\* A call that a WebSocket client has made is answered, whenever the shutdown
\* comes ("Mark active RPCs for close after their response is written"): its
\* connection is closed under it only by the client or past the deadline.
CallsAnswered ==
  \A c \in Conn : ws[c] = "unanswered" => gone[c] \/ (late /\ serve = "returned")

\* Close and ListenAndServe return without an error only when every handler is
\* gone and "their subscriptions [are] released"; one that comes after is refused.
ClosedIsReleased ==
  serve = "returned" /\ ~late
    => \A c \in Conn : ws[c] \in {"none", "accepted", "ended"} /\ ~open[c] /\ ~subscribed[c]

\* The force of a request is not lost either: when RequestShutdown(true) has
\* returned, the server has received a forced request, or one waits in the
\* channel.  It does not hold if two graceful requests come, one before and one
\* after the channel is freed.
ForceNotLost ==
  (\E r \in Forcer : caller[r] = "returned")
    => forced \/ shutdownReq = <<TRUE>> \/ \E r \in Forcer : caller[r] # "returned"

\* Once it has begun to stop, or RequestShutdown has returned to anybody, the
\* server returns, whatever clients and calls do; only a Close whose context has
\* no deadline waits for a call.  No request to stop is lost, however many of them
\* meet in the channel of one ("Replace a queued graceful request so forceShutdown
\* can escalate it").
ServerReturns ==
  (serve # "serving" \/ \E r \in Caller : caller[r] = "returned")
    ~> \/ serve \in {"returned", "aborted"}
       \/ ~bounded /\ \E c \in Conn : ws[c] = "handle"

\* Every handler ends after the shutdown, unless its call never returns: no
\* connection is kept by an idle client, and no handler waits for its own end.
HandlersEnd == wsClosing ~> \A c \in Conn : ws[c] \in {"none", "handle", "ended"}
=============================================================================
