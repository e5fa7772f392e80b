-------------------------- MODULE MCEngineProgress --------------------------
(***************************************************************************)
(* Progress of the scheduler: EngineScheduler with clients that make at    *)
(* most MaxCalls calls and then fall silent.  A client that never stops    *)
(* reordering, pausing or adding downloads can starve any of them, so      *)
(* progress is a claim about a queue that is left alone long enough.       *)
(***************************************************************************)
EXTENDS MCEngineScheduler

CONSTANT MaxCalls   \* bound: calls the clients make

VARIABLE calls      \* calls made so far

pvars == <<vars, calls>>

ProgressInit == Init /\ calls = 0

ProgressNext ==
  \/ API /\ calls < MaxCalls /\ calls' = calls + 1
  \/ Engine /\ UNCHANGED calls

\* A run has to return once its context is canceled; a transfer nobody
\* interrupts may go on for ever.
FinishCanceled(r) == (shutdown \/ r \in canceled) /\ Finish(r)

Quietly(A) == A /\ UNCHANGED calls

\* The goroutines of the engine are never descheduled for ever.
Fairness ==
  /\ WF_pvars(Quietly(PruneResult \/ UnlockAfterPrune))
  /\ WF_pvars(Quietly(Signal))
  /\ WF_pvars(Quietly(Schedule))
  /\ WF_pvars(Quietly(RunExit))
  /\ WF_pvars(Quietly(CloseDone))
  /\ \A r \in Run : WF_pvars(Quietly(FinishCanceled(r)))

ProgressSpec == ProgressInit /\ [][ProgressNext]_pvars /\ Fairness

Waiting(g) == Known(g) /\ status[downloads[g]] = "waiting"

\* Every slot is taken by a run that nobody asked to stop.
SlotsFull == Cardinality({r \in Run : Live(r) /\ r \notin canceled}) >= maxActive

\* No wake-up is lost: a waiting download is not left behind while a slot is
\* free, or is only held by runs that were canceled.  e.wake keeps one token,
\* tokens coalesce, and the token is taken before e.mu is: whatever is
\* unlocked after schedule() looked at the queue must cause another look.
WaitingStarts ==
  \A g \in Gid :
    (Waiting(g) /\ ~SlotsFull /\ ~shutdown) ~> (~Waiting(g) \/ SlotsFull \/ shutdown)

\* Close completes: the scheduler stops, every run that schedule() selected is
\* launched, canceled and collected, and e.wg.Wait() returns, wherever the
\* scheduler was when e.ctx was canceled.
CloseCompletes == shutdown ~> closed

=============================================================================
