-------------------------- MODULE EngineRefinement --------------------------
(***************************************************************************)
(* The scheduler implements the life cycle clients rely on.                *)
(***************************************************************************)
EXTENDS EngineScheduler

Phase == [g \in Gid |-> IF Known(g) THEN status[downloads[g]] ELSE "absent"]

Lifecycle == INSTANCE DownloadLifecycle WITH phase <- Phase, busy <- active

\* EngineScheduler implements DownloadLifecycle: a final status is final until
\* its result is forgotten, a download starts only when no goroutine works for
\* its gid, the end of a run never overrides a pause, a removal or a restart,
\* and never pauses a download by itself.
LifecycleSpec == Lifecycle!Spec
=============================================================================
