-------------------------- MODULE DownloadLifecycle --------------------------
(***************************************************************************)
(* What the engine promises a client about one download, whatever the      *)
(* queue, the scheduler and the run goroutines do meanwhile.  phase is     *)
(* what tellStatus reports for a gid; busy holds the gids for which some   *)
(* goroutine may still be transferring data.                               *)
(***************************************************************************)
CONSTANT Gid

VARIABLES phase, busy

lvars == <<phase, busy>>

Final == {"complete", "error", "removed"}
Phase == {"absent", "waiting", "active", "paused"} \cup Final

Init ==
  /\ phase \in [Gid -> {"absent", "waiting", "paused"}]
  /\ busy = {}

Become(g, p) == phase' = [phase EXCEPT ![g] = p]

\* A gid can be used again although the last transfer under it lingers.
Add(g) ==
  /\ phase[g] = "absent"
  /\ \E p \in {"waiting", "paused"} : Become(g, p)
  /\ UNCHANGED busy

\* The next transfer starts when the last one is over.
Start(g) ==
  /\ phase[g] = "waiting" /\ g \notin busy
  /\ Become(g, "active")
  /\ busy' = busy \cup {g}

\* Pause, resume, restart or remove: the transfer ends some time later.
Request(g) ==
  /\ phase[g] \in {"waiting", "active", "paused"}
  /\ \E p \in {"waiting", "paused", "removed"} : Become(g, p)
  /\ UNCHANGED busy

\* The end of a transfer decides the phase only if no request did before.
End(g) ==
  /\ g \in busy
  /\ busy' = busy \ {g}
  /\ IF phase[g] = "active"
     THEN \E p \in {"complete", "error", "waiting"} : Become(g, p)
     ELSE UNCHANGED phase

\* Results are forgotten, never downloads that could still go on.
Forget ==
  /\ \E S \in SUBSET {g \in Gid : phase[g] \in Final} :
       phase' = [g \in Gid |-> IF g \in S THEN "absent" ELSE phase[g]]
  /\ UNCHANGED busy

Next ==
  \/ \E g \in Gid : Add(g) \/ Start(g) \/ Request(g) \/ End(g)
  \/ Forget

Spec == Init /\ [][Next]_lvars
=============================================================================
