------------------------- MODULE MCEngineScheduler -------------------------
(***************************************************************************)
(* Instances of EngineScheduler for TLC.  Every gid can be allocated by    *)
(* Incarnations different Download objects, so that a removed download     *)
(* that still has a run and its successor under the same gid coexist.      *)
(***************************************************************************)
EXTENDS EngineRefinement, TLC

CONSTANTS Incarnations

MCDownload == Gid \X Incarnations
MCGidOf == [d \in MCDownload |-> d[1]]
MCPositions == {-1, 0, 1, 9}

MCSymmetry == Permutations(Gid) \cup Permutations(Run) \cup Permutations(Incarnations)
=============================================================================
