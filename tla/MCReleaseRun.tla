----------------------------- MODULE MCReleaseRun -----------------------------
(***************************************************************************)
(* Two processes on two allocations or on the same.                        *)
(***************************************************************************)
EXTENDS ReleaseRun, TLC

CONSTANTS l1, l2, a1, a2, p1, p2

(* Allocations, paths and processes are interchangeable. *)
Symmetry == Permutations(Launches) \cup Permutations(Allocations) \cup Permutations(Outputs)
=============================================================================
