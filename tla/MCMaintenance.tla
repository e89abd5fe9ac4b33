---------------------------- MODULE MCMaintenance ----------------------------
(***************************************************************************)
(* Two processes, one of them perhaps with the older SDK, and two backup   *)
(* paths.                                                                  *)
(***************************************************************************)
EXTENDS Maintenance, TLC

CONSTANTS p1, p2, b1, b2

(* The processes are interchangeable, and so are the paths. *)
Interchangeable == Permutations(Processes) \cup Permutations(Paths)
=============================================================================
