----------------------------- MODULE MCTreePlan -----------------------------
(***************************************************************************)
(* Nine chunks under parents of two or three children, the fan-out and    *)
(* the limit of each call being its own: up to three levels above the      *)
(* leaves, and limits that pay for one call up to more than the tree asks. *)
(***************************************************************************)
EXTENDS TreePlan
=============================================================================
