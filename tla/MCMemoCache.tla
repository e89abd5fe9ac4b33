----------------------------- MODULE MCMemoCache -----------------------------
(***************************************************************************)
(* Two calls and one clear around both cache layers.                       *)
(***************************************************************************)
EXTENDS MemoCache, TLC

CONSTANTS o1, o2, r1, r2

(* The calls are interchangeable. *)
CallSymmetry == Permutations(Ops)
=============================================================================
