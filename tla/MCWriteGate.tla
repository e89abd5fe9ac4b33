----------------------------- MODULE MCWriteGate -----------------------------
(***************************************************************************)
(* Instances of WriteGate: two writers and two clears.                     *)
(***************************************************************************)
EXTENDS WriteGate

CONSTANTS w1, w2, c1, c2
=============================================================================
