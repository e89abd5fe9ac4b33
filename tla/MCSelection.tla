----------------------------- MODULE MCSelection -----------------------------
(***************************************************************************)
(* Every history of four messages in three wordings, with two names.       *)
(***************************************************************************)
EXTENDS Selection, TLC

CONSTANTS t1, t2, t3, n1, n2

(* Wordings and names are interchangeable. *)
Interchangeable == Permutations(Texts) \cup Permutations(Names)
=============================================================================
