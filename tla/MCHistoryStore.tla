---------------------------- MODULE MCHistoryStore ----------------------------
(***************************************************************************)
(* Instances of HistoryStore: two tasks, batches that share an external id *)
(* and mix rows with and without one, and a file of another store whose    *)
(* rows carry a batch identity that callers use here too.                  *)
(***************************************************************************)
EXTENDS HistoryStore, TLC

CONSTANTS t1, t2, k1, k2, e1, a, b, s1, s2

Said(ext, text) == [ext |-> ext, text |-> text, tools |-> "none"]

Called(ext, text) == [Said(ext, text) EXCEPT !.tools = "call"]

(* Two batches of different sessions that overlap in the external id e1;   *)
(* the second names it twice, and says the same only the first time.  And  *)
(* the first again with another tool call, which hashes alike.             *)
OverlappingRequests ==
    { [key |-> k1, session |-> s1, msgs |-> <<Said(e1, a), Said(NoExt, b)>>],
      [key |-> k2, session |-> s2, msgs |-> <<Said(e1, a), Said(NoExt, a), Said(e1, b)>>],
      [key |-> k1, session |-> s1, msgs |-> <<Called(e1, a), Said(NoExt, b)>>] }

(* The tasks are interchangeable. *)
TaskSymmetry == Permutations(Tasks)

(* A file of two rows; the first has the identity <<k1, 2>>. *)
OtherStoreFile ==
    { { [seq |-> 1, ext |-> NoExt, key |-> k1, pos |-> 2,
         text |-> b, tools |-> "none", session |-> s2],
        [seq |-> 2, ext |-> e1, key |-> NoKey, pos |-> 0,
         text |-> a, tools |-> "none", session |-> s2] } }
=============================================================================
