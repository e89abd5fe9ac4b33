----------------------------- MODULE MCComparison -----------------------------
(***************************************************************************)
(* One history asked in two strategies, reviewed two rows at a time, with  *)
(* a continuation.                                                         *)
(***************************************************************************)
EXTENDS ComparisonRun, TLC

CONSTANTS h1, h2

Both == <<"recent_lexical", "tree">>
AllTasks == Histories \cup (Histories \X {"recent_lexical", "tree"})
=============================================================================
