--------------------------- MODULE MCContextReaders ---------------------------
(***************************************************************************)
(* Instances of ContextReaders: one or two writers and one reader.         *)
(***************************************************************************)
EXTENDS ContextReaders

CONSTANTS t1, t2, r1, k1, k2, a, b

Batch(key, text) ==
    [key |-> key, session |-> "s", msgs |-> <<[ext |-> NoExt, text |-> text, tools |-> "none"]>>]

OneBatch == { Batch(k1, a) }

(* The second batch makes the history and its tree outgrow a snapshot. *)
TwoBatches == { Batch(k1, a), Batch(k2, b) }

NoFiles == {}

(* A file of another store, with low sequence numbers. *)
OtherStoreFile ==
    { { [seq |-> 1, ext |-> NoExt, key |-> k2, pos |-> 1, text |-> b, tools |-> "none",
         session |-> "s"] } }
=============================================================================
