--------------------------------- MODULE MCAsk ---------------------------------
(***************************************************************************)
(* Two questions that share one provider with fewer slots.                 *)
(***************************************************************************)
EXTENDS Ask, TLC

CONSTANTS o1, o2
=============================================================================
