----------------------------- MODULE MCMovePath -----------------------------
(***************************************************************************)
(* MovePath on a small board.  The handlers of one kind differ only in     *)
(* their names; safety runs use that.                                      *)
(***************************************************************************)
EXTENDS MovePath, TLC

HandlerSymmetry == Permutations(WsHandlers) \cup Permutations(RestHandlers)
=============================================================================
