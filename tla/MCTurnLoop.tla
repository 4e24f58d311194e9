----------------------------- MODULE MCTurnLoop -----------------------------
(***************************************************************************)
(* TurnLoop for TLC.  Of the signatures of tool calls, "edit" writes and   *)
(* so runs alone (it also plays `todowrite` in the run that has one),      *)
(* "look" reads and runs in parallel with its like, "check" and "rewind"   *)
(* are `checkpoint` and `rewind`.                                          *)
(***************************************************************************)
EXTENDS TurnLoop
=============================================================================
