---------------------------- MODULE MCTurnPorts ----------------------------
(* TurnPorts with a small ring. *)
EXTENDS TurnPorts
=============================================================================
