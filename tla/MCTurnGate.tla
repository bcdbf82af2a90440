----------------------------- MODULE MCTurnGate -----------------------------
(* Model-checking instance of TurnGate: its constants need no definitions,  *)
(* the .cfg gives them all.                                                 *)
EXTENDS TurnGate
==============================================================================
