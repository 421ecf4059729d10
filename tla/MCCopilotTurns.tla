--------------------------- MODULE MCCopilotTurns ---------------------------
(***************************************************************************)
(* A small instance of CopilotTurns: a turn that runs the model and one    *)
(* that is answered by the crisis template.                                *)
(***************************************************************************)
EXTENDS CopilotTurns, TLC

CONSTANTS w1, w2

LastTurn == {MaxTurn}
=============================================================================
