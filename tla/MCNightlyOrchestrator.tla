----------------------- MODULE MCNightlyOrchestrator -----------------------
(***************************************************************************)
(* A small instance of NightlyOrchestrator: a root and one downstream,     *)
(* behind a hard or a soft edge.                                           *)
(***************************************************************************)
EXTENDS NightlyOrchestrator, TLC

CONSTANTS a, b, p1, p2

Alone == [j \in Job |-> {}]
BehindA == [j \in Job |-> IF j = b THEN {a} ELSE {}]
HardOrSoft == {[hard |-> BehindA, soft |-> Alone], [hard |-> Alone, soft |-> BehindA]}

PassSymmetry == Permutations(Pass)
=============================================================================
