-------------------------- MODULE MCEventDispatch --------------------------
(***************************************************************************)
(* Small instances of EventDispatch: one version with two workers, and two *)
(* or three versions with a worker each.                                   *)
(***************************************************************************)
EXTENDS EventDispatch

CONSTANTS w1, w2, w3

AllSubscribed == [v \in Version |-> Event]

\* The second version gives up event 1.
DropsFirst == [v \in Version |-> IF v = 2 THEN Event \ {1} ELSE Event]

\* Each version subscribes one more event than the one before.
Widening == [v \in Version |-> CASE v = 1 -> {2} [] v = 2 -> {2, 3} [] OTHER -> {1, 2, 3}]

OneVersion == [w \in Worker |-> 1]
OnePerVersion == [w \in Worker |-> IF w = w1 THEN 1 ELSE IF w = w2 THEN 2 ELSE 3]
=============================================================================
