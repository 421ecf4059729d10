---------------------------- MODULE MCPaidEffect ----------------------------
(***************************************************************************)
(* Small instances of PaidEffect: one entity of the admission family with  *)
(* two revisions, and one entity of a family with parallel feature reps.   *)
(***************************************************************************)
EXTENDS PaidEffect, TLC

CONSTANTS a, b, c, z, g, h, r1, r2, u, x0, x1, d1, d2, d3, w1, w2, ok, wait

\* Admission: a and c share a revision, as z does; b is the next one ...
AdmissionEntityOf == [e \in Effect |-> g]
AdmissionRevOf == [e \in Effect |-> IF e = b THEN r2 ELSE r1]
AdmissionUnitOf == [e \in Effect |-> u]

\* ... and a is an identity of an earlier contract.
VersionedUnitOf == [e \in Effect |-> IF e = a THEN x0 ELSE x1]
ContractOfUnit == [v \in Unit |-> IF v = x1 THEN 1 ELSE 0]

\* Item prior: a and b are reps of one revision, c is a rep of the next.
RepUnitOf == [e \in Effect |-> IF e = b THEN x1 ELSE x0]
RepRevOf == [e \in Effect |-> IF e = c THEN r2 ELSE r1]

\* Two entities, to see the switch drain a whole family.
TwoEntityOf == [e \in Effect |-> IF e = c THEN h ELSE g]

BossOnly == [d \in Delivery |-> "pg-boss"]
BossAndDbos == [d \in Delivery |-> IF d = d2 THEN "dbos" ELSE "pg-boss"]

\* Workers are alike; so are pg-boss deliveries, and c and z.
WorkerSymmetry == Permutations(Worker)
AdmissionSymmetry == WorkerSymmetry \cup Permutations(Delivery) \cup Permutations({c, z})
=============================================================================
