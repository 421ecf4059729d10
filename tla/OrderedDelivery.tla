--------------------------- MODULE OrderedDelivery ---------------------------
(***************************************************************************)
(* What the subscription bus promises the handlers of a subscriber,        *)
(* without leases, claims, workers, attempts or transactions.  Every       *)
(* version of the subscriber is a line: events join at its end, in log     *)
(* order, and once each; only the first that is still owed is handled; a   *)
(* verdict is final, but for a dead letter that nothing has overtaken.  A  *)
(* version opens in one step, which closes the lines of the older ones     *)
(* and, where old code never runs beside new code, takes over exactly what *)
(* they owe.                                                               *)
(***************************************************************************)
EXTENDS Naturals

CONSTANTS
  Event, Version,
  Subscribed,  \* the events of each version
  Atomic       \* TRUE when old code never runs beside new code

VARIABLES
  open,   \* the versions whose line is open
  state,  \* of each event in each line
  turn    \* its place

delivery == <<open, state, turn>>

Owed == {"waiting", "handling"}
States == Owed \cup {"absent", "history", "done", "dead", "moved"}

Init ==
  /\ open = {}
  /\ state = [v \in Version |-> [e \in Event |-> "absent"]]
  /\ turn = [v \in Version |-> [e \in Event |-> 0]]

\* Nothing that is owed stands before e.
First(v, e) == \A f \in Event : state[v][f] \in Owed => turn[v][e] <= turn[v][f]

\* Without old code beside it only the newest line moves.
Serving(v) == v \in open /\ (Atomic => \A u \in open : u <= v)

\* What the older lines hand over.
HandedTo(v) == {e \in Subscribed[v] : \E u \in open : u < v /\ state[u][e] \in Owed}

Open(v) ==
  /\ v \notin open
  /\ open' = open \cup {v}
  /\ \A e \in Event : state'[v][e] \in {"absent", "history", "waiting"}
  /\ \A e, f \in Event :
       state'[v][e] # "absent" /\ state'[v][f] # "absent" /\ turn'[v][e] = turn'[v][f] => e = f
  /\ Atomic => {e \in Event : state'[v][e] = "waiting"} = HandedTo(v)
  /\ \A u \in Version \ {v}, e \in Event :
       /\ turn'[u][e] = turn[u][e]
       /\ state'[u][e] = IF u \in open /\ u < v /\ state[u][e] \in Owed
                         THEN "moved" ELSE state[u][e]

Join(v, new) ==
  /\ Serving(v) /\ new # {}
  /\ \A e \in new : state[v][e] = "absent"
  /\ state' = [state EXCEPT ![v] = [e \in Event |-> IF e \in new THEN "waiting" ELSE @[e]]]
  /\ \A u \in Version, e \in Event : u # v \/ e \notin new => turn'[u][e] = turn[u][e]
  /\ \A e \in new, f \in Event :
       state[v][f] # "absent" \/ (f \in new /\ f < e) => turn'[v][f] < turn'[v][e]
  /\ UNCHANGED open

Moves(v, e, s) == state' = [state EXCEPT ![v][e] = s] /\ UNCHANGED <<open, turn>>

Begin(v, e) ==
  /\ Serving(v) /\ state[v][e] = "waiting" /\ First(v, e)
  /\ Moves(v, e, "handling")

\* Handled, given up, or to be tried again in the same place.
Finish(v, e) ==
  /\ Serving(v) /\ state[v][e] = "handling" /\ First(v, e)
  /\ \E s \in {"done", "dead", "waiting"} : Moves(v, e, s)

Redrive(v, e) ==
  /\ Serving(v) /\ state[v][e] = "dead" /\ First(v, e)
  /\ \A f \in Event : turn[v][f] > turn[v][e] => state[v][f] \in {"absent", "waiting"}
  /\ Moves(v, e, "waiting")

Next ==
  \/ \E v \in Version : Open(v)
  \/ \E v \in Version : \E new \in SUBSET Subscribed[v] : Join(v, new)
  \/ \E v \in Version, e \in Event : Begin(v, e) \/ Finish(v, e) \/ Redrive(v, e)

Spec == Init /\ [][Next]_delivery
=============================================================================
