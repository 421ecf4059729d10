-------------------------- MODULE PaymentContract --------------------------
(***************************************************************************)
(* What the paid-effect protocol promises its callers, without rows,       *)
(* fences, leases or control.  An identity is licensed to at most one      *)
(* holder, the licence permits one call, and the obligation it opens gets  *)
(* at most one verdict.  A further call needs a renewal, which only a      *)
(* family with answers to wait for knows, and only while there is no       *)
(* verdict.  A permitted call may leave after the verdict; no call leaves  *)
(* without a permit, and none is paid for twice with one.                  *)
(***************************************************************************)
EXTENDS Naturals

CONSTANTS
  Effect, Holder, NoHolder,
  Permit,      \* the runs a call can be permitted to
  Renewable    \* TRUE when an answer may have to be waited for

VARIABLES
  holder,   \* who was licensed to pay for an identity
  permits,  \* runs that may still make their call for it
  made,     \* calls made for it
  verdict   \* "none", "answered", "retired" or "sealed"

payments == <<holder, permits, made, verdict>>

Init ==
  /\ holder = [e \in Effect |-> NoHolder]
  /\ permits = [e \in Effect |-> {}]
  /\ made = [e \in Effect |-> 0]
  /\ verdict = [e \in Effect |-> "none"]

\* Nobody was licensed and nobody will be.
Seal(e) ==
  /\ holder[e] = NoHolder /\ verdict[e] = "none"
  /\ verdict' = [verdict EXCEPT ![e] = "sealed"]
  /\ UNCHANGED <<holder, permits, made>>

License(e, h, p) ==
  /\ holder[e] = NoHolder /\ verdict[e] = "none"
  /\ holder' = [holder EXCEPT ![e] = h]
  /\ permits' = [permits EXCEPT ![e] = @ \cup {p}]
  /\ UNCHANGED <<made, verdict>>

Renew(e, p) ==
  /\ Renewable /\ holder[e] # NoHolder /\ verdict[e] = "none"
  /\ permits' = [permits EXCEPT ![e] = @ \cup {p}]
  /\ UNCHANGED <<holder, made, verdict>>

Pay(e, p) ==
  /\ p \in permits[e]
  /\ permits' = [permits EXCEPT ![e] = @ \ {p}]
  /\ made' = [made EXCEPT ![e] = @ + 1]
  /\ UNCHANGED <<holder, verdict>>

\* A run ends without its call.
Lapse(e, p) ==
  /\ p \in permits[e]
  /\ permits' = [permits EXCEPT ![e] = @ \ {p}]
  /\ UNCHANGED <<holder, made, verdict>>

\* The run that brings the answer, if one does, ends.
Answer(e) ==
  /\ holder[e] # NoHolder /\ verdict[e] = "none"
  /\ verdict' = [verdict EXCEPT ![e] = "answered"]
  /\ \/ UNCHANGED permits
     \/ \E p \in Permit : permits' = [permits EXCEPT ![e] = @ \ {p}]
  /\ UNCHANGED <<holder, made>>

\* One decision retires several open obligations together.
Retire(S) ==
  /\ S # {} /\ \A e \in S : holder[e] # NoHolder /\ verdict[e] = "none"
  /\ verdict' = [e \in Effect |-> IF e \in S THEN "retired" ELSE verdict[e]]
  /\ UNCHANGED <<holder, permits, made>>

Next ==
  \/ \E e \in Effect : Seal(e) \/ Answer(e)
  \/ \E e \in Effect, p \in Permit : Renew(e, p) \/ Pay(e, p) \/ Lapse(e, p)
  \/ \E e \in Effect, h \in Holder, p \in Permit : License(e, h, p)
  \/ \E S \in SUBSET Effect : Retire(S)

Spec == Init /\ [][Next]_payments
=============================================================================
