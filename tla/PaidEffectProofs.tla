-------------------------- MODULE PaidEffectProofs --------------------------
(***************************************************************************)
(* Proofs about PaidEffect for every family, delivery set and bound.       *)
(***************************************************************************)
EXTENDS PaidEffect, TLAPS

\* Type correctness is inductive as it stands.
THEOREM TypeCorrect == Spec => []TypeOK
<1> USE CoordinateAssumption, NullAssumption, ProfileAssumption
<1>1. Init => TypeOK
  BY DEF Init, TypeOK, States, OpenStates, ResolvedStates, Backends, NoGeneration
<1>2. TypeOK /\ [Next]_vars => TypeOK'
  <2> SUFFICES ASSUME TypeOK, [Next]_vars PROVE TypeOK'
    OBVIOUS
  <2> USE DEF TypeOK, States, OpenStates, ResolvedStates, GateStates, Backends,
              rows, auths, control, published, queue, runs, paid
  <2>1. ASSUME NEW d \in Delivery, Dispatch(d) PROVE TypeOK'
    BY <2>1 DEF Dispatch, Unstamped, NoGeneration
  <2>2. ASSUME NEW e \in Effect, AdmitIntent(e) PROVE TypeOK'
    BY <2>2 DEF AdmitIntent
  <2>3. ASSUME NEW w \in Worker, NEW d \in Delivery, NEW e \in Effect, ReserveWins(w, d, e)
        PROVE  TypeOK'
    BY <2>3 DEF ReserveWins, Start, NextFence
  <2>4. ASSUME NEW d \in Delivery, NEW e \in Effect, ReserveHeld(d, e) PROVE TypeOK'
    BY <2>4 DEF ReserveHeld
  <2>5. ASSUME NEW w \in Worker, NEW d \in Delivery, NEW e \in Effect, ResumeWaiting(w, d, e)
        PROVE  TypeOK'
    BY <2>5 DEF ResumeWaiting, Start
  <2>6. ASSUME NEW w \in Worker, CheckSend(w) PROVE TypeOK'
    BY <2>6 DEF CheckSend
  <2>7. ASSUME NEW w \in Worker, CallProvider(w) PROVE TypeOK'
    BY <2>7 DEF CallProvider
  <2>8. ASSUME NEW w \in Worker, NEW r \in Receipt, RecordResult(w, r) PROVE TypeOK'
    <3>1. state' \in [Effect -> States] /\ result' \in [Effect -> Receipt \cup {NoReceipt}]
      BY <2>8 DEF RecordResult
    <3>2. lease' \in [Effect -> {"none", "live", "expired"}] /\ deferred' \subseteq Effect
      BY <2>8 DEF RecordResult
    <3>3. /\ role' \in [Worker -> {"idle", "winner", "resumer"}]
          /\ job' \in [Worker -> Delivery \cup {NoDelivery}]
          /\ on' \in [Worker -> Effect \cup {NoEffect}]
          /\ \A x \in Worker : role'[x] # "idle" => job'[x] \in Delivery /\ on'[x] \in Effect
      BY <2>8 DEF RecordResult, Finish
    <3>4. token' \in [Worker -> Nat] /\ step' \in [Worker -> {"ready", "cleared", "called"}]
      BY <2>8 DEF RecordResult, Finish
    <3> QED
      BY <3>1, <3>2, <3>3, <3>4, <2>8 DEF RecordResult
  <2>9. ASSUME NEW w \in Worker, MarkUnknown(w) PROVE TypeOK'
    BY <2>9 DEF MarkUnknown, Finish
  <2>10. ASSUME NEW w \in Worker, SettleSuperseded(w) PROVE TypeOK'
    BY <2>10 DEF SettleSuperseded, Finish
  <2>11. ASSUME NEW w \in Worker, Crash(w) PROVE TypeOK'
    BY <2>11 DEF Crash, Finish
  <2>12. ASSUME NEW e \in Effect, RecordApplication(e) PROVE TypeOK'
    BY <2>12 DEF RecordApplication, Apply, Publish
  <2>13. ASSUME NEW w \in Worker, ApplyResumed(w) PROVE TypeOK'
    <3>1. state' \in [Effect -> States] /\ UNCHANGED <<fence, owner, lease, result, paid, listed>>
      BY <2>13 DEF ApplyResumed, Apply
    <3>2. current' \in [Entity -> Revision] /\ outdated' \in [Entity -> SUBSET Delivery]
      BY <2>13 DEF ApplyResumed, Apply, Publish
    <3>3. /\ role' \in [Worker -> {"idle", "winner", "resumer"}]
          /\ job' \in [Worker -> Delivery \cup {NoDelivery}]
          /\ on' \in [Worker -> Effect \cup {NoEffect}]
          /\ \A x \in Worker : role'[x] # "idle" => job'[x] \in Delivery /\ on'[x] \in Effect
      BY <2>13 DEF ApplyResumed, Finish
    <3>4. token' \in [Worker -> Nat] /\ step' \in [Worker -> {"ready", "cleared", "called"}]
      BY <2>13 DEF ApplyResumed, Finish
    <3> QED
      BY <3>1, <3>2, <3>3, <3>4, <2>13 DEF ApplyResumed, Apply
  <2>14. ASSUME NEW e \in Effect, LeaseExpires(e) PROVE TypeOK'
    BY <2>14 DEF LeaseExpires
  <2>15. CASE SettleExpiredSends
    BY <2>15 DEF SettleExpiredSends
  <2>16. ASSUME NEW e \in Effect, ListDemotable(e) PROVE TypeOK'
    BY <2>16 DEF ListDemotable
  <2>17. ASSUME NEW e \in Effect, DemoteListed(e) PROVE TypeOK'
    BY <2>17 DEF DemoteListed, Degrade
  <2>18. ASSUME NEW w \in Worker, DemoteInline(w) PROVE TypeOK'
    BY <2>18 DEF DemoteInline, Degrade, Finish
  <2>19. ASSUME NEW e \in Effect, CancelUnsentIntent(e) PROVE TypeOK'
    BY <2>19 DEF CancelUnsentIntent
  <2>20. ASSUME NEW g \in Entity, NEW s \in Effect, NEW d \in Delivery, ReleaseVoid(g, s, d)
        PROVE  TypeOK'
    BY <2>20 DEF ReleaseVoid, Publish, VoidWithSuccessor
  <2>21. ASSUME NEW to \in Backends, SwitchBackend(to) PROVE TypeOK'
    BY <2>21 DEF SwitchBackend
  <2>22. ASSUME NEW g \in Entity, NEW r \in Revision, PublishRevision(g, r) PROVE TypeOK'
    BY <2>22 DEF PublishRevision, Publish
  <2>23. CASE RaiseContract
    BY <2>23 DEF RaiseContract
  <2>24. CASE UNCHANGED vars
    BY <2>24 DEF vars
  <2> QED
    BY <2>1, <2>2, <2>3, <2>4, <2>5, <2>6, <2>7, <2>8, <2>9, <2>10, <2>11, <2>12, <2>13, <2>14,
       <2>15, <2>16, <2>17, <2>18, <2>19, <2>20, <2>21, <2>22, <2>23, <2>24 DEF Next
<1> QED
  BY <1>1, <1>2, PTL DEF Spec

-----------------------------------------------------------------------------
(* The ledger.  Who owns the admitted send is written once, by the claim    *)
(* that leaves an unclaimed state; one worker wins it, calls once and is     *)
(* followed by others only after it recorded that the answer must be waited *)
(* for.                                                                     *)

Unclaimed == {"absent", "pending", "cancelled"}

OwnerLedger ==
  \A e \in Effect :
    /\ owner[e] = NoDelivery <=> state[e] \in Unclaimed
    /\ owner[e] # NoDelivery => owner[e] \in dispatched
    /\ calls[e] > 0 \/ e \in deferred => owner[e] # NoDelivery
    /\ calls[e] > 1 => e \in deferred
    /\ Waits(e) => e \in deferred

\* The winner of an identity is alone with it until it has called.
WorkerLedger ==
  \A w \in Worker :
    /\ role[w] = "resumer" => on[w] \in deferred
    /\ role[w] = "winner" =>
         /\ owner[on[w]] = job[w] /\ on[w] \notin deferred
         /\ step[w] # "called" => calls[on[w]] = 0
         /\ \A x \in Worker : role[x] = "winner" /\ on[x] = on[w] => x = w

LedgerInv == OwnerLedger /\ WorkerLedger

\* Only a claim writes an owner, only a call counts one, and a further call
\* needs a wait the winner recorded.
LEMMA LedgerInductive == TypeOK /\ LedgerInv /\ [Next]_vars => LedgerInv'
<1> SUFFICES ASSUME TypeOK, LedgerInv, [Next]_vars PROVE LedgerInv'
  OBVIOUS
<1> USE CoordinateAssumption, NullAssumption
<1> USE DEF TypeOK, LedgerInv, OwnerLedger, WorkerLedger, Unclaimed, Waits, States, OpenStates,
            ResolvedStates, GateStates, rows, auths, control, published, queue, runs, paid
<1>1. ASSUME NEW d \in Delivery, Dispatch(d) PROVE LedgerInv'
  BY <1>1 DEF Dispatch
<1>2. ASSUME NEW e \in Effect, AdmitIntent(e) PROVE LedgerInv'
  BY <1>2 DEF AdmitIntent
<1>3. ASSUME NEW w \in Worker, NEW d \in Delivery, NEW e \in Effect, ReserveWins(w, d, e)
      PROVE  LedgerInv'
  BY <1>3 DEF ReserveWins, Start, Claimable
<1>4. ASSUME NEW d \in Delivery, NEW e \in Effect, ReserveHeld(d, e) PROVE LedgerInv'
  BY <1>4 DEF ReserveHeld
<1>5. ASSUME NEW w \in Worker, NEW d \in Delivery, NEW e \in Effect, ResumeWaiting(w, d, e)
      PROVE  LedgerInv'
  BY <1>5 DEF ResumeWaiting, Start
<1>6. ASSUME NEW w \in Worker, CheckSend(w) PROVE LedgerInv'
  BY <1>6 DEF CheckSend
<1>7. ASSUME NEW w \in Worker, CallProvider(w) PROVE LedgerInv'
  BY <1>7 DEF CallProvider
<1>8. ASSUME NEW w \in Worker, NEW r \in Receipt, RecordResult(w, r) PROVE LedgerInv'
  BY <1>8 DEF RecordResult, Finish, TakesAnswer
<1>9. ASSUME NEW w \in Worker, MarkUnknown(w) PROVE LedgerInv'
  BY <1>9 DEF MarkUnknown, Finish
<1>10. ASSUME NEW w \in Worker, SettleSuperseded(w) PROVE LedgerInv'
  BY <1>10 DEF SettleSuperseded, Finish, OwnsSend
<1>11. ASSUME NEW w \in Worker, Crash(w) PROVE LedgerInv'
  BY <1>11 DEF Crash, Finish
<1>12. ASSUME NEW e \in Effect, RecordApplication(e) PROVE LedgerInv'
  BY <1>12 DEF RecordApplication, Apply, Publish
<1>13. ASSUME NEW w \in Worker, ApplyResumed(w) PROVE LedgerInv'
  BY <1>13 DEF ApplyResumed, Apply, Publish, Finish
<1>14. ASSUME NEW e \in Effect, LeaseExpires(e) PROVE LedgerInv'
  BY <1>14 DEF LeaseExpires
<1>15. CASE SettleExpiredSends
  BY <1>15 DEF SettleExpiredSends, Due
<1>16. ASSUME NEW e \in Effect, ListDemotable(e) PROVE LedgerInv'
  BY <1>16 DEF ListDemotable
<1>17. ASSUME NEW e \in Effect, DemoteListed(e) PROVE LedgerInv'
  <2>1. /\ UNCHANGED <<owner, dispatched, role, job, on, step, calls, deferred>>
        /\ \A f \in Effect : \/ state'[f] = state[f] /\ result'[f] = result[f]
                             \/ state[f] = "receipt_ready" /\ state'[f] = "unknown"
    BY <1>17 DEF DemoteListed, Degrade
  <2> QED
    BY <2>1
<1>18. ASSUME NEW w \in Worker, DemoteInline(w) PROVE LedgerInv'
  BY <1>18 DEF DemoteInline, Degrade, Finish, Demotable
<1>19. ASSUME NEW e \in Effect, CancelUnsentIntent(e) PROVE LedgerInv'
  BY <1>19 DEF CancelUnsentIntent, NoSendInFlight, NeverSent
<1>20. ASSUME NEW g \in Entity, NEW s \in Effect, NEW d \in Delivery, ReleaseVoid(g, s, d)
      PROVE  LedgerInv'
  BY <1>20 DEF ReleaseVoid, Publish, VoidWithSuccessor, Unresolved
<1>21. ASSUME NEW to \in Backends, SwitchBackend(to) PROVE LedgerInv'
  BY <1>21 DEF SwitchBackend
<1>22. ASSUME NEW g \in Entity, NEW r \in Revision, PublishRevision(g, r) PROVE LedgerInv'
  BY <1>22 DEF PublishRevision, Publish
<1>23. CASE RaiseContract
  BY <1>23 DEF RaiseContract
<1>24. CASE UNCHANGED vars
  BY <1>24 DEF vars
<1> QED
  BY <1>1, <1>2, <1>3, <1>4, <1>5, <1>6, <1>7, <1>8, <1>9, <1>10, <1>11, <1>12, <1>13, <1>14,
     <1>15, <1>16, <1>17, <1>18, <1>19, <1>20, <1>21, <1>22, <1>23, <1>24 DEF Next

\* The ledger is correct in every reachable state: every call is accounted for
\* by one winner of one claim or by a recorded wait.
THEOREM LedgerCorrect == Spec => []LedgerInv
<1>1. Init => LedgerInv
  BY NullAssumption DEF Init, LedgerInv, OwnerLedger, WorkerLedger, Waits, Unclaimed
<1> QED
  BY <1>1, TypeCorrect, LedgerInductive, PTL DEF Spec

\* One identity is called for at most once unless its one winner recorded that
\* the answer must be waited for, for any number of deliveries, executions of a
\* delivery, crashes, expiries, demotions, voids and switches.
THEOREM PaidAtMostOnce == Spec => []AtMostOnePayment
<1>1. LedgerInv => AtMostOnePayment
  BY DEF LedgerInv, OwnerLedger, AtMostOnePayment
<1> QED
  BY <1>1, LedgerCorrect, PTL

\* A call that left is never held for an unsent or never-sent intent.
THEOREM PaymentRemembered == Spec => []PaymentNeverForgotten
<1>1. LedgerInv => PaymentNeverForgotten
  BY DEF LedgerInv, OwnerLedger, PaymentNeverForgotten, Unclaimed
<1> QED
  BY <1>1, LedgerCorrect, PTL

-----------------------------------------------------------------------------
(* The entity gate and the control fence.                                  *)

\* Only a claim starts a send and only a claim writes an owner.
LEMMA OnlyClaimsSend ==
  ASSUME TypeOK, [Next]_vars,
         ~ \E w \in Worker, d \in Delivery, e \in Effect : ReserveWins(w, d, e)
  PROVE  /\ owner' = owner
         /\ \A e \in Effect : state'[e] = "sending" => state[e] = "sending"
<1> USE DEF TypeOK, rows, auths, control, published, queue, runs, paid
<1> DEFINE Goal == /\ owner' = owner
                   /\ \A e \in Effect : state'[e] = "sending" => state[e] = "sending"
<1>1. ASSUME NEW d \in Delivery, Dispatch(d) PROVE Goal
  BY <1>1 DEF Dispatch
<1>2. ASSUME NEW e \in Effect, AdmitIntent(e) PROVE Goal
  BY <1>2 DEF AdmitIntent
<1>3. ASSUME NEW d \in Delivery, NEW e \in Effect, ReserveHeld(d, e) PROVE Goal
  BY <1>3 DEF ReserveHeld
<1>4. ASSUME NEW w \in Worker, NEW d \in Delivery, NEW e \in Effect, ResumeWaiting(w, d, e)
      PROVE  Goal
  BY <1>4 DEF ResumeWaiting, Start
<1>5. ASSUME NEW w \in Worker, CheckSend(w) PROVE Goal
  BY <1>5 DEF CheckSend
<1>6. ASSUME NEW w \in Worker, CallProvider(w) PROVE Goal
  BY <1>6 DEF CallProvider
<1>7. ASSUME NEW w \in Worker, NEW r \in Receipt, RecordResult(w, r) PROVE Goal
  BY <1>7 DEF RecordResult, Finish
<1>8. ASSUME NEW w \in Worker, MarkUnknown(w) PROVE Goal
  BY <1>8 DEF MarkUnknown, Finish
<1>9. ASSUME NEW w \in Worker, SettleSuperseded(w) PROVE Goal
  BY <1>9 DEF SettleSuperseded, Finish
<1>10. ASSUME NEW w \in Worker, Crash(w) PROVE Goal
  BY <1>10 DEF Crash, Finish
<1>11. ASSUME NEW e \in Effect, RecordApplication(e) PROVE Goal
  BY <1>11 DEF RecordApplication, Apply, Publish
<1>12. ASSUME NEW w \in Worker, ApplyResumed(w) PROVE Goal
  BY <1>12 DEF ApplyResumed, Apply, Publish, Finish
<1>13. ASSUME NEW e \in Effect, LeaseExpires(e) PROVE Goal
  BY <1>13 DEF LeaseExpires
<1>14. CASE SettleExpiredSends
  BY <1>14 DEF SettleExpiredSends
<1>15. ASSUME NEW e \in Effect, ListDemotable(e) PROVE Goal
  BY <1>15 DEF ListDemotable
<1>16. ASSUME NEW e \in Effect, DemoteListed(e) PROVE Goal
  BY <1>16 DEF DemoteListed, Degrade
<1>17. ASSUME NEW w \in Worker, DemoteInline(w) PROVE Goal
  BY <1>17 DEF DemoteInline, Degrade, Finish
<1>18. ASSUME NEW e \in Effect, CancelUnsentIntent(e) PROVE Goal
  BY <1>18 DEF CancelUnsentIntent
<1>19. ASSUME NEW g \in Entity, NEW s \in Effect, NEW d \in Delivery, ReleaseVoid(g, s, d)
      PROVE  Goal
  BY <1>19 DEF ReleaseVoid, Publish, VoidWithSuccessor
<1>20. ASSUME NEW to \in Backends, SwitchBackend(to) PROVE Goal
  BY <1>20 DEF SwitchBackend
<1>21. ASSUME NEW g \in Entity, NEW r \in Revision, PublishRevision(g, r) PROVE Goal
  BY <1>21 DEF PublishRevision, Publish
<1>22. CASE RaiseContract
  BY <1>22 DEF RaiseContract
<1>23. CASE UNCHANGED vars
  BY <1>23 DEF vars
<1> QED
  BY <1>1, <1>2, <1>3, <1>4, <1>5, <1>6, <1>7, <1>8, <1>9, <1>10, <1>11, <1>12, <1>13, <1>14,
     <1>15, <1>16, <1>17, <1>18, <1>19, <1>20, <1>21, <1>22, <1>23 DEF Next

\* Two sends of one entity in flight together are parallel reps of one
\* revision, whatever the interleaving of their claims.
THEOREM GateExcludes == Spec => []NoConflictingSends
<1>1. Init => NoConflictingSends
  BY DEF Init, NoConflictingSends
<1>2. TypeOK /\ NoConflictingSends /\ [Next]_vars => NoConflictingSends'
  <2> SUFFICES ASSUME TypeOK, NoConflictingSends, [Next]_vars PROVE NoConflictingSends'
    OBVIOUS
  <2> USE DEF TypeOK, NoConflictingSends, SameEntity
  <2>1. CASE \E w \in Worker, d \in Delivery, e \in Effect : ReserveWins(w, d, e)
    <3> PICK w \in Worker, d \in Delivery, c \in Effect : ReserveWins(w, d, c)
      BY <2>1
    <3>1. \A f \in Effect \ {c} :
            SameEntity(f, c) /\ state[f] = "sending" => ~ GateBlocks(f, c) /\ ~ GateBlocks(c, f)
      BY DEF ReserveWins, ClaimAdmitted, StoreAdmits, GateBlocked, GateStates, GateBlocks
    <3>2. \A f \in Effect : state'[f] = "sending" => f = c \/ state[f] = "sending"
      BY DEF ReserveWins
    <3> QED
      BY <3>1, <3>2, Zenon
  <2>2. CASE ~ \E w \in Worker, d \in Delivery, e \in Effect : ReserveWins(w, d, e)
    BY <2>2, OnlyClaimsSend, Zenon
  <2> QED
    BY <2>1, <2>2
<1> QED
  BY <1>1, <1>2, TypeCorrect, PTL DEF Spec

\* Ownership of an unfinished send is current: the control row still admits
\* its owner, which the ledger shows was dispatched.
LEMMA OwnershipInductive ==
  TypeOK /\ LedgerInv /\ OwnerStaysAdmitted /\ [Next]_vars => OwnerStaysAdmitted'
<1> SUFFICES ASSUME TypeOK, LedgerInv, OwnerStaysAdmitted, [Next]_vars
             PROVE  OwnerStaysAdmitted'
  OBVIOUS
<1> USE CoordinateAssumption, NullAssumption
<1> USE DEF TypeOK, LedgerInv, OwnerLedger, Unclaimed, OwnerStaysAdmitted, ControlAdmits, States,
            OpenStates, ResolvedStates, GateStates, rows, auths, control, published, queue,
            runs, paid
<1>1. ASSUME NEW d \in Delivery, Dispatch(d) PROVE OwnerStaysAdmitted'
  BY <1>1 DEF Dispatch
<1>2. ASSUME NEW e \in Effect, AdmitIntent(e) PROVE OwnerStaysAdmitted'
  BY <1>2 DEF AdmitIntent
<1>3. ASSUME NEW w \in Worker, NEW d \in Delivery, NEW e \in Effect, ReserveWins(w, d, e)
      PROVE  OwnerStaysAdmitted'
  BY <1>3 DEF ReserveWins, Start, ClaimAdmitted, StoreAdmits
<1>4. ASSUME NEW d \in Delivery, NEW e \in Effect, ReserveHeld(d, e) PROVE OwnerStaysAdmitted'
  BY <1>4 DEF ReserveHeld
<1>5. ASSUME NEW w \in Worker, NEW d \in Delivery, NEW e \in Effect, ResumeWaiting(w, d, e)
      PROVE  OwnerStaysAdmitted'
  BY <1>5 DEF ResumeWaiting, Start
<1>6. ASSUME NEW w \in Worker, CheckSend(w) PROVE OwnerStaysAdmitted'
  BY <1>6 DEF CheckSend
<1>7. ASSUME NEW w \in Worker, CallProvider(w) PROVE OwnerStaysAdmitted'
  BY <1>7 DEF CallProvider
<1>8. ASSUME NEW w \in Worker, NEW r \in Receipt, RecordResult(w, r) PROVE OwnerStaysAdmitted'
  <2>1. /\ UNCHANGED <<owner, backend, generation, dispatched, stamp>>
        /\ \A f \in Effect : state'[f] = state[f] \/ state[f] \in GateStates
    BY <1>8 DEF RecordResult, TakesAnswer
  <2>2. \A f \in Effect : state'[f] \in OpenStates \ {"pending"}
                            => state[f] \in OpenStates \ {"pending"}
    BY <2>1
  <2> QED
    BY <2>1, <2>2
<1>9. ASSUME NEW w \in Worker, MarkUnknown(w) PROVE OwnerStaysAdmitted'
  BY <1>9 DEF MarkUnknown, Finish
<1>10. ASSUME NEW w \in Worker, SettleSuperseded(w) PROVE OwnerStaysAdmitted'
  BY <1>10 DEF SettleSuperseded, Finish
<1>11. ASSUME NEW w \in Worker, Crash(w) PROVE OwnerStaysAdmitted'
  BY <1>11 DEF Crash, Finish
<1>12. ASSUME NEW e \in Effect, RecordApplication(e) PROVE OwnerStaysAdmitted'
  BY <1>12 DEF RecordApplication, Apply, Publish
<1>13. ASSUME NEW w \in Worker, ApplyResumed(w) PROVE OwnerStaysAdmitted'
  BY <1>13 DEF ApplyResumed, Apply, Publish, Finish
<1>14. ASSUME NEW e \in Effect, LeaseExpires(e) PROVE OwnerStaysAdmitted'
  BY <1>14 DEF LeaseExpires
<1>15. CASE SettleExpiredSends
  BY <1>15 DEF SettleExpiredSends, Due
<1>16. ASSUME NEW e \in Effect, ListDemotable(e) PROVE OwnerStaysAdmitted'
  BY <1>16 DEF ListDemotable
<1>17. ASSUME NEW e \in Effect, DemoteListed(e) PROVE OwnerStaysAdmitted'
  BY <1>17 DEF DemoteListed, Degrade
<1>18. ASSUME NEW w \in Worker, DemoteInline(w) PROVE OwnerStaysAdmitted'
  BY <1>18 DEF DemoteInline, Degrade, Finish, Demotable, Waits
<1>19. ASSUME NEW e \in Effect, CancelUnsentIntent(e) PROVE OwnerStaysAdmitted'
  BY <1>19 DEF CancelUnsentIntent, NoSendInFlight
<1>20. ASSUME NEW g \in Entity, NEW s \in Effect, NEW d \in Delivery, ReleaseVoid(g, s, d)
      PROVE  OwnerStaysAdmitted'
  BY <1>20 DEF ReleaseVoid, Publish, VoidWithSuccessor, Unresolved
<1>21. ASSUME NEW to \in Backends, SwitchBackend(to) PROVE OwnerStaysAdmitted'
  BY <1>21 DEF SwitchBackend, Drained
<1>22. ASSUME NEW g \in Entity, NEW r \in Revision, PublishRevision(g, r)
      PROVE  OwnerStaysAdmitted'
  BY <1>22 DEF PublishRevision, Publish
<1>23. CASE RaiseContract
  BY <1>23 DEF RaiseContract
<1>24. CASE UNCHANGED vars
  BY <1>24 DEF vars
<1> QED
  BY <1>1, <1>2, <1>3, <1>4, <1>5, <1>6, <1>7, <1>8, <1>9, <1>10, <1>11, <1>12, <1>13, <1>14,
     <1>15, <1>16, <1>17, <1>18, <1>19, <1>20, <1>21, <1>22, <1>23, <1>24 DEF Next

\* A backend switch, in either direction and however often, never strands an
\* unfinished send under an owner the control row has fenced off.
THEOREM SwitchStrandsNothing == Spec => []OwnerStaysAdmitted
<1>1. Init => OwnerStaysAdmitted
  BY DEF Init, OwnerStaysAdmitted, OpenStates
<1> QED
  BY <1>1, OwnershipInductive, TypeCorrect, LedgerCorrect, PTL DEF Spec

-----------------------------------------------------------------------------
(* Void and successor.  At most one successor of an entity is open, and     *)
(* while it is pending no other row of the entity is in flight, unresolved, *)
(* unapplied or a verdict for its base: nothing but a later publication or  *)
(* contract release can stand between it and its bound delivery.            *)

Authorized(v) == successor[v] # NoEffect

VoidedIffAuthorized == \A v \in Effect : state[v] = "voided" <=> Authorized(v)

NothingConsumedUnauthorized ==
  \A v \in Effect : ~ Authorized(v) => consumed[v] = NoDelivery

SuccessorLinked ==
  \A v \in Effect : Authorized(v) =>
    /\ SameEntity(v, successor[v])
    /\ state[successor[v]] \notin {"absent", "cancelled"}
    /\ bound[v] \in dispatched
    /\ owner[successor[v]] \in {bound[v], NoDelivery}
    /\ consumed[v] = owner[successor[v]]

OneOpenSuccessor ==
  \A v, w \in Effect : Authorized(v) /\ Authorized(w) =>
    /\ successor[v] = successor[w] => bound[v] = bound[w]
    /\ SameEntity(v, w) /\ AuthorizationOpen(v) /\ AuthorizationOpen(w)
         => successor[v] = successor[w]

\* A row of the entity is no other row the bound delivery would reconcile.
NoRival(f, v) ==
  /\ owner[f] # bound[v]
  /\ state[f] = "applied" => RevOf[f] # RevOf[successor[v]]
  /\ state[f] = "pending" /\ UnitOf[f] = UnitOf[successor[v]]
       => RevOf[f] # RevOf[successor[v]]

PendingSuccessorAlone ==
  \A v, f \in Effect :
    Authorized(v) /\ state[successor[v]] = "pending" /\ SameEntity(f, v) /\ f # successor[v]
      => /\ state[f] \notin {"sending", "unknown", "receipt_ready"}
         /\ PinsRevision => NoRival(f, v)

PendingSuccessorAdmitted ==
  \A v \in Effect :
    Authorized(v) /\ state[successor[v]] = "pending" => ControlAdmits(bound[v])

\* Whatever moved the base of a successor also outdated its delivery.
SuccessorPublished ==
  /\ \A g \in Entity : outdated[g] \subseteq dispatched
  /\ \A v \in Effect :
       Authorized(v) /\ bound[v] \notin outdated[EntityOf[v]] => Current(successor[v])

AuthorizationInv ==
  VoidedIffAuthorized /\ NothingConsumedUnauthorized /\ SuccessorLinked
    /\ OneOpenSuccessor /\ PendingSuccessorAlone /\ PendingSuccessorAdmitted
    /\ SuccessorPublished

LEMMA AuthorizationInductive ==
  TypeOK /\ LedgerInv /\ AuthorizationInv /\ [Next]_vars => AuthorizationInv'
<1> SUFFICES ASSUME TypeOK, LedgerInv, AuthorizationInv, [Next]_vars PROVE AuthorizationInv'
  OBVIOUS
<1> USE CoordinateAssumption, NullAssumption
<1> USE DEF TypeOK, LedgerInv, OwnerLedger, Unclaimed, AuthorizationInv, Authorized,
            AuthorizationOpen, VoidedIffAuthorized, NothingConsumedUnauthorized,
            SuccessorLinked, OneOpenSuccessor, NoRival, PendingSuccessorAlone,
            PendingSuccessorAdmitted, SuccessorPublished, Current, SameEntity, ControlAdmits,
            States, OpenStates, ResolvedStates, GateStates,
            rows, auths, control, published, queue, runs, paid
<1>1. ASSUME NEW d \in Delivery, Dispatch(d) PROVE AuthorizationInv'
  BY <1>1 DEF Dispatch
<1>2. ASSUME NEW e \in Effect, AdmitIntent(e) PROVE AuthorizationInv'
  BY <1>2 DEF AdmitIntent
<1>3. ASSUME NEW w \in Worker, NEW d \in Delivery, NEW e \in Effect, ReserveWins(w, d, e)
      PROVE  AuthorizationInv'
  BY <1>3 DEF ReserveWins, Start, ClaimAdmitted, StoreAdmits, AuthorizationAdmits, Claimable
<1>4. ASSUME NEW d \in Delivery, NEW e \in Effect, ReserveHeld(d, e) PROVE AuthorizationInv'
  <2>1. /\ state[e] = "absent" /\ state' = [state EXCEPT ![e] = "pending"]
        /\ UNCHANGED <<owner, auths, control, published, dispatched, stamp>>
    BY <1>4 DEF ReserveHeld
  <2>2. ASSUME PinsRevision, NEW f \in Effect, f # e, SameEntity(f, e), state[f] = "pending",
               UnitOf[f] = UnitOf[e]
        PROVE  RevOf[f] # RevOf[e]
    BY <1>4, <2>2 DEF ReserveHeld, BatchAdmits, NothingToReconcile
  <2>3. PendingSuccessorAlone'
    <3> SUFFICES ASSUME NEW v \in Effect, NEW f \in Effect, Authorized(v)',
                        (state[successor[v]] = "pending")', SameEntity(f, v),
                        f # successor'[v]
                 PROVE  /\ state'[f] \notin {"sending", "unknown", "receipt_ready"}
                        /\ PinsRevision => NoRival(f, v)'
      OBVIOUS
    <3>1. /\ Authorized(v) /\ successor[v] \in Effect /\ successor[v] # e
          /\ state[successor[v]] = "pending" /\ f # successor[v]
          /\ SameEntity(successor[v], v) /\ bound[v] \in dispatched
      BY <2>1
    <3>2. CASE f # e
      BY <3>1, <3>2, <2>1
    <3>3. CASE f = e
      <4>1. owner[e] = NoDelivery /\ bound[v] # NoDelivery
        BY <3>1, <2>1
      <4>2. PinsRevision /\ UnitOf[e] = UnitOf[successor[v]] => RevOf[e] # RevOf[successor[v]]
        BY <3>1, <3>3, <2>2
      <4> QED
        BY <3>1, <3>3, <4>1, <4>2, <2>1
    <3> QED
      BY <3>2, <3>3
  <2>4. /\ VoidedIffAuthorized' /\ NothingConsumedUnauthorized' /\ SuccessorLinked'
        /\ OneOpenSuccessor' /\ PendingSuccessorAdmitted' /\ SuccessorPublished'
    BY <2>1
  <2> QED
    BY <2>3, <2>4
<1>5. ASSUME NEW w \in Worker, NEW d \in Delivery, NEW e \in Effect, ResumeWaiting(w, d, e)
      PROVE  AuthorizationInv'
  BY <1>5 DEF ResumeWaiting, Start
<1>6. ASSUME NEW w \in Worker, CheckSend(w) PROVE AuthorizationInv'
  BY <1>6 DEF CheckSend
<1>7. ASSUME NEW w \in Worker, CallProvider(w) PROVE AuthorizationInv'
  BY <1>7 DEF CallProvider
<1>8. ASSUME NEW w \in Worker, NEW r \in Receipt, RecordResult(w, r) PROVE AuthorizationInv'
  BY <1>8 DEF RecordResult, Finish, TakesAnswer
<1>9. ASSUME NEW w \in Worker, MarkUnknown(w) PROVE AuthorizationInv'
  BY <1>9 DEF MarkUnknown, Finish
<1>10. ASSUME NEW w \in Worker, SettleSuperseded(w) PROVE AuthorizationInv'
  BY <1>10 DEF SettleSuperseded, Finish
<1>11. ASSUME NEW w \in Worker, Crash(w) PROVE AuthorizationInv'
  BY <1>11 DEF Crash, Finish
<1>12. ASSUME NEW e \in Effect, RecordApplication(e) PROVE AuthorizationInv'
  <2>1. /\ state[e] = "receipt_ready" /\ state' = [state EXCEPT ![e] = "applied"]
        /\ UNCHANGED <<owner, auths, control, queue>>
    BY <1>12 DEF RecordApplication, Apply
  <2>2. \A g \in Entity : \/ (current'[g] = current[g] /\ outdated'[g] = outdated[g])
                           \/ outdated'[g] = dispatched
    BY <1>12 DEF RecordApplication, Apply, Publish
  <2>3. PendingSuccessorAlone'
    BY <2>1
  <2>4. SuccessorPublished'
    <3>1. ASSUME NEW v \in Effect, Authorized(v)', (bound[v] \notin outdated[EntityOf[v]])'
          PROVE  Current(successor[v])'
      <4>1. /\ successor[v] \in Effect /\ EntityOf[successor[v]] = EntityOf[v]
            /\ EntityOf[v] \in Entity /\ bound[v] \in dispatched
            /\ Authorized(v) /\ successor'[v] = successor[v] /\ bound'[v] = bound[v]
        BY <3>1, <2>1
      <4>2. /\ current'[EntityOf[v]] = current[EntityOf[v]]
            /\ outdated'[EntityOf[v]] = outdated[EntityOf[v]]
        BY <4>1, <3>1, <2>2
      <4> QED
        BY <4>1, <4>2, <3>1
    <3>2. ASSUME NEW g \in Entity PROVE outdated'[g] \subseteq dispatched'
      <4>1. dispatched' = dispatched /\ outdated[g] \subseteq dispatched
        BY <2>1
      <4> QED
        BY <2>2, <4>1
    <3> QED
      BY <3>1, <3>2
  <2>5. /\ VoidedIffAuthorized' /\ NothingConsumedUnauthorized' /\ SuccessorLinked'
        /\ OneOpenSuccessor' /\ PendingSuccessorAdmitted'
    BY <2>1
  <2> QED
    BY <2>3, <2>4, <2>5
<1>13. ASSUME NEW w \in Worker, ApplyResumed(w) PROVE AuthorizationInv'
  <2>1. /\ state[on[w]] = "receipt_ready" /\ state' = [state EXCEPT ![on[w]] = "applied"]
        /\ UNCHANGED <<owner, auths, control, queue>>
    BY <1>13 DEF ApplyResumed, Apply
  <2>2. \A g \in Entity : \/ (current'[g] = current[g] /\ outdated'[g] = outdated[g])
                           \/ outdated'[g] = dispatched
    BY <1>13 DEF ApplyResumed, Apply, Publish
  <2>3. PendingSuccessorAlone'
    BY <2>1
  <2>4. SuccessorPublished'
    <3>1. ASSUME NEW v \in Effect, Authorized(v)', (bound[v] \notin outdated[EntityOf[v]])'
          PROVE  Current(successor[v])'
      <4>1. /\ successor[v] \in Effect /\ EntityOf[successor[v]] = EntityOf[v]
            /\ EntityOf[v] \in Entity /\ bound[v] \in dispatched
            /\ Authorized(v) /\ successor'[v] = successor[v] /\ bound'[v] = bound[v]
        BY <3>1, <2>1
      <4>2. /\ current'[EntityOf[v]] = current[EntityOf[v]]
            /\ outdated'[EntityOf[v]] = outdated[EntityOf[v]]
        BY <4>1, <3>1, <2>2
      <4> QED
        BY <4>1, <4>2, <3>1
    <3>2. ASSUME NEW g \in Entity PROVE outdated'[g] \subseteq dispatched'
      <4>1. dispatched' = dispatched /\ outdated[g] \subseteq dispatched
        BY <2>1
      <4> QED
        BY <2>2, <4>1
    <3> QED
      BY <3>1, <3>2
  <2>5. /\ VoidedIffAuthorized' /\ NothingConsumedUnauthorized' /\ SuccessorLinked'
        /\ OneOpenSuccessor' /\ PendingSuccessorAdmitted'
    BY <2>1
  <2> QED
    BY <2>3, <2>4, <2>5
<1>14. ASSUME NEW e \in Effect, LeaseExpires(e) PROVE AuthorizationInv'
  BY <1>14 DEF LeaseExpires
<1>15. CASE SettleExpiredSends
  BY <1>15 DEF SettleExpiredSends, Due
<1>16. ASSUME NEW e \in Effect, ListDemotable(e) PROVE AuthorizationInv'
  BY <1>16 DEF ListDemotable
<1>17. ASSUME NEW e \in Effect, DemoteListed(e) PROVE AuthorizationInv'
  <2>1. /\ UNCHANGED <<owner, auths, control, published, dispatched, stamp>>
        /\ \A f \in Effect : \/ state'[f] = state[f]
                             \/ f = e /\ state[f] = "receipt_ready" /\ state'[f] = "unknown"
    BY <1>17 DEF DemoteListed, Degrade
  <2> QED
    BY <2>1
<1>18. ASSUME NEW w \in Worker, DemoteInline(w) PROVE AuthorizationInv'
  <2>1. /\ UNCHANGED <<owner, auths, control, published, dispatched, stamp>>
        /\ \A f \in Effect : \/ state'[f] = state[f]
                             \/ state[f] = "receipt_ready" /\ state'[f] = "unknown"
    BY <1>18 DEF DemoteInline, Degrade, Demotable, Waits
  <2> QED
    BY <2>1
<1>19. ASSUME NEW e \in Effect, CancelUnsentIntent(e) PROVE AuthorizationInv'
  BY <1>19 DEF CancelUnsentIntent, NoSendInFlight, Unbound, NeverSent
<1>20. ASSUME NEW g \in Entity, NEW s \in Effect, NEW d \in Delivery, ReleaseVoid(g, s, d)
      PROVE  AuthorizationInv'
  <2> DEFINE T == Unresolved(g)
  <2>1. /\ T \subseteq Effect
        /\ \A e \in Effect : e \in T <=> EntityOf[e] = g /\ state[e] = "unknown"
        /\ \A e \in Effect \ T : EntityOf[e] = g =>
             \/ state[e] \in {"absent", "voided", "cancelled"}
             \/ state[e] = "applied" /\ RevOf[e] # RevOf[s]
        /\ EntityOf[s] = g /\ state[s] = "absent" /\ s \notin T /\ RevOf[s] = current[g]
        /\ \A v \in Effect : successor[v] # s
        /\ d \notin dispatched
    BY <1>20 DEF ReleaseVoid, VoidWithSuccessor, Unresolved, VoidEligible, Unbound
  <2>2. /\ \A e \in Effect :
             /\ state'[e] = IF e \in T THEN "voided" ELSE IF e = s THEN "pending" ELSE state[e]
             /\ successor'[e] = IF e \in T THEN s ELSE successor[e]
             /\ bound'[e] = IF e \in T THEN d ELSE bound[e]
        /\ dispatched' = dispatched \cup {d}
        /\ current' = [current EXCEPT ![g] = current[g]]
        /\ outdated' = [outdated EXCEPT ![g] = dispatched]
        /\ stamp' = [stamp EXCEPT ![d] = generation]
        /\ BackendOf[d] = backend
        /\ UNCHANGED <<owner, consumed, control>>
    BY <1>20 DEF ReleaseVoid, VoidWithSuccessor, Publish
  <2> HIDE DEF T
  <2>3. \A e \in T : ~ Authorized(e) /\ consumed[e] = NoDelivery
    BY <2>1
  <2>4. VoidedIffAuthorized' /\ NothingConsumedUnauthorized'
    BY <2>1, <2>2, <2>3
  <2>5. SuccessorLinked'
    BY <2>1, <2>2, <2>3
  <2>6. OneOpenSuccessor'
    <3> SUFFICES ASSUME NEW v \in Effect, NEW w \in Effect, Authorized(v)', Authorized(w)'
                 PROVE  /\ successor'[v] = successor'[w] => bound'[v] = bound'[w]
                        /\ SameEntity(v, w) /\ AuthorizationOpen(v)' /\ AuthorizationOpen(w)'
                             => successor'[v] = successor'[w]
      OBVIOUS
    <3>1. \A e \in Effect \ T : Authorized(e)' =>
            /\ Authorized(e) /\ successor'[e] = successor[e] /\ bound'[e] = bound[e]
            /\ successor[e] # s
            /\ AuthorizationOpen(e)' => AuthorizationOpen(e) /\ EntityOf[e] # g
      BY <2>1, <2>2
    <3>2. CASE v \in T /\ w \in T
      BY <3>2, <2>2
    <3>3. CASE v \in T /\ w \notin T
      BY <3>1, <3>3, <2>1, <2>2
    <3>4. CASE v \notin T /\ w \in T
      BY <3>1, <3>4, <2>1, <2>2
    <3>5. CASE v \notin T /\ w \notin T
      BY <3>1, <3>5
    <3> QED
      BY <3>2, <3>3, <3>4, <3>5
  <2>7. ASSUME NEW v \in Effect, v \notin T, Authorized(v)', (state[successor[v]] = "pending")'
        PROVE  /\ Authorized(v) /\ successor'[v] = successor[v] /\ bound'[v] = bound[v]
               /\ state[successor[v]] = "pending" /\ EntityOf[v] # g /\ bound[v] # d
    BY <2>1, <2>2, <2>7
  <2>8. PendingSuccessorAlone'
    <3> SUFFICES ASSUME NEW v \in Effect, NEW f \in Effect, Authorized(v)',
                        (state[successor[v]] = "pending")', SameEntity(f, v),
                        f # successor'[v]
                 PROVE  /\ state'[f] \notin {"sending", "unknown", "receipt_ready"}
                        /\ PinsRevision => NoRival(f, v)'
      OBVIOUS
    <3>1. CASE v \in T
      BY <3>1, <2>1, <2>2
    <3>2. CASE v \notin T
      BY <3>2, <2>7, <2>1, <2>2
    <3> QED
      BY <3>1, <3>2
  <2>10. SuccessorPublished'
    BY <2>1, <2>2, <2>3
  <2>9. PendingSuccessorAdmitted'
    <3> SUFFICES ASSUME NEW v \in Effect, Authorized(v)', (state[successor[v]] = "pending")'
                 PROVE  ControlAdmits(bound[v])'
      OBVIOUS
    <3>1. CASE v \in T
      BY <3>1, <2>1, <2>2 DEF NoGeneration
    <3>2. CASE v \notin T
      BY <3>2, <2>7, <2>1, <2>2
    <3> QED
      BY <3>1, <3>2
  <2> QED
    BY <2>4, <2>5, <2>6, <2>8, <2>9, <2>10
<1>21. ASSUME NEW to \in Backends, SwitchBackend(to) PROVE AuthorizationInv'
  BY <1>21 DEF SwitchBackend, Drained
<1>22. ASSUME NEW g \in Entity, NEW r \in Revision, PublishRevision(g, r)
      PROVE  AuthorizationInv'
  BY <1>22 DEF PublishRevision, Publish
<1>23. CASE RaiseContract
  BY <1>23 DEF RaiseContract
<1>24. CASE UNCHANGED vars
  BY <1>24 DEF vars
<1> QED
  BY <1>1, <1>2, <1>3, <1>4, <1>5, <1>6, <1>7, <1>8, <1>9, <1>10, <1>11, <1>12, <1>13, <1>14,
     <1>15, <1>16, <1>17, <1>18, <1>19, <1>20, <1>21, <1>22, <1>23, <1>24 DEF Next

\* The authorizations are correct in every reachable state.
LEMMA AuthorizationCorrect == Spec => []AuthorizationInv
<1>1. Init => AuthorizationInv
  BY NullAssumption
  DEF Init, AuthorizationInv, Authorized, VoidedIffAuthorized, NothingConsumedUnauthorized,
      SuccessorLinked, OneOpenSuccessor, PendingSuccessorAlone, PendingSuccessorAdmitted,
      SuccessorPublished
<1> QED
  BY <1>1, AuthorizationInductive, TypeCorrect, LedgerCorrect, PTL DEF Spec

\* A pending authorized successor whose delivery no later publication or
\* contract release has outdated is never wedged: that delivery passes the
\* checks of the batch claim, the control fence, the entity gate and every
\* authorization of the entity.
THEOREM SuccessorNeverWedged == Spec => []AuthorizedSuccessorClaimable
<1>1. TypeOK /\ LedgerInv /\ AuthorizationInv => AuthorizedSuccessorClaimable
  <2> SUFFICES ASSUME TypeOK, LedgerInv, AuthorizationInv,
                      NEW v \in Effect, successor[v] # NoEffect,
                      state[successor[v]] \in {"absent", "pending"},
                      PinsRevision => /\ bound[v] \notin outdated[EntityOf[v]]
                                      /\ ContractOf[UnitOf[successor[v]]] = contract
               PROVE  ClaimAdmitted(bound[v], successor[v])
    BY DEF AuthorizedSuccessorClaimable
  <2> DEFINE s == successor[v]
  <2>1. s \in Effect /\ state[s] = "pending" /\ SameEntity(v, s)
    BY DEF TypeOK, AuthorizationInv, SuccessorLinked, Authorized
  <2>2. ControlAdmits(bound[v])
    BY <2>1 DEF AuthorizationInv, PendingSuccessorAdmitted, Authorized
  <2>3. \A f \in Effect \ {s} : SameEntity(f, s)
           => /\ state[f] \notin {"sending", "unknown", "receipt_ready"}
              /\ PinsRevision => NoRival(f, v)
    BY <2>1 DEF AuthorizationInv, PendingSuccessorAlone, Authorized, SameEntity
  <2>4. ~ GateBlocked(s) /\ ~ ReceiptBlocked(s)
    BY <2>3 DEF GateBlocked, ReceiptBlocked, GateStates
  <2>5. AuthorizationAdmits(bound[v], s)
    BY <2>1 DEF AuthorizationAdmits, AuthorizationInv, OneOpenSuccessor, Authorized,
                AuthorizationOpen, OpenStates, SameEntity
  <2>6. ASSUME PinsRevision PROVE MaySend(bound[v], s)
    BY <2>1, <2>6 DEF MaySend, AuthorizationInv, SuccessorPublished, Authorized, SameEntity
  <2>7. ASSUME PinsRevision PROVE NothingToReconcile(bound[v], s)
    BY <2>3, <2>7 DEF NothingToReconcile, NoRival, OpenStates
  <2>8. ~ LegacyReceipt(s) /\ ~ SealedHistory(s)
    BY <2>1, <2>3 DEF LegacyReceipt, SealedHistory
  <2> QED
    BY <2>2, <2>4, <2>5, <2>6, <2>7, <2>8 DEF ClaimAdmitted, BatchAdmits, StoreAdmits
<1> QED
  BY <1>1, TypeCorrect, LedgerCorrect, AuthorizationCorrect, PTL

\* The claim an authorization names is won by its bound delivery, and whoever
\* works on the successor runs that delivery or resumes a wait it recorded.
THEOREM SuccessorBound == Spec => []SuccessorSentByBoundDelivery
<1>1. TypeOK /\ LedgerInv /\ AuthorizationInv => SuccessorSentByBoundDelivery
  <2> SUFFICES ASSUME TypeOK, LedgerInv, AuthorizationInv,
                      NEW v \in Effect, successor[v] # NoEffect
               PROVE  LET s == successor[v] IN
                      /\ consumed[v] = owner[s] /\ owner[s] \in {bound[v], NoDelivery}
                      /\ calls[s] > 0 => owner[s] = bound[v]
                      /\ \A w \in Worker : role[w] # "idle" /\ on[w] = s =>
                           job[w] = bound[v] \/ (role[w] = "resumer" /\ s \in deferred)
    BY DEF SuccessorSentByBoundDelivery
  <2> DEFINE s == successor[v]
  <2>1. /\ s \in Effect /\ consumed[v] = owner[s]
        /\ owner[s] \in {bound[v], NoDelivery}
    BY DEF TypeOK, AuthorizationInv, SuccessorLinked, Authorized
  <2>2. calls[s] > 0 => owner[s] = bound[v]
    BY <2>1 DEF LedgerInv, OwnerLedger
  <2>3. ASSUME NEW w \in Worker, role[w] # "idle", on[w] = s
        PROVE  job[w] = bound[v] \/ (role[w] = "resumer" /\ s \in deferred)
    <3>1. CASE role[w] = "winner"
      <4>1. owner[s] = job[w] /\ job[w] \in Delivery
        BY <2>3, <3>1 DEF LedgerInv, WorkerLedger, TypeOK
      <4> QED
        BY <4>1, <2>1, NullAssumption
    <3>2. CASE role[w] = "resumer"
      BY <2>3, <3>2 DEF LedgerInv, WorkerLedger
    <3> QED
      BY <3>1, <3>2, <2>3 DEF TypeOK
  <2> QED
    BY <2>1, <2>2, <2>3
<1> QED
  BY <1>1, TypeCorrect, LedgerCorrect, AuthorizationCorrect, PTL

\* A row is voided exactly when an authorization row names its successor, and
\* that successor has a row no one can cancel.
THEOREM VoidAuthorized == Spec => []VoidIsAuthorized
<1>1. AuthorizationInv => VoidIsAuthorized
  BY DEF AuthorizationInv, VoidedIffAuthorized, SuccessorLinked, Authorized, VoidIsAuthorized
<1> QED
  BY <1>1, AuthorizationCorrect, PTL

-----------------------------------------------------------------------------
(* Receipts.  A winner that can still answer for an identity faces a row    *)
(* with no receipt, and whatever the closure has listed can only hold a     *)
(* waiting one: that is why the stale status it trusts is still good.       *)

Winner(w, e) == role[w] = "winner" /\ on[w] = e

ReceiptInv ==
  /\ RowShape
  /\ \A e \in Effect : state[e] \in {"receipt_ready", "applied"} =>
       \A w \in Worker : ~ Winner(w, e)
  /\ \A e \in listed :
       /\ state[e] \in {"receipt_ready", "applied", "unknown", "voided"}
       /\ state[e] = "receipt_ready" => result[e] \in Waiting
       /\ state[e] = "unknown" => \A w \in Worker : ~ Winner(w, e)

LEMMA ReceiptInductive ==
  TypeOK /\ LedgerInv /\ ReceiptInv /\ [Next]_vars => ReceiptInv'
<1> SUFFICES ASSUME TypeOK, LedgerInv, ReceiptInv, [Next]_vars PROVE ReceiptInv'
  OBVIOUS
<1> USE CoordinateAssumption, NullAssumption
<1> USE DEF TypeOK, LedgerInv, OwnerLedger, WorkerLedger, Unclaimed, ReceiptInv, Winner,
            RowShape, States, OpenStates, ResolvedStates, GateStates,
            rows, auths, control, published, queue, runs, paid
<1>1. ASSUME NEW d \in Delivery, Dispatch(d) PROVE ReceiptInv'
  BY <1>1 DEF Dispatch
<1>2. ASSUME NEW e \in Effect, AdmitIntent(e) PROVE ReceiptInv'
  BY <1>2 DEF AdmitIntent
<1>3. ASSUME NEW w \in Worker, NEW d \in Delivery, NEW e \in Effect, ReserveWins(w, d, e)
      PROVE  ReceiptInv'
  BY <1>3 DEF ReserveWins, Start, Claimable
<1>4. ASSUME NEW d \in Delivery, NEW e \in Effect, ReserveHeld(d, e) PROVE ReceiptInv'
  BY <1>4 DEF ReserveHeld
<1>5. ASSUME NEW w \in Worker, NEW d \in Delivery, NEW e \in Effect, ResumeWaiting(w, d, e)
      PROVE  ReceiptInv'
  BY <1>5 DEF ResumeWaiting, Start
<1>6. ASSUME NEW w \in Worker, CheckSend(w) PROVE ReceiptInv'
  BY <1>6 DEF CheckSend
<1>7. ASSUME NEW w \in Worker, CallProvider(w) PROVE ReceiptInv'
  BY <1>7 DEF CallProvider
<1>8. ASSUME NEW w \in Worker, NEW r \in Receipt, RecordResult(w, r) PROVE ReceiptInv'
  BY <1>8 DEF RecordResult, Finish, TakesAnswer, OwnsSend
<1>9. ASSUME NEW w \in Worker, MarkUnknown(w) PROVE ReceiptInv'
  BY <1>9 DEF MarkUnknown, Finish
<1>10. ASSUME NEW w \in Worker, SettleSuperseded(w) PROVE ReceiptInv'
  BY <1>10 DEF SettleSuperseded, Finish, OwnsSend
<1>11. ASSUME NEW w \in Worker, Crash(w) PROVE ReceiptInv'
  BY <1>11 DEF Crash, Finish
<1>12. ASSUME NEW e \in Effect, RecordApplication(e) PROVE ReceiptInv'
  BY <1>12 DEF RecordApplication, Apply, Publish
<1>13. ASSUME NEW w \in Worker, ApplyResumed(w) PROVE ReceiptInv'
  BY <1>13 DEF ApplyResumed, Apply, Publish, Finish
<1>14. ASSUME NEW e \in Effect, LeaseExpires(e) PROVE ReceiptInv'
  BY <1>14 DEF LeaseExpires
<1>15. CASE SettleExpiredSends
  BY <1>15 DEF SettleExpiredSends, Due
<1>16. ASSUME NEW e \in Effect, ListDemotable(e) PROVE ReceiptInv'
  BY <1>16 DEF ListDemotable, Demotable, Waits
<1>17. ASSUME NEW e \in Effect, DemoteListed(e) PROVE ReceiptInv'
  <2>1. CASE state[e] = "receipt_ready"
    <3>1. /\ state' = [state EXCEPT ![e] = "unknown"]
          /\ result' = [result EXCEPT ![e] = NoReceipt]
          /\ listed' = listed \ {e} /\ UNCHANGED <<owner, lease, role, on>>
      BY <1>17, <2>1 DEF DemoteListed, Degrade
    <3>2. RowShape'
      BY <3>1, <2>1
    <3> QED
      BY <3>1, <3>2, <2>1
  <2>2. CASE state[e] # "receipt_ready"
    <3>1. listed' = listed \ {e} /\ UNCHANGED <<state, result, owner, lease, role, on>>
      BY <1>17, <2>2 DEF DemoteListed, Degrade
    <3> QED
      BY <3>1
  <2> QED
    BY <2>1, <2>2
<1>18. ASSUME NEW w \in Worker, DemoteInline(w) PROVE ReceiptInv'
  BY <1>18 DEF DemoteInline, Degrade, Finish, Demotable, Waits
<1>19. ASSUME NEW e \in Effect, CancelUnsentIntent(e) PROVE ReceiptInv'
  BY <1>19 DEF CancelUnsentIntent, NoSendInFlight, NeverSent
<1>20. ASSUME NEW g \in Entity, NEW s \in Effect, NEW d \in Delivery, ReleaseVoid(g, s, d)
      PROVE  ReceiptInv'
  BY <1>20 DEF ReleaseVoid, Publish, VoidWithSuccessor, Unresolved
<1>21. ASSUME NEW to \in Backends, SwitchBackend(to) PROVE ReceiptInv'
  BY <1>21 DEF SwitchBackend
<1>22. ASSUME NEW g \in Entity, NEW r \in Revision, PublishRevision(g, r) PROVE ReceiptInv'
  BY <1>22 DEF PublishRevision, Publish
<1>23. CASE RaiseContract
  BY <1>23 DEF RaiseContract
<1>24. CASE UNCHANGED vars
  BY <1>24 DEF vars
<1> QED
  BY <1>1, <1>2, <1>3, <1>4, <1>5, <1>6, <1>7, <1>8, <1>9, <1>10, <1>11, <1>12, <1>13, <1>14,
     <1>15, <1>16, <1>17, <1>18, <1>19, <1>20, <1>21, <1>22, <1>23, <1>24 DEF Next

\* The receipts are correct in every reachable state.
LEMMA ReceiptCorrect == Spec => []ReceiptInv
<1>1. Init => ReceiptInv
  BY NullAssumption DEF Init, ReceiptInv, RowShape
<1> QED
  BY <1>1, ReceiptInductive, TypeCorrect, LedgerCorrect, PTL DEF Spec

\* No operation ever writes a row the table's CHECK constraint would refuse.
THEOREM RowsWellShaped == Spec => []RowShape
<1>1. ReceiptInv => RowShape
  BY DEF ReceiptInv
<1> QED
  BY <1>1, ReceiptCorrect, PTL

\* What one step can do to a row: an unknown row leaves 'unknown' through the
\* winner of its claim or a void, a resolved row does not move, a final receipt
\* stays.
LEMMA RowStep ==
  ASSUME TypeOK, LedgerInv, ReceiptInv, [Next]_vars, NEW f \in Effect
  PROVE  /\ result[f] \in Receipt \ Waiting => result'[f] = result[f]
         /\ state[f] \in ResolvedStates =>
              state'[f] = state[f] /\ result'[f] = result[f] /\ owner'[f] = owner[f]
         /\ state[f] = "unknown" =>
              /\ state'[f] \in {"unknown", "receipt_ready", "voided"}
              /\ state'[f] = "receipt_ready" =>
                   \E w \in Worker : /\ role[w] = "winner" /\ on[w] = f
                                     /\ job[w] = owner[f] /\ token[w] = fence[f]
<1> USE CoordinateAssumption, NullAssumption
<1> USE DEF TypeOK, LedgerInv, OwnerLedger, Unclaimed, ReceiptInv, RowShape, States,
            OpenStates, ResolvedStates, GateStates,
            rows, auths, control, published, queue, runs, paid
<1> DEFINE Goal ==
      /\ result[f] \in Receipt \ Waiting => result'[f] = result[f]
      /\ state[f] \in ResolvedStates =>
           state'[f] = state[f] /\ result'[f] = result[f] /\ owner'[f] = owner[f]
      /\ state[f] = "unknown" =>
           /\ state'[f] \in {"unknown", "receipt_ready", "voided"}
           /\ state'[f] = "receipt_ready" =>
                \E w \in Worker : /\ role[w] = "winner" /\ on[w] = f
                                  /\ job[w] = owner[f] /\ token[w] = fence[f]
<1>1. ASSUME NEW d \in Delivery, Dispatch(d) PROVE Goal
  BY <1>1 DEF Dispatch
<1>2. ASSUME NEW e \in Effect, AdmitIntent(e) PROVE Goal
  BY <1>2 DEF AdmitIntent
<1>3. ASSUME NEW w \in Worker, NEW d \in Delivery, NEW e \in Effect, ReserveWins(w, d, e)
      PROVE  Goal
  BY <1>3 DEF ReserveWins, Start, Claimable
<1>4. ASSUME NEW d \in Delivery, NEW e \in Effect, ReserveHeld(d, e) PROVE Goal
  BY <1>4 DEF ReserveHeld
<1>5. ASSUME NEW w \in Worker, NEW d \in Delivery, NEW e \in Effect, ResumeWaiting(w, d, e)
      PROVE  Goal
  BY <1>5 DEF ResumeWaiting, Start
<1>6. ASSUME NEW w \in Worker, CheckSend(w) PROVE Goal
  BY <1>6 DEF CheckSend
<1>7. ASSUME NEW w \in Worker, CallProvider(w) PROVE Goal
  BY <1>7 DEF CallProvider
<1>8. ASSUME NEW w \in Worker, NEW r \in Receipt, RecordResult(w, r) PROVE Goal
  BY <1>8 DEF RecordResult, Finish, TakesAnswer, OwnsSend
<1>9. ASSUME NEW w \in Worker, MarkUnknown(w) PROVE Goal
  BY <1>9 DEF MarkUnknown, Finish
<1>10. ASSUME NEW w \in Worker, SettleSuperseded(w) PROVE Goal
  BY <1>10 DEF SettleSuperseded, Finish, OwnsSend
<1>11. ASSUME NEW w \in Worker, Crash(w) PROVE Goal
  BY <1>11 DEF Crash, Finish
<1>12. ASSUME NEW e \in Effect, RecordApplication(e) PROVE Goal
  BY <1>12 DEF RecordApplication, Apply, Publish
<1>13. ASSUME NEW w \in Worker, ApplyResumed(w) PROVE Goal
  BY <1>13 DEF ApplyResumed, Apply, Publish, Finish
<1>14. ASSUME NEW e \in Effect, LeaseExpires(e) PROVE Goal
  BY <1>14 DEF LeaseExpires
<1>15. CASE SettleExpiredSends
  BY <1>15 DEF SettleExpiredSends, Due
<1>16. ASSUME NEW e \in Effect, ListDemotable(e) PROVE Goal
  BY <1>16 DEF ListDemotable, Demotable, Waits
<1>17. ASSUME NEW e \in Effect, DemoteListed(e) PROVE Goal
  BY <1>17 DEF DemoteListed, Degrade
<1>18. ASSUME NEW w \in Worker, DemoteInline(w) PROVE Goal
  BY <1>18 DEF DemoteInline, Degrade, Finish, Demotable, Waits
<1>19. ASSUME NEW e \in Effect, CancelUnsentIntent(e) PROVE Goal
  BY <1>19 DEF CancelUnsentIntent, NoSendInFlight, NeverSent
<1>20. ASSUME NEW g \in Entity, NEW s \in Effect, NEW d \in Delivery, ReleaseVoid(g, s, d)
      PROVE  Goal
  BY <1>20 DEF ReleaseVoid, Publish, VoidWithSuccessor, Unresolved
<1>21. ASSUME NEW to \in Backends, SwitchBackend(to) PROVE Goal
  BY <1>21 DEF SwitchBackend
<1>22. ASSUME NEW g \in Entity, NEW r \in Revision, PublishRevision(g, r) PROVE Goal
  BY <1>22 DEF PublishRevision, Publish
<1>23. CASE RaiseContract
  BY <1>23 DEF RaiseContract
<1>24. CASE UNCHANGED vars
  BY <1>24 DEF vars
<1> QED
  BY <1>1, <1>2, <1>3, <1>4, <1>5, <1>6, <1>7, <1>8, <1>9, <1>10, <1>11, <1>12, <1>13, <1>14,
     <1>15, <1>16, <1>17, <1>18, <1>19, <1>20, <1>21, <1>22, <1>23, <1>24 DEF Next

\* A final receipt survives every late answer, sweep and stale demotion.
THEOREM ReceiptsFinal == Spec => FinalReceiptImmutable
<1>1. TypeOK /\ LedgerInv /\ ReceiptInv /\ [Next]_vars =>
        [\A e \in Effect : result[e] \in Receipt \ Waiting => result'[e] = result[e]]_vars
  BY RowStep
<1> QED
  BY <1>1, TypeCorrect, LedgerCorrect, ReceiptCorrect, PTL DEF Spec, FinalReceiptImmutable

\* Voided, cancelled and applied rows are history.
THEOREM ResolvedStays == Spec => ResolvedIsFinal
<1>1. TypeOK /\ LedgerInv /\ ReceiptInv /\ [Next]_vars =>
        [\A e \in Effect : state[e] \in ResolvedStates =>
           state'[e] = state[e] /\ result'[e] = result[e] /\ owner'[e] = owner[e]]_vars
  BY RowStep
<1> QED
  BY <1>1, TypeCorrect, LedgerCorrect, ReceiptCorrect, PTL DEF Spec, ResolvedIsFinal

\* No claim ever turns an unknown outcome back into a paid call: only the run
\* that won the claim can still answer for it.
THEOREM UnknownStays == Spec => UnknownNeverReplayed
<1>1. TypeOK /\ LedgerInv /\ ReceiptInv /\ [Next]_vars =>
        [\A e \in Effect : state[e] = "unknown" =>
           /\ state'[e] \in {"unknown", "receipt_ready", "voided"}
           /\ state'[e] = "receipt_ready" =>
                \E w \in Worker : /\ role[w] = "winner" /\ on[w] = e
                                  /\ job[w] = owner[e] /\ token[w] = fence[e]]_vars
  BY RowStep, Zenon
<1> QED
  BY <1>1, TypeCorrect, LedgerCorrect, ReceiptCorrect, PTL DEF Spec, UnknownNeverReplayed

\* A debt of an entity is a row its gate holds claims behind.
Debt == GateStates \cup (IF ReceiptGates THEN {"receipt_ready"} ELSE {})

\* Without waiting receipts only a claim opens a debt: nothing is demoted.
LEMMA OnlyClaimsOweMore ==
  ASSUME TypeOK, ReceiptInv, Waiting = {}, [Next]_vars,
         ~ \E w \in Worker, d \in Delivery, e \in Effect : ReserveWins(w, d, e)
  PROVE  \A f \in Effect : state'[f] \in Debt => state[f] \in Debt
<1> USE DEF TypeOK, ReceiptInv, Debt, GateStates,
            rows, auths, control, published, queue, runs, paid
<1> DEFINE Goal == \A f \in Effect : state'[f] \in Debt => state[f] \in Debt
<1>1. ASSUME NEW d \in Delivery, Dispatch(d) PROVE Goal
  BY <1>1 DEF Dispatch
<1>2. ASSUME NEW e \in Effect, AdmitIntent(e) PROVE Goal
  BY <1>2 DEF AdmitIntent
<1>3. ASSUME NEW d \in Delivery, NEW e \in Effect, ReserveHeld(d, e) PROVE Goal
  BY <1>3 DEF ReserveHeld
<1>4. ASSUME NEW w \in Worker, NEW d \in Delivery, NEW e \in Effect, ResumeWaiting(w, d, e)
      PROVE  Goal
  BY <1>4 DEF ResumeWaiting, Start
<1>5. ASSUME NEW w \in Worker, CheckSend(w) PROVE Goal
  BY <1>5 DEF CheckSend
<1>6. ASSUME NEW w \in Worker, CallProvider(w) PROVE Goal
  BY <1>6 DEF CallProvider
<1>7. ASSUME NEW w \in Worker, NEW r \in Receipt, RecordResult(w, r) PROVE Goal
  BY <1>7 DEF RecordResult, Finish, TakesAnswer
<1>8. ASSUME NEW w \in Worker, MarkUnknown(w) PROVE Goal
  BY <1>8 DEF MarkUnknown, Finish
<1>9. ASSUME NEW w \in Worker, SettleSuperseded(w) PROVE Goal
  BY <1>9 DEF SettleSuperseded, Finish
<1>10. ASSUME NEW w \in Worker, Crash(w) PROVE Goal
  BY <1>10 DEF Crash, Finish
<1>11. ASSUME NEW e \in Effect, RecordApplication(e) PROVE Goal
  BY <1>11 DEF RecordApplication, Apply, Publish
<1>12. ASSUME NEW w \in Worker, ApplyResumed(w) PROVE Goal
  BY <1>12 DEF ApplyResumed, Apply, Publish, Finish
<1>13. ASSUME NEW e \in Effect, LeaseExpires(e) PROVE Goal
  BY <1>13 DEF LeaseExpires
<1>14. CASE SettleExpiredSends
  BY <1>14 DEF SettleExpiredSends, Due
<1>15. ASSUME NEW e \in Effect, ListDemotable(e) PROVE Goal
  BY <1>15 DEF ListDemotable
<1>16. ASSUME NEW e \in Effect, DemoteListed(e) PROVE Goal
  BY <1>16 DEF DemoteListed, Degrade
<1>17. ASSUME NEW w \in Worker, DemoteInline(w) PROVE Goal
  BY <1>17 DEF DemoteInline, Degrade, Finish, Demotable, Waits
<1>18. ASSUME NEW e \in Effect, CancelUnsentIntent(e) PROVE Goal
  BY <1>18 DEF CancelUnsentIntent
<1>19. ASSUME NEW g \in Entity, NEW s \in Effect, NEW d \in Delivery, ReleaseVoid(g, s, d)
      PROVE  Goal
  BY <1>19 DEF ReleaseVoid, Publish, VoidWithSuccessor, Unresolved
<1>20. ASSUME NEW to \in Backends, SwitchBackend(to) PROVE Goal
  BY <1>20 DEF SwitchBackend
<1>21. ASSUME NEW g \in Entity, NEW r \in Revision, PublishRevision(g, r) PROVE Goal
  BY <1>21 DEF PublishRevision, Publish
<1>22. CASE RaiseContract
  BY <1>22 DEF RaiseContract
<1>23. CASE UNCHANGED vars
  BY <1>23 DEF vars
<1> QED
  BY <1>1, <1>2, <1>3, <1>4, <1>5, <1>6, <1>7, <1>8, <1>9, <1>10, <1>11, <1>12, <1>13, <1>14,
     <1>15, <1>16, <1>17, <1>18, <1>19, <1>20, <1>21, <1>22, <1>23 DEF Next

\* No send of an entity starts beside an unresolved one, and for calibration
\* beside an unapplied receipt, unless the family has receipts that wait.
THEOREM OneDebt == Spec => []OneDebtPerEntity
<1> DEFINE Alone == \A e, f \in Effect :
             e # f /\ SameEntity(e, f) /\ GateBlocks(e, f) /\ state[e] = "sending"
               => state[f] \notin Debt
           Inv == Waiting = {} => Alone
<1>1. Init => Inv
  BY DEF Init
<1>2. TypeOK /\ ReceiptInv /\ Inv /\ [Next]_vars => Inv'
  <2> SUFFICES ASSUME TypeOK, ReceiptInv, Alone, Waiting = {}, [Next]_vars PROVE Alone'
    OBVIOUS
  <2>1. CASE \E w \in Worker, d \in Delivery, e \in Effect : ReserveWins(w, d, e)
    <3> PICK w \in Worker, d \in Delivery, c \in Effect : ReserveWins(w, d, c)
      BY <2>1
    <3>1. \A f \in Effect \ {c} : SameEntity(f, c) =>
            /\ state[f] \in GateStates => ~ GateBlocks(f, c) /\ ~ GateBlocks(c, f)
            /\ ReceiptGates => state[f] # "receipt_ready"
      BY DEF ReserveWins, ClaimAdmitted, StoreAdmits, GateBlocked, GateBlocks, ReceiptBlocked
    <3>2. \A f \in Effect \ {c} : state'[f] = state[f]
      BY DEF ReserveWins, TypeOK
    <3> QED
      BY <3>1, <3>2 DEF Debt, GateStates, SameEntity
  <2>2. CASE ~ \E w \in Worker, d \in Delivery, e \in Effect : ReserveWins(w, d, e)
    <3>1. \A f \in Effect : state'[f] \in Debt => state[f] \in Debt
      BY <2>2, OnlyClaimsOweMore, Zenon
    <3>2. \A f \in Effect : state'[f] = "sending" => state[f] = "sending"
      BY <2>2, OnlyClaimsSend, Zenon
    <3> QED
      BY <3>1, <3>2, Zenon
  <2> QED
    BY <2>1, <2>2
<1>3. Inv => OneDebtPerEntity
  BY DEF OneDebtPerEntity, Debt
<1> QED
  BY <1>1, <1>2, <1>3, TypeCorrect, ReceiptCorrect, PTL DEF Spec

-----------------------------------------------------------------------------
(* Refinement.  Claims license, resumes renew, calls pay, the first final   *)
(* receipt or application answers, voids retire, cancels seal, a run that   *)
(* ends without its call lapses; every other operation is invisible to the  *)
(* contract.                                                                *)

\* A run that starts is permitted one call.
LEMMA StartPermits ==
  ASSUME TypeOK, NEW w \in Worker, NEW as \in {"winner", "resumer"}, NEW d \in Delivery,
         NEW e \in Effect, NEW n, Start(w, as, d, e, n)
  PROVE  \A f \in Effect : Permits(f)' = IF f = e THEN Permits(f) \cup {w} ELSE Permits(f)
<1>1. role[w] = "idle"
  BY DEF Start
<1>2. \A x \in Worker : /\ role'[x] = IF x = w THEN as ELSE role[x]
                        /\ on'[x] = IF x = w THEN e ELSE on[x]
                        /\ step'[x] = IF x = w THEN "ready" ELSE step[x]
  BY DEF Start, TypeOK
<1> QED
  BY <1>1, <1>2 DEF Permits

\* A run that ends leaves no permit behind.
LEMMA FinishPermits ==
  ASSUME TypeOK, NEW w \in Worker, role[w] # "idle", Finish(w)
  PROVE  \A f \in Effect : Permits(f)' = IF f = on[w] THEN Permits(f) \ {w} ELSE Permits(f)
<1>1. \A x \in Worker : /\ role'[x] = IF x = w THEN "idle" ELSE role[x]
                        /\ x # w => on'[x] = on[x] /\ step'[x] = step[x]
  BY DEF Finish, TypeOK
<1> QED
  BY <1>1 DEF Permits

\* One step of the protocol is one step of the contract, or none.
LEMMA ContractStep ==
  TypeOK /\ LedgerInv /\ ReceiptInv /\ [Next]_vars => [Contract!Next]_(Contract!payments)
<1> SUFFICES ASSUME TypeOK, LedgerInv, ReceiptInv, [Next]_vars
             PROVE  [Contract!Next]_(Contract!payments)
  OBVIOUS
<1> USE CoordinateAssumption, NullAssumption
<1> USE DEF rows, auths, control, published, queue, runs, paid
<1> DEFINE verdict == [e \in Effect |-> Verdict(e)]
           permits == [e \in Effect |-> Permits(e)]
           SameVerdicts == \A f \in Effect : Verdict(f)' = Verdict(f)
           SamePermits == \A f \in Effect : Permits(f)' = Permits(f)
           Becomes(e, v) == \A f \in Effect : Verdict(f)' = IF f = e THEN v ELSE Verdict(f)
           Stutter == owner' = owner /\ calls' = calls /\ SameVerdicts /\ SamePermits
           Ends(w) == \A f \in Effect :
             Permits(f)' = IF f = on[w] THEN Permits(f) \ {w} ELSE Permits(f)
           Goal == [Contract!Next]_(Contract!payments)
<1>a. ASSUME NEW e \in Effect, NEW v, Becomes(e, v) PROVE verdict' = [verdict EXCEPT ![e] = v]
  BY <1>a, Zenon
<1>b. SameVerdicts => verdict' = verdict
  BY Zenon
<1>c. SamePermits => permits' = permits
  BY Zenon
<1>d. ASSUME NEW w \in Worker, on[w] \in Effect, Ends(w)
      PROVE  permits' = [permits EXCEPT ![on[w]] = @ \ {w}]
  BY <1>d, Zenon
<1>e. Stutter => Goal
  BY <1>b, <1>c, Zenon DEF Contract!payments
<1>f. ASSUME NEW w \in Worker, on[w] \in Effect, Ends(w), owner' = owner, calls' = calls,
             SameVerdicts
      PROVE  Goal
  <2>1. CASE w \in Permits(on[w])
    <3>1. Contract!Lapse(on[w], w)
      BY <1>f, <1>b, <1>d, <2>1, Zenon DEF Contract!Lapse
    <3> QED
      BY <3>1, <1>f, Zenon DEF Contract!Next
  <2>2. CASE w \notin Permits(on[w])
    <3>1. Permits(on[w]) \ {w} = Permits(on[w])
      BY <2>2
    <3>2. SamePermits
      BY <1>f, <3>1, Zenon
    <3> QED
      BY <3>2, <1>e, <1>f, Zenon
  <2> QED
    BY <2>1, <2>2
<1>g. ASSUME NEW e \in Effect, owner' = owner, calls' = calls, owner[e] # NoDelivery,
             Verdict(e) = "none", Becomes(e, "answered"),
             SamePermits \/ \E w \in Worker : on[w] = e /\ Ends(w)
      PROVE  Goal
  <2>1. verdict' = [verdict EXCEPT ![e] = "answered"] /\ verdict[e] = "none"
    BY <1>a, <1>g, Zenon
  <2>2. \/ permits' = permits
        \/ \E p \in Worker : permits' = [permits EXCEPT ![e] = @ \ {p}]
    BY <1>c, <1>d, <1>g, Zenon
  <2>3. Contract!Answer(e)
    BY <2>1, <2>2, <1>g, Zenon DEF Contract!Answer
  <2> QED
    BY <2>3, Zenon DEF Contract!Next
<1>h. ASSUME runs' = runs PROVE SamePermits
  BY <1>h DEF Permits
<1>i. \A f \in Effect : owner[f] = NoDelivery <=> state[f] \in Unclaimed
  BY DEF LedgerInv, OwnerLedger
<1>j. \A w \in Worker : role[w] # "idle" => on[w] \in Effect
  BY DEF TypeOK
<1>k. \A f \in listed : state[f] = "receipt_ready" => result[f] \in Waiting
  BY DEF ReceiptInv
<1> HIDE DEF verdict, permits, Ends
<1>1. ASSUME NEW d \in Delivery, Dispatch(d) PROVE Stutter
  BY <1>1 DEF Dispatch, Verdict, Permits
<1>2. ASSUME NEW e \in Effect, AdmitIntent(e) PROVE Stutter
  BY <1>2 DEF AdmitIntent, TypeOK, Verdict, Permits
<1>3. ASSUME NEW w \in Worker, NEW d \in Delivery, NEW e \in Effect, ReserveWins(w, d, e)
      PROVE  Goal
  <2>1. /\ owner[e] = NoDelivery /\ Verdict(e) = "none"
        /\ owner' = [owner EXCEPT ![e] = d] /\ calls' = calls
    BY <1>3, <1>i DEF ReserveWins, Claimable, Verdict, Unclaimed
  <2>2. SameVerdicts
    BY <1>3 DEF ReserveWins, Claimable, Verdict, TypeOK
  <2>3. \A f \in Effect : Permits(f)' = IF f = e THEN Permits(f) \cup {w} ELSE Permits(f)
    BY <1>3, StartPermits DEF ReserveWins
  <2>4. permits' = [permits EXCEPT ![e] = @ \cup {w}]
    BY <2>3, Zenon DEF permits
  <2>5. Contract!License(e, d, w)
    BY <2>1, <2>2, <2>4, <1>b, Zenon DEF Contract!License, verdict, permits
  <2> QED
    BY <2>5, Zenon DEF Contract!Next
<1>4. ASSUME NEW d \in Delivery, NEW e \in Effect, ReserveHeld(d, e) PROVE Stutter
  BY <1>4 DEF ReserveHeld, TypeOK, Verdict, Permits
<1>5. ASSUME NEW w \in Worker, NEW d \in Delivery, NEW e \in Effect, ResumeWaiting(w, d, e)
      PROVE  Goal
  <2>1. /\ owner[e] # NoDelivery /\ Verdict(e) = "none" /\ Waiting # {}
        /\ owner' = owner /\ calls' = calls
    BY <1>5, <1>i DEF ResumeWaiting, Waits, Verdict, Unclaimed
  <2>2. SameVerdicts
    BY <1>5 DEF ResumeWaiting, Verdict
  <2>3. \A f \in Effect : Permits(f)' = IF f = e THEN Permits(f) \cup {w} ELSE Permits(f)
    BY <1>5, StartPermits DEF ResumeWaiting
  <2>4. permits' = [permits EXCEPT ![e] = @ \cup {w}]
    BY <2>3, Zenon DEF permits
  <2>5. Contract!Renew(e, w)
    BY <2>1, <2>2, <2>4, <1>b, Zenon DEF Contract!Renew, verdict, permits
  <2> QED
    BY <2>5, Zenon DEF Contract!Next
<1>6. ASSUME NEW w \in Worker, CheckSend(w) PROVE Stutter
  <2>1. /\ step[w] = "ready" /\ step' = [step EXCEPT ![w] = "cleared"]
        /\ UNCHANGED <<role, on, owner, calls, state, result>>
    BY <1>6 DEF CheckSend
  <2>2. \A x \in Worker : step'[x] # "called" <=> step[x] # "called"
    BY <2>1 DEF TypeOK
  <2> QED
    BY <2>1, <2>2 DEF Permits, Verdict
<1>7. ASSUME NEW w \in Worker, CallProvider(w) PROVE Goal
  <2> DEFINE e == on[w]
  <2>1. /\ e \in Effect /\ w \in Permits(e) /\ SameVerdicts
        /\ owner' = owner /\ calls' = [calls EXCEPT ![e] = @ + 1]
    BY <1>7, <1>j DEF CallProvider, Permits, Verdict
  <2>2. /\ role' = role /\ on' = on
        /\ \A x \in Worker : step'[x] = IF x = w THEN "called" ELSE step[x]
    BY <1>7 DEF CallProvider, TypeOK
  <2>3. Ends(w)
    BY <2>2, <2>1 DEF Permits, Ends
  <2>4. permits' = [permits EXCEPT ![e] = @ \ {w}]
    BY <1>d, <2>1, <2>3, Zenon
  <2>5. Contract!Pay(e, w)
    BY <2>1, <2>4, <1>b, Zenon DEF Contract!Pay, verdict, permits
  <2> QED
    BY <2>5, <2>1, Zenon DEF Contract!Next
<1>8. ASSUME NEW w \in Worker, NEW r \in Receipt, RecordResult(w, r) PROVE Goal
  <2>1. on[w] \in Effect /\ Ends(w)
    BY <1>8, <1>j, FinishPermits DEF RecordResult, Ends
  <2>2. owner' = owner /\ calls' = calls
    BY <1>8 DEF RecordResult
  <2>3. CASE TakesAnswer(w) /\ r \notin Waiting
    <3>1. /\ state[on[w]] \in {"sending", "unknown"}
          /\ state' = [state EXCEPT ![on[w]] = "receipt_ready"]
          /\ result' = [result EXCEPT ![on[w]] = r]
      BY <1>8, <2>3 DEF RecordResult, TakesAnswer, GateStates
    <3>2. Verdict(on[w]) = "none" /\ Becomes(on[w], "answered")
      BY <3>1, <2>1, <2>3 DEF Verdict, TypeOK
    <3>3. owner[on[w]] # NoDelivery
      BY <3>1, <2>1, <1>i DEF Unclaimed
    <3> QED
      BY <3>2, <3>3, <2>1, <2>2, <1>g, Zenon
  <2>4. CASE ~ (TakesAnswer(w) /\ r \notin Waiting)
    <3>1. \/ UNCHANGED <<state, result>>
          \/ /\ state[on[w]] \in {"sending", "unknown"} /\ r \in Waiting
             /\ state' = [state EXCEPT ![on[w]] = "receipt_ready"]
             /\ result' = [result EXCEPT ![on[w]] = r]
      BY <1>8, <2>4 DEF RecordResult, TakesAnswer, GateStates
    <3>2. SameVerdicts
      BY <3>1, <2>1 DEF Verdict, TypeOK
    <3> QED
      BY <3>2, <2>1, <2>2, <1>f, Zenon
  <2> QED
    BY <2>3, <2>4
<1>9. ASSUME NEW w \in Worker, MarkUnknown(w) PROVE Goal
  <2>1. on[w] \in Effect /\ Ends(w)
    BY <1>9, <1>j, FinishPermits DEF MarkUnknown, Ends
  <2>2. owner' = owner /\ calls' = calls /\ SameVerdicts
    BY <1>9 DEF MarkUnknown, Verdict, TypeOK
  <2> QED
    BY <2>1, <2>2, <1>f, Zenon
<1>10. ASSUME NEW w \in Worker, SettleSuperseded(w) PROVE Goal
  <2>1. on[w] \in Effect /\ Ends(w)
    BY <1>10, <1>j, FinishPermits DEF SettleSuperseded, Ends
  <2>2. /\ owner' = owner /\ calls' = calls
        /\ state' = [state EXCEPT ![on[w]] = "applied"]
        /\ state[on[w]] \in {"sending", "receipt_ready"}
        /\ state[on[w]] = "receipt_ready" => result' = result
        /\ \A f \in Effect \ {on[w]} : result'[f] = result[f]
    BY <1>10 DEF SettleSuperseded, TypeOK
  <2>3. CASE state[on[w]] = "sending" \/ result[on[w]] \in Waiting
    <3>1. /\ Verdict(on[w]) = "none" /\ Becomes(on[w], "answered")
          /\ owner[on[w]] # NoDelivery
      BY <2>1, <2>2, <2>3, <1>i DEF Verdict, TypeOK, Unclaimed
    <3> QED
      BY <3>1, <2>1, <2>2, <1>g, Zenon
  <2>4. CASE state[on[w]] = "receipt_ready" /\ result[on[w]] \notin Waiting
    <3>1. SameVerdicts
      BY <2>1, <2>2, <2>4 DEF Verdict, TypeOK
    <3> QED
      BY <3>1, <2>1, <2>2, <1>f, Zenon
  <2> QED
    BY <2>2, <2>3, <2>4
<1>11. ASSUME NEW w \in Worker, Crash(w) PROVE Goal
  <2>1. on[w] \in Effect /\ Ends(w)
    BY <1>11, <1>j, FinishPermits DEF Crash, Ends
  <2>2. owner' = owner /\ calls' = calls /\ SameVerdicts
    BY <1>11 DEF Crash, Verdict
  <2> QED
    BY <2>1, <2>2, <1>f, Zenon
<1>12. ASSUME NEW e \in Effect, RecordApplication(e) PROVE Goal
  <2>1. /\ state[e] = "receipt_ready" /\ state' = [state EXCEPT ![e] = "applied"]
        /\ owner' = owner /\ calls' = calls /\ result' = result
        /\ owner[e] # NoDelivery
    BY <1>12, <1>i DEF RecordApplication, Apply, Unclaimed
  <2>2. SamePermits
    BY <1>12, <1>h DEF RecordApplication
  <2>3. CASE result[e] \in Waiting
    <3>1. Verdict(e) = "none" /\ Becomes(e, "answered")
      BY <2>1, <2>3 DEF Verdict, TypeOK
    <3> QED
      BY <3>1, <2>1, <2>2, <1>g, Zenon
  <2>4. CASE result[e] \notin Waiting
    <3>1. SameVerdicts
      BY <2>1, <2>4 DEF Verdict, TypeOK
    <3> QED
      BY <3>1, <2>1, <2>2, <1>e, Zenon
  <2> QED
    BY <2>3, <2>4
<1>13. ASSUME NEW w \in Worker, ApplyResumed(w) PROVE Goal
  <2>1. on[w] \in Effect /\ Ends(w)
    BY <1>13, <1>j, FinishPermits DEF ApplyResumed, Ends
  <2>2. /\ state[on[w]] = "receipt_ready" /\ state' = [state EXCEPT ![on[w]] = "applied"]
        /\ owner' = owner /\ calls' = calls /\ result' = result
        /\ owner[on[w]] # NoDelivery
    BY <1>13, <2>1, <1>i DEF ApplyResumed, Apply, Unclaimed
  <2>3. CASE result[on[w]] \in Waiting
    <3>1. Verdict(on[w]) = "none" /\ Becomes(on[w], "answered")
      BY <2>1, <2>2, <2>3 DEF Verdict, TypeOK
    <3> QED
      BY <3>1, <2>1, <2>2, <1>g, Zenon
  <2>4. CASE result[on[w]] \notin Waiting
    <3>1. SameVerdicts
      BY <2>1, <2>2, <2>4 DEF Verdict, TypeOK
    <3> QED
      BY <3>1, <2>1, <2>2, <1>f, Zenon
  <2> QED
    BY <2>3, <2>4
<1>14. ASSUME NEW e \in Effect, LeaseExpires(e) PROVE Stutter
  BY <1>14 DEF LeaseExpires, Verdict, Permits
<1>15. ASSUME SettleExpiredSends PROVE Stutter
  BY <1>15 DEF SettleExpiredSends, Due, TypeOK, Verdict, Permits
<1>16. ASSUME NEW e \in Effect, ListDemotable(e) PROVE Stutter
  BY <1>16 DEF ListDemotable, Verdict, Permits
<1>17. ASSUME NEW e \in Effect, DemoteListed(e) PROVE Stutter
  <2>1. owner' = owner /\ calls' = calls /\ SamePermits
    BY <1>17, <1>h DEF DemoteListed
  <2>2. SameVerdicts
    BY <1>17, <1>k DEF DemoteListed, Degrade, Verdict, TypeOK
  <2> QED
    BY <2>1, <2>2
<1>18. ASSUME NEW w \in Worker, DemoteInline(w) PROVE Goal
  <2>1. on[w] \in Effect /\ Ends(w)
    BY <1>18, <1>j, FinishPermits DEF DemoteInline, Ends
  <2>2. owner' = owner /\ calls' = calls
    BY <1>18 DEF DemoteInline
  <2>3. SameVerdicts
    BY <1>18 DEF DemoteInline, Degrade, Demotable, Waits, Verdict, TypeOK
  <2> QED
    BY <2>1, <2>2, <2>3, <1>f, Zenon
<1>19. ASSUME NEW e \in Effect, CancelUnsentIntent(e) PROVE Goal
  <2>1. /\ state[e] = "pending" /\ state' = [state EXCEPT ![e] = "cancelled"]
        /\ owner[e] = NoDelivery /\ owner' = owner /\ calls' = calls /\ result' = result
    BY <1>19, <1>i DEF CancelUnsentIntent, NeverSent, Unclaimed
  <2>2. Verdict(e) = "none" /\ Becomes(e, "sealed")
    BY <2>1 DEF Verdict, TypeOK
  <2>3. permits' = permits
    BY <1>19, <1>c, <1>h DEF CancelUnsentIntent
  <2>4. Contract!Seal(e)
    BY <2>1, <2>2, <2>3, <1>a, Zenon DEF Contract!Seal, verdict, permits
  <2> QED
    BY <2>4, Zenon DEF Contract!Next
<1>20. ASSUME NEW g \in Entity, NEW s \in Effect, NEW d \in Delivery, ReleaseVoid(g, s, d)
      PROVE  Goal
  <2> DEFINE T == Unresolved(g)
  <2>1. /\ T \in SUBSET Effect /\ T # {}
        /\ \A e \in T : state[e] = "unknown"
        /\ state[s] = "absent"
    BY <1>20 DEF ReleaseVoid, Unresolved, VoidEligible
  <2>2. /\ owner' = owner /\ calls' = calls /\ result' = result
        /\ state' = [e \in Effect |->
             IF e \in T THEN "voided" ELSE IF e = s THEN "pending" ELSE state[e]]
    BY <1>20 DEF ReleaseVoid, VoidWithSuccessor
  <2>3. permits' = permits
    BY <1>20, <1>c, <1>h DEF ReleaseVoid
  <2> HIDE DEF T
  <2>4. /\ \A e \in T : owner[e] # NoDelivery /\ Verdict(e) = "none"
        /\ \A f \in Effect : Verdict(f)' = IF f \in T THEN "retired" ELSE Verdict(f)
    BY <2>1, <2>2, <1>i DEF Verdict, Unclaimed
  <2>5. verdict' = [e \in Effect |-> IF e \in T THEN "retired" ELSE verdict[e]]
    BY <2>4, Zenon DEF verdict
  <2>6. \A e \in T : owner[e] # NoDelivery /\ verdict[e] = "none"
    BY <2>1, <2>4, Zenon DEF verdict
  <2>7. Contract!Retire(T)
    BY <2>1, <2>2, <2>3, <2>5, <2>6, Zenon DEF Contract!Retire, verdict, permits
  <2> QED
    BY <2>1, <2>7, Zenon DEF Contract!Next
<1>21. ASSUME NEW to \in Backends, SwitchBackend(to) PROVE Stutter
  BY <1>21 DEF SwitchBackend, Verdict, Permits
<1>22. ASSUME NEW g \in Entity, NEW r \in Revision, PublishRevision(g, r) PROVE Stutter
  BY <1>22 DEF PublishRevision, Publish, Verdict, Permits
<1>23. ASSUME RaiseContract PROVE Stutter
  BY <1>23 DEF RaiseContract, Verdict, Permits
<1>24. ASSUME UNCHANGED vars PROVE Stutter
  BY <1>24 DEF vars, Verdict, Permits
<1> HIDE DEF Stutter, Goal
<1>25. Goal
  BY <1>e, <1>1, <1>2, <1>3, <1>4, <1>5, <1>6, <1>7, <1>8, <1>9, <1>10, <1>11, <1>12, <1>13,
     <1>14, <1>15, <1>16, <1>17, <1>18, <1>19, <1>20, <1>21, <1>22, <1>23, <1>24 DEF Next
<1> QED
  BY <1>25 DEF Goal

\* The protocol refines the payment contract: one licence, one permitted call
\* unless a recorded wait renews it, one verdict for each identity.
THEOREM KeepsContract == Spec => ImplementsContract
<1>1. Init => Contract!Init
  BY DEF Init, Contract!Init, Verdict, Permits
<1> QED
  BY <1>1, ContractStep, TypeCorrect, LedgerCorrect, ReceiptCorrect, PTL
  DEF Spec, ImplementsContract, Contract!Spec
=============================================================================
