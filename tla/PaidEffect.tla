----------------------------- MODULE PaidEffect -----------------------------
(***************************************************************************)
(* The durable paid-effect protocol of src/core/paid-work: one family of   *)
(* paid provider calls, the rows of paid_effect, the authorizations of     *)
(* void + successor, the (backend, generation) control row, and the        *)
(* workers that win a claim, call the provider and bring the answer back.  *)
(* PinsRevision selects the question-admission family, whose job checks    *)
(* publication and history around the store's claim and resumes a run      *)
(* whose recorded answer is to wait.                                       *)
(*                                                                         *)
(* Every store operation is one transaction that takes the family advisory *)
(* lock first, so an operation is one action.  What lies between two       *)
(* transactions of a worker (the physical call, a crash, a lease running   *)
(* out, an operator's void) is an interleaving here.                       *)
(***************************************************************************)
EXTENDS Integers

CONSTANTS
  Effect,          \* paid-effect identities of the family
  Entity,          \* entity ids
  Revision,        \* entity revisions
  Unit,            \* unit coordinates
  EntityOf, RevOf, UnitOf,   \* the coordinates of an identity
  FeatureRep,      \* item-prior identities whose unit is feature/rep:N
  Delivery,        \* scheduler deliveries (pg-boss job id, DBOS workflow id)
  BackendOf,       \* the backend of a delivery
  Worker,          \* executions of a delivery; one delivery may run in several
  Receipt,         \* results a send can bring back
  Waiting,         \* receipts whose status is 'waiting' (admission only)
  NoEffect, NoDelivery, NoReceipt,
  Switchable,      \* FALSE for the families whose switch is unsupported
  Reauthorizable,  \* TRUE for the family the void release operates on
  ReceiptGates,    \* TRUE for calibration: an unapplied receipt holds a claim
  PinsRevision,    \* TRUE for question admission (see above)
  ContractOf,      \* the admission contract version a unit belongs to
  MaxGeneration,   \* bound: backend switches explored
  MaxContract,     \* bound: contract releases explored
  MaxCalls         \* bound: an identity called this often is not resumed

Backends == {"pg-boss", "dbos"}
NoGeneration == -1   \* a delivery dispatched without a generation

\* What a delivery queued without a generation reads as: the admission job
\* takes its absence for generation 0.
Unstamped == IF PinsRevision THEN 0 ELSE NoGeneration

ASSUME CoordinateAssumption ==
  /\ EntityOf \in [Effect -> Entity]
  /\ RevOf \in [Effect -> Revision]
  /\ UnitOf \in [Effect -> Unit]
  /\ FeatureRep \subseteq Effect
  /\ BackendOf \in [Delivery -> Backends]
  /\ Waiting \subseteq Receipt
  /\ ContractOf \in [Unit -> Nat]

ASSUME NullAssumption ==
  NoEffect \notin Effect /\ NoDelivery \notin Delivery /\ NoReceipt \notin Receipt

ASSUME ProfileAssumption ==
  /\ Switchable \in BOOLEAN /\ Reauthorizable \in BOOLEAN /\ ReceiptGates \in BOOLEAN
  /\ PinsRevision \in BOOLEAN
  /\ MaxGeneration \in Nat /\ MaxContract \in Nat /\ MaxCalls \in Nat

VARIABLES
  state,       \* row state of each identity; "absent" while there is no row
  fence,       \* row fence
  owner,       \* delivery_id / delivery_backend of the admitted send
  lease,       \* "none", "live" or "expired"
  result,      \* result_json
  successor,   \* authorization row keyed by the voided identity: its successor
  bound,       \* ... and the delivery bound to that successor
  consumed,    \* ... and consumed_delivery_id
  backend, generation,   \* the control row (its absence is pg-boss, 0)
  current,     \* the revision each entity is published at
  outdated,    \* deliveries queued before the last publication of an entity
  contract,    \* the admission contract version deployed
  dispatched,  \* deliveries a producer has queued
  stamp,       \* the generation persisted in a delivery's dispatch
  role,        \* "winner" of a claim, "resumer" of a waiting receipt or "idle"
  job, on,     \* the delivery a worker runs and the identity it works on
  token,       \* the fence it won, or read from the row it resumes
  step,        \* "ready", "cleared" by the check before a call, or "called"
  calls,       \* history: physical calls that left for an identity
  deferred,    \* history: identities a waiting receipt was recorded for
  listed       \* rows the closure sweep read as demotable, not yet demoted

rows == <<state, fence, owner, lease, result>>
auths == <<successor, bound, consumed>>
control == <<backend, generation>>
published == <<current, outdated, contract>>
queue == <<dispatched, stamp>>
runs == <<role, job, on, token, step>>
paid == <<calls, deferred>>
vars == <<rows, auths, control, published, queue, runs, paid, listed>>

OpenStates == {"pending", "sending", "unknown", "receipt_ready"}
GateStates == {"sending", "unknown"}
ResolvedStates == {"applied", "voided", "cancelled"}
States == OpenStates \cup ResolvedStates \cup {"absent"}

Init ==
  /\ state = [e \in Effect |-> "absent"]
  /\ fence = [e \in Effect |-> 0]
  /\ owner = [e \in Effect |-> NoDelivery]
  /\ lease = [e \in Effect |-> "none"]
  /\ result = [e \in Effect |-> NoReceipt]
  /\ successor = [e \in Effect |-> NoEffect]
  /\ bound = [e \in Effect |-> NoDelivery]
  /\ consumed = [e \in Effect |-> NoDelivery]
  /\ backend = "pg-boss" /\ generation = 0
  /\ current \in [Entity -> Revision]
  /\ outdated = [g \in Entity |-> {}]
  /\ contract = 0
  /\ dispatched = {}
  /\ stamp = [d \in Delivery |-> NoGeneration]
  /\ role = [w \in Worker |-> "idle"]
  /\ job = [w \in Worker |-> NoDelivery]
  /\ on = [w \in Worker |-> NoEffect]
  /\ token = [w \in Worker |-> 0]
  /\ step = [w \in Worker |-> "ready"]
  /\ calls = [e \in Effect |-> 0]
  /\ deferred = {}
  /\ listed = {}

-----------------------------------------------------------------------------
(* The three admission predicates a claim evaluates under its locks.       *)

SameEntity(e, f) == EntityOf[e] = EntityOf[f]

\* decidePaidEffectControlAdmission: bootstrap admits an unversioned delivery.
ControlAdmits(d) ==
  /\ BackendOf[d] = backend
  /\ IF stamp[d] = NoGeneration
       THEN backend = "pg-boss" /\ generation = 0
       ELSE stamp[d] = generation

\* Only item-prior feature reps of one revision are parallel siblings.
GateBlocks(b, c) ==
  ~ /\ b \in FeatureRep /\ c \in FeatureRep
    /\ RevOf[b] = RevOf[c] /\ UnitOf[b] # UnitOf[c]

\* Mutant: the gate is scoped to one revision.
GateBlockedOneRevision(e) ==
  \E b \in Effect \ {e} : /\ SameEntity(b, e) /\ RevOf[b] = RevOf[e]
                         /\ state[b] \in GateStates /\ GateBlocks(b, e)

GateBlocked(e) ==
  \E b \in Effect \ {e} :
    SameEntity(b, e) /\ state[b] \in GateStates /\ GateBlocks(b, e)

\* Mutant: only a receipt of the same revision holds the claim.
ReceiptBlockedOneRevision(e) ==
  ReceiptGates /\ \E b \in Effect \ {e} :
    SameEntity(b, e) /\ RevOf[b] = RevOf[e] /\ state[b] = "receipt_ready"

\* Calibration also holds a claim behind another effect's unapplied receipt.
ReceiptBlocked(e) ==
  ReceiptGates /\ \E b \in Effect \ {e} : SameEntity(b, e) /\ state[b] = "receipt_ready"

\* A missing successor row reads as open.
AuthorizationOpen(v) ==
  /\ successor[v] # NoEffect
  /\ state[successor[v]] \in OpenStates \cup {"absent"}

\* Mutant: the delivery that claims the successor is not compared.
AuthorizationAdmitsAny(d, e) ==
  \A v \in Effect : SameEntity(v, e) /\ AuthorizationOpen(v) => e = successor[v]

\* While an authorization of the entity is open only its successor may be
\* claimed, and only by the delivery bound to it.
AuthorizationAdmits(d, e) ==
  \A v \in Effect : SameEntity(v, e) /\ AuthorizationOpen(v)
                       => e = successor[v] /\ d = bound[v]

\* claimLockedRow: control, authorization and gates, in the store's own claim.
StoreAdmits(d, e) ==
  /\ ControlAdmits(d)
  /\ ~ GateBlocked(e) /\ ~ ReceiptBlocked(e)
  /\ AuthorizationAdmits(d, e)

\* The published document is the one the identity was frozen from.
Current(e) == current[EntityOf[e]] = RevOf[e]

\* maySend, and the unit of the deployed contract: a queued job is pinned to
\* the revision, digest and admission generation it was queued for, so every
\* later publication makes it stale for good.  Lifecycle, source purpose,
\* declared shapes and terminal verifications are the environment's: a claim
\* they refuse does not happen.
MaySend(d, e) ==
  /\ Current(e) /\ d \notin outdated[EntityOf[e]]
  /\ ContractOf[UnitOf[e]] = contract

\* The wake finds no other row to reconcile: no verdict for the same base, and
\* no row of the same unit that is this revision's or this delivery's.
NothingToReconcile(d, e) ==
  \A f \in Effect \ {e} : SameEntity(f, e) =>
    /\ state[f] = "applied" => RevOf[f] # RevOf[e]
    /\ state[f] \in OpenStates \cup {"applied"} /\ UnitOf[f] = UnitOf[e]
         => RevOf[f] # RevOf[e] /\ owner[f] # d

\* An older contract's answer for the same base is still to be applied.
LegacyReceipt(e) ==
  \E f \in Effect : /\ SameEntity(f, e) /\ RevOf[f] = RevOf[e]
                     /\ ContractOf[UnitOf[f]] < ContractOf[UnitOf[e]]
                     /\ state[f] = "receipt_ready"

\* The base's intent was cancelled; a new identity of it needs an authorization.
SealedHistory(e) ==
  /\ state[e] = "absent"
  /\ \E f \in Effect : SameEntity(f, e) /\ RevOf[f] = RevOf[e] /\ state[f] = "cancelled"
  /\ \A v \in Effect : successor[v] # e

\* claimAdmissionBatch, up to the store's claim.
BatchAdmits(d, e) ==
  PinsRevision => /\ MaySend(d, e) /\ NothingToReconcile(d, e)
                  /\ ~ LegacyReceipt(e) /\ ~ SealedHistory(e)

ClaimAdmitted(d, e) == BatchAdmits(d, e) /\ StoreAdmits(d, e)

\* A wrong delivery claiming the bound successor throws: its transaction,
\* the intent insert included, rolls back.  So does a fenced delivery.
ClaimThrows(d, e) ==
  \/ ~ ControlAdmits(d)
  \/ /\ ~ GateBlocked(e) /\ ~ ReceiptBlocked(e)
     /\ \E v \in Effect : /\ SameEntity(v, e) /\ AuthorizationOpen(v)
                          /\ e = successor[v] /\ d # bound[v]

-----------------------------------------------------------------------------
(* Producers.                                                              *)

\* A producer queues a delivery for the owning backend, stamped with the
\* generation it read; a legacy producer stamps nothing.
Dispatch(d) ==
  /\ d \notin dispatched /\ BackendOf[d] = backend
  /\ dispatched' = dispatched \cup {d}
  /\ \E g \in {generation, Unstamped} : stamp' = [stamp EXCEPT ![d] = g]
  /\ UNCHANGED <<rows, auths, control, published, runs, paid, listed>>

\* A family that persists its intents before any delivery; an existing row is
\* left alone.  Admission only inserts one inside a claim or a release.
AdmitIntent(e) ==
  /\ ~ PinsRevision /\ state[e] = "absent"
  /\ state' = [state EXCEPT ![e] = "pending"]
  /\ UNCHANGED <<fence, owner, lease, result, auths, control, published, queue, runs, paid,
                 listed>>

-----------------------------------------------------------------------------
(* Workers.  A delivery that is redelivered, also while an earlier          *)
(* execution of it still runs, is taken by another worker.                 *)

\* A worker takes up an identity, as the winner of a claim or as a resumer.
Start(w, as, d, e, f) ==
  /\ role[w] = "idle"
  /\ role' = [role EXCEPT ![w] = as]
  /\ job' = [job EXCEPT ![w] = d]
  /\ on' = [on EXCEPT ![w] = e]
  /\ token' = [token EXCEPT ![w] = f]
  /\ step' = [step EXCEPT ![w] = "ready"]

\* It is done, or gone: what it held survives only in the rows.
Finish(w) ==
  /\ role' = [role EXCEPT ![w] = "idle"]
  /\ job' = [job EXCEPT ![w] = NoDelivery]
  /\ on' = [on EXCEPT ![w] = NoEffect]
  /\ token' = [token EXCEPT ![w] = 0]
  /\ step' = [step EXCEPT ![w] = "ready"]

\* Mutant: an unknown outcome is a ticket back to the paid call.
ClaimableAfterUnknown(e) == state[e] \in {"absent", "pending", "unknown"}

\* The claim's CAS: an intent freshly inserted or already pending.
Claimable(e) == state[e] \in {"absent", "pending"}

\* Mutant: a stale fence is handed out.
NextFenceDown(e) == fence[e] - 1

NextFence(e) == fence[e] + 1

\* Reserve admits the intent and, when nothing blocks, moves it to sending
\* under the next fence and spends the authorization bound to it.
ReserveWins(w, d, e) ==
  /\ d \in dispatched
  /\ Claimable(e)
  /\ ClaimAdmitted(d, e)
  /\ state' = [state EXCEPT ![e] = "sending"]
  /\ fence' = [fence EXCEPT ![e] = NextFence(e)]
  /\ owner' = [owner EXCEPT ![e] = d]
  /\ lease' = [lease EXCEPT ![e] = "live"]
  /\ consumed' = [v \in Effect |->
       IF successor[v] = e /\ consumed[v] = NoDelivery THEN d ELSE consumed[v]]
  /\ Start(w, "winner", d, e, NextFence(e))
  /\ UNCHANGED <<result, successor, bound, control, published, queue, paid, listed>>

\* A held reservation commits the intent it inserted.
ReserveHeld(d, e) ==
  /\ d \in dispatched
  /\ state[e] = "absent"
  /\ BatchAdmits(d, e) /\ ~ StoreAdmits(d, e) /\ ~ ClaimThrows(d, e)
  /\ state' = [state EXCEPT ![e] = "pending"]
  /\ UNCHANGED <<fence, owner, lease, result, auths, control, published, queue, runs, paid,
                 listed>>

\* The row holds a receipt that is not an answer yet.
Waits(e) == state[e] = "receipt_ready" /\ result[e] \in Waiting

\* A wake that finds a waiting receipt runs the batch again without a claim,
\* whichever delivery it is, under the fence it reads from the row.
ResumeWaiting(w, d, e) ==
  /\ PinsRevision /\ d \in dispatched /\ ControlAdmits(d)
  /\ Waits(e) /\ Current(e)
  /\ calls[e] < MaxCalls
  /\ Start(w, "resumer", d, e, fence[e])
  /\ UNCHANGED <<rows, auths, control, published, queue, paid, listed>>

\* beforeSend, in a transaction of its own: the input is still published and
\* the row still sends or waits under this fence.  The owner it also compares
\* cannot change under one fence.
CheckSend(w) ==
  /\ PinsRevision /\ role[w] # "idle" /\ step[w] = "ready"
  /\ Current(on[w]) /\ fence[on[w]] = token[w]
  /\ state[on[w]] = "sending" \/ Waits(on[w])
  /\ step' = [step EXCEPT ![w] = "cleared"]
  /\ UNCHANGED <<rows, auths, control, published, queue, role, job, on, token, paid, listed>>

\* The physical provider call, outside every transaction: what the check read
\* may have changed by now, and other families check nothing after the claim.
\* The stage calls of one execution count as one.
CallProvider(w) ==
  /\ role[w] # "idle"
  /\ step[w] = IF PinsRevision THEN "cleared" ELSE "ready"
  /\ calls' = [calls EXCEPT ![on[w]] = @ + 1]
  /\ step' = [step EXCEPT ![w] = "called"]
  /\ UNCHANGED <<rows, auths, control, published, queue, role, job, on, token, deferred, listed>>

\* requireOwnerDelivery: the winning delivery with the winning fence.
OwnsSend(w) == owner[on[w]] = job[w] /\ fence[on[w]] = token[w]

\* Mutant: neither the fence nor the row state is compared on a late answer.
TakesAnswerLate(w) == owner[on[w]] = job[w] /\ state[on[w]] \notin {"absent", "pending"}

TakesAnswer(w) == OwnsSend(w) /\ state[on[w]] \in GateStates

\* The winner's answer, possibly late.  With the winning fence it is recorded
\* on a sending or an unknown row; in every other case the row keeps what it
\* has.  A call that never left is recorded too (a not_sent receipt), and an
\* answer may be that the provider has to be waited for.
RecordResult(w, r) ==
  /\ role[w] = "winner"
  /\ Finish(w)
  /\ IF TakesAnswer(w)
       THEN /\ state' = [state EXCEPT ![on[w]] = "receipt_ready"]
            /\ result' = [result EXCEPT ![on[w]] = r]
            /\ lease' = [lease EXCEPT ![on[w]] = "none"]
            /\ deferred' = IF r \in Waiting THEN deferred \cup {on[w]} ELSE deferred
       ELSE UNCHANGED <<state, result, lease, deferred>>
  /\ UNCHANGED <<fence, owner, auths, control, published, queue, calls, listed>>

\* The winner cannot tell what its call did and classifies it as unknown.
MarkUnknown(w) ==
  /\ role[w] = "winner"
  /\ Finish(w)
  /\ IF OwnsSend(w) /\ state[on[w]] = "sending"
       THEN /\ state' = [state EXCEPT ![on[w]] = "unknown"]
            /\ lease' = [lease EXCEPT ![on[w]] = "none"]
       ELSE UNCHANGED <<state, lease>>
  /\ UNCHANGED <<fence, owner, result, auths, control, published, queue, paid, listed>>

\* A run whose input was superseded, or whose lifecycle no longer permits a
\* send, settles its identity as stale: the winner records a final receipt and
\* applies it in one transaction, any run applies a receipt already there.
SettleSuperseded(w) ==
  LET e == on[w] IN
  /\ PinsRevision /\ role[w] # "idle"
  /\ \/ /\ role[w] = "winner" /\ state[e] = "sending" /\ OwnsSend(w)
        /\ \E r \in Receipt \ Waiting : result' = [result EXCEPT ![e] = r]
     \/ state[e] = "receipt_ready" /\ UNCHANGED result
  /\ state' = [state EXCEPT ![e] = "applied"]
  /\ lease' = [lease EXCEPT ![e] = "none"]
  /\ Finish(w)
  /\ UNCHANGED <<fence, owner, auths, control, published, queue, paid, listed>>

\* A worker process dies, or a resumed run still waits: nothing is written.
Crash(w) ==
  /\ role[w] # "idle"
  /\ Finish(w)
  /\ UNCHANGED <<rows, auths, control, published, queue, paid, listed>>

-----------------------------------------------------------------------------
(* Application and publication.                                            *)

\* A publication: another document, or the same one under a new admission
\* generation.  Either way it leaves the deliveries queued so far outdated.
Publish(g, r) ==
  /\ current' = [current EXCEPT ![g] = r]
  /\ outdated' = [outdated EXCEPT ![g] = dispatched]

\* The application transaction takes a receipt to applied.  An admission may
\* publish its verdict in the same transaction.
Apply(e) ==
  /\ state[e] = "receipt_ready"
  /\ state' = [state EXCEPT ![e] = "applied"]
  /\ \/ UNCHANGED <<current, outdated>>
     \/ PinsRevision /\ \E r \in Revision : Publish(EntityOf[e], r)
  /\ UNCHANGED <<fence, owner, lease, result, auths, control, contract, queue, paid, listed>>

\* A recorded answer is applied by its run or by a later delivery.  A receipt
\* that still waits is applied only as stale, once its input was superseded:
\* the publication that did so came after its owner was queued.
RecordApplication(e) ==
  /\ PinsRevision => \E d \in dispatched : ControlAdmits(d)
  /\ result[e] \in Waiting =>
       owner[e] \in outdated[EntityOf[e]] /\ UNCHANGED <<current, outdated>>
  /\ Apply(e)
  /\ UNCHANGED runs

\* A resumed run that has its answer applies it; the recorded receipt stays.
ApplyResumed(w) ==
  /\ role[w] = "resumer" /\ ControlAdmits(job[w])
  /\ Apply(on[w])
  /\ Finish(w)

-----------------------------------------------------------------------------
(* Recovery sweeps.                                                        *)

LeaseExpires(e) ==
  /\ lease[e] = "live"
  /\ lease' = [lease EXCEPT ![e] = "expired"]
  /\ UNCHANGED <<state, fence, owner, result, auths, control, published, queue, runs, paid,
                 listed>>

\* Mutant: a send some worker still holds is not swept.
DueIfAbandoned ==
  {e \in Effect : state[e] = "sending" /\ lease[e] = "expired" /\ \A w \in Worker : on[w] # e}

Due == {e \in Effect : state[e] = "sending" /\ lease[e] = "expired"}

\* One UPDATE without the family lock: every expired send becomes unknown.
SettleExpiredSends ==
  LET due == Due IN
  /\ due # {}
  /\ state' = [e \in Effect |-> IF e \in due THEN "unknown" ELSE state[e]]
  /\ lease' = [e \in Effect |-> IF e \in due THEN "none" ELSE lease[e]]
  /\ UNCHANGED <<fence, owner, result, auths, control, published, queue, runs, paid, listed>>

\* Mutant: the status of the receipt is not looked at.
DemotableAny(e) == state[e] = "receipt_ready"

Demotable(e) == Waits(e)

\* Mutant: the demoted receipt is kept.
DegradeKeepingReceipt(e) == state' = [state EXCEPT ![e] = "unknown"] /\ UNCHANGED result

\* A receipt proved not to be the run's outcome is reopened, its result cleared.
Degrade(e) ==
  /\ state' = [state EXCEPT ![e] = "unknown"]
  /\ result' = [result EXCEPT ![e] = NoReceipt]

\* The closure lists waiting receipts outside a transaction ...
ListDemotable(e) ==
  /\ e \notin listed /\ Demotable(e)
  /\ listed' = listed \cup {e}
  /\ UNCHANGED <<rows, auths, control, published, queue, runs, paid>>

\* ... and demotes each in its own: a CAS on receipt_ready and the fence.  The
\* status it trusts is the one it listed.
DemoteListed(e) ==
  /\ e \in listed
  /\ listed' = listed \ {e}
  /\ IF state[e] = "receipt_ready"
       THEN Degrade(e)
       ELSE UNCHANGED <<state, result>>
  /\ UNCHANGED <<fence, owner, lease, auths, control, published, queue, runs, paid>>

\* A resumed run that failed demotes the waiting receipt it reads under the
\* family lock, an unresolved stage being the reason.
DemoteInline(w) ==
  /\ role[w] # "idle" /\ Demotable(on[w])
  /\ Degrade(on[w])
  /\ Finish(w)
  /\ UNCHANGED <<fence, owner, lease, auths, control, published, queue, paid, listed>>

-----------------------------------------------------------------------------
(* Operators.                                                              *)

\* Mutant: an obligation with no receipt counts as never sent.
NeverSentNoReceipt(e) == state[e] \in OpenStates /\ result[e] = NoReceipt

NeverSent(e) == state[e] = "pending" /\ fence[e] = 0

\* Mutant: the cancel does not look at the authorizations.
UnboundAlways(e) == TRUE

Unbound(e) == \A v \in Effect : successor[v] # e

NoSendInFlight(g) == \A f \in Effect : EntityOf[f] = g => state[f] # "sending"

\* The never-sent intent is sealed.  Its eligibility is evaluated again in the
\* transaction that cancels it.
CancelUnsentIntent(e) ==
  /\ NeverSent(e) /\ Unbound(e) /\ NoSendInFlight(EntityOf[e])
  /\ state' = [state EXCEPT ![e] = "cancelled"]
  /\ fence' = [fence EXCEPT ![e] = @ + 1]
  /\ UNCHANGED <<owner, lease, result, auths, control, published, queue, runs, paid, listed>>

\* The obligations an operator's void release has to name.
Unresolved(g) == {e \in Effect : EntityOf[e] = g /\ state[e] = "unknown"}

\* Mutant: rows the manifest does not cover are not looked at.
VoidEligibleUncovered(g) == Unresolved(g) # {}

\* evaluateAdmissionVoidGroup: every unknown row is named, every other row is
\* sealed history or a verdict on another base.
VoidEligible(g) ==
  /\ Unresolved(g) # {}
  /\ \A e \in Effect \ Unresolved(g) : EntityOf[e] = g =>
       \/ state[e] \in {"absent", "voided", "cancelled"}
       \/ state[e] = "applied" /\ RevOf[e] # current[g]

\* Each target is retired under one authorization that names the successor and
\* its delivery; the successor's pending intent is admitted with it.
VoidWithSuccessor(targets, s, d) ==
  /\ state' = [e \in Effect |->
       IF e \in targets THEN "voided" ELSE IF e = s THEN "pending" ELSE state[e]]
  /\ fence' = [e \in Effect |-> IF e \in targets THEN fence[e] + 1 ELSE fence[e]]
  /\ successor' = [e \in Effect |-> IF e \in targets THEN s ELSE successor[e]]
  /\ bound' = [e \in Effect |-> IF e \in targets THEN d ELSE bound[e]]

\* releaseAdmissionVoidSuccessor, one transaction: the entity is published again
\* as pending, the fresh bound job is queued for that publication and every
\* named row is voided for it.  A named row is looked up at the base revision,
\* so a row of an older revision makes the release throw.
ReleaseVoid(g, s, d) ==
  LET targets == Unresolved(g) IN
  /\ Reauthorizable /\ VoidEligible(g)
  /\ \A e \in targets : RevOf[e] = current[g]
  /\ EntityOf[s] = g /\ RevOf[s] = current[g] /\ state[s] = "absent"
  /\ ContractOf[UnitOf[s]] = contract
  /\ Unbound(s)
  /\ d \notin dispatched /\ BackendOf[d] = "pg-boss" /\ backend = "pg-boss"
  /\ Publish(g, current[g])
  /\ dispatched' = dispatched \cup {d}
  /\ stamp' = [stamp EXCEPT ![d] = generation]
  /\ VoidWithSuccessor(targets, s, d)
  /\ UNCHANGED <<owner, lease, result, consumed, control, contract, runs, paid, listed>>

\* Mutant: only sends in flight or unknown block a switch.
DrainedOfSends == \A e \in Effect : state[e] \notin GateStates

Drained == \A e \in Effect : state[e] \notin OpenStates

\* Ownership moves only over a fully drained family.
SwitchBackend(to) ==
  /\ Switchable /\ to # backend /\ Drained
  /\ generation < MaxGeneration
  /\ backend' = to
  /\ generation' = generation + 1
  /\ UNCHANGED <<rows, auths, published, queue, runs, paid, listed>>

\* An entity is published for a reason of its own: edited content, a changed
\* dimension, or a pending admission that is closed or reopened.  Only the
\* admission family reads what is published.
PublishRevision(g, r) ==
  /\ PinsRevision /\ Publish(g, r)
  /\ UNCHANGED <<rows, auths, control, contract, queue, runs, paid, listed>>

\* A release of the program moves the admission contract to its next version.
RaiseContract ==
  /\ contract < MaxContract
  /\ contract' = contract + 1
  /\ UNCHANGED <<rows, auths, control, current, outdated, queue, runs, paid, listed>>

-----------------------------------------------------------------------------
Next ==
  \/ \E d \in Delivery : Dispatch(d)
  \/ \E e \in Effect : AdmitIntent(e)
  \/ \E w \in Worker, d \in Delivery, e \in Effect : ReserveWins(w, d, e)
  \/ \E d \in Delivery, e \in Effect : ReserveHeld(d, e)
  \/ \E w \in Worker, d \in Delivery, e \in Effect : ResumeWaiting(w, d, e)
  \/ \E w \in Worker : CheckSend(w)
  \/ \E w \in Worker : CallProvider(w)
  \/ \E w \in Worker, r \in Receipt : RecordResult(w, r)
  \/ \E w \in Worker : MarkUnknown(w)
  \/ \E w \in Worker : SettleSuperseded(w)
  \/ \E w \in Worker : Crash(w)
  \/ \E e \in Effect : RecordApplication(e)
  \/ \E w \in Worker : ApplyResumed(w)
  \/ \E e \in Effect : LeaseExpires(e)
  \/ SettleExpiredSends
  \/ \E e \in Effect : ListDemotable(e)
  \/ \E e \in Effect : DemoteListed(e)
  \/ \E w \in Worker : DemoteInline(w)
  \/ \E e \in Effect : CancelUnsentIntent(e)
  \/ \E g \in Entity, s \in Effect, d \in Delivery : ReleaseVoid(g, s, d)
  \/ \E to \in Backends : SwitchBackend(to)
  \/ \E g \in Entity, r \in Revision : PublishRevision(g, r)
  \/ RaiseContract

Spec == Init /\ [][Next]_vars

\* The lease clock and the sweep that runs on a cron keep going; nothing is
\* assumed of workers, producers or operators.
Recovery ==
  /\ \A e \in Effect : WF_vars(LeaseExpires(e))
  /\ WF_vars(SettleExpiredSends)

FairSpec == Spec /\ Recovery

-----------------------------------------------------------------------------
(* Properties.                                                             *)

TypeOK ==
  /\ state \in [Effect -> States]
  /\ fence \in [Effect -> Nat]
  /\ owner \in [Effect -> Delivery \cup {NoDelivery}]
  /\ lease \in [Effect -> {"none", "live", "expired"}]
  /\ result \in [Effect -> Receipt \cup {NoReceipt}]
  /\ successor \in [Effect -> Effect \cup {NoEffect}]
  /\ bound \in [Effect -> Delivery \cup {NoDelivery}]
  /\ consumed \in [Effect -> Delivery \cup {NoDelivery}]
  /\ backend \in Backends /\ generation \in Nat
  /\ current \in [Entity -> Revision]
  /\ outdated \in [Entity -> SUBSET Delivery]
  /\ contract \in Nat
  /\ dispatched \subseteq Delivery
  /\ stamp \in [Delivery -> Nat \cup {NoGeneration}]
  /\ role \in [Worker -> {"idle", "winner", "resumer"}]
  /\ job \in [Worker -> Delivery \cup {NoDelivery}]
  /\ on \in [Worker -> Effect \cup {NoEffect}]
  /\ \A w \in Worker : role[w] # "idle" => job[w] \in Delivery /\ on[w] \in Effect
  /\ token \in [Worker -> Nat]
  /\ step \in [Worker -> {"ready", "cleared", "called"}]
  /\ calls \in [Effect -> Nat]
  /\ deferred \subseteq Effect
  /\ listed \subseteq Effect

\* An identity is called for at most once, over every redelivery (to the same
\* or another worker), crash, lease expiry, demotion, void and switch, unless
\* the one run that called recorded that its answer has to be waited for
\* (reservePaidEffect: "exactly one leaves as the winner").
AtMostOnePayment ==
  \A e \in Effect : calls[e] > 1 => e \in deferred

\* A call that left the process is never forgotten: its identity is an
\* obligation, a verdict or an explicit void, and never an unsent intent nor
\* one sealed as never sent.
PaymentNeverForgotten ==
  \A e \in Effect : calls[e] > 0 => state[e] \notin {"absent", "pending", "cancelled"}

\* The shape of a row, as the table's CHECK constraint states it: no sequence of
\* operations reaches a row the database would refuse (paid_effect_state_shape_ck).
RowShape ==
  \A e \in Effect :
    /\ owner[e] = NoDelivery <=> state[e] \in {"absent", "pending", "cancelled"}
    /\ lease[e] # "none" <=> state[e] = "sending"
    /\ result[e] # NoReceipt <=> state[e] \in {"receipt_ready", "applied"}

\* The entity gate: two sends of one entity are in flight together only as
\* parallel feature reps of one revision (findGateBlocker).
NoConflictingSends ==
  \A e, f \in Effect :
    e # f /\ SameEntity(e, f) /\ state[e] = "sending" /\ state[f] = "sending"
      => ~ GateBlocks(e, f)

\* Without the waiting receipts a demotion reopens, no send starts beside an
\* unresolved one; with the calibration rule, beside an unapplied receipt.
OneDebtPerEntity ==
  \A e, f \in Effect :
    /\ Waiting = {}
    /\ e # f /\ SameEntity(e, f) /\ GateBlocks(e, f)
    /\ state[e] = "sending"
    => state[f] \notin GateStates \cup (IF ReceiptGates THEN {"receipt_ready"} ELSE {})

\* A switch strands nothing: whoever owns an unfinished send is a delivery the
\* control row would still admit (switchPaidEffectBackend drains first).
OwnerStaysAdmitted ==
  \A e \in Effect : state[e] \in OpenStates \ {"pending"} => ControlAdmits(owner[e])

\* The claim an authorization names is won by the delivery it names, which the
\* authorization records; every call for the successor is made by an execution
\* of that delivery, or resumes a wait that delivery recorded.
SuccessorSentByBoundDelivery ==
  \A v \in Effect : successor[v] # NoEffect =>
    LET s == successor[v] IN
    /\ consumed[v] = owner[s] /\ owner[s] \in {bound[v], NoDelivery}
    /\ calls[s] > 0 => owner[s] = bound[v]
    /\ \A w \in Worker : role[w] # "idle" /\ on[w] = s =>
         job[w] = bound[v] \/ (role[w] = "resumer" /\ s \in deferred)

\* A pending authorized successor can be claimed by its bound delivery until a
\* later publication or contract release outdates that delivery: no gate, no
\* other receipt or verdict, no sealed history, no second authorization, no
\* fence and no switch can wedge it.
AuthorizedSuccessorClaimable ==
  \A v \in Effect :
    /\ successor[v] # NoEffect /\ state[successor[v]] \in {"absent", "pending"}
    /\ PinsRevision => /\ bound[v] \notin outdated[EntityOf[v]]
                       /\ ContractOf[UnitOf[successor[v]]] = contract
    => ClaimAdmitted(bound[v], successor[v])

\* A void retires an obligation for good and is always backed by its
\* authorization row, whose successor has a row of its own.
VoidIsAuthorized ==
  \A v \in Effect :
    /\ state[v] = "voided" <=> successor[v] # NoEffect
    /\ state[v] = "voided" => state[successor[v]] \notin {"absent", "cancelled"}

\* A final receipt (one that does not wait) is never lost, replaced or
\* reopened by a late answer, a sweep or a stale demotion.
FinalReceiptImmutable ==
  [][\A e \in Effect : result[e] \in Receipt \ Waiting => result'[e] = result[e]]_vars

\* Resolved rows are history: no late answer, sweep, claim or operator moves
\* a voided, cancelled or applied row or writes a receipt on it.
ResolvedIsFinal ==
  [][\A e \in Effect : state[e] \in ResolvedStates =>
        state'[e] = state[e] /\ result'[e] = result[e] /\ owner'[e] = owner[e]]_vars

\* An unknown outcome is never sent again by itself: it leaves 'unknown' only
\* with the answer of the run that won its claim, or an operator's void.
UnknownNeverReplayed ==
  [][\A e \in Effect : state[e] = "unknown" =>
        /\ state'[e] \in {"unknown", "receipt_ready", "voided"}
        /\ state'[e] = "receipt_ready" =>
             \E w \in Worker : /\ role[w] = "winner" /\ on[w] = e
                               /\ job[w] = owner[e] /\ token[w] = fence[e]]_vars

\* A send does not stay in flight for ever, whatever became of its worker:
\* an answer, its own verdict or the sweep ends it.
SendsSettle == \A e \in Effect : (state[e] = "sending") ~> (state[e] # "sending")

\* reauthorization.ts: a group is eligible when every unknown row is named,
\* and the release voids every named row.  A row of an older revision is
\* named, passes the evaluation, and cannot be released.
EligibleGroupReleasable ==
  \A g \in Entity : Reauthorizable /\ VoidEligible(g)
                      => \A e \in Unresolved(g) : RevOf[e] = current[g]

\* A receipt that waits is not an answer yet; an applied row is one.
Verdict(e) ==
  CASE state[e] = "cancelled" -> "sealed"
    [] state[e] = "voided" -> "retired"
    [] state[e] = "applied" -> "answered"
    [] state[e] = "receipt_ready" /\ result[e] \notin Waiting -> "answered"
    [] OTHER -> "none"

\* A run is permitted a call until it makes it or ends.
Permits(e) == {w \in Worker : role[w] # "idle" /\ on[w] = e /\ step[w] # "called"}

Contract == INSTANCE PaymentContract WITH
  Holder <- Delivery, NoHolder <- NoDelivery, Permit <- Worker,
  Renewable <- Waiting # {},
  holder <- owner, permits <- [e \in Effect |-> Permits(e)], made <- calls,
  verdict <- [e \in Effect |-> Verdict(e)]

\* The protocol keeps the payment contract: one licence, one permitted call
\* unless a wait renews it, one verdict for each identity (the header of the
\* protocol module).
ImplementsContract == Contract!Spec
=============================================================================
