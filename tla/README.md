# A TLA+ model of the learning project's durable core

The repository is a self-hosted, single-user learning application: a Hono API, a
TanStack front door and a pg-boss worker around one Postgres database. Most of its
volume is content (questions, notes, prompts, screens). What has to be right whatever
the content is a thin layer underneath: paid calls to model providers that must not
be repeated, an event log whose subscribers must see every event once and in order,
scheduled chains that must survive a restart. This directory models that layer.

Paths below are relative to the repository root, which is `src/` in `PROJECT.json`.

## 1. Inventory

### 1.1 Paid work: `src/core/paid-work`, callers in `src/capabilities/practice`

*State.* One `paid_effect` row per identity (family, entity, revision, unit, input
digest): a state, a fence, the owner delivery and its lease, the receipt, the
application. One `paid_effect_authorization` row per voided identity, naming the
successor and the delivery allowed to send it. One control row per family: the
scheduler backend that owns it and a generation.

*Operations.* A producer queues a delivery stamped with the generation it read. A worker
reserves: it admits the intent and, if the control row, the entity gate and the
authorizations agree, moves the row to `sending` under a new fence. Question admission
checks more before that claim: the publication the job was queued for, the contract of
its unit, other rows and verdicts of the base. The worker calls the provider outside any
transaction (admission checks once more, in a transaction of its own, just before) and
records the answer, or classifies the outcome as unknown. An admission answer may be
that the provider has to be waited for; any later wake then runs the batch again,
without a claim and under the fence of the row. A sweep turns expired sends into unknown
obligations. A closure demotes waiting receipts that can never be answered. The
application transaction consumes a receipt. An operator cancels an intent that was never
sent, or voids unknown obligations and releases one successor. A switch moves the family
between pg-boss and DBOS.

*Interaction.* Question admission is driven by the event bus below
(`enqueuePublishedQuestionAdmission` is a subscriber); item priors and calibration
are driven by ticks. All of them share the rows and the family lock.

*Hard behaviours.* The physical call lies between two transactions. A worker may die
before, during or after it; the lease may run out while it is alive; its answer may
arrive after a void, a demotion or a switch; its delivery is redelivered under the same
id meanwhile, perhaps while the first execution still runs. Two wakes may resume one
waiting receipt. What the check before a call read may have changed when the call leaves.

*What makes it correct.* No identity is called for twice unless its winner recorded that
the answer must be waited for; a call that left is never forgotten; sends of an entity
exclude each other except parallel feature reps; a final receipt is immutable; resolved
rows stay resolved; an authorized successor can be claimed, by its delivery alone, until a
later publication or contract release; a switch strands nothing; no send stays in flight
for ever.

### 1.2 Event subscriptions: `src/server/events/subscriptions`

*State.* The immutable event log; a checkpoint per subscriber and version (lease,
`next_delivery_seq`); a delivery row per event (status, `delivery_seq`, attempts,
redrives, lease, next attempt).

*Operations.* A cycle bootstraps its version if need be (translating what older
versions still owe, marking the rest of the log as history), takes the checkpoint
lease, discovers events by anti-join in batches, then claims the head of the queue,
runs the handler under a timeout and completes or fails the delivery, until the slice
ends and the lease is released. An operator redrives a dead letter.

*Hard behaviours.* `dispatch_seq` order is not commit order. A worker may stall past
its leases, or die. Old and new versions of the code may run together during a deploy,
and the bootstrap reads in three statements under READ COMMITTED.

*What makes it correct.* Per-subscriber order; no delivery settled twice; a bounded
retry budget; unique numbers; a version bump that drops nothing and leaves nothing
behind; every event settled in the end.

### 1.3 Nightly orchestrator: `src/server/orchestration`, `src/kernel/job-dag.ts`

*State.* A run per date, a node per job of the DAG, the pg-boss jobs. *Operations.*
The anchor starts a run (or a boot catch-up does), a tick polls in-flight nodes and
claims and sends ready ones, then arms the next tick. *Hard behaviours.* Claim and send
are two steps; polls of two ticks overlap; a tick may be redelivered, or lost before
it is armed; an abandoned run's tick may still fire. *Correct when* a node's job is
created once under its reserved id, a settled node never moves, a node runs only after
its upstreams, a closed run is a settled one, and no single fault leaves a running run
that nothing will ever advance.

### 1.4 Copilot durable turns: `src/capabilities/copilot/server`

*State.* Per turn: its job events (queued, dispatched, started, the execution fence, a
Stop, the verdicts), the reply event that carries the marker of its outcome, and a
pg-boss job. *Operations.* reserve, dispatch the session head, replay, mark started,
claim the execution fence, run, settle, project, wake the session, answer a crisis,
Stop, reconcile. *Hard behaviours.* Two advisory locks, each of which only some of the
writers of a verdict take; deliveries that outlive their heartbeat; a Stop between any
two steps; a job or a wake that is lost. *Correct when* one turn of a session has a job
at a time, in order, a turn is executed at most once and told one verdict, never that
the model was not called when it was, and the session does not get stuck.

### 1.5 Contract epoch and job fence: `src/server/migration/contract-epoch`

An append-only epoch state machine (`preparing`, `ready`, `active`) and the fence that
every job handler passes once, before it runs. Hard: a transition between the check
and the handler's writes; jobs born in an older epoch. Not modelled yet.

### 1.6 The rest

| part | state and operations | why not now |
| --- | --- | --- |
| DBOS families, `src/server/durable` | cut-over of four sweeps between two schedulers | a later candidate; it shares the generation fence of 1.1 |
| proposals, `src/kernel/proposals`, `src/server/proposals` | proposal rows: accept, reject, auto-apply, undo | a later candidate |
| settlement and grading, `src/capabilities/practice/{settlement,grading}` | attempts, judge runs, leases | a later candidate; rubrics and prompts are content |
| revert and projections | folds over the event log | candidates for pure operators |
| event log and locks, `src/kernel/{events,locks}` | appends, advisory locks | appear as the atomicity of the modelled actions |
| pg-boss host, `src/server/boss` | queue configuration | the library is environment |
| AI runtime, `src/server/ai` | provider adapters, streaming | I/O; its attempt leases are a later candidate |
| learner models (theta, fsrs, pfa, forgetting) | floating-point estimators | not a model checker's subject |
| question bank, supply, records, sessions, scheduling, agency, notes, knowledge, ingestion, onboarding | content workflows | only the publication that moves a revision is used |
| HTTP API, front door, UI, migrations, scripts, native crate | rendering, tooling | no protocol of their own |

`PROJECT.json` lists every component with its status, and every hazard at its line.

## 2. Plan

1. `PaymentContract`, `PaidEffect`, `MCPaidEffect`, `PaidEffectProofs`: done.
2. `EventDispatch`, `MCEventDispatch`, `EventDispatchProofs`: done.
3. `NightlyOrchestrator`, `MCNightlyOrchestrator`, `NightlyProofs`, `NightlyChainProofs`:
   done.
4. `CopilotTurns`, `MCCopilotTurns`, `CopilotTurnsProofs`: done.
5. `OrderedDelivery`, `OrderedDeliveryProofs`: the abstract promise of the bus to the
   handlers of a subscriber, with `EventDispatch` shown to implement it. Done.
6. `ContractEpoch`: the state machine with the job fence; which writes of an old epoch
   can still land. Not written.
7. Then the admission coordinator with its stage family (two families of `PaidEffect`
   over one entity), the DBOS cut-over, proposals with undo.

## 3. Modules and their correspondence to the code

### `PaidEffect`

One family. `Effect` is its set of identities; `EntityOf`, `RevOf`, `UnitOf` give an
identity's coordinates, and two identities with equal coordinates differ in their
input digest. The other constants select what a family of the code has: `Switchable` a
backend switch, `Reauthorizable` the void release, `ReceiptGates` calibration's claim
rule, `Waiting` the receipts that wait, `FeatureRep` parallel reps, and `PinsRevision` the
batch of question admission around the store, with `ContractOf` the contract version a
unit belongs to.

Every store operation takes the family advisory lock before it reads, inside one
transaction, so each is one action. The exceptions are in the model as they are in the
code: the sweep is a single UPDATE without the lock (`SettleExpiredSends`, atomic by
itself); the closure reads outside any transaction and acts in another
(`ListDemotable`, `DemoteListed`); the provider call is its own step (`CallProvider`),
outside every transaction.

A worker is one execution of a delivery, and one delivery may run in several: pg-boss
redelivers under the same job id, also while the first execution is alive. `Start` is a
worker taking up an identity, as the `winner` of a claim or as the `resumer` of a waiting
receipt (`ResumeWaiting`: any wake whose generation is admitted, no claim, the fence read
from the row). `Finish` is its end, by an answer, a classification, a settlement or a
death; until then it keeps its token, however late it is. Calls are counted. A worker
calls once, because one execution goes through its batch once; nothing else keeps a
second call from leaving. In admission `CheckSend` (`beforeSend`, a transaction of its
own) comes first: the input still published, the fence and state of the row. The other
families check nothing between the claim and the call.

An admission identity stands for a batch of stage calls. The stages have identities of
their own in a leaf family, whose receipts keep a resumed batch from paying for a stage
that has its answer; here the stage calls of one execution count as one call. So a second
counted call of an admission identity is a second run of its batch, and the model says
when that is allowed: after the winner has recorded a waiting receipt (`deferred`), never
before. For a leaf family (`switch`, `reps`, `calibration`) no identity is ever called
for twice.

| variables | code |
| --- | --- |
| `state`, `fence`, `owner`, `lease`, `result` | columns of `paid_effect` |
| `successor`, `bound`, `consumed` | `paid_effect_authorization`, keyed by the voided identity |
| `backend`, `generation` | `paid_effect_control` (no row is pg-boss, 0) |
| `current` | the revision an entity is published at |
| `outdated` | deliveries queued before the entity's last publication: their pinned revision, digest and admission generation no longer match |
| `contract` | the admission contract version of the deployed program |
| `dispatched`, `stamp` | queued deliveries and their persisted generation |
| `role`, `job`, `on`, `token`, `step` | a worker: what it runs, on which identity, under which fence, and whether it was cleared to call or has called |
| `listed` | what the closure holds in memory |
| `calls`, `deferred` | history: the physical calls that left; the identities a waiting receipt was recorded for |

A claim of a row that exists reads it under the lock, so `ReserveWins` and
`ReserveHeld` together are the reservation: the intent is admitted and, in the same
transaction, claimed, held (the intent commits) or refused by an exception (the intent
rolls back, `ClaimThrows`). `StoreAdmits` is the store's own decision: control,
authorization, gates. `BatchAdmits` is what `claimAdmissionBatch` asks before it calls the
store, and a refusal there writes nothing: `MaySend` (the job's publication and the
contract of its unit), `NothingToReconcile` (no verdict on the base, no other row of the
unit that is this revision's or this delivery's), `LegacyReceipt` (an older contract's
answer still to be applied) and `SealedHistory`. Lifecycle, source purpose, declared
shapes and terminal verifications also refuse a claim or a call; they are decided outside
this family, and what they refuse does not happen. An entity whose document returns to an
earlier one counts as published at that revision again, though its digest may differ;
this gives the model more calls than the code. `SettleSuperseded` is the run that finds
its input replaced and settles it as stale, `RecordApplication` and `ApplyResumed` the
application, which in admission may publish its verdict in the same transaction.

**A wedge the code allows.** Between a void release and the claim of its successor, a
publication of the entity or a contract release makes the bound delivery stale for good.
The successor's intent cannot be cancelled (it is bound), a void needs an unknown row, and
the open authorization holds every other claim of the entity. The `admission` run reaches
it in six steps. `AuthorizedSuccessorClaimable` therefore
promises the claim only until such a publication or release, and `PROJECT.json` lists the
wedge with its hazard. No document of the repository says it cannot happen.

Abstractions. Receipts are compared by identity, not as JSON; the idempotent replay of
an equal receipt is the no-op branch of `RecordResult`. `attempts` counters, reasons
and timestamps are left out. Authorization and cancellation ids are not modelled (their
replay returns the first result). The operator paths also require that no job is live
and no publish event undelivered for the entity; leaving those guards out gives the
model more behaviours than the code. An admission entity's stage rows are their own
family and appear as the choice of when a waiting receipt is demoted (`DemoteListed` by
the closure, `DemoteInline` by a resumed run that failed).

### `PaymentContract`

What a caller may rely on: one licence per identity, a permit for one call with it, one
verdict. A further permit needs a renewal, which only a family with answers to wait for
has, only for a licensed identity and only while it has no verdict. A permitted call may
still leave after its obligation was retired (the late call of a worker whose lease ran
out), never without a permit and never twice with one. `PaidEffect` implements it with
`holder <- owner`, `permits <- Permits` (the workers on the identity that have not called),
`made <- calls`, `Renewable <- Waiting # {}`, and a verdict computed from the row: a
waiting receipt is not an answer yet.

### `EventDispatch`

One subscriber. A worker is one dispatch cycle of a version, at a time; `pc` is where
the cycle is, `job` the delivery its handler runs. `holder` stands for the lease token
(a cycle that starts over has a new token because it must claim the lease again) and
`live` for `claim_lease_until >= now`. Each exported operation locks the checkpoint row
and is one action. The bootstrap is three (`BootTranslate`, `BootMark`, `BootCommit`),
because its statements read committed data separately; `BootRefused` is the unique
index failing the transaction, `Rollback` its effect. The number updates to
`next_delivery_seq` use `max + 1`, gaps included. `superseded` is the code's `skipped`
with an error that names the new version.

Abstractions. Renewing the checkpoint lease before every claim is part of `Leased`;
the limits of a slice (100 deliveries, 30 s) are the freedom of `EndCycle`; a
declaration-hash mismatch, the `paused` status that no code sets, and the
pg-boss retry of a cycle that threw are left out. A handler has no effect here.
`Deploy` only moves to a higher version: what the runs and the theorems say of bumps is
said of sequences of such deploys. A rollback, in which an older version works again
while a newer one is active, and the roll-forward after it are not explored.

### `OrderedDelivery`

What the handlers of a subscriber may rely on, with no leases, claims, workers, attempts
or transactions in it. Every version of the subscriber is a line. Events join its end, in
log order and once each; only the first event still owed is handled; a verdict is final,
except for a dead letter that nothing has overtaken, which may be tried again in its own
place. A version opens in one step. That step closes the older lines and, where old code
never runs beside new code (`Atomic`), takes over exactly what they owe; then only the
newest line moves. `EventDispatch` implements it with `open` the active versions and
`state` and `turn` the statuses and numbers of their deliveries: the rows of a bootstrap
in progress are seen by nobody, so its three statements become one step, and a take-over
of an expired claim, a crash, a lease and an attempt are not seen at all. With old code
beside new code (`Atomic` false) a line may open with less than was owed, which is the
finding `dropped`.

### `NightlyOrchestrator`

Everything a worker process reads it copies, and the next statement may find another
table: each SQL statement and each pg-boss call is an action, and `pass[p]` is what one
handler invocation holds between them. A pass begins with a start message (`leftovers`:
abandon and sweep the runs of other dates, find or create tonight's) or with a tick
(`load`), then polls, sends and closes the run or arms the next tick.

| variables | code |
| --- | --- |
| `runDate`, `runStatus`, `node` | the two tables of `store.ts`; `late` is the age of `enqueued_at` against the timeout |
| `job[r][j][p]` | the pg-boss job under the id that pass `p` drew for the node (`claimNodePending`) |
| `starts`, `ticks` | messages of the orchestrator's own queue |
| `pass` | a handler's locals: its message, its date, leftovers, run, copies and loops |
| `dag`, `night` | the declared graph; the local date |
| `cut` | history: abandoned runs whose sweep lost a node to a fault |

`updateNodeStatus` is `NodeSet` (no write over a settled row), the two compare-and-sets
from `pending` are `Pending`, `boss.send` with a reserved id is idempotent (`JobSent`).
A node's id is known by the pass that drew it, so a second claim of one node would show
as a second job. A `Fault` is a death, a failed call or statement, an expiry of the
message under a living pass, a missed cron, a boot or a manual start.

Abstractions. A retry of a member job is the job back in `created`. The eligibility
signals are a choice, a yield report the choice of `degraded`. Reading `getRun` and the
check of its status are the step of the statement that follows. Left out: a graph that
changes while a run is open (nodes inserted or dropped by a deploy), dead-letter
queues, the stagger of sends, and pg-boss deleting finished jobs.

What the code leaves open and the properties except, as its comments do: a sweep that
loses a statement leaves a node of an abandoned run open (`cut`); with two faults the
chain may be cut (a boot catch-up that dies as it starts, or a message that expired and
whose pass creates the run and dies after the successor found nothing to adopt); a node
may leak one send between the cancel of the sweep and a claim of a pass that began
before it, which the reserved id keeps to one job. A missed cron and the boot catch-up that
makes up for it are a fault each, so `ChainNeverCut` says nothing of a failure inside a
catch-up after a missed cron: that is a second fault.

### `CopilotTurns`

One session. A turn is its `dispatch_seq`. A worker is one handler invocation, `pc`
says before which transaction it stands, `held` whether pg-boss still counts it.

| variables | code |
| --- | --- |
| `accepted` | QUEUED turns of the session |
| `row[t].dispatched`, `.started`, `.fence`, `.cancel` | the job events DISPATCHED, STARTED, EXECUTION_STARTED, CANCEL_REQUESTED |
| `row[t].expired` | the age of the fence, or of the start, against the budget of its owner |
| `row[t].marker` | the closing event of the reply: what the outcome was |
| `row[t].verdicts` | the terminal job events, in order: all of them, to see a second one |
| `job`, `tries` | the pg-boss job of the turn and its deliveries |
| `worker`, `sweep` | locals of a delivery and of the reconciler |
| `wake` | Stop has committed and has not yet called the dispatch |

A transaction that takes an advisory lock first and holds it to its end is one action,
enabled when nobody else is inside the lock. Three transactions are two actions, because
somebody who does not take their lock writes between their read and their write: the
start gate (`MarkStarted`, `StartGate`: reads under the dispatch lock, then waits for
the settlement lock), the crisis answer (`CrisisLocks`, `CrisisReply`: settlement lock
only) and the decision of the sweep (`SweepLocks`, `SweepDecides`: dispatch lock only).
`Unlocked` and `Unsettling` are those two locks. `Acknowledge` completes or fails the
active job whoever's delivery it is, as pg-boss does.

Abstractions. The model call, its tools and its probe of Stop are `Finish`. A failure
and an exhausted budget are one outcome, `exhausted`. Left out: turns of the first
protocol version, enqueue failures, `FAILED(error)`, the manual run retry, the
tool-operation guard of Stop, native subagents, streamed deltas, malformed payloads,
overlapping sweeps and the limit of a scan.

Two exceptions are named in the properties and are behaviours of the code.
`StoppedLate`: a delivery that replayed before the fence reaches `markCopilotRunStarted`
after a Stop that found the fence, and its gate reports "cancelled before start" though
the owner is executing; it takes one missed heartbeat. `LostLate`: a crisis answer
commits between the evidence and the verdict of the sweep, and the learner is told
"lost" after the answer; it takes no fault. Both are at odds with the comment at
`src/capabilities/copilot/server/copilot-run-settlement.ts:428`, by which whoever comes
late observes the terminal under the same lock and appends no contradictory one.
No run of their own shows them; they are listed as hazards at
`copilot-run-settlement.ts:150` and `copilot_run.ts:332`, and dropping either exception
from `OneVerdict` makes the `turns` run report it.

## 4. Runs

Bounds: two or three identities, because every gate and authorization property
relates at most two rows and a successor; two workers, which is two executions of one
delivery or of two; two deliveries (three in `admission`, where one sends, one is bound to
the successor and one is a wake of no standing, and in `switch`, with two backends); two
revisions and two contract versions, because a document and a contract are the job's or
are not; at most two generations, which is a switch there and back. `MaxCalls = 2` stops
resumes of an identity called twice, which is the first call too many. For the bus: two or
three events, two workers, at most three versions (the collision needs two older ones), one
crash, one redrive, two attempts. The `deploy` run keeps three events, because gaps in the
numbers need them, and gives up redrives and the outcome "skipped", both of which `order`
has, to leave room for its liveness property. `MaxGeneration`, `MaxContract`, `MaxCalls`,
`MaxRedrives`, `MaxCrashes` and `MaxAttempts` are the only numeric bounds of those two;
everything else is finite by itself.

| run | instance | what it shows |
| --- | --- | --- |
| `admission` | one entity, three identities of r1 (one of the older contract), two publishable revisions, a contract release, three deliveries, two workers, waiting and final receipts, resumes, void and cancel | the payment properties, the row shape, the authorizations, finality, and the refinement of `PaymentContract` |
| `switch` | a leaf stage family: two identities of one revision, three deliveries on two backends, two workers, two switches | ownership is never stranded, stale generations never pay and nothing is called for twice |
| `reps` | three feature reps over two revisions, two workers, fair sweep | the entity gate, across revisions too: only siblings run beside an unresolved send; every send settles |
| `calibration` | the same coordinates without reps, receipts gate | no send beside an unapplied receipt, whatever its revision |
| `order` | one version, two stalling workers, three events, redrive | order, retry budget, claim shape, finality of settlements, and the refinement of `OrderedDelivery` |
| `deploy` | stop-the-world deploy to a version that drops an event, one crash, fair | nothing is dropped, the old version is idle, no bootstrap collides, every event is settled, and the new line opens in one step with what it takes over (the refinement again) |
| `rolling` | three versions with widening subscriptions, old code still running | numbering survives concurrent bootstraps |
| `nightly` | two jobs with a hard or a soft edge, two passes, one run over two nights, one fault | one job per node, order of the graph, finality, closed is settled, the chain is never cut |
| `turns` | two turns, one of them a crisis, two deliveries at a time, one retry, one fault, fair | one verdict, at most one paid execution and never behind the learner's back, one turn at a time, the session never stays stuck |
| `release_gap`, `dropped`, `collide` | see below | disagreements between the code and its comments |

In `order` crashes are not needed: a worker that outlives its leases does all a dead
one does, and more. In `rolling` handlers only fail, once (`Outcomes = {}`,
`MaxAttempts = 1`): what a handler returns does not touch the numbering.

In `nightly` one run is enough: the second night finds it as a leftover, and what two
runs share is a date and the messages. A root and one downstream cover every rule, which
relates a node to its upstreams one by one. `MaxFaults = 1` is the fault model of
`ChainNeverCut`. In `turns` the second turn needs the first one's verdict, so two turns
have the queue's hazards; `Retries = 1` gives a redelivery and its end. `MaxRun`,
`Nights`, `MaxFaults`, `MaxTurn` and `Retries` are the bounds.

Symmetry: workers are alike everywhere but in `reps`, which checks a liveness property and
uses none. In `admission` so are the deliveries, all of pg-boss, and the two identities
with equal coordinates. No definition tells them apart.

`nightly` and `turns` do not check for deadlock: when the nights or the turns are used
up and everything is settled, nothing is left to do. Neither do `switch`, `reps` and
`calibration`: a family without publications may stop when every identity is resolved and
the switches are used up. The other runs do.

### What the code's own comments say and the model refutes

`release_gap`: the eligibility predicate of the void release matches named targets by
unit and input digest, not by revision, so a group with an unknown row of an older
revision is reported eligible and cannot be released. The operator sees an exception;
no money is lost (the release is one transaction).

`dropped`: the bootstrap's comment promises that what is still owed is translated. The
snapshot it speaks of is not one snapshot. A delivery that an old worker discovers
between the translation and the marking of history is history in the new version and
superseded in the old. It takes old code running beside the new version's bootstrap;
the `deploy` run shows the same property holds when deploys are stop-the-world.

`collide`: when two older versions owe the same event, the duplicate translation is
dropped but its number is not given back, and a history row may take a number that is
in use. The unique index fails the bootstrap; the next cycle fails the same way until
one of the rows is settled. It takes old code beside new code as well:
`BumpsNeverCollide` (section 6) proves that stop-the-world deploys cannot meet it.

The comment at `src/server/events/subscriptions/runtime.ts:148` also says that
translated rows keep their `seq`; they are renumbered. Nothing depends on it.

## 5. Fairness

`PaidEffect!FairSpec` assumes that the clock passes every lease and that the sweep
runs (it is on a cron). Nothing is assumed of workers, producers or operators: a send
settles even if its worker never answers.

`EventDispatch!FairSpec` assumes that a cycle that has started keeps stepping, that a
handler returns or times out (the code races every handler against a timer), that
clocks advance, and that the dispatch queue keeps ticking (a cron each minute). Two
assumptions are strong: `ClaimLease`, because a lease is free again and again and the
cron tries each time; and `ClaimNext`, because a slice may end before its first claim
only if its time budget is used up by discovery, which does not happen for ever.
Crashes are bounded. `Deploy`, `CommitEvent`, `Redrive` and `Crash` are never forced.

`CopilotTurns!Fairness` assumes that pg-boss hands out jobs and expires those nobody
holds, that budgets run out and that the reconciler, a cron, keeps stepping. Each
worker's next step is strongly fair: it may stand before an advisory lock that the
reconciler takes again and again, and Postgres serves the waiters of a lock in order.
Sending a turn, Stop, the wake after a Stop and every fault are never forced: the
session moves on without them.

`NightlyOrchestrator` states no fairness. Its state space leaves no room for a liveness
run; `ChainNeverCut` is the safety core of "a running run ends": somebody always holds
the next step.

## 6. Proofs

`PaidEffectProofs` proves, for all identities, deliveries, revisions and bounds, from
`CoordinateAssumption` (the coordinates are functions), `NullAssumption` (the null
values are not members) and, for typing alone, `ProfileAssumption`:

- `TypeCorrect`: the type invariant is inductive.
- `LedgerCorrect`: `LedgerInv` has two parts. `OwnerLedger`: a row is unclaimed exactly
  when it has no owner, an owner was dispatched, what was called has an owner, and what
  was called twice, or waits now, was deferred. `WorkerLedger`: a resumer works on a
  deferred identity; a winner is the only winner of its identity, runs the owner's
  delivery, and until it has called nobody else has. The second part is what
  `AtMostOnePayment` lacks to be inductive: a count of calls says nothing of the workers
  that are about to add to it. It holds although a delivery runs in several workers,
  because the claim happens once (the row never returns to an unclaimed state) and a
  resume needs a wait that only the winner, at its end, records. `PaidAtMostOnce` and
  `PaymentRemembered` follow from it.
- `SwitchStrandsNothing`: inductive with the ledger, whose dispatched owners no later
  `Dispatch` can restamp.
- `GateExcludes`, `OneDebt`: only the claim makes a row `sending`, and it looks at all
  others. `OneDebt` rests on the waiting set being empty: a demotion reopens a debt.
- `SuccessorNeverWedged`, `SuccessorBound`, `VoidAuthorized`: from `AuthorizationInv`,
  seven named parts. `OneOpenSuccessor`: two open authorizations of an entity name one
  successor. `PendingSuccessorAlone`: while it is pending no other row of the entity is in
  flight, unresolved or unapplied, and (`NoRival`) none is a row or a verdict the bound
  delivery would have to reconcile first; `VoidEligible` establishes it and the
  authorization gate keeps it. `SuccessorPublished`: while the bound delivery is not
  outdated the base of the successor is the published one. `SuccessorNeverWedged` has the
  condition of the property: no publication or contract release since the void. Without it
  the statement is false (section 3). `SuccessorBound` takes the claim from the
  authorization gate and the resumes from the ledger.
- `RowsWellShaped`, `ReceiptsFinal`: from `ReceiptInv`. Whatever the closure has listed
  and still finds in `receipt_ready` is a waiting receipt, because nobody who could
  record another answer is left: a resumed run applies its answer and never replaces the
  receipt. That is why trusting the status it read earlier is sound.
- `ResolvedStays`, `UnknownStays`: action properties, from the same invariants.
- `KeepsContract`: initial states map to initial states and every step to a contract
  step or a stutter, so `Spec => Contract!Spec`. A claim is `License`, a resume `Renew`,
  a call `Pay`, the end of a run `Answer`, `Lapse` or a stutter; `StartPermits` and
  `FinishPermits` are the two lemmas about who may still call. That a resume finds the
  identity licensed and without a verdict, and in a family that waits, is the ledger's.

`CopilotTurnsProofs` proves, for every number of turns, workers, retries and faults and
every choice of crisis turns, from `BoundAssumption` and the other assumptions of the
module, one invariant, `Inv`, and from it `TurnsTyped`, `VerdictIsOne`, `NotCalledIsTrue`
and `OneTurnRuns`. None of the four is inductive alone, because every delivery and the
sweep act on what they read a transaction earlier. `Inv` writes down what each may still
rely on: `RowFits` what a row can look like (no execution without the fence, a Stop of an
open turn only behind it, no "not called" verdict beside it), `DeliveriesFit` what a
delivery at each step knows of its row (it owns the fence, the marker exists), `SweepFit`
what the sweep between its two statements knows (`Losable`: the turn it read as
untouched has still no fence), `Answering` that one crisis answer of a turn is being
written at a time, `TriesLeft` that a job to be delivered has a delivery left. The cases
where two steps overtake each other are closed by the fence, which is never taken back,
more often than by a lock; the two exceptions of section 3 are the steps where no fact
of that kind exists.

`NightlyProofs` proves, for every set of graphs and every number of runs, nights, worker
slots and faults, from `GraphAssumption`, `NoPassAssumption` and `BoundAssumption`:

- `NightCorrect`: the invariant. `RowsFit` ties the three rows of a node together (a
  reserved id only on a node that left `pending` over settled upstreams, a job only under
  the reserved id); `PassesFit` says what the copies of a pass, however old, still have in
  common with the rows: the id it polls under is the row's, the node it has claimed and
  not sent holds its id, and a verdict its second copy shows is the row's verdict. That
  last part is why a send from a stale copy is safe: a copy may lack a verdict but never
  shows one the row does not keep. `ClosedFits` says which nodes of a closed run a sweep
  has still before it.
- `SentOnce`, `UpstreamsComeFirst`, `ClosedMeansSettled` and `Typed` follow from it, and
  `VerdictsAreFinal` from it and the steps: `NodesKept` (ids and verdicts are never taken
  back) is what lets the copies of the other passes survive a step.

`NightlyChainProofs` proves `ChainHolds`, from the same assumptions: `ChainNeverCut` holds
as long as at most one fault has happened, for every number of runs and passes. The
invariant is `ChainFits`: at most one running run has a date, so a start that looks for
tonight's run finds the one there is; a start keeps its leftovers until it has been through
them; before the first fault every pass holds its message, so the fault that kills a pass
puts the message back; and every running run is `Served`, which is the conclusion.

`EventDispatchProofs` proves, for every finite set of events and versions, every
subscription and every number of workers, attempts, redrives and crashes, from
`SubscriberAssumption` and `BoundAssumption`:

- `DeliveriesFit`: the invariant. `RowFits` is the shape of one delivery and its budget
  (what may still be tried has an attempt left, which `AttemptsBounded` alone does not
  say); `CheckpointFits` says that a version that is not active has handled nothing, which
  is why a bootstrap can be rolled back; `NumbersFit` that the numbers of a version tell
  its rows apart and lie below `next_delivery_seq`, between the two statements of a
  bootstrap below a bound of their own; `OrderFits` is the order. A step that hands out
  numbers (`BootTranslate`, `BootMark`, `Discover`) rests on the lemmas about ranks; one
  that moves a delivery on `RowMoves`: a delivery may be touched when all before it are
  settled, and tried again when nothing after it was touched.
- `DispatchTyped`, `ClaimsShaped`, `AttemptsCapped`, `DeliveredInOrder` and
  `NumbersFresh` follow from it, and `SettledStaysFinal` from it and the steps.
- `OldVersionsStayIdle`, `BumpsDropNothing`: under `~Rolling`, from `DeployFits`. Only
  the deployed version's workers run and every open bootstrap has one (`Crew`), so what
  older versions owe stands still while a bootstrap translates, marks and terminalizes
  it. With old code running the second is false: the run `dropped` shows it.
- `BumpsNeverCollide`: under `~Rolling`, from `DeployFits` and `Compact`. Only one older
  version owes anything, so no event is translated twice, the translated rows are numbered
  without gaps and history follows them. The finding `collide` needs the gap.

`OrderedDeliveryProofs` proves `KeepsDelivery`, from the same assumptions and with nothing
assumed about `Rolling`: `Spec => Delivery!Spec`. Beside the invariants above it needs one
more under `~Rolling`, `CarriesOnly`: what an uncommitted version has waiting is still owed
by an older one, the converse of what `DeployFits` says. The two together are why a line
opens with exactly what the older ones hand over, although the bootstrap has read them two
statements before. Claims are `Begin` or a stutter, `Discover` is `Join` by the lemmas about
ranks, the commit of a bootstrap is `Open`.

TLC checked each of these formulas on small instances first.

Only model-checked: `SendsSettle` and the two `EventuallySettled`. They are liveness under
fairness, which is beyond the prover. Every invariant, action property and refinement of the
passing runs is proved; `ChainNeverCut` and the properties of version bumps under the
condition on faults or on deploys that the run has too.

## 7. Mutants

Each property of a passing run has a mutant: an alternative definition, placed just
before the one it replaces and commented as such, that changes it as a plausible bug
would (a gate that compares the revision, a demotion that ignores the status, a number
that is a count). Under its mutant the property is violated; the pairs are in
`PROJECT.json`.

## 8. Running

    tlc -workers 2 -config MCPaidEffect_admission.cfg MCPaidEffect
    tlapm PaidEffectProofs.tla
    tlapm CopilotTurnsProofs.tla
    tlapm NightlyProofs.tla
    tlapm NightlyChainProofs.tla
    tlapm EventDispatchProofs.tla
    tlapm OrderedDeliveryProofs.tla
