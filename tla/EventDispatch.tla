--------------------------- MODULE EventDispatch ---------------------------
(***************************************************************************)
(* The durable subscription bus of src/server/events/subscriptions: one    *)
(* subscriber, the versions of its declaration, and the workers that boot- *)
(* strap, lease, discover, claim, handle and settle its deliveries.        *)
(*                                                                         *)
(* Every exported operation is one transaction that locks the checkpoint   *)
(* row, so it is one action, except the bootstrap of a version: its trans- *)
(* action reads older versions in three statements, and each statement of  *)
(* a READ COMMITTED transaction has a snapshot of its own.                 *)
(***************************************************************************)
EXTENDS Naturals, FiniteSets, FiniteSetsExt

CONSTANTS
  Event,        \* events, named by their dispatch_seq
  Version,      \* versions of the subscriber's declaration
  Subscribed,   \* the events each version's actions select
  Worker,       \* dispatch cycles that can run at once
  VersionOf,    \* the version each worker's code declares
  NoWorker, NoEvent,
  Outcomes,     \* what handlers return: "succeeded", "skipped"
  Batch,        \* DISCOVERY_BATCH_SIZE
  MaxAttempts,  \* maxAttempts of the dispatch mount
  Rolling,      \* TRUE when old code may still run after a deploy
  Stalls,       \* TRUE when a live worker can outlive its leases
  MaxRedrives,  \* bound: redrives of one delivery
  MaxCrashes    \* bound: worker crashes

ASSUME SubscriberAssumption ==
  /\ Event \subseteq Nat \ {0} /\ Version \subseteq Nat \ {0}
  /\ IsFiniteSet(Event) /\ IsFiniteSet(Version)
  /\ Subscribed \in [Version -> SUBSET Event]
  /\ VersionOf \in [Worker -> Version]
  /\ NoWorker \notin Worker /\ NoEvent \notin Event

ASSUME BoundAssumption ==
  /\ Outcomes \subseteq {"succeeded", "skipped"}
  /\ Batch \in Nat \ {0} /\ MaxAttempts \in Nat \ {0}
  /\ MaxRedrives \in Nat /\ MaxCrashes \in Nat
  /\ Rolling \in BOOLEAN /\ Stalls \in BOOLEAN

VARIABLES
  visible,     \* committed events; dispatch_seq order is not commit order
  deployed,    \* the newest version whose code runs
  checkpoint,  \* "none", a bootstrap in progress, or "active"
  status, seq, attempts, redrives,  \* the delivery rows of each version
  due,         \* a retry whose next_attempt_at has passed
  nextSeq,     \* next_delivery_seq
  holder, live,         \* the checkpoint lease: its token's cycle, unexpired
  claimant, claimLive,  \* the delivery lease
  pc, job,     \* where a worker's cycle is, and the delivery it handles
  crashes

rows == <<status, seq, attempts, redrives, due>>
leases == <<holder, live>>
claims == <<claimant, claimLive>>
cycles == <<pc, job>>
vars == <<visible, deployed, checkpoint, rows, nextSeq, leases, claims, cycles, crashes>>

Terminal == {"bootstrap_skipped", "succeeded", "skipped", "superseded", "dead_letter"}
OutstandingUnclaimed == {"pending", "retry_wait"}   \* mutant: a claimed row is left behind
Outstanding == {"pending", "claimed", "retry_wait"}
Statuses == Terminal \cup Outstanding \cup {"none"}

Init ==
  /\ visible \in SUBSET Event
  /\ deployed \in {v \in Version : \A u \in Version : v <= u}
  /\ checkpoint = [v \in Version |-> "none"]
  /\ status = [v \in Version |-> [e \in Event |-> "none"]]
  /\ seq = [v \in Version |-> [e \in Event |-> 0]]
  /\ attempts = [v \in Version |-> [e \in Event |-> 0]]
  /\ redrives = [v \in Version |-> [e \in Event |-> 0]]
  /\ due = [v \in Version |-> [e \in Event |-> FALSE]]
  /\ nextSeq = [v \in Version |-> 1]
  /\ holder = [v \in Version |-> NoWorker] /\ live = [v \in Version |-> FALSE]
  /\ claimant = [v \in Version |-> [e \in Event |-> NoWorker]]
  /\ claimLive = [v \in Version |-> [e \in Event |-> FALSE]]
  /\ pc = [w \in Worker |-> "idle"] /\ job = [w \in Worker |-> NoEvent]
  /\ crashes = 0

-----------------------------------------------------------------------------
(* The log and the deployment.                                             *)

CommitEvent(e) ==
  /\ e \notin visible
  /\ visible' = visible \cup {e}
  /\ UNCHANGED <<deployed, checkpoint, rows, nextSeq, leases, claims, cycles, crashes>>

\* The code of a version runs: the deployed one, and older ones in a rolling deploy.
Runs(v) == IF Rolling THEN v <= deployed ELSE v = deployed

Deploy(v) ==
  /\ v > deployed
  /\ Rolling \/ \A w \in Worker : pc[w] = "idle"
  /\ deployed' = v
  /\ UNCHANGED <<visible, checkpoint, rows, nextSeq, leases, claims, cycles, crashes>>

-----------------------------------------------------------------------------
(* Bootstrap: one transaction, three reads of the older versions.          *)

Rank(S, e) == Cardinality({f \in S : f <= e})

\* Committed rows of older versions that still owe a delivery.
OwedBy(v) ==
  {p \in Version \X Event : /\ p[1] < v /\ checkpoint[p[1]] = "active"
                            /\ status[p[1]][p[2]] \in Outstanding}

\* Mutant: a delivery waiting for its retry is not translated.
CarriedPending(v) ==
  {p \in OwedBy(v) : p[2] \in Subscribed[v] /\ status[p[1]][p[2]] # "retry_wait"}

Carried(v) == {p \in OwedBy(v) : p[2] \in Subscribed[v]}

\* Insert the checkpoint, then translate what older versions owe and this one
\* still subscribes: row_number over the old rows, an event owed twice keeping
\* its first number.  Nothing is visible to others before the commit.
BootTranslate(w) ==
  LET v == VersionOf[w]
      owed == Carried(v)
      carried == {p[2] : p \in owed}
      first(e) == 1 + Cardinality({p \in owed : p[2] < e})
  IN
  /\ Runs(v) /\ pc[w] = "idle" /\ checkpoint[v] = "none"
  /\ pc' = [pc EXCEPT ![w] = "booting"]
  /\ checkpoint' = [checkpoint EXCEPT ![v] = "translated"]
  /\ \E from \in [carried -> Version] :
       /\ \A e \in carried : <<from[e], e>> \in owed
       /\ status' = [status EXCEPT ![v] = [e \in Event |->
            IF e \notin carried THEN "none"
            ELSE IF status[from[e]][e] = "retry_wait" THEN "retry_wait" ELSE "pending"]]
       /\ attempts' = [attempts EXCEPT ![v] = [e \in Event |->
            IF e \in carried THEN attempts[from[e]][e] ELSE 0]]
       /\ redrives' = [redrives EXCEPT ![v] = [e \in Event |->
            IF e \in carried THEN redrives[from[e]][e] ELSE 0]]
       /\ due' = [due EXCEPT ![v] = [e \in Event |->
            e \in carried /\ status[from[e]][e] = "retry_wait" /\ due[from[e]][e]]]
  /\ seq' = [seq EXCEPT ![v] = [e \in Event |-> IF e \in carried THEN first(e) ELSE 0]]
  /\ UNCHANGED <<visible, deployed, nextSeq, leases, claims, job, crashes>>

Rows(v) == {e \in Event : status[v][e] # "none"}

\* Mutant: next_delivery_seq advances by count.
AfterByCount(numbers, has) == 1 + Cardinality(has)

\* Mutant: max(delivery_seq).
AfterLast(numbers, has) == Max({0} \cup {numbers[e] : e \in has})

\* max(delivery_seq) + 1
After(numbers, has) == 1 + Max({0} \cup {numbers[e] : e \in has})

\* Mutant: history is numbered from one.
HistorySeqFromOne(v, e) == Rank(visible \cap Subscribed[v], e)

\* Everything visible to this statement and not translated is history, numbered
\* after as many rows as were translated; the translated ones' slots are gaps.
HistorySeq(v, e) == Cardinality(Rows(v)) + Rank(visible \cap Subscribed[v], e)

History(v) == (visible \cap Subscribed[v]) \ Rows(v)

\* The unique index on delivery_seq refuses a history row.
SeqCollides(v) ==
  \E e \in History(v), f \in Rows(v) : HistorySeq(v, e) = seq[v][f]

BootMark(w) ==
  LET v == VersionOf[w]
      history == History(v)
      numbers == [e \in Event |-> IF e \in history THEN HistorySeq(v, e) ELSE seq[v][e]]
  IN
  /\ pc[w] = "booting" /\ checkpoint[v] = "translated" /\ ~ SeqCollides(v)
  /\ checkpoint' = [checkpoint EXCEPT ![v] = "marked"]
  /\ status' = [status EXCEPT ![v] = [e \in Event |->
       IF e \in history THEN "bootstrap_skipped" ELSE @[e]]]
  /\ seq' = [seq EXCEPT ![v] = numbers]
  /\ nextSeq' = [nextSeq EXCEPT ![v] = After(numbers, Rows(v) \cup history)]
  /\ UNCHANGED <<visible, deployed, attempts, redrives, due, leases, claims, cycles, crashes>>

\* Terminalize what older versions owe now, and commit.
BootCommit(w) ==
  LET v == VersionOf[w]
      owed == OwedBy(v) IN
  /\ pc[w] = "booting" /\ checkpoint[v] = "marked"
  /\ pc' = [pc EXCEPT ![w] = "idle"]
  /\ checkpoint' = [checkpoint EXCEPT ![v] = "active"]
  /\ status' = [u \in Version |-> [e \in Event |->
       IF <<u, e>> \in owed THEN "superseded" ELSE status[u][e]]]
  /\ due' = [u \in Version |-> [e \in Event |-> <<u, e>> \notin owed /\ due[u][e]]]
  /\ claimant' = [u \in Version |-> [e \in Event |->
       IF <<u, e>> \in owed THEN NoWorker ELSE claimant[u][e]]]
  /\ claimLive' = [u \in Version |-> [e \in Event |->
       <<u, e>> \notin owed /\ claimLive[u][e]]]
  /\ UNCHANGED <<visible, deployed, seq, attempts, redrives, nextSeq, leases, job, crashes>>

\* A bootstrap that fails leaves nothing behind.
Rollback(v) ==
  /\ checkpoint' = [checkpoint EXCEPT ![v] = "none"]
  /\ status' = [status EXCEPT ![v] = [e \in Event |-> "none"]]
  /\ seq' = [seq EXCEPT ![v] = [e \in Event |-> 0]]
  /\ attempts' = [attempts EXCEPT ![v] = [e \in Event |-> 0]]
  /\ redrives' = [redrives EXCEPT ![v] = [e \in Event |-> 0]]
  /\ due' = [due EXCEPT ![v] = [e \in Event |-> FALSE]]
  /\ nextSeq' = [nextSeq EXCEPT ![v] = 1]

BootRefused(w) ==
  /\ pc[w] = "booting" /\ checkpoint[VersionOf[w]] = "translated"
  /\ SeqCollides(VersionOf[w])
  /\ Rollback(VersionOf[w])
  /\ pc' = [pc EXCEPT ![w] = "idle"]
  /\ UNCHANGED <<visible, deployed, leases, claims, job, crashes>>

-----------------------------------------------------------------------------
(* A dispatch cycle.                                                       *)

\* Null or expired leases are taken over.
ClaimLease(w) ==
  LET v == VersionOf[w] IN
  /\ Runs(v) /\ pc[w] = "idle" /\ checkpoint[v] = "active" /\ ~ live[v]
  /\ holder' = [holder EXCEPT ![v] = w] /\ live' = [live EXCEPT ![v] = TRUE]
  /\ pc' = [pc EXCEPT ![w] = "discovering"]
  /\ UNCHANGED <<visible, deployed, checkpoint, rows, nextSeq, claims, job, crashes>>

\* withLockedCheckpoint: the cycle's token is on the checkpoint and unexpired.
Leased(w) == holder[VersionOf[w]] = w /\ live[VersionOf[w]]

Undelivered(v) == (visible \cap Subscribed[v]) \ Rows(v)

\* One batch: the first undelivered events by dispatch_seq, never a watermark.
Discover(w) ==
  LET v == VersionOf[w]
      found == {e \in Undelivered(v) : Rank(Undelivered(v), e) <= Batch}
      numbers == [e \in Event |->
        IF e \in found THEN nextSeq[v] - 1 + Rank(found, e) ELSE seq[v][e]]
  IN
  /\ pc[w] = "discovering" /\ Leased(w) /\ found # {}
  /\ status' = [status EXCEPT ![v] = [e \in Event |-> IF e \in found THEN "pending" ELSE @[e]]]
  /\ seq' = [seq EXCEPT ![v] = numbers]
  /\ nextSeq' = [nextSeq EXCEPT ![v] = After(numbers, Rows(v) \cup found)]
  /\ UNCHANGED <<visible, deployed, checkpoint, attempts, redrives, due, leases, claims,
                 cycles, crashes>>

\* A batch that inserts nothing ends discovery: drained, or the lease is gone.
Discovered(w) ==
  /\ pc[w] = "discovering"
  /\ Leased(w) => Undelivered(VersionOf[w]) = {}
  /\ pc' = [pc EXCEPT ![w] = "draining"]
  /\ UNCHANGED <<visible, deployed, checkpoint, rows, nextSeq, leases, claims, job, crashes>>

\* Mutant: the queue is ordered by dispatch_seq.
HeadByDispatch(v, e) ==
  /\ status[v][e] \in Outstanding
  /\ \A f \in Event : status[v][f] \in Outstanding => e <= f

\* Only the earliest delivery that is not terminal.
Head(v, e) ==
  /\ status[v][e] \in Outstanding
  /\ \A f \in Event : status[v][f] \in Outstanding => seq[v][e] <= seq[v][f]

\* Mutant: the claim of a dead worker is not taken over.
ClaimableOnce(v, e) ==
  status[v][e] = "pending" \/ (status[v][e] = "retry_wait" /\ due[v][e])

Claimable(v, e) ==
  \/ status[v][e] = "pending"
  \/ status[v][e] = "retry_wait" /\ due[v][e]
  \/ status[v][e] = "claimed" /\ ~ claimLive[v][e]

ClaimNext(w, e) ==
  LET v == VersionOf[w] IN
  /\ pc[w] = "draining" /\ Leased(w)
  /\ Head(v, e) /\ Claimable(v, e)
  /\ status' = [status EXCEPT ![v][e] = "claimed"]
  /\ due' = [due EXCEPT ![v][e] = FALSE]
  /\ claimant' = [claimant EXCEPT ![v][e] = w]
  /\ claimLive' = [claimLive EXCEPT ![v][e] = TRUE]
  /\ pc' = [pc EXCEPT ![w] = "handling"] /\ job' = [job EXCEPT ![w] = e]
  /\ UNCHANGED <<visible, deployed, checkpoint, seq, attempts, redrives, nextSeq, leases,
                 crashes>>

\* Mutant: the outcome is written for whoever was claimed last.
OwnsClaimStale(w) == claimant[VersionOf[w]][job[w]] \in {w, NoWorker}

\* The fence of complete and fail: both leases, with this cycle's tokens.
OwnsClaim(w) ==
  LET v == VersionOf[w] IN
  /\ Leased(w)
  /\ status[v][job[w]] = "claimed" /\ claimant[v][job[w]] = w /\ claimLive[v][job[w]]

Settle(w, outcome) ==
  LET v == VersionOf[w] IN
  /\ status' = [status EXCEPT ![v][job[w]] = outcome]
  /\ claimant' = [claimant EXCEPT ![v][job[w]] = NoWorker]
  /\ claimLive' = [claimLive EXCEPT ![v][job[w]] = FALSE]
  /\ job' = [job EXCEPT ![w] = NoEvent]

\* The claim was lost while the handler ran: the slice stops, nothing is written.
LoseClaim(w) ==
  /\ pc' = [pc EXCEPT ![w] = "ending"] /\ job' = [job EXCEPT ![w] = NoEvent]
  /\ UNCHANGED <<rows, claims>>

\* The handler returned.
Complete(w, outcome) ==
  /\ pc[w] = "handling"
  /\ \/ /\ OwnsClaim(w) /\ Settle(w, outcome)
        /\ pc' = [pc EXCEPT ![w] = "draining"]
        /\ UNCHANGED <<seq, attempts, redrives, due>>
     \/ ~ OwnsClaim(w) /\ LoseClaim(w)
  /\ UNCHANGED <<visible, deployed, checkpoint, nextSeq, leases, crashes>>

\* Mutant: one attempt too many.
ExhaustedLate(v, e) == attempts[v][e] > MaxAttempts

Exhausted(v, e) == attempts[v][e] + 1 >= MaxAttempts

\* The handler threw or timed out; a timed-out handler may still be unwinding,
\* so the slice ends.
Fail(w) ==
  LET v == VersionOf[w] IN
  /\ pc[w] = "handling"
  /\ \/ /\ OwnsClaim(w)
        /\ Settle(w, IF Exhausted(v, job[w]) THEN "dead_letter" ELSE "retry_wait")
        /\ attempts' = [attempts EXCEPT ![v][job[w]] = @ + 1]
        /\ pc' = [pc EXCEPT ![w] = "ending"]
        /\ UNCHANGED <<seq, redrives, due>>
     \/ ~ OwnsClaim(w) /\ LoseClaim(w)
  /\ UNCHANGED <<visible, deployed, checkpoint, nextSeq, leases, crashes>>

\* The slice stops (limit, time budget, nothing claimable, lost lease) and its
\* finally block releases exactly its own lease.
EndCycle(w) ==
  LET v == VersionOf[w] IN
  /\ pc[w] \in {"draining", "ending"}
  /\ pc' = [pc EXCEPT ![w] = "idle"]
  /\ IF holder[v] = w
       THEN holder' = [holder EXCEPT ![v] = NoWorker] /\ live' = [live EXCEPT ![v] = FALSE]
       ELSE UNCHANGED leases
  /\ UNCHANGED <<visible, deployed, checkpoint, rows, nextSeq, claims, job, crashes>>

-----------------------------------------------------------------------------
(* Failures, clocks and the operator.                                      *)

\* A worker process dies; its leases stay on the rows, its open bootstrap
\* transaction does not.
Crash(w) ==
  /\ crashes < MaxCrashes /\ pc[w] # "idle"
  /\ crashes' = crashes + 1
  /\ pc' = [pc EXCEPT ![w] = "idle"] /\ job' = [job EXCEPT ![w] = NoEvent]
  /\ IF pc[w] = "booting"
       THEN Rollback(VersionOf[w])
       ELSE UNCHANGED <<checkpoint, rows, nextSeq>>
  /\ UNCHANGED <<visible, deployed, leases, claims>>

\* Handlers time out below the lease TTL and every claim renews the checkpoint
\* first: only a dead or stalled worker outlives a lease.
LeaseExpires(v) ==
  /\ live[v]
  /\ Stalls \/ pc[holder[v]] \in {"idle", "booting"}
  /\ live' = [live EXCEPT ![v] = FALSE]
  /\ UNCHANGED <<visible, deployed, checkpoint, rows, nextSeq, holder, claims, cycles, crashes>>

ClaimExpires(v, e) ==
  /\ claimLive[v][e]
  /\ Stalls \/ job[claimant[v][e]] # e
  /\ claimLive' = [claimLive EXCEPT ![v][e] = FALSE]
  /\ UNCHANGED <<visible, deployed, checkpoint, rows, nextSeq, leases, claimant, cycles, crashes>>

RetryFallsDue(v, e) ==
  /\ status[v][e] = "retry_wait" /\ ~ due[v][e]
  /\ due' = [due EXCEPT ![v][e] = TRUE]
  /\ UNCHANGED <<visible, deployed, checkpoint, status, seq, attempts, redrives, nextSeq,
                 leases, claims, cycles, crashes>>

\* Mutant: later deliveries are not looked at.
UntouchedAfterAny(v, e) == TRUE

\* Nothing after the dead letter has been touched.
UntouchedAfter(v, e) ==
  \A f \in Rows(v) : seq[v][f] > seq[v][e] =>
    status[v][f] = "pending" /\ attempts[v][f] = 0 /\ redrives[v][f] = 0

Redrive(v, e) ==
  /\ Runs(v) /\ checkpoint[v] = "active"
  /\ status[v][e] = "dead_letter" /\ UntouchedAfter(v, e)
  /\ redrives[v][e] < MaxRedrives
  /\ status' = [status EXCEPT ![v][e] = "retry_wait"]
  /\ redrives' = [redrives EXCEPT ![v][e] = @ + 1]
  /\ due' = [due EXCEPT ![v][e] = TRUE]
  /\ UNCHANGED <<visible, deployed, checkpoint, seq, attempts, nextSeq, leases, claims,
                 cycles, crashes>>

-----------------------------------------------------------------------------
Next ==
  \/ \E e \in Event : CommitEvent(e)
  \/ \E v \in Version : Deploy(v)
  \/ \E w \in Worker : BootTranslate(w)
  \/ \E w \in Worker : BootMark(w)
  \/ \E w \in Worker : BootCommit(w)
  \/ \E w \in Worker : BootRefused(w)
  \/ \E w \in Worker : ClaimLease(w)
  \/ \E w \in Worker : Discover(w)
  \/ \E w \in Worker : Discovered(w)
  \/ \E w \in Worker, e \in Event : ClaimNext(w, e)
  \/ \E w \in Worker, outcome \in Outcomes : Complete(w, outcome)
  \/ \E w \in Worker : Fail(w)
  \/ \E w \in Worker : EndCycle(w)
  \/ \E w \in Worker : Crash(w)
  \/ \E v \in Version : LeaseExpires(v)
  \/ \E v \in Version, e \in Event : ClaimExpires(v, e)
  \/ \E v \in Version, e \in Event : RetryFallsDue(v, e)
  \/ \E v \in Version, e \in Event : Redrive(v, e)

Spec == Init /\ [][Next]_vars

\* The dispatch queue ticks for ever, a running cycle keeps stepping, a slice
\* that could claim again and again claims once, and clocks advance.
Progress ==
  /\ \A w \in Worker :
       /\ WF_vars(BootTranslate(w)) /\ WF_vars(BootMark(w)) /\ WF_vars(BootCommit(w))
       /\ SF_vars(ClaimLease(w))
       /\ WF_vars(Discover(w)) /\ WF_vars(Discovered(w))
       /\ SF_vars(\E e \in Event : ClaimNext(w, e))
       /\ WF_vars(Fail(w) \/ \E outcome \in Outcomes : Complete(w, outcome))
       /\ WF_vars(EndCycle(w))
  /\ \A v \in Version : WF_vars(LeaseExpires(v))
  /\ \A v \in Version, e \in Event : WF_vars(ClaimExpires(v, e)) /\ WF_vars(RetryFallsDue(v, e))

FairSpec == Spec /\ Progress

-----------------------------------------------------------------------------
(* Properties.                                                             *)

TypeOK ==
  /\ visible \subseteq Event
  /\ deployed \in Version
  /\ checkpoint \in [Version -> {"none", "translated", "marked", "active"}]
  /\ status \in [Version -> [Event -> Statuses]]
  /\ seq \in [Version -> [Event -> Nat]]
  /\ attempts \in [Version -> [Event -> Nat]]
  /\ redrives \in [Version -> [Event -> Nat]]
  /\ due \in [Version -> [Event -> BOOLEAN]]
  /\ nextSeq \in [Version -> Nat \ {0}]
  /\ holder \in [Version -> Worker \cup {NoWorker}]
  /\ live \in [Version -> BOOLEAN]
  /\ claimant \in [Version -> [Event -> Worker \cup {NoWorker}]]
  /\ claimLive \in [Version -> [Event -> BOOLEAN]]
  /\ pc \in [Worker -> {"idle", "booting", "discovering", "draining", "handling", "ending"}]
  /\ job \in [Worker -> Event \cup {NoEvent}]
  /\ crashes \in Nat

\* Per-subscriber order: a delivery is handled or settled only when every
\* delivery numbered before it has been settled, over retries, take-overs of
\* expired claims, dead letters and redrives (claimNextSubscriptionDelivery).
SettledInOrder ==
  \A v \in Version, e, f \in Event :
    /\ status[v][e] \in {"claimed", "succeeded", "skipped", "superseded", "dead_letter"}
    /\ status[v][f] # "none" /\ seq[v][f] < seq[v][e]
    => status[v][f] \in Terminal

\* delivery_seq is unique in a version and next_delivery_seq is beyond all of
\* them, gaps or not (event_subscription_delivery_local_seq_uq).
SeqFresh ==
  \A v \in Version : checkpoint[v] = "active" =>
    \A e, f \in Rows(v) : seq[v][e] < nextSeq[v] /\ (seq[v][e] = seq[v][f] => e = f)

\* The retry budget survives redrives and version bumps: each redrive buys
\* one more attempt and a bump buys none.
AttemptsBounded ==
  \A v \in Version, e \in Event : attempts[v][e] <= MaxAttempts + redrives[v][e]

\* The row shape the table's CHECK constraints require, and a claim is only
\* ever held under its own version's checkpoint.
ClaimShape ==
  \A v \in Version, e \in Event :
    /\ status[v][e] = "claimed" <=> claimant[v][e] # NoWorker
    /\ claimLive[v][e] => claimant[v][e] # NoWorker
    /\ due[v][e] => status[v][e] = "retry_wait"

\* Settled deliveries are history: no stalled worker's late outcome, no fail,
\* no takeover and no redrive rewrites one; only a dead letter is redriven.
SettledIsFinal ==
  [][\A v \in Version, e \in Event :
       /\ status[v][e] \in {"succeeded", "skipped", "superseded"} => status'[v][e] = status[v][e]
       /\ status[v][e] = "dead_letter" => status'[v][e] \in {"dead_letter", "retry_wait"}]_vars

\* What a version bump takes from an older version it either carries itself
\* or does not subscribe; it is never marked as history.
BumpDropsNothing ==
  \A v \in Version, e \in Event : status[v][e] = "superseded" =>
    \E u \in Version : /\ u > v /\ checkpoint[u] = "active"
                       /\ e \in Subscribed[u] => status[u][e] # "bootstrap_skipped"

\* Once a newer version is active an older one owes nothing.
OldVersionsIdle ==
  \A u, v \in Version : u < v /\ checkpoint[v] = "active" =>
    \A e \in Event : status[u][e] \in Terminal \cup {"none"}

\* A bump never trips over the unique index: translated rows are the prefix
\* and history follows.
BumpNeverCollides ==
  \A v \in Version : checkpoint[v] = "translated" => ~ SeqCollides(v)

\* Every event the running version subscribes is settled in the end, or the
\* version is replaced: no crash, lost lease or failing handler blocks it.
EventuallySettled ==
  \A v \in Version, e \in Event :
    (deployed = v /\ e \in visible \cap Subscribed[v])
      ~> (status[v][e] \in Terminal \/ deployed # v)

-----------------------------------------------------------------------------
(* What it implements.                                                     *)

Active == {v \in Version : checkpoint[v] = "active"}

StageOf(s) ==
  CASE s = "none" -> "absent"
    [] s = "bootstrap_skipped" -> "history"
    [] s \in {"pending", "retry_wait"} -> "waiting"
    [] s = "claimed" -> "handling"
    [] s \in {"succeeded", "skipped"} -> "done"
    [] s = "dead_letter" -> "dead"
    [] OTHER -> "moved"

\* The rows of a bootstrap in progress are seen by nobody.
Lines == [v \in Version |-> [e \in Event |->
  IF v \in Active THEN StageOf(status[v][e]) ELSE "absent"]]

Places == [v \in Version |-> [e \in Event |-> IF v \in Active THEN seq[v][e] ELSE 0]]

Delivery == INSTANCE OrderedDelivery WITH
  Atomic <- ~Rolling, open <- Active, state <- Lines, turn <- Places

\* Leases, take-overs of expired claims, crashes, retries and the three reads of a bootstrap
\* stay inside: seen from the handlers the bus is a set of lines that open in one step.
ImplementsDelivery == Delivery!Spec
=============================================================================
