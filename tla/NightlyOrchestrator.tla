------------------------ MODULE NightlyOrchestrator ------------------------
(***************************************************************************)
(* The nightly job graph.  An anchor message opens a run for tonight's     *)
(* date, with one node per job; every pass over a run polls the jobs in    *)
(* flight, sends the nodes whose upstreams are settled and either closes   *)
(* the run or queues the next tick.  The run, node and pg-boss rows are    *)
(* shared; everything a pass reads it keeps in its own copy, and other     *)
(* passes work between any two of its statements: a second worker process, *)
(* a redelivered message, a boot catch-up or a pass that outlived the      *)
(* expiry of its own message.                                              *)
(***************************************************************************)
EXTENDS Naturals, FiniteSets

CONSTANTS
  Job,        \* members of the graph
  Dags,       \* the graphs a build may declare: hard and soft upstreams of each job
  Gated,      \* jobs with an eligibility predicate
  MayStall,   \* jobs whose yield report may say that they stalled
  Pass,       \* worker slots: one handler invocation at a time each
  NoPass,     \* no job id reserved
  MaxRun,     \* bound: runs ever created
  Nights,     \* bound: anchors
  MaxFaults   \* bound: crashes, failed calls, expiries, boots, manual starts

ASSUME GraphAssumption ==
  /\ Dags \subseteq [hard : [Job -> SUBSET Job], soft : [Job -> SUBSET Job]]
  /\ Gated \subseteq Job /\ MayStall \subseteq Job
ASSUME NoPassAssumption == NoPass \notin Pass
ASSUME BoundAssumption == MaxRun \in Nat /\ Nights \in Nat /\ MaxFaults \in Nat

VARIABLES
  dag,        \* the graph of the running build
  night,      \* the local date; 0 before the first anchor
  runDate,    \* run_date
  runStatus,  \* dag_orchestration_run.status
  node,       \* dag_orchestration_node, by run and job
  job,        \* the pg-boss job behind each reserved id
  starts,     \* queued start messages, by trigger
  ticks,      \* queued ticks, by the run they carry
  pass,       \* what each handler invocation holds
  cut,        \* history: abandoned runs whose sweep lost a node to a fault
  faults

vars == <<dag, night, runDate, runStatus, node, job, starts, ticks, pass, cut, faults>>

Run == 1..MaxRun
NoRun == 0
Anchors == {"cron", "manual"}

RunStates == {"none", "running", "completed", "abandoned"}
Succeeded == {"succeeded", "not_needed", "degraded"}
Terminal == Succeeded \cup {"failed", "skipped"}
InFlight == {"enqueued", "running"}
NodeStates == Terminal \cup InFlight \cup {"pending"}
LiveJob == {"created", "active"}
JobStates == LiveJob \cup {"none", "completed", "failed", "cancelled"}

\* status, the reserved boss_job_id and whether enqueued_at is older than the timeout.
\* A random id is known by the pass that drew it.
NodeRow == [status : NodeStates, id : Pass \cup {NoPass}, late : BOOLEAN]
NewNode == [status |-> "pending", id |-> NoPass, late |-> FALSE]

PassState ==
  [pc : {"idle", "leftovers", "sweep_load", "sweep", "find", "guard", "create", "adopt",
         "load", "poll", "advance", "send", "arm"},
   msg : {"none", "boot", "tick"} \cup Anchors,  \* what it was started by
   held : BOOLEAN,                   \* pg-boss redelivers the message if the pass dies
   today : 0..Nights,                \* the date it computed when it began
   left : SUBSET Run,                \* leftover runs it has still to abandon
   run : Run \cup {NoRun},           \* the run it works on
   snap : [Job -> NodeRow],          \* its copy of the node rows
   todo : SUBSET Job,                \* nodes of the current loop
   seen : [Job -> JobStates \cup {"unseen", "timed_out"}],  \* polled job states
   claimed : SUBSET Job]             \* the node it has claimed and not yet sent

IdlePass ==
  [pc |-> "idle", msg |-> "none", held |-> FALSE, today |-> 0, left |-> {}, run |-> NoRun,
   snap |-> [j \in Job |-> NewNode], todo |-> {}, seen |-> [j \in Job |-> "unseen"],
   claimed |-> {}]

TypeOK ==
  /\ dag \in Dags
  /\ night \in 0..Nights
  /\ runDate \in [Run -> 0..Nights]
  /\ runStatus \in [Run -> RunStates]
  /\ node \in [Run -> [Job -> NodeRow]]
  /\ job \in [Run -> [Job -> [Pass -> JobStates]]]
  /\ starts \in [Anchors -> Nat]
  /\ ticks \in [Run -> Nat]
  /\ pass \in [Pass -> PassState]
  /\ cut \subseteq Run
  /\ faults \in 0..MaxFaults

Init ==
  /\ dag \in Dags
  /\ night = 0
  /\ runDate = [r \in Run |-> 0]
  /\ runStatus = [r \in Run |-> "none"]
  /\ node = [r \in Run |-> [j \in Job |-> NewNode]]
  /\ job = [r \in Run |-> [j \in Job |-> [p \in Pass |-> "none"]]]
  /\ starts = [m \in Anchors |-> 0]
  /\ ticks = [r \in Run |-> 0]
  /\ pass = [p \in Pass |-> IdlePass]
  /\ cut = {}
  /\ faults = 0

At(p, l) == pass[p].pc = l
Done(p) == pass' = [pass EXCEPT ![p] = IdlePass]
Fault == faults < MaxFaults /\ faults' = faults + 1

\* Mutant: updateNodeStatus without its guard.
NodeSetUnguarded(r, j, s) == [node EXCEPT ![r][j].status = s]

\* updateNodeStatus: any write but over a settled row.  Lateness is read of open nodes only.
NodeSet(r, j, s) ==
  IF node[r][j].status \in Terminal THEN node
  ELSE [node EXCEPT ![r][j].status = s, ![r][j].late = @ /\ s \notin Terminal]

\* The copy follows the row only when the write took effect.
SnapSet(p, r, j, s) ==
  IF node[r][j].status \in Terminal THEN pass[p].snap
                                    ELSE [pass[p].snap EXCEPT ![j].status = s]

\* claimNodePending and claimNodeNotNeeded: compare-and-set from pending.
PendingUnchecked(r, j) == TRUE   \* mutant: the claim is not a compare-and-set
Pending(r, j) == node[r][j].status = "pending"

\* boss.send with a reserved id: nothing happens when the id exists.
JobSent(r, j, p) == IF job[r][j][p] = "none" THEN [job EXCEPT ![r][j][p] = "created"] ELSE job

\* boss.cancel: created, retry and active jobs.
JobCancelled(r, j, p) ==
  IF p \in Pass /\ job[r][j][p] \in LiveJob THEN [job EXCEPT ![r][j][p] = "cancelled"] ELSE job

JobOf(r, j, p) == IF p \in Pass THEN job[r][j][p] ELSE "none"

\* The pass is done with the node in this loop.
NodeDone(p, j) ==
  pass' = [pass EXCEPT ![p].todo = @ \ {j}, ![p].snap[j] = NewNode, ![p].seen[j] = "unseen"]

ActiveFor(d) == {r \in Run : runStatus[r] = "running" /\ runDate[r] = d}
RunsFor(d) == {r \in Run : runStatus[r] # "none" /\ runDate[r] = d}

---------------------------------------------------------------------------
(* Messages *)

\* The anchor's hour.  pg-boss does not replay a cron it missed.
NightFalls ==
  /\ night < Nights
  /\ night' = night + 1
  /\ \/ starts' = [starts EXCEPT !["cron"] = @ + 1] /\ UNCHANGED faults
     \/ Fault /\ UNCHANGED starts
  /\ UNCHANGED <<dag, runDate, runStatus, node, job, ticks, pass, cut>>

\* Somebody queues a manual rerun of the whole chain.
ManualStart ==
  /\ night > 0
  /\ Fault
  /\ starts' = [starts EXCEPT !["manual"] = @ + 1]
  /\ UNCHANGED <<dag, night, runDate, runStatus, node, job, ticks, pass, cut>>

\* A tick finds its run by the id it carries.
TakeTick(p, r) ==
  /\ At(p, "idle") /\ ticks[r] > 0
  /\ ticks' = [ticks EXCEPT ![r] = @ - 1]
  /\ pass' = IF runStatus[r] = "running"
             THEN [pass EXCEPT ![p] = [IdlePass EXCEPT !.pc = "load", !.msg = "tick",
                                                       !.held = TRUE, !.run = r]]
             ELSE pass
  /\ UNCHANGED <<dag, night, runDate, runStatus, node, job, starts, cut, faults>>

\* runOrchestratorStart: the date is computed once, then the leftovers are listed.
StartPass(p, m, held) ==
  pass' = [pass EXCEPT ![p] =
             [IdlePass EXCEPT !.pc = "leftovers", !.msg = m, !.held = held, !.today = night,
                              !.left = {r \in Run : /\ runStatus[r] = "running"
                                                    /\ runDate[r] # night}]]

TakeAnchor(p, m) ==
  /\ At(p, "idle") /\ starts[m] > 0
  /\ starts' = [starts EXCEPT ![m] = @ - 1]
  /\ StartPass(p, m, TRUE)
  /\ UNCHANGED <<dag, night, runDate, runStatus, node, job, ticks, cut, faults>>

\* A boot inside the window, on a date that has no run of any status.
BootCatchUp(p) ==
  /\ At(p, "idle") /\ night > 0
  /\ RunsFor(night) = {}
  /\ Fault
  /\ StartPass(p, "boot", FALSE)
  /\ UNCHANGED <<dag, night, runDate, runStatus, node, job, starts, ticks, cut>>

\* The pass's message is in the queue again.
Redelivered(p, held) ==
  /\ ticks' = IF held /\ pass[p].msg = "tick" THEN [ticks EXCEPT ![pass[p].run] = @ + 1]
                                             ELSE ticks
  /\ starts' = IF held /\ pass[p].msg \in Anchors THEN [starts EXCEPT ![pass[p].msg] = @ + 1]
                                                 ELSE starts

\* Mutant: the exception is swallowed.
LostQuietly(p) == UNCHANGED <<starts, ticks, cut>> /\ Done(p)

\* The pass ends without completing its message: the process dies, a statement outside the
\* isolated ones throws.  pg-boss redelivers; a boot catch-up has nothing to redeliver.
Lost(p) ==
  /\ Redelivered(p, pass[p].held)
  /\ cut' = IF pass[p].pc \in {"sweep_load", "sweep"} THEN cut \cup {pass[p].run} ELSE cut
  /\ Done(p)

Dies(p) ==
  /\ ~At(p, "idle")
  /\ Fault
  /\ Lost(p)
  /\ UNCHANGED <<dag, night, runDate, runStatus, node, job>>

\* The message expires under a pass that is still alive.
Expire(p) ==
  /\ pass[p].held
  /\ Fault
  /\ Redelivered(p, TRUE)
  /\ pass' = [pass EXCEPT ![p].held = FALSE]
  /\ UNCHANGED <<dag, night, runDate, runStatus, node, job, cut>>

---------------------------------------------------------------------------
(* The anchor: leftovers, then tonight's run *)

\* Between two leftovers: none taken yet, or the last one swept.
BetweenRuns(p) == At(p, "leftovers") \/ (At(p, "sweep") /\ pass[p].todo = {})

\* finishRun first, so that a queued tick finds the run closed.
Abandon(p, r) ==
  /\ BetweenRuns(p) /\ r \in pass[p].left
  /\ runStatus' = IF runStatus[r] = "running" THEN [runStatus EXCEPT ![r] = "abandoned"]
                                              ELSE runStatus
  /\ pass' = [pass EXCEPT ![p].pc = "sweep_load", ![p].left = @ \ {r}, ![p].run = r]
  /\ UNCHANGED <<dag, night, runDate, node, job, starts, ticks, cut, faults>>

SweepLoad(p) ==
  /\ At(p, "sweep_load")
  /\ LET rows == node[pass[p].run]  IN
     pass' = [pass EXCEPT ![p].pc = "sweep",
                          ![p].snap = [j \in Job |-> IF rows[j].status \in Terminal
                                                    THEN NewNode ELSE rows[j]],
                          ![p].todo = {j \in Job : rows[j].status \notin Terminal}]
  /\ UNCHANGED <<dag, night, runDate, runStatus, node, job, starts, ticks, cut, faults>>

\* A node with an id: cancel its job, or fail to (best effort), before it is settled.
SweepCancel(p, j) ==
  LET r == pass[p].run  IN
  /\ At(p, "sweep") /\ j \in pass[p].todo
  /\ pass[p].snap[j].id # NoPass /\ pass[p].seen[j] = "unseen"
  /\ \/ job' = JobCancelled(r, j, pass[p].snap[j].id) /\ UNCHANGED faults
     \/ Fault /\ UNCHANGED job
  /\ pass' = [pass EXCEPT ![p].seen[j] = "cancelled"]
  /\ UNCHANGED <<dag, night, runDate, runStatus, node, starts, ticks, cut>>

SweepSettle(p, j) ==
  LET r == pass[p].run  IN
  /\ At(p, "sweep") /\ j \in pass[p].todo
  /\ \/ /\ pass[p].snap[j].id = NoPass
        /\ node' = NodeSet(r, j, "skipped")
     \/ /\ pass[p].snap[j].id # NoPass /\ pass[p].seen[j] = "cancelled"
        /\ node' = NodeSet(r, j, "failed")
  /\ NodeDone(p, j)
  /\ UNCHANGED <<dag, night, runDate, runStatus, job, starts, ticks, cut, faults>>

\* A failed read gives up the sweep of this run, a failed statement one node of it; a cancel
\* that fails is SweepCancel's.
SweepFails(p) ==
  /\ Fault
  /\ \/ /\ At(p, "sweep_load")
        /\ pass' = [pass EXCEPT ![p].pc = "sweep", ![p].todo = {}]
     \/ At(p, "sweep") /\ \E j \in pass[p].todo : NodeDone(p, j)
  /\ cut' = cut \cup {pass[p].run}
  /\ UNCHANGED <<dag, night, runDate, runStatus, node, job, starts, ticks>>

\* getActiveRunForDate, once the leftovers are closed.
FindRun(p) ==
  /\ BetweenRuns(p) /\ pass[p].left = {}
  /\ IF ActiveFor(pass[p].today) = {}
     THEN pass' = [pass EXCEPT ![p].pc = IF pass[p].msg = "manual" THEN "create" ELSE "guard",
                               ![p].run = NoRun]
     ELSE \E r \in ActiveFor(pass[p].today) :
            pass' = [pass EXCEPT ![p].pc = "load", ![p].run = r]
  /\ UNCHANGED <<dag, night, runDate, runStatus, node, job, starts, ticks, cut, faults>>

\* A cron or boot start never reruns a date that has a run.
CronGuard(p) ==
  /\ At(p, "guard")
  /\ IF RunsFor(pass[p].today) # {} THEN Done(p)
                                    ELSE pass' = [pass EXCEPT ![p].pc = "create"]
  /\ UNCHANGED <<dag, night, runDate, runStatus, node, job, starts, ticks, cut, faults>>

\* createRunWithNodes: one transaction; a running run of the date wins the unique index.
CreateRun(p) ==
  /\ At(p, "create")
  /\ \/ /\ ActiveFor(pass[p].today) = {}
        /\ \E r \in Run :
             /\ runStatus[r] = "none" /\ \A q \in Run : q < r => runStatus[q] # "none"
             /\ runStatus' = [runStatus EXCEPT ![r] = "running"]
             /\ runDate' = [runDate EXCEPT ![r] = pass[p].today]
             /\ pass' = [pass EXCEPT ![p].pc = "load", ![p].run = r]
     \/ /\ ActiveFor(pass[p].today) # {}
        /\ pass' = [pass EXCEPT ![p].pc = "adopt"]
        /\ UNCHANGED <<dag, runDate, runStatus>>
  /\ UNCHANGED <<dag, night, node, job, starts, ticks, cut, faults>>

\* The loser reads the winner's run, which may be closed by now.
AdoptRun(p) ==
  /\ At(p, "adopt")
  /\ \/ \E r \in ActiveFor(pass[p].today) :
          pass' = [pass EXCEPT ![p].pc = "load", ![p].run = r]
     \/ ActiveFor(pass[p].today) = {} /\ Done(p)
  /\ UNCHANGED <<dag, night, runDate, runStatus, node, job, starts, ticks, cut, faults>>

---------------------------------------------------------------------------
(* advanceRun, step 1: poll what is in flight *)

ReloadDue(p) == At(p, "poll") /\ pass[p].todo = {}

LoadInflight(p) ==
  /\ At(p, "load")
  /\ LET rows == node[pass[p].run]  IN
     pass' = [pass EXCEPT ![p].pc = "poll",
                          ![p].snap = [j \in Job |-> IF rows[j].status \in InFlight
                                                    THEN rows[j] ELSE NewNode],
                          ![p].todo = {j \in Job : rows[j].status \in InFlight}]
  /\ UNCHANGED <<dag, night, runDate, runStatus, node, job, starts, ticks, cut, faults>>

\* A read of the node rows fails: the pass still arms the next tick.
LoadFails(p) ==
  /\ At(p, "load") \/ ReloadDue(p)
  /\ Fault
  /\ pass' = [pass EXCEPT ![p].pc = "arm"]
  /\ UNCHANGED <<dag, night, runDate, runStatus, node, job, starts, ticks, cut>>

TimedOut(p, j) == pass[p].snap[j].late

\* getJobById under the id of the copy.  A queued job that is not late, or an active one
\* already written as running, is left alone.
Observe(p, j) ==
  LET seen == JobOf(pass[p].run, j, pass[p].snap[j].id)
      idle == \/ seen = "created" /\ ~TimedOut(p, j)
              \/ seen = "active" /\ pass[p].snap[j].status = "running"
  IN
  /\ At(p, "poll") /\ j \in pass[p].todo /\ pass[p].seen[j] = "unseen"
  /\ IF idle THEN NodeDone(p, j) ELSE pass' = [pass EXCEPT ![p].seen[j] = seen]
  /\ UNCHANGED <<dag, night, runDate, runStatus, node, job, starts, ticks, cut, faults>>

\* A failed call for one node is logged and the node left for the next tick.
PollFails(p, j) ==
  /\ At(p, "poll") /\ j \in pass[p].todo
  /\ Fault
  /\ NodeDone(p, j)
  /\ UNCHANGED <<dag, night, runDate, runStatus, node, job, starts, ticks, cut>>

\* Mutant: the raw pg-boss state is written to the node.
VerdictsRaw(j, seen) == IF seen = "none" THEN {} ELSE {seen}

\* What a polled state makes of a node.
Verdicts(j, seen) ==
  CASE seen = "completed" -> {"succeeded"} \cup (IF j \in MayStall THEN {"degraded"} ELSE {})
    [] seen \in {"failed", "cancelled", "timed_out"} -> {"failed"}
    [] seen = "active" -> {"running"}
    [] OTHER -> {}

PollWrites(p, j) ==
  /\ At(p, "poll") /\ j \in pass[p].todo
  /\ \E s \in Verdicts(j, pass[p].seen[j]) : node' = NodeSet(pass[p].run, j, s)
  /\ NodeDone(p, j)
  /\ UNCHANGED <<dag, night, runDate, runStatus, job, starts, ticks, cut, faults>>

\* No job under the reserved id: send it again, until the node times out.
PollResends(p, j) ==
  LET r == pass[p].run  IN
  /\ At(p, "poll") /\ j \in pass[p].todo
  /\ pass[p].seen[j] = "none" /\ ~TimedOut(p, j) /\ pass[p].snap[j].id # NoPass
  /\ job' = JobSent(r, j, pass[p].snap[j].id)
  /\ NodeDone(p, j)
  /\ UNCHANGED <<dag, night, runDate, runStatus, node, starts, ticks, cut, faults>>

\* A timed-out node: its job, if it has one, is cancelled before the node is failed.
PollCancels(p, j) ==
  /\ At(p, "poll") /\ j \in pass[p].todo
  /\ pass[p].seen[j] \in {"none", "created"} /\ TimedOut(p, j)
  /\ \/ /\ job' = IF pass[p].seen[j] = "none" THEN job
                  ELSE JobCancelled(pass[p].run, j, pass[p].snap[j].id)
        /\ UNCHANGED faults
     \/ pass[p].seen[j] = "created" /\ Fault /\ UNCHANGED job
  /\ pass' = [pass EXCEPT ![p].seen[j] = "timed_out"]
  /\ UNCHANGED <<dag, night, runDate, runStatus, node, starts, ticks, cut>>

---------------------------------------------------------------------------
(* advanceRun, step 2: send what is ready, from a second copy of the rows *)

\* The second loop reads nothing but statuses.
StatusesOf(rows) == [j \in Job |-> [NewNode EXCEPT !.status = rows[j].status]]

Reload(p) ==
  /\ ReloadDue(p)
  /\ LET rows == node[pass[p].run]  IN
     pass' = [pass EXCEPT ![p].pc = "advance", ![p].snap = StatusesOf(rows),
                          ![p].todo = {j \in Job : rows[j].status = "pending"}]
  /\ UNCHANGED <<dag, night, runDate, runStatus, node, job, starts, ticks, cut, faults>>

Blocked(rows, j) == \E u \in dag.hard[j] : rows[u].status \in {"failed", "skipped"}
\* Mutant: a soft upstream is not waited for.
HardSettled(rows, j) == \A u \in dag.hard[j] : rows[u].status \in Terminal
UpstreamsSettled(rows, j) ==
  \A u \in dag.hard[j] \cup dag.soft[j] : rows[u].status \in Terminal
Ready(rows, j) == ~Blocked(rows, j) /\ UpstreamsSettled(rows, j)

Considers(p, j) == At(p, "advance") /\ j \in pass[p].todo

SkipBlocked(p, j) ==
  LET r == pass[p].run  IN
  /\ Considers(p, j) /\ Blocked(pass[p].snap, j)
  /\ node' = NodeSet(r, j, "skipped")
  /\ pass' = [pass EXCEPT ![p].todo = @ \ {j}, ![p].snap = SnapSet(p, r, j, "skipped")]
  /\ UNCHANGED <<dag, night, runDate, runStatus, job, starts, ticks, cut, faults>>

\* An upstream is open, or a call for this node fails: left for the next tick.
Wait(p, j) ==
  /\ Considers(p, j)
  /\ \/ /\ ~Blocked(pass[p].snap, j) /\ ~UpstreamsSettled(pass[p].snap, j)
        /\ UNCHANGED faults
     \/ Fault
  /\ pass' = [pass EXCEPT ![p].todo = @ \ {j}]
  /\ UNCHANGED <<dag, night, runDate, runStatus, node, job, starts, ticks, cut>>

\* The eligibility predicate says no.  A lost compare-and-set reads the row again.
NotNeeded(p, j) ==
  LET r == pass[p].run  IN
  /\ Considers(p, j) /\ Ready(pass[p].snap, j) /\ j \in Gated
  /\ node' = IF Pending(r, j) THEN [node EXCEPT ![r][j].status = "not_needed"] ELSE node
  /\ pass' = [pass EXCEPT ![p].todo = @ \ {j}, ![p].snap[j].status = node'[r][j].status]
  /\ UNCHANGED <<dag, night, runDate, runStatus, job, starts, ticks, cut, faults>>

\* The claim reserves the id; the send is a statement of its own.
Claim(p, j) ==
  LET r == pass[p].run  IN
  /\ Considers(p, j) /\ Ready(pass[p].snap, j)
  /\ IF Pending(r, j)
     THEN /\ node' = [node EXCEPT ![r][j] = [status |-> "enqueued", id |-> p, late |-> FALSE]]
          /\ pass' = [pass EXCEPT ![p].pc = "send", ![p].todo = @ \ {j}, ![p].claimed = {j}]
     ELSE /\ pass' = [pass EXCEPT ![p].todo = @ \ {j}]
          /\ UNCHANGED node
  /\ UNCHANGED <<dag, night, runDate, runStatus, job, starts, ticks, cut, faults>>

\* boss.send answers with the id, or with null because another pass sent it first.
Send(p, j) ==
  /\ At(p, "send") /\ j \in pass[p].claimed
  /\ job' = JobSent(pass[p].run, j, p)
  /\ pass' = [pass EXCEPT ![p].pc = "advance", ![p].claimed = {},
                          ![p].snap[j].status = "enqueued"]
  /\ UNCHANGED <<dag, night, runDate, runStatus, node, starts, ticks, cut, faults>>

\* The send throws: the node stays enqueued without a job.
SendThrows(p, j) ==
  /\ At(p, "send") /\ j \in pass[p].claimed
  /\ Fault
  /\ pass' = [pass EXCEPT ![p].pc = "advance", ![p].claimed = {}]
  /\ UNCHANGED <<dag, night, runDate, runStatus, node, job, starts, ticks, cut>>

\* The send answers null and there is no job: the node fails at once.
SendRefused(p, j) ==
  LET r == pass[p].run  IN
  /\ At(p, "send") /\ j \in pass[p].claimed /\ job[r][j][p] = "none"
  /\ Fault
  /\ node' = NodeSet(r, j, "failed")
  /\ pass' = [pass EXCEPT ![p].pc = "advance", ![p].claimed = {},
                          ![p].snap = SnapSet(p, r, j, "failed")]
  /\ UNCHANGED <<dag, night, runDate, runStatus, job, starts, ticks, cut>>

---------------------------------------------------------------------------
(* advanceAndContinue: close the run or arm the next tick *)

NoneWaiting(rows) == \A j \in Job : rows[j].status # "pending"  \* mutant: forgets jobs in flight
Complete(rows) == \A j \in Job : rows[j].status \in Terminal

FinishRun(p) ==
  /\ At(p, "advance") /\ pass[p].todo = {} /\ Complete(pass[p].snap)
  /\ runStatus' = IF runStatus[pass[p].run] = "running"
                  THEN [runStatus EXCEPT ![pass[p].run] = "completed"] ELSE runStatus
  /\ Done(p)
  /\ UNCHANGED <<dag, night, runDate, node, job, starts, ticks, cut, faults>>

\* Closing the run failed.
FinishFails(p) ==
  /\ At(p, "advance") /\ pass[p].todo = {} /\ Complete(pass[p].snap)
  /\ Fault
  /\ pass' = [pass EXCEPT ![p].pc = "arm", ![p].snap = IdlePass.snap]
  /\ UNCHANGED <<dag, night, runDate, runStatus, node, job, starts, ticks, cut>>

\* Something is still open, or a statement of advanceRun threw.
NotSettled(p) ==
  \/ At(p, "arm")
  \/ At(p, "advance") /\ pass[p].todo = {} /\ ~Complete(pass[p].snap)

Arm(p) ==
  /\ NotSettled(p)
  /\ ticks' = [ticks EXCEPT ![pass[p].run] = @ + 1]
  /\ Done(p)
  /\ UNCHANGED <<dag, night, runDate, runStatus, node, job, starts, cut, faults>>

\* The tick could not be queued: the handler throws and its own message comes back.
ArmFails(p) ==
  /\ NotSettled(p)
  /\ Fault
  /\ Lost(p)
  /\ UNCHANGED <<dag, night, runDate, runStatus, node, job>>

---------------------------------------------------------------------------
(* The members' own queues, and time *)

JobStarts(r, j, p) ==
  /\ job[r][j][p] = "created"
  /\ job' = [job EXCEPT ![r][j][p] = "active"]
  /\ UNCHANGED <<dag, night, runDate, runStatus, node, starts, ticks, pass, cut, faults>>

\* Completed, failed for good, or back in the queue (retry) within the fault budget.
JobEnds(r, j, p) ==
  /\ job[r][j][p] = "active"
  /\ \/ /\ \E s \in {"completed", "failed"} : job' = [job EXCEPT ![r][j][p] = s]
        /\ UNCHANGED faults
     \/ Fault /\ job' = [job EXCEPT ![r][j][p] = "created"]
  /\ UNCHANGED <<dag, night, runDate, runStatus, node, starts, ticks, pass, cut>>

\* NODE_TIMEOUT_SECONDS after the claim.
TimeoutElapses(r, j) ==
  /\ node[r][j].status \in InFlight /\ ~node[r][j].late
  /\ node' = [node EXCEPT ![r][j].late = TRUE]
  /\ UNCHANGED <<dag, night, runDate, runStatus, job, starts, ticks, pass, cut, faults>>

---------------------------------------------------------------------------
Poll(p, j) == Observe(p, j) \/ PollWrites(p, j) \/ PollResends(p, j) \/ PollCancels(p, j)

AdvanceNode(p, j) ==
  \/ SkipBlocked(p, j) \/ Wait(p, j) \/ NotNeeded(p, j) \/ Claim(p, j) \/ Send(p, j)

Start(p) ==
  \/ \E r \in Run : Abandon(p, r)
  \/ SweepLoad(p)
  \/ \E j \in Job : SweepCancel(p, j) \/ SweepSettle(p, j)
  \/ FindRun(p) \/ CronGuard(p) \/ CreateRun(p) \/ AdoptRun(p)

Advance(p) ==
  \/ LoadInflight(p)
  \/ \E j \in Job : Poll(p, j) \/ AdvanceNode(p, j)
  \/ Reload(p) \/ FinishRun(p) \/ Arm(p)

Take(p) == \/ \E r \in Run : TakeTick(p, r)
           \/ \E m \in Anchors : TakeAnchor(p, m)

Fails(p) ==
  \/ BootCatchUp(p) \/ Dies(p) \/ Expire(p) \/ SweepFails(p)
  \/ LoadFails(p) \/ FinishFails(p) \/ ArmFails(p)
  \/ \E j \in Job : PollFails(p, j) \/ SendThrows(p, j) \/ SendRefused(p, j)

Next ==
  \/ NightFalls \/ ManualStart
  \/ \E p \in Pass : Take(p) \/ Start(p) \/ Advance(p) \/ Fails(p)
  \/ \E r \in Run, j \in Job :
       \/ TimeoutElapses(r, j)
       \/ \E p \in Pass : JobStarts(r, j, p) \/ JobEnds(r, j, p)

Spec == Init /\ [][Next]_vars

---------------------------------------------------------------------------
(* Properties *)

\* A node is never sent twice: whatever passes overlap and whatever is sent again, at most
\* one pg-boss job ever exists for it, the one whose id the node holds (members are paid).
OneJobPerNode ==
  \A r \in Run, j \in Job, p \in Pass :
    job[r][j][p] # "none" => node[r][j].id = p /\ node[r][j].status # "pending"

\* A job exists only after every hard upstream of its run succeeded (or was not needed, or
\* degraded) and every soft one settled, and they stay so, from whatever copy it was sent.
UpstreamsFirst ==
  \A r \in Run, j \in Job, p \in Pass :
    job[r][j][p] # "none" =>
      /\ \A u \in dag.hard[j] : node[r][u].status \in Succeeded
      /\ \A u \in dag.soft[j] : node[r][u].status \in Terminal

\* A settled node never moves: no stale poll revives it or changes its verdict.
SettledNodesFinal ==
  [][\A r \in Run, j \in Job :
       node[r][j].status \in Terminal => node'[r][j].status = node[r][j].status]_vars

BeingSwept(r) ==
  \E p \in Pass :
    pass[p].run = r /\ (At(p, "sweep_load") \/ (At(p, "sweep") /\ pass[p].todo # {}))

\* A closed run is a settled one: it is completed only over settled nodes, and a sweep that
\* lost nothing to a fault leaves no node of an abandoned run open, though passes that began
\* before it go on claiming, sending and polling.
ClosedIsSettled ==
  \A r \in Run :
    runStatus[r] = "completed" \/ (runStatus[r] = "abandoned" /\ r \notin cut /\ ~BeingSwept(r))
      => \A j \in Job : node[r][j].status \in Terminal

Working(p, r) ==
  /\ pass[p].run = r
  /\ pass[p].pc \in {"load", "poll", "advance", "send", "arm"}

\* A start message that is being handled and will come to r: to abandon it or to adopt it.
WillReach(p, r) ==
  /\ pass[p].held /\ pass[p].msg \in Anchors
  /\ \/ r \in pass[p].left
     \/ /\ runDate[r] = pass[p].today
        /\ pass[p].pc \in {"leftovers", "sweep_load", "sweep"}

\* No single fault cuts the chain of a running run: there is always a tick, a pass over it,
\* or a start message that will adopt or abandon it.
ChainNeverCut ==
  \A r \in Run :
    runStatus[r] = "running" =>
      \/ ticks[r] > 0
      \/ \E m \in Anchors : starts[m] > 0
      \/ \E p \in Pass : Working(p, r) \/ WillReach(p, r)
=============================================================================
