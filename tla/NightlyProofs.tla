---------------------------- MODULE NightlyProofs ----------------------------
(***************************************************************************)
(* Proofs about NightlyOrchestrator, for every set of graphs, number of    *)
(* runs, nights, worker slots and faults.                                  *)
(***************************************************************************)
EXTENDS NightlyOrchestrator, TLAPS

---------------------------------------------------------------------------
(* The inductive invariant, in parts *)

\* Everything but the node and job rows and the passes.
RestTyped ==
  /\ dag \in Dags
  /\ night \in 0..Nights
  /\ runDate \in [Run -> 0..Nights]
  /\ runStatus \in [Run -> RunStates]
  /\ starts \in [Anchors -> Nat]
  /\ ticks \in [Run -> Nat]
  /\ cut \subseteq Run
  /\ faults \in 0..MaxFaults

UpstreamsDone(rows, j) ==
  /\ \A u \in dag.hard[j] : rows[u].status \in Succeeded
  /\ \A u \in dag.soft[j] : rows[u].status \in Terminal

\* An id is reserved only for a node that left "pending" over settled upstreams, and a job
\* exists only under the reserved id.
RowsFit ==
  /\ node \in [Run -> [Job -> NodeRow]]
  /\ job \in [Run -> [Job -> [Pass -> JobStates]]]
  /\ \A r \in Run, j \in Job :
       /\ node[r][j].status = "pending" => node[r][j].id = NoPass
       /\ node[r][j].id # NoPass => UpstreamsDone(node[r], j)
       /\ \A p \in Pass : job[r][j][p] # "none" => node[r][j].id = p

\* A reserved id and a verdict are never taken back.
NodesKept(nodes, next) ==
  \A r \in Run, j \in Job :
    /\ nodes[r][j].id # NoPass => next[r][j].id = nodes[r][j].id
    /\ nodes[r][j].status \in Terminal => next[r][j].status = nodes[r][j].status

\* What the copies of a pass have in common with the rows, however old they are.
PassFits(p, d, nodes) ==
  /\ d.msg = "tick" => d.pc \in {"load", "poll", "advance", "send", "arm"}
  /\ d.pc \in {"sweep_load", "sweep", "load", "poll", "advance", "send", "arm"} => d.run \in Run
  /\ \A j \in Job : d.snap[j].id # NoPass =>
       /\ d.pc \in {"sweep", "poll"} /\ j \in d.todo
       /\ nodes[d.run][j].id = d.snap[j].id
  /\ \A j \in d.claimed : d.pc = "send" /\ nodes[d.run][j].id = p
  /\ d.pc \in {"advance", "send"} =>
       \A u \in Job : d.snap[u].status \in Terminal =>
                        nodes[d.run][u].status = d.snap[u].status

PassesFit == \A p \in Pass : PassFits(p, pass[p], node)

Sweeps(d, r, j) ==
  d.run = r /\ (d.pc = "sweep_load" \/ (d.pc = "sweep" /\ j \in d.todo))

Settled(r) == \A j \in Job : node[r][j].status \in Terminal

\* A closed run is settled but for the nodes that a sweep has before it or has lost.
ClosedFits ==
  /\ \A r \in Run : runStatus[r] = "completed" => Settled(r)
  /\ \A r \in Run, j \in Job : runStatus[r] = "abandoned" /\ r \notin cut =>
       node[r][j].status \in Terminal \/ \E p \in Pass : Sweeps(pass[p], r, j)

Inv ==
  /\ RestTyped
  /\ RowsFit
  /\ pass \in [Pass -> PassState]
  /\ PassesFit
  /\ ClosedFits

---------------------------------------------------------------------------
(* What a step leaves true of the rest *)

LEMMA PassKept ==
  ASSUME NEW p, NEW d \in PassState, NEW nodes, NEW next,
         NodesKept(nodes, next), PassFits(p, d, nodes), p # NoPass
  PROVE  PassFits(p, d, next)
BY DEF PassState, NodesKept, PassFits

LEMMA NodesSame == node' = node => NodesKept(node, node')
BY DEF NodesKept

LEMMA RowsSame == ASSUME Inv, UNCHANGED <<dag, node, job>> PROVE RowsFit' /\ NodesKept(node, node')
BY NodesSame DEF Inv, RowsFit, UpstreamsDone

\* One pass moves, whatever rows it writes.
LEMMA PassMoves ==
  ASSUME Inv, NEW p \in Pass, NEW d \in PassState, pass' = [pass EXCEPT ![p] = d],
         RestTyped', RowsFit', NodesKept(node, node'), PassFits(p, d, node'),
         cut \subseteq cut',
         \A r \in Run, j \in Job :
           Sweeps(pass[p], r, j) => \/ Sweeps(d, r, j) \/ r \in cut'
                                    \/ node'[r][j].status \in Terminal,
         \A r \in Run : runStatus'[r] = "abandoned" =>
           runStatus[r] = "abandoned" \/ \A j \in Job : Sweeps(d, r, j),
         \A r \in Run : runStatus'[r] = "completed" => runStatus[r] = "completed" \/ Settled(r)
  PROVE  Inv'
<1>1. pass \in [Pass -> PassState] /\ PassesFit /\ ClosedFits
  BY DEF Inv
<1>2. /\ pass' \in [Pass -> PassState] /\ pass'[p] = d
      /\ \A q \in Pass : q # p => pass'[q] = pass[q]
  BY <1>1
<1>3. PassesFit'
  <2>1. ASSUME NEW q \in Pass PROVE PassFits(q, pass'[q], node')
    <3>1. CASE q = p
      BY <1>2, <3>1
    <3>2. CASE q # p
      BY <1>1, <1>2, <3>2, PassKept, NoPassAssumption DEF PassesFit
    <3> QED
      BY <3>1, <3>2
  <2> QED
    BY <2>1 DEF PassesFit
<1>4. \A r \in Run, j \in Job : node[r][j].status \in Terminal => node'[r][j].status \in Terminal
  BY DEF NodesKept
<1>5. ASSUME NEW r \in Run, runStatus'[r] = "completed" PROVE Settled(r)'
  BY <1>1, <1>4, <1>5 DEF ClosedFits, Settled
<1>6. ASSUME NEW r \in Run, NEW j \in Job, runStatus'[r] = "abandoned", r \notin cut'
      PROVE  node'[r][j].status \in Terminal \/ \E q \in Pass : Sweeps(pass'[q], r, j)
  <2>1. CASE \A k \in Job : Sweeps(d, r, k)
    BY <1>2, <2>1
  <2>2. CASE runStatus[r] = "abandoned"
    <3>1. node[r][j].status \in Terminal \/ \E q \in Pass : Sweeps(pass[q], r, j)
      BY <1>1, <1>6, <2>2 DEF ClosedFits
    <3>2. CASE node[r][j].status \in Terminal
      BY <1>4, <3>2
    <3>3. ASSUME NEW q \in Pass, Sweeps(pass[q], r, j)
          PROVE  node'[r][j].status \in Terminal \/ \E x \in Pass : Sweeps(pass'[x], r, j)
      <4>1. CASE q = p
        BY <1>2, <1>6, <3>3, <4>1
      <4>2. CASE q # p
        BY <1>2, <3>3, <4>2
      <4> QED
        BY <4>1, <4>2
    <3> QED
      BY <3>1, <3>2, <3>3
  <2> QED
    BY <1>6, <2>1, <2>2
<1>7. ClosedFits'
  BY <1>5, <1>6 DEF ClosedFits
<1> QED
  BY <1>2, <1>3, <1>7 DEF Inv

\* No pass moves.
LEMMA PassesStay ==
  ASSUME Inv, pass' = pass, RestTyped', RowsFit', NodesKept(node, node'),
         runStatus' = runStatus, cut' = cut
  PROVE  Inv'
<1>1. pass \in [Pass -> PassState] /\ PassesFit /\ ClosedFits
  BY DEF Inv
<1>2. PassesFit'
  <2>1. ASSUME NEW q \in Pass PROVE PassFits(q, pass'[q], node')
    BY <1>1, PassKept, NoPassAssumption DEF PassesFit
  <2> QED
    BY <2>1 DEF PassesFit
<1>3. \A r \in Run, j \in Job : node[r][j].status \in Terminal => node'[r][j].status \in Terminal
  BY DEF NodesKept
<1>4. ClosedFits'
  BY <1>1, <1>3 DEF ClosedFits, Settled
<1> QED
  BY <1>1, <1>2, <1>4 DEF Inv

---------------------------------------------------------------------------
(* Writes of a node or a job row *)

LEMMA UpstreamsAreJobs ==
  ASSUME Inv, NEW j \in Job PROVE dag.hard[j] \subseteq Job /\ dag.soft[j] \subseteq Job
BY GraphAssumption DEF Inv, RestTyped

NodeEdited(r, j, x) == [node EXCEPT ![r][j] = x]
JobEdited(r, j, p, s) == [job EXCEPT ![r][j][p] = s]

LEMMA NodeWritten ==
  ASSUME Inv, NEW r \in Run, NEW j \in Job, NEW x \in NodeRow,
         node' = NodeEdited(r, j, x), UNCHANGED <<dag, job>>,
         node[r][j].id # NoPass => x.id = node[r][j].id,
         node[r][j].status \in Terminal => x.status = node[r][j].status,
         x.status = "pending" => x.id = NoPass,
         x.id # NoPass => UpstreamsDone(node[r], j)
  PROVE  /\ RowsFit' /\ NodesKept(node, node')
         /\ node'[r][j] = x
         /\ \A q \in Run, k \in Job : q # r \/ k # j => node'[q][k] = node[q][k]
<1>1. /\ node \in [Run -> [Job -> NodeRow]] /\ job \in [Run -> [Job -> [Pass -> JobStates]]]
      /\ dag \in Dags /\ RowsFit
  BY DEF Inv, RestTyped, RowsFit
<1>2. /\ node' \in [Run -> [Job -> NodeRow]] /\ node'[r][j] = x
      /\ \A q \in Run, k \in Job : q # r \/ k # j => node'[q][k] = node[q][k]
  BY <1>1 DEF NodeEdited
<1>3. NodesKept(node, node')
  BY <1>2 DEF NodesKept
<1>4. ASSUME NEW q \in Run, NEW k \in Job, UpstreamsDone(node[q], k)
      PROVE  UpstreamsDone(node'[q], k)
  <2>1. \A u \in Job : node[q][u].status \in Terminal => node'[q][u].status = node[q][u].status
    BY <1>3 DEF NodesKept
  <2>2. Succeeded \subseteq Terminal
    BY DEF Terminal
  <2> QED
    BY <1>4, <2>1, <2>2, UpstreamsAreJobs DEF UpstreamsDone
<1>5. ASSUME NEW q \in Run, NEW k \in Job, node'[q][k].id # NoPass
      PROVE  UpstreamsDone(node'[q], k)
  <2>1. CASE q = r /\ k = j
    BY <1>2, <1>4, <1>5, <2>1
  <2>2. CASE q # r \/ k # j
    <3>1. UpstreamsDone(node[q], k)
      BY <1>1, <1>2, <1>5, <2>2 DEF RowsFit
    <3> QED
      BY <1>4, <3>1
  <2> QED
    BY <2>1, <2>2
<1>6. ASSUME NEW q \in Run, NEW k \in Job, NEW p \in Pass, job[q][k][p] # "none"
      PROVE  node'[q][k].id = p
  <2>1. node[q][k].id = p /\ p # NoPass
    BY <1>1, <1>6, NoPassAssumption DEF RowsFit
  <2> QED
    BY <1>2, <2>1
<1>7. \A q \in Run, k \in Job : node'[q][k].status = "pending" => node'[q][k].id = NoPass
  BY <1>1, <1>2 DEF RowsFit
<1>8. \A q \in Run, k \in Job : UpstreamsDone(node'[q], k) => UpstreamsDone(node[q], k)'
  BY DEF UpstreamsDone
<1>9. \A q \in Run, k \in Job :
        /\ node'[q][k].status = "pending" => node'[q][k].id = NoPass
        /\ node'[q][k].id # NoPass => UpstreamsDone(node[q], k)'
        /\ \A p \in Pass : job'[q][k][p] # "none" => node'[q][k].id = p
  BY <1>5, <1>6, <1>7, <1>8
<1> QED
  BY <1>1, <1>2, <1>3, <1>9 DEF RowsFit

\* A guarded write settles the node or leaves it settled.
LEMMA NodeSetFits ==
  ASSUME Inv, NEW r \in Run, NEW j \in Job, NEW s \in NodeStates, s # "pending",
         node' = NodeSet(r, j, s), UNCHANGED <<dag, job>>
  PROVE  /\ RowsFit' /\ NodesKept(node, node')
         /\ node[r][j].status \in Terminal => node'[r][j].status = node[r][j].status
         /\ node[r][j].status \notin Terminal => node'[r][j].status = s
<1>1. node \in [Run -> [Job -> NodeRow]] /\ node[r][j] \in NodeRow /\ RowsFit
  BY DEF Inv, RowsFit
<1>2. CASE node[r][j].status \in Terminal
  <2>1. node' = node
    BY <1>2 DEF NodeSet
  <2> QED
    BY <1>2, <2>1, RowsSame
<1>3. CASE node[r][j].status \notin Terminal
  <2> DEFINE x == [node[r][j] EXCEPT !.status = s, !.late = @ /\ s \notin Terminal]
  <2>1. node' = NodeEdited(r, j, x)
    BY <1>1, <1>3 DEF NodeSet, NodeEdited
  <2>2. x \in NodeRow /\ x.status = s /\ x.id = node[r][j].id
    BY <1>1 DEF NodeRow
  <2> HIDE DEF x
  <2>3. x.id # NoPass => UpstreamsDone(node[r], j)
    BY <1>1, <2>2 DEF RowsFit
  <2>4. RowsFit' /\ NodesKept(node, node') /\ node'[r][j] = x
    BY <1>3, <2>1, <2>2, <2>3, NodeWritten
  <2> QED
    BY <1>3, <2>2, <2>4
<1> QED
  BY <1>2, <1>3

\* A job under the id its node holds.
LEMMA JobWritten ==
  ASSUME Inv, NEW r \in Run, NEW j \in Job, NEW p \in Pass, NEW s \in JobStates,
         job' = JobEdited(r, j, p, s), UNCHANGED <<dag, node>>,
         node[r][j].id = p
  PROVE  RowsFit' /\ NodesKept(node, node')
<1>1. job \in [Run -> [Job -> [Pass -> JobStates]]] /\ RowsFit
  BY DEF Inv, RowsFit
<1>2. /\ job' \in [Run -> [Job -> [Pass -> JobStates]]]
      /\ \A q \in Run, k \in Job, v \in Pass :
           q # r \/ k # j \/ v # p => job'[q][k][v] = job[q][k][v]
  BY <1>1 DEF JobEdited
<1>3. ASSUME NEW q \in Run, NEW k \in Job, NEW v \in Pass, job'[q][k][v] # "none"
      PROVE  node[q][k].id = v
  <2>1. CASE q = r /\ k = j /\ v = p
    BY <2>1
  <2>2. CASE q # r \/ k # j \/ v # p
    <3>1. job[q][k][v] # "none"
      BY <1>2, <1>3, <2>2
    <3> QED
      BY <1>1, <3>1 DEF RowsFit
  <2> QED
    BY <2>1, <2>2
<1>4. \A q \in Run, k \in Job : UpstreamsDone(node[q], k)' <=> UpstreamsDone(node[q], k)
  BY DEF UpstreamsDone
<1> QED
  BY <1>1, <1>2, <1>3, <1>4, NodesSame DEF RowsFit

LEMMA JobSentFits ==
  ASSUME Inv, NEW r \in Run, NEW j \in Job, NEW p \in Pass, job' = JobSent(r, j, p),
         UNCHANGED <<dag, node>>, node[r][j].id = p
  PROVE  RowsFit' /\ NodesKept(node, node')
<1>1. CASE job[r][j][p] = "none"
  BY <1>1, JobWritten DEF JobSent, JobEdited, JobStates, LiveJob
<1>2. CASE job[r][j][p] # "none"
  BY <1>2, RowsSame DEF JobSent
<1> QED
  BY <1>1, <1>2

LEMMA JobCancelledFits ==
  ASSUME Inv, NEW r \in Run, NEW j \in Job, NEW p, job' = JobCancelled(r, j, p),
         UNCHANGED <<dag, node>>
  PROVE  RowsFit' /\ NodesKept(node, node')
<1>1. CASE p \in Pass /\ job[r][j][p] \in LiveJob
  <2>1. node[r][j].id = p
    BY <1>1 DEF Inv, RowsFit, LiveJob
  <2>2. job' = JobEdited(r, j, p, "cancelled") /\ "cancelled" \in JobStates
    BY <1>1 DEF JobCancelled, JobEdited, JobStates
  <2>3. p \in Pass
    BY <1>1
  <2> QED
    BY <2>1, <2>2, <2>3, JobWritten
<1>2. CASE ~(p \in Pass /\ job[r][j][p] \in LiveJob)
  <2>1. job' = job
    BY <1>2 DEF JobCancelled
  <2> QED
    BY <2>1, RowsSame
<1> QED
  BY <1>1, <1>2

---------------------------------------------------------------------------
(* Steps that write no row *)

LEMMA RestSame ==
  ASSUME Inv, UNCHANGED <<dag, night, runDate, runStatus, starts, ticks, cut>>,
         faults' = faults \/ Fault
  PROVE  RestTyped'
BY BoundAssumption DEF Inv, RestTyped, Fault

LEMMA FaultTyped == ASSUME Inv, faults' = faults \/ Fault PROVE faults' \in 0..MaxFaults
BY BoundAssumption DEF Inv, RestTyped, Fault

LEMMA AtPass ==
  ASSUME Inv, NEW p \in Pass
  PROVE  pass[p] \in PassState /\ PassFits(p, pass[p], node) /\ pass \in [Pass -> PassState]
BY DEF Inv, PassesFit

LEMMA NewNodeTyped ==
  /\ NewNode \in NodeRow /\ NewNode.id = NoPass /\ NewNode.status = "pending"
  /\ NewNode.status \notin Terminal
BY DEF NewNode, NodeRow, NodeStates, Terminal, Succeeded, InFlight

LEMMA IdleTyped ==
  /\ IdlePass \in PassState
  /\ IdlePass.pc = "idle" /\ IdlePass.msg = "none" /\ IdlePass.claimed = {}
  /\ \A j \in Job : IdlePass.snap[j] = NewNode
<1>1. 0 \in 0..Nights /\ NoRun \in Run \cup {NoRun}
  BY BoundAssumption
<1> QED
  BY <1>1, NewNodeTyped DEF IdlePass, PassState

LEMMA IdleFits == ASSUME NEW p, NEW nodes PROVE PassFits(p, IdlePass, nodes)
BY IdleTyped, NewNodeTyped DEF PassFits

\* A pass reads, or ends, or writes in the runs and queues alone.
LEMMA PassReads ==
  ASSUME Inv, NEW p \in Pass, NEW d \in PassState, pass' = [pass EXCEPT ![p] = d],
         RestTyped', UNCHANGED <<dag, node, job, runStatus>>, cut \subseteq cut',
         PassFits(p, d, node),
         \A r \in Run, j \in Job :
           Sweeps(pass[p], r, j) => Sweeps(d, r, j) \/ r \in cut' \/ node[r][j].status \in Terminal
  PROVE  Inv'
<1>1. RowsFit' /\ NodesKept(node, node') /\ node' = node
  BY RowsSame
<1>2. PassFits(p, d, node')
  BY <1>1
<1>3. \A r \in Run : runStatus'[r] = runStatus[r]
  OBVIOUS
<1>4. \A r \in Run, j \in Job :
           Sweeps(pass[p], r, j) => \/ Sweeps(d, r, j) \/ r \in cut'
                                    \/ node'[r][j].status \in Terminal
  BY <1>1
<1>5. \A r \in Run : runStatus'[r] = "abandoned" =>
           runStatus[r] = "abandoned" \/ \A j \in Job : Sweeps(d, r, j)
  BY <1>3
<1>6. \A r \in Run : runStatus'[r] = "completed" => runStatus[r] = "completed" \/ Settled(r)
  BY <1>3
<1> QED
  BY <1>1, <1>2, <1>4, <1>5, <1>6, PassMoves

\* A pass that sweeps nothing moves, whatever rows it writes.
LEMMA PassWorks ==
  ASSUME Inv, NEW p \in Pass, NEW d \in PassState, pass' = [pass EXCEPT ![p] = d],
         RestTyped', RowsFit', NodesKept(node, node'), PassFits(p, d, node'),
         UNCHANGED <<runStatus, cut>>, pass[p].pc \notin {"sweep_load", "sweep"}
  PROVE  Inv'
<1>1. \A r \in Run, j \in Job : ~Sweeps(pass[p], r, j)
  BY DEF Sweeps
<1>2. \A r \in Run : runStatus'[r] = runStatus[r]
  OBVIOUS
<1>3. \A r \in Run : runStatus'[r] = "abandoned" =>
           runStatus[r] = "abandoned" \/ \A j \in Job : Sweeps(d, r, j)
  BY <1>2
<1>4. \A r \in Run : runStatus'[r] = "completed" => runStatus[r] = "completed" \/ Settled(r)
  BY <1>2
<1>5. cut \subseteq cut'
  OBVIOUS
<1> QED
  BY <1>1, <1>3, <1>4, <1>5, PassMoves

LEMMA NightFallsKeeps == ASSUME Inv, NightFalls PROVE Inv'
<1>1. /\ UNCHANGED <<dag, runDate, runStatus, node, job, ticks, pass, cut>>
      /\ night < Nights /\ night' = night + 1
      /\ starts' = [starts EXCEPT !["cron"] = @ + 1] \/ starts' = starts
      /\ faults' = faults \/ Fault
  BY DEF NightFalls
<1>2. RestTyped'
  <2>1. faults' \in 0..MaxFaults
    BY <1>1, FaultTyped
  <2>2. night' \in 0..Nights
    BY <1>1, BoundAssumption DEF Inv, RestTyped
  <2>3. starts' \in [Anchors -> Nat]
    BY <1>1 DEF Inv, RestTyped
  <2> QED
    BY <1>1, <2>1, <2>2, <2>3 DEF Inv, RestTyped
<1> QED
  BY <1>1, <1>2, RowsSame, PassesStay

LEMMA ManualStartKeeps == ASSUME Inv, ManualStart PROVE Inv'
<1>1. /\ UNCHANGED <<dag, night, runDate, runStatus, node, job, ticks, pass, cut>>
      /\ starts' = [starts EXCEPT !["manual"] = @ + 1] /\ Fault
  BY DEF ManualStart
<1>2. RestTyped'
  <2>1. faults' \in 0..MaxFaults
    BY <1>1, FaultTyped
  <2>2. starts' \in [Anchors -> Nat]
    BY <1>1 DEF Inv, RestTyped, Anchors
  <2> QED
    BY <1>1, <2>1, <2>2 DEF Inv, RestTyped
<1> QED
  BY <1>1, <1>2, RowsSame, PassesStay

LEMMA TakeTickKeeps ==
  ASSUME Inv, NEW p \in Pass, NEW r \in Run, TakeTick(p, r) PROVE Inv'
<1> DEFINE d == [IdlePass EXCEPT !.pc = "load", !.msg = "tick", !.held = TRUE, !.run = r]
<1>1. /\ At(p, "idle") /\ ticks[r] > 0 /\ ticks' = [ticks EXCEPT ![r] = @ - 1]
      /\ UNCHANGED <<dag, night, runDate, runStatus, node, job, starts, cut, faults>>
      /\ pass' = pass \/ pass' = [pass EXCEPT ![p] = d]
  BY DEF TakeTick
<1>2. ticks' \in [Run -> Nat]
  BY <1>1 DEF Inv, RestTyped
<1>3. RestTyped'
  BY <1>1, <1>2 DEF Inv, RestTyped
<1>4. CASE pass' = pass
  BY <1>1, <1>3, <1>4, RowsSame, PassesStay
<1>5. CASE pass' = [pass EXCEPT ![p] = d]
  <2>1. /\ d \in PassState /\ d.pc = "load" /\ d.run = r /\ d.claimed = {}
        /\ \A j \in Job : d.snap[j] = NewNode
    BY IdleTyped DEF IdlePass, PassState
  <2> HIDE DEF d
  <2>2. PassFits(p, d, node)
    BY <2>1, NewNodeTyped DEF PassFits
  <2>3. \A q \in Run, j \in Job : ~Sweeps(pass[p], q, j)
    BY <1>1 DEF At, Sweeps
  <2>4. UNCHANGED <<dag, node, job, runStatus>> /\ cut \subseteq cut'
    BY <1>1
  <2> QED
    BY <1>3, <1>5, <2>1, <2>2, <2>3, <2>4, PassReads
<1> QED
  BY <1>1, <1>4, <1>5

LEMMA StartPassKeeps ==
  ASSUME Inv, NEW p \in Pass, NEW m \in {"boot"} \cup Anchors, NEW held \in BOOLEAN,
         At(p, "idle"), StartPass(p, m, held), RestTyped',
         UNCHANGED <<dag, node, job, runStatus, cut>>
  PROVE  Inv'
<1> DEFINE left == {r \in Run : runStatus[r] = "running" /\ runDate[r] # night}
           d == [IdlePass EXCEPT !.pc = "leftovers", !.msg = m, !.held = held,
                                 !.today = night, !.left = left]
<1>1. pass' = [pass EXCEPT ![p] = d]
  BY DEF StartPass
<1>2. left \subseteq Run /\ night \in 0..Nights
  BY DEF Inv, RestTyped
<1> HIDE DEF left
<1>3. /\ d \in PassState /\ d.pc = "leftovers" /\ d.claimed = {} /\ d.msg # "tick"
      /\ \A j \in Job : d.snap[j] = NewNode
  BY <1>2, IdleTyped DEF IdlePass, PassState, Anchors
<1> HIDE DEF d
<1>4. PassFits(p, d, node)
  BY <1>3, NewNodeTyped DEF PassFits
<1>5. \A q \in Run, j \in Job : ~Sweeps(pass[p], q, j)
  BY DEF At, Sweeps
<1> QED
  BY <1>1, <1>3, <1>4, <1>5, PassReads

LEMMA TakeAnchorKeeps ==
  ASSUME Inv, NEW p \in Pass, NEW m \in Anchors, TakeAnchor(p, m) PROVE Inv'
<1>1. /\ At(p, "idle") /\ StartPass(p, m, TRUE)
      /\ starts[m] > 0 /\ starts' = [starts EXCEPT ![m] = @ - 1]
      /\ UNCHANGED <<dag, night, runDate, runStatus, node, job, ticks, cut, faults>>
  BY DEF TakeAnchor
<1>2. RestTyped'
  BY <1>1 DEF Inv, RestTyped
<1> QED
  BY <1>1, <1>2, StartPassKeeps

LEMMA BootCatchUpKeeps == ASSUME Inv, NEW p \in Pass, BootCatchUp(p) PROVE Inv'
<1>1. /\ At(p, "idle") /\ StartPass(p, "boot", FALSE) /\ Fault
      /\ UNCHANGED <<dag, night, runDate, runStatus, node, job, starts, ticks, cut>>
  BY DEF BootCatchUp
<1> QED
  BY <1>1, RestSame, StartPassKeeps

LEMMA RedeliveredTyped ==
  ASSUME Inv, NEW p \in Pass, NEW held, Redelivered(p, held)
  PROVE  starts' \in [Anchors -> Nat] /\ ticks' \in [Run -> Nat]
<1>1. starts \in [Anchors -> Nat] /\ ticks \in [Run -> Nat]
  BY DEF Inv, RestTyped
<1>2. ticks' \in [Run -> Nat]
  BY <1>1, AtPass DEF Redelivered, PassFits
<1>3. starts' \in [Anchors -> Nat]
  BY <1>1 DEF Redelivered
<1> QED
  BY <1>2, <1>3

---------------------------------------------------------------------------
(* A pass that stops, and the anchor's steps *)

LEMMA LostFits ==
  ASSUME Inv, NEW p \in Pass, Lost(p), Fault,
         UNCHANGED <<dag, night, runDate, runStatus, node, job>>
  PROVE  Inv'
<1>1. /\ Redelivered(p, pass[p].held)
      /\ cut' = IF pass[p].pc \in {"sweep_load", "sweep"} THEN cut \cup {pass[p].run} ELSE cut
      /\ pass' = [pass EXCEPT ![p] = IdlePass]
  BY DEF Lost, Done
<1>2. pass[p].pc \in {"sweep_load", "sweep"} => pass[p].run \in Run
  BY AtPass DEF PassFits
<1>3. RestTyped'
  <2>1. faults' \in 0..MaxFaults
    BY FaultTyped
  <2>2. starts' \in [Anchors -> Nat] /\ ticks' \in [Run -> Nat]
    BY <1>1, RedeliveredTyped
  <2>3. cut' \subseteq Run
    BY <1>1, <1>2 DEF Inv, RestTyped
  <2> QED
    BY <2>1, <2>2, <2>3 DEF Inv, RestTyped
<1>4. \A r \in Run, j \in Job : Sweeps(pass[p], r, j) => r \in cut'
  BY <1>1 DEF Sweeps
<1>5. cut \subseteq cut' /\ PassFits(p, IdlePass, node) /\ IdlePass \in PassState
  BY <1>1, IdleFits, IdleTyped
<1>6. UNCHANGED <<dag, node, job, runStatus>>
  OBVIOUS
<1> QED
  BY <1>1, <1>3, <1>4, <1>5, <1>6, PassReads

LEMMA DiesKeeps == ASSUME Inv, NEW p \in Pass, Dies(p) PROVE Inv'
BY LostFits DEF Dies

LEMMA ArmFailsKeeps == ASSUME Inv, NEW p \in Pass, ArmFails(p) PROVE Inv'
BY LostFits DEF ArmFails

LEMMA ExpireKeeps == ASSUME Inv, NEW p \in Pass, Expire(p) PROVE Inv'
<1> DEFINE d == [pass[p] EXCEPT !.held = FALSE]
<1>1. /\ Fault /\ Redelivered(p, TRUE) /\ pass' = [pass EXCEPT ![p] = d]
      /\ UNCHANGED <<dag, night, runDate, runStatus, node, job, cut>>
  BY DEF Expire
<1>2. /\ d \in PassState /\ d.pc = pass[p].pc /\ d.run = pass[p].run /\ d.snap = pass[p].snap
      /\ d.todo = pass[p].todo /\ d.claimed = pass[p].claimed /\ d.msg = pass[p].msg
  BY ZenonT(60), AtPass DEF PassState
<1> HIDE DEF d
<1>3. PassFits(p, d, node)
  BY <1>2, AtPass DEF PassFits
<1>4. RestTyped'
  <2>1. faults' \in 0..MaxFaults
    BY <1>1, FaultTyped
  <2>2. starts' \in [Anchors -> Nat] /\ ticks' \in [Run -> Nat]
    BY <1>1, RedeliveredTyped
  <2> QED
    BY <1>1, <2>1, <2>2 DEF Inv, RestTyped
<1>5. \A r \in Run, j \in Job : Sweeps(pass[p], r, j) => Sweeps(d, r, j)
  BY <1>2 DEF Sweeps
<1>6. cut \subseteq cut' /\ UNCHANGED <<dag, node, job, runStatus>>
  BY <1>1
<1> QED
  BY <1>1, <1>2, <1>3, <1>4, <1>5, <1>6, PassReads

\* Between two leftovers a pass sweeps nothing and holds no row.
LEMMA BetweenHolds ==
  ASSUME Inv, NEW p \in Pass, BetweenRuns(p)
  PROVE  /\ pass[p].pc \in {"leftovers", "sweep"} /\ pass[p].msg # "tick"
         /\ pass[p].claimed = {}
         /\ \A j \in Job : pass[p].snap[j].id = NoPass
         /\ \A r \in Run, j \in Job : ~Sweeps(pass[p], r, j)
<1>1. /\ pass[p].pc = "leftovers" \/ (pass[p].pc = "sweep" /\ pass[p].todo = {})
      /\ pass[p].claimed \subseteq Job
  BY AtPass DEF BetweenRuns, At, PassState
<1> QED
  BY <1>1, AtPass DEF PassFits, Sweeps

LEMMA AbandonKeeps == ASSUME Inv, NEW p \in Pass, NEW r \in Run, Abandon(p, r) PROVE Inv'
<1> DEFINE d == [pass[p] EXCEPT !.pc = "sweep_load", !.left = @ \ {r}, !.run = r]
<1>1. /\ BetweenRuns(p)
      /\ runStatus' = IF runStatus[r] = "running" THEN [runStatus EXCEPT ![r] = "abandoned"]
                                                  ELSE runStatus
      /\ UNCHANGED <<dag, night, runDate, node, job, starts, ticks, cut, faults>>
      /\ pass' = [pass EXCEPT ![p] = d]
  BY DEF Abandon
<1>2. /\ d \in PassState /\ d.pc = "sweep_load" /\ d.run = r /\ d.snap = pass[p].snap
      /\ d.claimed = pass[p].claimed /\ d.msg = pass[p].msg
  BY ZenonT(60), AtPass DEF PassState
<1> HIDE DEF d
<1>3. RowsFit' /\ NodesKept(node, node') /\ node' = node
  BY <1>1, RowsSame
<1>4. PassFits(p, d, node')
  BY <1>1, <1>2, <1>3, BetweenHolds DEF PassFits
<1>5. RestTyped'
  <2>1. runStatus' \in [Run -> RunStates]
    BY <1>1 DEF Inv, RestTyped, RunStates
  <2> QED
    BY <1>1, <2>1 DEF Inv, RestTyped
<1>6. \A q \in Run, j \in Job : ~Sweeps(pass[p], q, j)
  BY <1>1, BetweenHolds
<1>7. \A j \in Job : Sweeps(d, r, j)
  BY <1>2 DEF Sweeps
<1>8. /\ \A q \in Run : q # r => runStatus'[q] = runStatus[q]
      /\ runStatus'[r] = "completed" => runStatus[r] = "completed"
  BY <1>1 DEF Inv, RestTyped
<1>9. /\ \A q \in Run : runStatus'[q] = "abandoned" =>
           runStatus[q] = "abandoned" \/ \A j \in Job : Sweeps(d, q, j)
      /\ \A q \in Run : runStatus'[q] = "completed" => runStatus[q] = "completed" \/ Settled(q)
  BY <1>7, <1>8
<1>10. cut \subseteq cut'
  BY <1>1
<1> QED
  BY <1>1, <1>2, <1>3, <1>4, <1>5, <1>6, <1>9, <1>10, PassMoves

LEMMA SweepLoadKeeps == ASSUME Inv, NEW p \in Pass, SweepLoad(p) PROVE Inv'
<1> DEFINE rows == node[pass[p].run]
           snap == [j \in Job |-> IF rows[j].status \in Terminal THEN NewNode ELSE rows[j]]
           todo == {j \in Job : rows[j].status \notin Terminal}
           d == [pass[p] EXCEPT !.pc = "sweep", !.snap = snap, !.todo = todo]
<1>1. /\ pass[p].pc = "sweep_load" /\ pass' = [pass EXCEPT ![p] = d]
      /\ UNCHANGED <<dag, night, runDate, runStatus, node, job, starts, ticks, cut, faults>>
  BY DEF SweepLoad, At
<1>2. pass[p].run \in Run /\ rows \in [Job -> NodeRow]
  BY <1>1, AtPass DEF PassFits, Inv, RowsFit
<1>3. /\ snap \in [Job -> NodeRow]
      /\ \A j \in Job : snap[j].id # NoPass => j \in todo /\ snap[j].id = rows[j].id
  BY <1>2, NewNodeTyped
<1> HIDE DEF snap
<1>4. /\ d \in PassState /\ d.pc = "sweep" /\ d.run = pass[p].run /\ d.snap = snap
      /\ d.todo = todo /\ d.claimed = pass[p].claimed /\ d.msg = pass[p].msg
  <2>1. todo \in SUBSET Job
    BY DEF todo
  <2> HIDE DEF todo
  <2> QED
    BY ZenonT(60), <1>3, <2>1, AtPass DEF PassState
<1> HIDE DEF d
<1>5. PassFits(p, d, node)
  <2>1. d.msg # "tick" /\ \A j \in d.claimed : FALSE
    BY <1>1, <1>4, AtPass DEF PassFits
  <2> HIDE DEF todo
  <2> QED
    BY <1>2, <1>3, <1>4, <2>1 DEF PassFits
<1>6. \A r \in Run, j \in Job :
        Sweeps(pass[p], r, j) => Sweeps(d, r, j) \/ node[r][j].status \in Terminal
  BY <1>1, <1>4 DEF Sweeps
<1>7. /\ UNCHANGED <<dag, node, job, runStatus>> /\ cut \subseteq cut'
      /\ RestTyped'
  BY <1>1, RestSame
<1> HIDE DEF rows, todo
<1>8. d \in PassState /\ pass' = [pass EXCEPT ![p] = d]
  BY <1>1, <1>4
<1> QED
  BY <1>5, <1>6, <1>7, <1>8, PassReads

\* The node is gone from the loop and its copy with it.
LEMMA NodeDoneFits ==
  ASSUME Inv, NEW p \in Pass, NEW j \in Job, NodeDone(p, j), pass[p].pc \in {"sweep", "poll"},
         NEW next, NodesKept(node, next)
  PROVE  \E d \in PassState :
           /\ pass' = [pass EXCEPT ![p] = d]
           /\ PassFits(p, d, next)
           /\ \A r \in Run, k \in Job :
                Sweeps(pass[p], r, k) => Sweeps(d, r, k) \/ (r = pass[p].run /\ k = j)
<1> DEFINE d == [pass[p] EXCEPT !.todo = @ \ {j}, !.snap[j] = NewNode, !.seen[j] = "unseen"]
<1>1. pass' = [pass EXCEPT ![p] = d]
  BY DEF NodeDone
<1>2. /\ d \in PassState /\ d.pc = pass[p].pc /\ d.run = pass[p].run
      /\ d.snap = [pass[p].snap EXCEPT ![j] = NewNode]
      /\ d.todo = pass[p].todo \ {j} /\ d.claimed = pass[p].claimed /\ d.msg = pass[p].msg
  BY ZenonT(60), AtPass, NewNodeTyped DEF PassState
<1> HIDE DEF d
<1>3. PassFits(p, pass[p], next)
  BY AtPass, PassKept, NoPassAssumption
<1>4. PassFits(p, d, next)
  <2>1. pass[p].snap \in [Job -> NodeRow]
    BY AtPass DEF PassState
  <2>2. \A k \in Job : d.snap[k].id # NoPass => k # j /\ d.snap[k] = pass[p].snap[k]
    BY <1>2, <2>1, NewNodeTyped
  <2> QED
    BY <1>2, <1>3, <2>2 DEF PassFits
<1>5. \A r \in Run, k \in Job :
        Sweeps(pass[p], r, k) => Sweeps(d, r, k) \/ (r = pass[p].run /\ k = j)
  BY <1>2 DEF Sweeps
<1> QED
  BY <1>1, <1>2, <1>4, <1>5
LEMMA SweepCancelKeeps ==
  ASSUME Inv, NEW p \in Pass, NEW j \in Job, SweepCancel(p, j) PROVE Inv'
<1> DEFINE d == [pass[p] EXCEPT !.seen[j] = "cancelled"]
<1>1. /\ pass[p].pc = "sweep" /\ pass' = [pass EXCEPT ![p] = d]
      /\ UNCHANGED <<dag, night, runDate, runStatus, node, starts, ticks, cut>>
      /\ \/ job' = JobCancelled(pass[p].run, j, pass[p].snap[j].id)
         \/ job' = job
      /\ faults' = faults \/ Fault
  BY DEF SweepCancel, At
<1>2. pass[p].run \in Run
  BY <1>1, AtPass DEF PassFits
<1>3. RowsFit' /\ NodesKept(node, node')
  BY <1>1, <1>2, JobCancelledFits, RowsSame
<1>4. /\ d \in PassState /\ d.pc = pass[p].pc /\ d.run = pass[p].run /\ d.snap = pass[p].snap
      /\ d.todo = pass[p].todo /\ d.claimed = pass[p].claimed /\ d.msg = pass[p].msg
  BY ZenonT(60), AtPass DEF PassState, JobStates
<1> HIDE DEF d
<1>5. PassFits(p, d, node')
  BY <1>1, <1>4, AtPass DEF PassFits
<1>6. \A r \in Run, k \in Job : Sweeps(pass[p], r, k) => Sweeps(d, r, k)
  BY <1>4 DEF Sweeps
<1>7. RestTyped'
  BY <1>1, RestSame
<1>8. /\ \A r \in Run : runStatus'[r] = "abandoned" =>
           runStatus[r] = "abandoned" \/ \A k \in Job : Sweeps(d, r, k)
      /\ \A r \in Run : runStatus'[r] = "completed" => runStatus[r] = "completed" \/ Settled(r)
      /\ cut \subseteq cut'
  BY <1>1
<1>9. d \in PassState /\ pass' = [pass EXCEPT ![p] = d]
  BY <1>1, <1>4
<1> QED
  BY <1>3, <1>5, <1>6, <1>7, <1>8, <1>9, PassMoves

LEMMA SweepSettleKeeps ==
  ASSUME Inv, NEW p \in Pass, NEW j \in Job, SweepSettle(p, j) PROVE Inv'
<1>1. /\ pass[p].pc = "sweep" /\ NodeDone(p, j)
      /\ \E s \in {"skipped", "failed"} : node' = NodeSet(pass[p].run, j, s)
      /\ UNCHANGED <<dag, night, runDate, runStatus, job, starts, ticks, cut, faults>>
  BY DEF SweepSettle, At
<1>2. pass[p].run \in Run
  BY <1>1, AtPass DEF PassFits
<1>3. PICK s \in {"skipped", "failed"} : node' = NodeSet(pass[p].run, j, s)
  BY <1>1
<1>4. s \in NodeStates /\ s \in Terminal /\ s # "pending"
  BY DEF NodeStates, Terminal, Succeeded, InFlight
<1>5. UNCHANGED <<dag, job>>
  BY <1>1
<1>6. /\ RowsFit' /\ NodesKept(node, node')
      /\ node'[pass[p].run][j].status \in Terminal
  BY <1>2, <1>3, <1>4, <1>5, NodeSetFits
<1>7. PICK d \in PassState :
        /\ pass' = [pass EXCEPT ![p] = d]
        /\ PassFits(p, d, node')
        /\ \A r \in Run, k \in Job :
             Sweeps(pass[p], r, k) => Sweeps(d, r, k) \/ (r = pass[p].run /\ k = j)
  BY <1>1, <1>6, NodeDoneFits
<1>8. RestTyped'
  BY <1>1, RestSame
<1>9. /\ \A r \in Run : runStatus'[r] = "abandoned" =>
           runStatus[r] = "abandoned" \/ \A k \in Job : Sweeps(d, r, k)
      /\ \A r \in Run : runStatus'[r] = "completed" => runStatus[r] = "completed" \/ Settled(r)
      /\ cut \subseteq cut'
  BY <1>1
<1>10. \A r \in Run, k \in Job :
         Sweeps(pass[p], r, k) => Sweeps(d, r, k) \/ r \in cut' \/ node'[r][k].status \in Terminal
  BY <1>6, <1>7
<1> QED
  BY <1>6, <1>7, <1>8, <1>9, <1>10, PassMoves

LEMMA SweepFailsKeeps == ASSUME Inv, NEW p \in Pass, SweepFails(p) PROVE Inv'
<1>1. /\ Fault /\ cut' = cut \cup {pass[p].run}
      /\ pass[p].pc \in {"sweep_load", "sweep"}
      /\ UNCHANGED <<dag, night, runDate, runStatus, node, job, starts, ticks>>
  BY DEF SweepFails, At
<1>2. pass[p].run \in Run
  BY <1>1, AtPass DEF PassFits
<1>3. RestTyped'
  <2>1. faults' \in 0..MaxFaults /\ cut' \subseteq Run
    BY <1>1, <1>2, FaultTyped DEF Inv, RestTyped
  <2> QED
    BY <1>1, <2>1 DEF Inv, RestTyped
<1>4. \A r \in Run, j \in Job : Sweeps(pass[p], r, j) => r \in cut'
  BY <1>1 DEF Sweeps
<1>5. cut \subseteq cut' /\ UNCHANGED <<dag, node, job, runStatus>>
  BY <1>1
<1>6. CASE /\ pass[p].pc = "sweep_load"
           /\ pass' = [pass EXCEPT ![p].pc = "sweep", ![p].todo = {}]
  <2> DEFINE d == [pass[p] EXCEPT !.pc = "sweep", !.todo = {}]
  <2>1. /\ pass' = [pass EXCEPT ![p] = d]
        /\ d \in PassState /\ d.pc = "sweep" /\ d.run = pass[p].run
        /\ d.snap = pass[p].snap /\ d.claimed = pass[p].claimed /\ d.msg = pass[p].msg
    BY ZenonT(60), <1>6, AtPass DEF PassState
  <2> HIDE DEF d
  <2>2. PassFits(p, d, node)
    BY <1>2, <1>6, <2>1, AtPass DEF PassFits
  <2> QED
    BY <1>3, <1>4, <1>5, <2>1, <2>2, PassReads
<1>7. CASE /\ pass[p].pc = "sweep"
           /\ \E j \in pass[p].todo : NodeDone(p, j)
  <2>1. PICK j \in pass[p].todo : NodeDone(p, j)
    BY <1>7
  <2>2. j \in Job
    BY AtPass DEF PassState
  <2>3. NodesKept(node, node)
    BY DEF NodesKept
  <2>4. PICK d \in PassState : pass' = [pass EXCEPT ![p] = d] /\ PassFits(p, d, node)
    BY <1>7, <2>1, <2>2, <2>3, NodeDoneFits
  <2> QED
    BY <1>3, <1>4, <1>5, <2>4, PassReads
<1> QED
  BY <1>6, <1>7 DEF SweepFails, At

\* A pass that holds no row goes on to a run or to none.
LEMMA GoesOn ==
  ASSUME Inv, NEW p \in Pass, NEW l \in {"guard", "create", "load", "adopt"},
         NEW r \in Run \cup {NoRun}, l = "load" => r \in Run,
         pass[p].msg # "tick", pass[p].claimed = {},
         \A j \in Job : pass[p].snap[j].id = NoPass,
         NEW d, d = [pass[p] EXCEPT !.pc = l, !.run = r]
  PROVE  d \in PassState /\ PassFits(p, d, node)
<1>1. /\ d \in PassState /\ d.pc = l /\ d.run = r
      /\ d.snap = pass[p].snap /\ d.claimed = pass[p].claimed /\ d.msg = pass[p].msg
  BY ZenonT(60), AtPass DEF PassState
<1> QED
  BY <1>1 DEF PassFits

LEMMA FindRunKeeps == ASSUME Inv, NEW p \in Pass, FindRun(p) PROVE Inv'
<1>1. /\ BetweenRuns(p)
      /\ UNCHANGED <<dag, night, runDate, runStatus, node, job, starts, ticks, cut, faults>>
      /\ \E l \in {"guard", "create", "load"}, r \in Run \cup {NoRun} :
           /\ l = "load" => r \in Run
           /\ pass' = [pass EXCEPT ![p].pc = l, ![p].run = r]
  BY DEF FindRun, ActiveFor
<1>2. PICK l \in {"guard", "create", "load"}, r \in Run \cup {NoRun} :
           /\ l = "load" => r \in Run
           /\ pass' = [pass EXCEPT ![p].pc = l, ![p].run = r]
  BY <1>1
<1> DEFINE d == [pass[p] EXCEPT !.pc = l, !.run = r]
<1>3. pass' = [pass EXCEPT ![p] = d]
  BY <1>2
<1>4. /\ pass[p].msg # "tick" /\ pass[p].claimed = {}
      /\ \A j \in Job : pass[p].snap[j].id = NoPass
      /\ \A q \in Run, j \in Job : ~Sweeps(pass[p], q, j)
  BY <1>1, BetweenHolds
<1>5. l \in {"guard", "create", "load", "adopt"}
  OBVIOUS
<1>6. d \in PassState /\ PassFits(p, d, node)
  BY <1>2, <1>4, <1>5, GoesOn
<1> HIDE DEF d
<1>7. RestTyped' /\ cut \subseteq cut' /\ UNCHANGED <<dag, node, job, runStatus>>
  BY <1>1, RestSame
<1> QED
  BY <1>3, <1>4, <1>6, <1>7, PassReads
\* Between the leftovers and its run a pass holds nothing.
LEMMA SearchHolds ==
  ASSUME Inv, NEW p \in Pass, pass[p].pc \in {"guard", "create", "adopt"}
  PROVE  /\ pass[p].msg # "tick" /\ pass[p].claimed = {}
         /\ \A j \in Job : pass[p].snap[j].id = NoPass
         /\ \A r \in Run, j \in Job : ~Sweeps(pass[p], r, j)
<1>1. pass[p].claimed \subseteq Job
  BY AtPass DEF PassState
<1> QED
  BY <1>1, AtPass DEF PassFits, Sweeps

LEMMA PassEnds ==
  ASSUME Inv, NEW p \in Pass, pass[p].pc \notin {"sweep_load", "sweep"}, Done(p), RestTyped',
         UNCHANGED <<dag, node, job, runStatus, cut>>
  PROVE  Inv'
<1>1. /\ pass' = [pass EXCEPT ![p] = IdlePass] /\ IdlePass \in PassState
      /\ PassFits(p, IdlePass, node) /\ cut \subseteq cut'
      /\ UNCHANGED <<dag, node, job, runStatus>>
  BY IdleTyped, IdleFits DEF Done
<1>2. \A r \in Run, j \in Job : ~Sweeps(pass[p], r, j)
  BY DEF Sweeps
<1> QED
  BY <1>1, <1>2, PassReads

LEMMA CronGuardKeeps == ASSUME Inv, NEW p \in Pass, CronGuard(p) PROVE Inv'
<1>1. /\ pass[p].pc = "guard"
      /\ UNCHANGED <<dag, night, runDate, runStatus, node, job, starts, ticks, cut, faults>>
      /\ Done(p) \/ pass' = [pass EXCEPT ![p].pc = "create"]
  BY DEF CronGuard, At
<1>2. RestTyped' /\ UNCHANGED <<dag, node, job, runStatus, cut>>
  BY <1>1, RestSame
<1>3. CASE Done(p)
  BY <1>1, <1>2, <1>3, PassEnds
<1>4. CASE pass' = [pass EXCEPT ![p].pc = "create"]
  <2> DEFINE d == [pass[p] EXCEPT !.pc = "create"]
  <2>1. pass' = [pass EXCEPT ![p] = d]
    BY <1>4
  <2>2. /\ pass[p].msg # "tick" /\ pass[p].claimed = {}
        /\ \A j \in Job : pass[p].snap[j].id = NoPass
        /\ \A q \in Run, j \in Job : ~Sweeps(pass[p], q, j)
    BY <1>1, SearchHolds
  <2>3. /\ d \in PassState /\ d.pc = "create"
        /\ d.snap = pass[p].snap /\ d.claimed = pass[p].claimed /\ d.msg = pass[p].msg
    BY ZenonT(60), AtPass DEF PassState
  <2> HIDE DEF d
  <2>4. PassFits(p, d, node)
    BY <2>2, <2>3 DEF PassFits
  <2>5. cut \subseteq cut' /\ UNCHANGED <<dag, node, job, runStatus>>
    BY <1>2
  <2> QED
    BY <1>2, <2>1, <2>2, <2>3, <2>4, <2>5, PassReads
<1> QED
  BY <1>1, <1>3, <1>4

LEMMA CreateRunKeeps == ASSUME Inv, NEW p \in Pass, CreateRun(p) PROVE Inv'
<1>1. /\ pass[p].pc = "create"
      /\ UNCHANGED <<dag, night, node, job, starts, ticks, cut, faults>>
      /\ \/ \E r \in Run :
              /\ runStatus[r] = "none" /\ runStatus' = [runStatus EXCEPT ![r] = "running"]
              /\ runDate' = [runDate EXCEPT ![r] = pass[p].today]
              /\ pass' = [pass EXCEPT ![p].pc = "load", ![p].run = r]
         \/ /\ pass' = [pass EXCEPT ![p].pc = "adopt"]
            /\ UNCHANGED <<runDate, runStatus>>
  BY DEF CreateRun, At
<1>2. /\ pass[p].msg # "tick" /\ pass[p].claimed = {}
      /\ \A j \in Job : pass[p].snap[j].id = NoPass
      /\ \A q \in Run, j \in Job : ~Sweeps(pass[p], q, j)
  BY <1>1, SearchHolds
<1>3. cut \subseteq cut' /\ UNCHANGED <<dag, node, job>>
  BY <1>1
<1>4. ASSUME NEW r \in Run,
             runStatus[r] = "none" /\ runStatus' = [runStatus EXCEPT ![r] = "running"],
             runDate' = [runDate EXCEPT ![r] = pass[p].today],
             pass' = [pass EXCEPT ![p].pc = "load", ![p].run = r]
      PROVE  Inv'
  <2> DEFINE d == [pass[p] EXCEPT !.pc = "load", !.run = r]
  <2>1. pass' = [pass EXCEPT ![p] = d]
    BY <1>4
  <2>2. "load" \in {"guard", "create", "load", "adopt"}
    OBVIOUS
  <2>3. d \in PassState /\ PassFits(p, d, node)
    BY <1>2, <2>2, GoesOn
  <2> HIDE DEF d
  <2>4. RowsFit' /\ NodesKept(node, node') /\ node' = node
    BY <1>3, RowsSame
  <2>5. PassFits(p, d, node')
    BY <2>3, <2>4
  <2>6. RestTyped'
    <3>1. pass[p].today \in 0..Nights
      BY AtPass DEF PassState
    <3>2. runDate' \in [Run -> 0..Nights] /\ runStatus' \in [Run -> RunStates]
      BY <1>4, <3>1 DEF Inv, RestTyped, RunStates
    <3> QED
      BY <1>1, <3>2 DEF Inv, RestTyped
  <2>7. \A q \in Run : runStatus'[q] = runStatus[q] \/ runStatus'[q] = "running"
    BY <1>4 DEF Inv, RestTyped
  <2>8. /\ \A q \in Run : runStatus'[q] = "abandoned" =>
             runStatus[q] = "abandoned" \/ \A k \in Job : Sweeps(d, q, k)
        /\ \A q \in Run : runStatus'[q] = "completed" => runStatus[q] = "completed" \/ Settled(q)
    BY <2>7
  <2> QED
    BY <1>2, <1>3, <2>1, <2>3, <2>4, <2>5, <2>6, <2>8, PassMoves
<1>5. CASE pass' = [pass EXCEPT ![p].pc = "adopt"] /\ UNCHANGED <<runDate, runStatus>>
  <2> DEFINE d == [pass[p] EXCEPT !.pc = "adopt"]
  <2>1. pass' = [pass EXCEPT ![p] = d]
    BY <1>5
  <2>2. /\ d \in PassState /\ d.pc = "adopt"
        /\ d.snap = pass[p].snap /\ d.claimed = pass[p].claimed /\ d.msg = pass[p].msg
    BY ZenonT(60), AtPass DEF PassState
  <2> HIDE DEF d
  <2>3. PassFits(p, d, node)
    BY <1>2, <2>2 DEF PassFits
  <2>4. RestTyped' /\ UNCHANGED <<dag, node, job, runStatus>>
    BY <1>1, <1>5, RestSame
  <2> QED
    BY <1>2, <1>3, <2>1, <2>2, <2>3, <2>4, PassReads
<1> QED
  BY <1>1, <1>4, <1>5

LEMMA AdoptRunKeeps == ASSUME Inv, NEW p \in Pass, AdoptRun(p) PROVE Inv'
<1>1. /\ pass[p].pc = "adopt"
      /\ UNCHANGED <<dag, night, runDate, runStatus, node, job, starts, ticks, cut, faults>>
      /\ \/ Done(p)
         \/ \E r \in Run : pass' = [pass EXCEPT ![p].pc = "load", ![p].run = r]
  BY DEF AdoptRun, At, ActiveFor
<1>2. RestTyped' /\ UNCHANGED <<dag, node, job, runStatus, cut>>
  BY <1>1, RestSame
<1>3. CASE Done(p)
  BY <1>1, <1>2, <1>3, PassEnds
<1>4. ASSUME NEW r \in Run, pass' = [pass EXCEPT ![p].pc = "load", ![p].run = r] PROVE Inv'
  <2> DEFINE d == [pass[p] EXCEPT !.pc = "load", !.run = r]
  <2>1. pass' = [pass EXCEPT ![p] = d]
    BY <1>4
  <2>2. /\ pass[p].msg # "tick" /\ pass[p].claimed = {}
        /\ \A j \in Job : pass[p].snap[j].id = NoPass
        /\ \A q \in Run, j \in Job : ~Sweeps(pass[p], q, j)
    BY <1>1, SearchHolds
  <2>3. "load" \in {"guard", "create", "load", "adopt"}
    OBVIOUS
  <2>4. d \in PassState /\ PassFits(p, d, node)
    BY <2>2, <2>3, GoesOn
  <2> HIDE DEF d
  <2>5. cut \subseteq cut' /\ UNCHANGED <<dag, node, job, runStatus>>
    BY <1>2
  <2> QED
    BY <1>2, <2>1, <2>2, <2>4, <2>5, PassReads
<1> QED
  BY <1>1, <1>3, <1>4

---------------------------------------------------------------------------
(* The steps of advanceRun *)

LEMMA LoadInflightKeeps == ASSUME Inv, NEW p \in Pass, LoadInflight(p) PROVE Inv'
<1> DEFINE rows == node[pass[p].run]
           snap == [j \in Job |-> IF rows[j].status \in InFlight THEN rows[j] ELSE NewNode]
           todo == {j \in Job : rows[j].status \in InFlight}
           d == [pass[p] EXCEPT !.pc = "poll", !.snap = snap, !.todo = todo]
<1>1. /\ pass[p].pc = "load" /\ pass' = [pass EXCEPT ![p] = d]
      /\ UNCHANGED <<dag, night, runDate, runStatus, node, job, starts, ticks, cut, faults>>
  BY DEF LoadInflight, At
<1>2. pass[p].run \in Run /\ rows \in [Job -> NodeRow]
  BY <1>1, AtPass DEF PassFits, Inv, RowsFit
<1>3. /\ snap \in [Job -> NodeRow]
      /\ \A j \in Job : snap[j].id # NoPass => j \in todo /\ snap[j].id = rows[j].id
  BY <1>2, NewNodeTyped
<1> HIDE DEF snap, todo
<1>4. /\ d \in PassState /\ d.pc = "poll" /\ d.run = pass[p].run /\ d.snap = snap
      /\ d.todo = todo /\ d.claimed = pass[p].claimed
  <2>1. todo \in SUBSET Job
    BY DEF todo
  <2> QED
    BY ZenonT(60), <1>3, <2>1, AtPass DEF PassState
<1> HIDE DEF d
<1>5. PassFits(p, d, node)
  <2>1. \A j \in d.claimed : FALSE
    BY <1>1, <1>4, AtPass DEF PassFits
  <2> QED
    BY <1>2, <1>3, <1>4, <2>1 DEF PassFits
<1>6. \A r \in Run, j \in Job : ~Sweeps(pass[p], r, j)
  BY <1>1 DEF Sweeps
<1>7. /\ UNCHANGED <<dag, node, job, runStatus>> /\ cut \subseteq cut'
      /\ RestTyped'
  BY <1>1, RestSame
<1> HIDE DEF rows
<1>8. d \in PassState /\ pass' = [pass EXCEPT ![p] = d]
  BY <1>1, <1>4
<1> QED
  BY <1>5, <1>6, <1>7, <1>8, PassReads

LEMMA ArmsNext ==
  ASSUME Inv, NEW p \in Pass, NEW s \in [Job -> NodeRow], \A j \in Job : s[j].id = NoPass,
         pass[p].pc \in {"load", "poll", "advance"},
         pass' = [pass EXCEPT ![p].pc = "arm", ![p].snap = s],
         RestTyped', UNCHANGED <<dag, node, job, runStatus, cut>>
  PROVE  Inv'
<1> DEFINE d == [pass[p] EXCEPT !.pc = "arm", !.snap = s]
<1>1. pass' = [pass EXCEPT ![p] = d]
  OBVIOUS
<1>2. /\ d \in PassState /\ d.pc = "arm" /\ d.run = pass[p].run /\ d.snap = s
      /\ d.claimed = pass[p].claimed
  BY ZenonT(60), AtPass DEF PassState
<1> HIDE DEF d
<1>3. PassFits(p, d, node)
  BY <1>2, AtPass DEF PassFits
<1>4. \A r \in Run, j \in Job : ~Sweeps(pass[p], r, j)
  BY DEF Sweeps
<1>5. cut \subseteq cut' /\ UNCHANGED <<dag, node, job, runStatus>>
  OBVIOUS
<1> QED
  BY <1>1, <1>2, <1>3, <1>4, <1>5, PassReads

LEMMA LoadFailsKeeps == ASSUME Inv, NEW p \in Pass, LoadFails(p) PROVE Inv'
<1>1. /\ pass[p].pc = "load" \/ (pass[p].pc = "poll" /\ pass[p].todo = {})
      /\ Fault
      /\ pass' = [pass EXCEPT ![p].pc = "arm"]
      /\ UNCHANGED <<dag, night, runDate, runStatus, node, job, starts, ticks, cut>>
  BY DEF LoadFails, At, ReloadDue
<1>2. /\ \A j \in Job : pass[p].snap[j].id = NoPass
      /\ pass[p].snap \in [Job -> NodeRow]
  BY <1>1, AtPass DEF PassFits, PassState
<1>3. pass' = [pass EXCEPT ![p].pc = "arm", ![p].snap = pass[p].snap]
  BY <1>1, AtPass DEF PassState
<1>4. pass[p].pc \in {"load", "poll", "advance"}
  BY <1>1
<1>5. RestTyped' /\ UNCHANGED <<dag, node, job, runStatus, cut>>
  BY <1>1, RestSame DEF Fault
<1> QED
  BY <1>2, <1>3, <1>4, <1>5, ArmsNext
\* A step of the poll loop that writes no row.
LEMMA NodeDoneKeeps ==
  ASSUME Inv, NEW p \in Pass, NEW j \in Job, NodeDone(p, j), pass[p].pc = "poll",
         RestTyped', RowsFit', NodesKept(node, node'), UNCHANGED <<runStatus, cut>>
  PROVE  Inv'
<1>1. PICK d \in PassState : pass' = [pass EXCEPT ![p] = d] /\ PassFits(p, d, node')
  BY NodeDoneFits
<1>2. pass[p].pc \notin {"sweep_load", "sweep"}
  OBVIOUS
<1> QED
  BY <1>1, <1>2, PassWorks

LEMMA SeenKeeps ==
  ASSUME Inv, NEW p \in Pass, NEW j \in Job, pass[p].pc = "poll",
         NEW s \in JobStates \cup {"timed_out"}, pass' = [pass EXCEPT ![p].seen[j] = s],
         RestTyped', RowsFit', NodesKept(node, node'), UNCHANGED <<runStatus, cut>>
  PROVE  Inv'
<1> DEFINE d == [pass[p] EXCEPT !.seen[j] = s]
<1>1. pass' = [pass EXCEPT ![p] = d]
  OBVIOUS
<1>2. /\ d \in PassState /\ d.pc = pass[p].pc /\ d.run = pass[p].run /\ d.snap = pass[p].snap
      /\ d.todo = pass[p].todo /\ d.claimed = pass[p].claimed /\ d.msg = pass[p].msg
  BY ZenonT(60), AtPass DEF PassState
<1> HIDE DEF d
<1>3. PassFits(p, pass[p], node')
  BY AtPass, PassKept, NoPassAssumption
<1>4. PassFits(p, d, node')
  BY <1>2, <1>3 DEF PassFits
<1>5. pass[p].pc \notin {"sweep_load", "sweep"}
  OBVIOUS
<1> QED
  BY <1>1, <1>2, <1>4, <1>5, PassWorks

LEMMA ObserveKeeps == ASSUME Inv, NEW p \in Pass, NEW j \in Job, Observe(p, j) PROVE Inv'
<1> DEFINE s == JobOf(pass[p].run, j, pass[p].snap[j].id)
<1>1. /\ pass[p].pc = "poll"
      /\ UNCHANGED <<dag, night, runDate, runStatus, node, job, starts, ticks, cut, faults>>
      /\ NodeDone(p, j) \/ pass' = [pass EXCEPT ![p].seen[j] = s]
  BY DEF Observe, At
<1>2. RestTyped' /\ RowsFit' /\ NodesKept(node, node') /\ UNCHANGED <<runStatus, cut>>
  BY <1>1, RestSame, RowsSame
<1>3. s \in JobStates \cup {"timed_out"}
  <2>1. pass[p].run \in Run
    BY <1>1, AtPass DEF PassFits
  <2> QED
    BY <2>1 DEF JobOf, Inv, RowsFit, JobStates
<1> HIDE DEF s
<1>4. CASE NodeDone(p, j)
  BY <1>1, <1>2, <1>4, NodeDoneKeeps
<1>5. CASE pass' = [pass EXCEPT ![p].seen[j] = s]
  BY <1>1, <1>2, <1>3, <1>5, SeenKeeps
<1> QED
  BY <1>1, <1>4, <1>5

LEMMA PollFailsKeeps == ASSUME Inv, NEW p \in Pass, NEW j \in Job, PollFails(p, j) PROVE Inv'
<1>1. /\ pass[p].pc = "poll" /\ NodeDone(p, j) /\ Fault
      /\ UNCHANGED <<dag, night, runDate, runStatus, node, job, starts, ticks, cut>>
  BY DEF PollFails, At
<1>2. RestTyped' /\ RowsFit' /\ NodesKept(node, node') /\ UNCHANGED <<runStatus, cut>>
  BY <1>1, RestSame, RowsSame
<1> QED
  BY <1>1, <1>2, NodeDoneKeeps

LEMMA PollWritesKeeps == ASSUME Inv, NEW p \in Pass, NEW j \in Job, PollWrites(p, j) PROVE Inv'
<1>1. /\ pass[p].pc = "poll" /\ NodeDone(p, j)
      /\ \E s \in Verdicts(j, pass[p].seen[j]) : node' = NodeSet(pass[p].run, j, s)
      /\ UNCHANGED <<dag, night, runDate, runStatus, job, starts, ticks, cut, faults>>
  BY DEF PollWrites, At
<1>2. PICK s \in Verdicts(j, pass[p].seen[j]) : node' = NodeSet(pass[p].run, j, s)
  BY <1>1
<1>3. s \in NodeStates /\ s # "pending"
  BY DEF Verdicts, NodeStates, Terminal, Succeeded, InFlight
<1>4. pass[p].run \in Run
  BY <1>1, AtPass DEF PassFits
<1>5. UNCHANGED <<dag, job>>
  BY <1>1
<1>6. RowsFit' /\ NodesKept(node, node')
  BY <1>2, <1>3, <1>4, <1>5, NodeSetFits
<1>7. RestTyped' /\ UNCHANGED <<runStatus, cut>>
  BY <1>1, RestSame
<1> QED
  BY <1>1, <1>6, <1>7, NodeDoneKeeps

LEMMA PollResendsKeeps ==
  ASSUME Inv, NEW p \in Pass, NEW j \in Job, PollResends(p, j) PROVE Inv'
<1> DEFINE q == pass[p].snap[j].id
<1>1. /\ pass[p].pc = "poll" /\ NodeDone(p, j) /\ q # NoPass
      /\ job' = JobSent(pass[p].run, j, q)
      /\ UNCHANGED <<dag, night, runDate, runStatus, node, starts, ticks, cut, faults>>
  BY DEF PollResends, At
<1>2. /\ q \in Pass /\ pass[p].run \in Run /\ node[pass[p].run][j].id = q
  BY <1>1, AtPass DEF PassFits, PassState, NodeRow
<1>3. UNCHANGED <<dag, node>>
  BY <1>1
<1> HIDE DEF q
<1>4. RowsFit' /\ NodesKept(node, node')
  BY <1>1, <1>2, <1>3, JobSentFits
<1>5. RestTyped' /\ UNCHANGED <<runStatus, cut>>
  BY <1>1, RestSame
<1> QED
  BY <1>1, <1>4, <1>5, NodeDoneKeeps

LEMMA PollCancelsKeeps ==
  ASSUME Inv, NEW p \in Pass, NEW j \in Job, PollCancels(p, j) PROVE Inv'
<1>1. /\ pass[p].pc = "poll" /\ pass' = [pass EXCEPT ![p].seen[j] = "timed_out"]
      /\ job' = job \/ job' = JobCancelled(pass[p].run, j, pass[p].snap[j].id)
      /\ faults' = faults \/ Fault
      /\ UNCHANGED <<dag, night, runDate, runStatus, node, starts, ticks, cut>>
  BY DEF PollCancels, At
<1>2. pass[p].run \in Run /\ UNCHANGED <<dag, node>>
  BY <1>1, AtPass DEF PassFits
<1>3. RowsFit' /\ NodesKept(node, node')
  BY <1>1, <1>2, JobCancelledFits, RowsSame
<1>4. RestTyped' /\ UNCHANGED <<runStatus, cut>>
  BY <1>1, RestSame
<1>5. "timed_out" \in JobStates \cup {"timed_out"}
  OBVIOUS
<1> QED
  BY <1>1, <1>3, <1>4, <1>5, SeenKeeps

LEMMA ReloadKeeps == ASSUME Inv, NEW p \in Pass, Reload(p) PROVE Inv'
<1> DEFINE rows == node[pass[p].run]
           snap == StatusesOf(rows)
           todo == {j \in Job : rows[j].status = "pending"}
           d == [pass[p] EXCEPT !.pc = "advance", !.snap = snap, !.todo = todo]
<1>1. /\ pass[p].pc = "poll" /\ pass' = [pass EXCEPT ![p] = d]
      /\ UNCHANGED <<dag, night, runDate, runStatus, node, job, starts, ticks, cut, faults>>
  BY DEF Reload, ReloadDue, At
<1>2. pass[p].run \in Run /\ rows \in [Job -> NodeRow]
  BY <1>1, AtPass DEF PassFits, Inv, RowsFit
<1>3. /\ snap \in [Job -> NodeRow]
      /\ \A j \in Job : snap[j].id = NoPass /\ snap[j].status = rows[j].status
  BY <1>2, NewNodeTyped DEF StatusesOf, NodeRow
<1>4. /\ d \in PassState /\ d.pc = "advance" /\ d.run = pass[p].run /\ d.snap = snap
      /\ d.todo = todo /\ d.claimed = pass[p].claimed
  BY ZenonT(60), <1>3, AtPass DEF PassState
<1> HIDE DEF d, snap, todo
<1>5. PassFits(p, d, node)
  <2>1. \A j \in d.claimed : FALSE
    BY <1>1, <1>4, AtPass DEF PassFits
  <2> QED
    BY <1>2, <1>3, <1>4, <2>1 DEF PassFits
<1>6. \A r \in Run, j \in Job : ~Sweeps(pass[p], r, j)
  BY <1>1 DEF Sweeps
<1>7. /\ UNCHANGED <<dag, node, job, runStatus>> /\ cut \subseteq cut'
      /\ RestTyped'
  BY <1>1, RestSame
<1> HIDE DEF rows
<1>8. d \in PassState /\ pass' = [pass EXCEPT ![p] = d]
  BY <1>1, <1>4
<1> QED
  BY <1>5, <1>6, <1>7, <1>8, PassReads
\* A step of the second loop: the copy of the statuses is never ahead of the rows.
LEMMA AdvanceMoves ==
  ASSUME Inv, NEW p \in Pass, pass[p].pc \in {"advance", "send"}, NEW d \in PassState,
         pass' = [pass EXCEPT ![p] = d], d.pc \in {"advance", "send"}, d.run = pass[p].run,
         \A k \in Job : d.snap[k].id = NoPass,
         \A k \in Job : d.snap[k].status \in Terminal =>
                          node'[pass[p].run][k].status = d.snap[k].status,
         \A k \in d.claimed : d.pc = "send" /\ node'[pass[p].run][k].id = p,
         RestTyped', RowsFit', NodesKept(node, node'), UNCHANGED <<runStatus, cut>>
  PROVE  Inv'
<1>1. d.run \in Run
  BY AtPass DEF PassFits
<1>2. PassFits(p, d, node')
  BY <1>1 DEF PassFits
<1>3. pass[p].pc \notin {"sweep_load", "sweep"}
  OBVIOUS
<1> QED
  BY <1>2, <1>3, PassWorks

\* What the second loop holds.
LEMMA AdvanceHolds ==
  ASSUME Inv, NEW p \in Pass, pass[p].pc \in {"advance", "send"}
  PROVE  /\ pass[p].run \in Run /\ pass[p].snap \in [Job -> NodeRow]
         /\ pass[p].todo \in SUBSET Job /\ pass[p].claimed \in SUBSET Job
         /\ pass[p].pc = "advance" => pass[p].claimed = {}
         /\ \A k \in Job : pass[p].snap[k].id = NoPass
         /\ \A k \in pass[p].claimed : node[pass[p].run][k].id = p
         /\ \A k \in Job : pass[p].snap[k].status \in Terminal =>
                             node[pass[p].run][k].status = pass[p].snap[k].status
<1>1. /\ pass[p].snap \in [Job -> NodeRow]
      /\ pass[p].todo \in SUBSET Job /\ pass[p].claimed \in SUBSET Job
  BY AtPass DEF PassState
<1> QED
  BY <1>1, AtPass DEF PassFits

CopyEdited(p, j, s) == [pass[p].snap EXCEPT ![j].status = s]

\* The copy of one node follows a write that settled it, or it stays open.
LEMMA CopyFits ==
  ASSUME Inv, NEW p \in Pass, pass[p].pc \in {"advance", "send"}, NEW j \in Job,
         NodesKept(node, node'), NEW s \in NodeStates,
         s \in Terminal => node'[pass[p].run][j].status = s,
         NEW snap, snap = CopyEdited(p, j, s)
  PROVE  /\ snap \in [Job -> NodeRow] /\ \A k \in Job : snap[k].id = NoPass
         /\ \A k \in Job : snap[k].status \in Terminal =>
                             node'[pass[p].run][k].status = snap[k].status
<1> DEFINE old == pass[p].snap
<1>1. /\ pass[p].run \in Run /\ old \in [Job -> NodeRow]
      /\ \A k \in Job : old[k].id = NoPass
      /\ \A k \in Job : old[k].status \in Terminal =>
                          node[pass[p].run][k].status = old[k].status
  BY AdvanceHolds
<1> HIDE DEF old
<1>2. snap = [old EXCEPT ![j].status = s]
  BY DEF old, CopyEdited
<1>3. /\ snap \in [Job -> NodeRow] /\ snap[j].status = s /\ snap[j].id = NoPass
      /\ \A k \in Job : k # j => snap[k] = old[k]
  <2>1. old[j] \in NodeRow /\ old[j].id = NoPass
    BY <1>1
  <2> DEFINE x == [old[j] EXCEPT !.status = s]
  <2>2. x \in NodeRow /\ x.status = s /\ x.id = NoPass
    BY <2>1 DEF NodeRow
  <2>3. snap = [old EXCEPT ![j] = x]
    BY <1>1, <1>2
  <2> HIDE DEF x
  <2> QED
    BY <1>1, <2>2, <2>3
<1>4. \A k \in Job : old[k].status \in Terminal =>
        node'[pass[p].run][k].status = old[k].status
  BY <1>1 DEF NodesKept
<1> QED
  BY <1>1, <1>3, <1>4

LEMMA SameCopyFits ==
  ASSUME Inv, NEW p \in Pass, pass[p].pc \in {"advance", "send"}, NodesKept(node, node')
  PROVE  \A k \in Job : pass[p].snap[k].status \in Terminal =>
                          node'[pass[p].run][k].status = pass[p].snap[k].status
BY AdvanceHolds DEF NodesKept

LEMMA SkipBlockedKeeps ==
  ASSUME Inv, NEW p \in Pass, NEW j \in Job, SkipBlocked(p, j) PROVE Inv'
<1> DEFINE r == pass[p].run
           snap == SnapSet(p, r, j, "skipped")
           t == pass[p].todo \ {j}
<1>1. /\ pass[p].pc = "advance" /\ node' = NodeSet(r, j, "skipped")
      /\ pass' = [pass EXCEPT ![p].todo = t, ![p].snap = snap]
      /\ UNCHANGED <<dag, night, runDate, runStatus, job, starts, ticks, cut, faults>>
  BY DEF SkipBlocked, Considers, At
<1>2. /\ r \in Run /\ t \in SUBSET Job /\ pass[p].claimed = {}
      /\ pass[p].snap \in [Job -> NodeRow] /\ \A k \in Job : pass[p].snap[k].id = NoPass
  BY <1>1, AdvanceHolds
<1>3. "skipped" \in NodeStates /\ "skipped" \in Terminal /\ UNCHANGED <<dag, job>>
  BY <1>1 DEF NodeStates, Terminal
<1>4. /\ RowsFit' /\ NodesKept(node, node')
      /\ node[r][j].status \notin Terminal => node'[r][j].status = "skipped"
  BY <1>1, <1>2, <1>3, NodeSetFits
<1> DEFINE d == [pass[p] EXCEPT !.todo = t, !.snap = snap]
<1>5. pass' = [pass EXCEPT ![p] = d]
  BY <1>1
<1>6. /\ snap \in [Job -> NodeRow] /\ \A k \in Job : snap[k].id = NoPass
      /\ \A k \in Job : snap[k].status \in Terminal =>
                          node'[r][k].status = snap[k].status
  <2>1. CASE node[r][j].status \in Terminal
    <3>1. snap = pass[p].snap
      BY <2>1 DEF SnapSet
    <3> QED
      BY <1>1, <1>2, <1>4, <3>1, SameCopyFits
  <2>2. CASE node[r][j].status \notin Terminal
    <3>1. snap = CopyEdited(p, j, "skipped")
      BY <2>2 DEF SnapSet, CopyEdited
    <3>2. "skipped" \in Terminal => node'[r][j].status = "skipped"
      BY <1>4, <2>2
    <3>3. pass[p].pc \in {"advance", "send"}
      BY <1>1
    <3> HIDE DEF snap
    <3> QED
      BY <1>3, <1>4, <3>1, <3>2, <3>3, CopyFits
  <2> QED
    BY <2>1, <2>2
<1>7. RestTyped' /\ UNCHANGED <<runStatus, cut>>
  BY <1>1, RestSame
<1> HIDE DEF snap, t
<1>8. /\ d \in PassState /\ d.pc = "advance" /\ d.run = r /\ d.snap = snap
      /\ d.claimed = {}
  BY ZenonT(60), <1>1, <1>2, <1>6, AtPass DEF PassState
<1> HIDE DEF d
<1>9. pass[p].pc \in {"advance", "send"}
  BY <1>1
<1> QED
  BY <1>4, <1>5, <1>6, <1>7, <1>8, <1>9, AdvanceMoves

LEMMA WaitKeeps == ASSUME Inv, NEW p \in Pass, NEW j \in Job, Wait(p, j) PROVE Inv'
<1> DEFINE t == pass[p].todo \ {j}
<1>1. /\ pass[p].pc = "advance" /\ pass' = [pass EXCEPT ![p].todo = t]
      /\ faults' = faults \/ Fault
      /\ UNCHANGED <<dag, night, runDate, runStatus, node, job, starts, ticks, cut>>
  BY DEF Wait, Considers, At
<1>2. /\ t \in SUBSET Job /\ pass[p].claimed = {}
      /\ pass[p].snap \in [Job -> NodeRow] /\ \A k \in Job : pass[p].snap[k].id = NoPass
  BY <1>1, AdvanceHolds
<1>3. RestTyped' /\ RowsFit' /\ NodesKept(node, node') /\ UNCHANGED <<runStatus, cut>>
  BY <1>1, RestSame, RowsSame
<1> DEFINE d == [pass[p] EXCEPT !.todo = t]
<1>4. /\ pass' = [pass EXCEPT ![p] = d]
      /\ pass[p].pc \in {"advance", "send"}
  BY <1>1
<1>5. \A k \in Job : pass[p].snap[k].status \in Terminal =>
                       node'[pass[p].run][k].status = pass[p].snap[k].status
  BY <1>1, <1>3, SameCopyFits
<1> HIDE DEF t
<1>6. /\ d \in PassState /\ d.pc = "advance" /\ d.run = pass[p].run
      /\ d.snap = pass[p].snap /\ d.claimed = {}
  BY ZenonT(60), <1>1, <1>2, AtPass DEF PassState
<1> HIDE DEF d
<1> QED
  BY <1>2, <1>3, <1>4, <1>5, <1>6, AdvanceMoves

LEMMA NotNeededKeeps ==
  ASSUME Inv, NEW p \in Pass, NEW j \in Job, NotNeeded(p, j) PROVE Inv'
<1> DEFINE r == pass[p].run
           t == pass[p].todo \ {j}
           s == node'[r][j].status
           snap == [pass[p].snap EXCEPT ![j].status = s]
<1>1. /\ pass[p].pc = "advance"
      /\ node' = IF Pending(r, j) THEN [node EXCEPT ![r][j].status = "not_needed"] ELSE node
      /\ pass' = [pass EXCEPT ![p].todo = t, ![p].snap[j].status = s]
      /\ UNCHANGED <<dag, night, runDate, runStatus, job, starts, ticks, cut, faults>>
  BY DEF NotNeeded, Considers, At
<1>2. /\ r \in Run /\ t \in SUBSET Job /\ pass[p].claimed = {}
      /\ pass[p].snap \in [Job -> NodeRow]
  BY <1>1, AdvanceHolds
<1>3. UNCHANGED <<dag, job>>
  BY <1>1
<1>4. /\ node \in [Run -> [Job -> NodeRow]] /\ node[r][j] \in NodeRow
      /\ node[r][j].status = "pending" => node[r][j].id = NoPass
  BY <1>2 DEF Inv, RowsFit
<1>5. RowsFit' /\ NodesKept(node, node') /\ s \in NodeStates
  <2>1. CASE Pending(r, j)
    <3> DEFINE x == [node[r][j] EXCEPT !.status = "not_needed"]
    <3>1. node' = NodeEdited(r, j, x)
      BY <1>1, <1>4, <2>1 DEF NodeEdited
    <3>2. x \in NodeRow /\ x.id = NoPass /\ x.status = "not_needed" /\ node[r][j].id = NoPass
      BY <1>4, <2>1 DEF NodeRow, NodeStates, Terminal, Succeeded, Pending
    <3>3. node[r][j].status \notin Terminal
      BY <2>1 DEF Pending, Terminal, Succeeded
    <3> HIDE DEF x
    <3>4. RowsFit' /\ NodesKept(node, node') /\ node'[r][j] = x
      BY <1>2, <1>3, <3>1, <3>2, <3>3, NodeWritten
    <3> QED
      BY <3>2, <3>4 DEF NodeRow
  <2>2. CASE ~Pending(r, j)
    <3>1. node' = node
      BY <1>1, <2>2
    <3> QED
      BY <1>3, <1>4, <3>1, RowsSame DEF NodeRow
  <2> QED
    BY <2>1, <2>2
<1> HIDE DEF t, s
<1>6. /\ snap \in [Job -> NodeRow] /\ \A k \in Job : snap[k].id = NoPass
      /\ \A k \in Job : snap[k].status \in Terminal => node'[r][k].status = snap[k].status
  <2>1. s \in Terminal => node'[r][j].status = s
    BY DEF s
  <2>2. pass[p].pc \in {"advance", "send"} /\ snap = CopyEdited(p, j, s)
    BY <1>1 DEF CopyEdited
  <2> HIDE DEF snap
  <2> QED
    BY <1>5, <2>1, <2>2, CopyFits
<1> DEFINE d == [pass[p] EXCEPT !.todo = t, !.snap = snap]
<1>7. pass' = [pass EXCEPT ![p] = d]
  BY <1>1
<1>8. RestTyped' /\ UNCHANGED <<runStatus, cut>>
  BY <1>1, RestSame
<1> HIDE DEF snap
<1>9. /\ d \in PassState /\ d.pc = "advance" /\ d.run = r /\ d.snap = snap
      /\ d.claimed = {}
  BY ZenonT(60), <1>1, <1>2, <1>6, AtPass DEF PassState
<1> HIDE DEF d
<1>10. pass[p].pc \in {"advance", "send"}
  BY <1>1
<1> QED
  BY <1>5, <1>6, <1>7, <1>8, <1>9, <1>10, AdvanceMoves
\* What the copy calls ready is ready in the rows.
LEMMA ReadyIsDone ==
  ASSUME Inv, NEW p \in Pass, NEW j \in Job, pass[p].pc = "advance", Ready(pass[p].snap, j)
  PROVE  UpstreamsDone(node[pass[p].run], j)
<1>1. \A k \in Job : pass[p].snap[k].status \in Terminal =>
                       node[pass[p].run][k].status = pass[p].snap[k].status
  BY AdvanceHolds
<1>2. \A u \in dag.hard[j] \cup dag.soft[j] : pass[p].snap[u].status \in Terminal
  BY DEF Ready, UpstreamsSettled
<1>3. \A u \in dag.hard[j] : pass[p].snap[u].status \in Succeeded
  BY <1>2 DEF Ready, Blocked, Terminal
<1>4. dag.hard[j] \subseteq Job /\ dag.soft[j] \subseteq Job
  BY UpstreamsAreJobs
<1> QED
  BY <1>1, <1>2, <1>3, <1>4 DEF UpstreamsDone

LEMMA ClaimKeeps == ASSUME Inv, NEW p \in Pass, NEW j \in Job, Claim(p, j) PROVE Inv'
<1> DEFINE r == pass[p].run
           t == pass[p].todo \ {j}
           x == [status |-> "enqueued", id |-> p, late |-> FALSE]
<1>1. /\ pass[p].pc = "advance" /\ Ready(pass[p].snap, j)
      /\ \/ /\ Pending(r, j) /\ node' = [node EXCEPT ![r][j] = x]
            /\ pass' = [pass EXCEPT ![p].pc = "send", ![p].todo = t, ![p].claimed = {j}]
         \/ node' = node /\ pass' = [pass EXCEPT ![p].todo = t]
      /\ UNCHANGED <<dag, night, runDate, runStatus, job, starts, ticks, cut, faults>>
  BY DEF Claim, Considers, At
<1>2. /\ r \in Run /\ t \in SUBSET Job /\ pass[p].claimed = {}
      /\ pass[p].snap \in [Job -> NodeRow] /\ \A k \in Job : pass[p].snap[k].id = NoPass
  BY <1>1, AdvanceHolds
<1>3. UNCHANGED <<dag, job>> /\ pass[p].pc \in {"advance", "send"}
  BY <1>1
<1>4. RestTyped' /\ UNCHANGED <<runStatus, cut>>
  BY <1>1, RestSame
<1>5. CASE /\ Pending(r, j) /\ node' = [node EXCEPT ![r][j] = x]
           /\ pass' = [pass EXCEPT ![p].pc = "send", ![p].todo = t, ![p].claimed = {j}]
  <2>1. node[r][j].status = "pending" /\ node[r][j].id = NoPass
    BY <1>2, <1>5 DEF Pending, Inv, RowsFit
  <2>2. /\ x \in NodeRow /\ x.id = p /\ x.status # "pending"
        /\ node[r][j].status \notin Terminal
    BY <2>1 DEF NodeRow, NodeStates, InFlight, Terminal, Succeeded
  <2>3. node' = NodeEdited(r, j, x)
    BY <1>5 DEF NodeEdited
  <2>4. UpstreamsDone(node[r], j)
    BY <1>1, ReadyIsDone
  <2> HIDE DEF x
  <2>5. RowsFit' /\ NodesKept(node, node') /\ node'[r][j] = x
    BY <1>2, <1>3, <2>1, <2>2, <2>3, <2>4, NodeWritten
  <2> DEFINE d == [pass[p] EXCEPT !.pc = "send", !.todo = t, !.claimed = {j}]
  <2>6. pass' = [pass EXCEPT ![p] = d]
    BY <1>5
  <2> HIDE DEF t
  <2>7. /\ d \in PassState /\ d.pc = "send" /\ d.run = r /\ d.snap = pass[p].snap
        /\ d.claimed = {j}
    BY ZenonT(60), <1>2, AtPass DEF PassState
  <2> HIDE DEF d
  <2>8. \A k \in Job : pass[p].snap[k].status \in Terminal =>
                         node'[r][k].status = pass[p].snap[k].status
    BY <1>3, <2>5, SameCopyFits
  <2>9. /\ \A k \in d.claimed : d.pc = "send" /\ node'[r][k].id = p
        /\ \A k \in Job : d.snap[k].id = NoPass
        /\ \A k \in Job : d.snap[k].status \in Terminal =>
                            node'[r][k].status = d.snap[k].status
        /\ d.pc \in {"advance", "send"}
    BY <1>2, <2>2, <2>5, <2>7, <2>8
  <2> QED
    BY <1>3, <1>4, <2>5, <2>6, <2>7, <2>9, AdvanceMoves
<1>6. CASE node' = node /\ pass' = [pass EXCEPT ![p].todo = t]
  <2>1. RowsFit' /\ NodesKept(node, node')
    BY <1>3, <1>6, RowsSame
  <2> DEFINE d == [pass[p] EXCEPT !.todo = t]
  <2>2. pass' = [pass EXCEPT ![p] = d]
    BY <1>6
  <2> HIDE DEF t
  <2>3. /\ d \in PassState /\ d.pc = "advance" /\ d.run = r /\ d.snap = pass[p].snap
        /\ d.claimed = {}
    BY ZenonT(60), <1>1, <1>2, AtPass DEF PassState
  <2> HIDE DEF d
  <2>4. \A k \in Job : pass[p].snap[k].status \in Terminal =>
                         node'[r][k].status = pass[p].snap[k].status
    BY <1>3, <2>1, SameCopyFits
  <2> QED
    BY <1>2, <1>3, <1>4, <2>1, <2>2, <2>3, <2>4, AdvanceMoves
<1> QED
  BY <1>1, <1>5, <1>6

\* The claimed node is sent, or not, and the loop goes on.
LEMMA SentMoves ==
  ASSUME Inv, NEW p \in Pass, pass[p].pc = "send",
         NEW snap \in [Job -> NodeRow], \A k \in Job : snap[k].id = NoPass,
         \A k \in Job : snap[k].status \in Terminal =>
                          node'[pass[p].run][k].status = snap[k].status,
         pass' = [pass EXCEPT ![p].pc = "advance", ![p].claimed = {}, ![p].snap = snap],
         RestTyped', RowsFit', NodesKept(node, node'), UNCHANGED <<runStatus, cut>>
  PROVE  Inv'
<1> DEFINE d == [pass[p] EXCEPT !.pc = "advance", !.claimed = {}, !.snap = snap]
<1>1. pass' = [pass EXCEPT ![p] = d]
  OBVIOUS
<1>2. /\ d \in PassState /\ d.pc = "advance" /\ d.run = pass[p].run /\ d.snap = snap
      /\ d.claimed = {}
  BY ZenonT(60), AtPass DEF PassState
<1> HIDE DEF d
<1>3. /\ \A k \in d.claimed : d.pc = "send" /\ node'[pass[p].run][k].id = p
      /\ \A k \in Job : d.snap[k].id = NoPass
      /\ \A k \in Job : d.snap[k].status \in Terminal =>
                          node'[pass[p].run][k].status = d.snap[k].status
      /\ d.pc \in {"advance", "send"}
  BY <1>2
<1>4. pass[p].pc \in {"advance", "send"}
  OBVIOUS
<1> QED
  BY <1>1, <1>2, <1>3, <1>4, AdvanceMoves

LEMMA SendKeeps == ASSUME Inv, NEW p \in Pass, NEW j \in Job, Send(p, j) PROVE Inv'
<1> DEFINE snap == CopyEdited(p, j, "enqueued")
<1>1. /\ pass[p].pc = "send" /\ j \in pass[p].claimed
      /\ job' = JobSent(pass[p].run, j, p)
      /\ pass' = [pass EXCEPT ![p].pc = "advance", ![p].claimed = {},
                              ![p].snap[j].status = "enqueued"]
      /\ UNCHANGED <<dag, night, runDate, runStatus, node, starts, ticks, cut, faults>>
  BY DEF Send, At
<1>2. pass[p].pc \in {"advance", "send"} /\ UNCHANGED <<dag, node>>
  BY <1>1
<1>3. pass[p].run \in Run /\ node[pass[p].run][j].id = p
  BY <1>1, <1>2, AdvanceHolds
<1>4. RowsFit' /\ NodesKept(node, node')
  BY <1>1, <1>2, <1>3, JobSentFits
<1>5. "enqueued" \in NodeStates /\ "enqueued" \notin Terminal
  BY DEF NodeStates, Terminal, Succeeded, InFlight
<1>6. pass' = [pass EXCEPT ![p].pc = "advance", ![p].claimed = {}, ![p].snap = snap]
  BY <1>1 DEF CopyEdited
<1> HIDE DEF snap
<1>7. /\ snap \in [Job -> NodeRow] /\ \A k \in Job : snap[k].id = NoPass
      /\ \A k \in Job : snap[k].status \in Terminal =>
                          node'[pass[p].run][k].status = snap[k].status
  BY <1>2, <1>4, <1>5, CopyFits DEF snap
<1>8. RestTyped' /\ UNCHANGED <<runStatus, cut>>
  BY <1>1, RestSame
<1>9. pass[p].pc = "send"
  BY <1>1
<1> QED
  BY <1>4, <1>6, <1>7, <1>8, <1>9, SentMoves

LEMMA SendThrowsKeeps ==
  ASSUME Inv, NEW p \in Pass, NEW j \in Job, SendThrows(p, j) PROVE Inv'
<1> DEFINE snap == pass[p].snap
<1>1. /\ pass[p].pc = "send" /\ Fault
      /\ pass' = [pass EXCEPT ![p].pc = "advance", ![p].claimed = {}]
      /\ UNCHANGED <<dag, night, runDate, runStatus, node, job, starts, ticks, cut>>
  BY DEF SendThrows, At
<1>2. pass[p].pc \in {"advance", "send"}
  BY <1>1
<1>3. RestTyped' /\ RowsFit' /\ NodesKept(node, node') /\ UNCHANGED <<runStatus, cut>>
  BY <1>1, RestSame, RowsSame
<1>4. pass' = [pass EXCEPT ![p].pc = "advance", ![p].claimed = {}, ![p].snap = snap]
  BY <1>1, AtPass DEF PassState
<1>5. snap \in [Job -> NodeRow] /\ \A k \in Job : snap[k].id = NoPass
  BY <1>2, AdvanceHolds
<1>6. \A k \in Job : snap[k].status \in Terminal =>
                       node'[pass[p].run][k].status = snap[k].status
  BY <1>2, <1>3, SameCopyFits
<1> HIDE DEF snap
<1>7. pass[p].pc = "send"
  BY <1>1
<1> QED
  BY <1>3, <1>4, <1>5, <1>6, <1>7, SentMoves

LEMMA SendRefusedKeeps ==
  ASSUME Inv, NEW p \in Pass, NEW j \in Job, SendRefused(p, j) PROVE Inv'
<1> DEFINE r == pass[p].run
           snap == SnapSet(p, r, j, "failed")
<1>1. /\ pass[p].pc = "send" /\ node' = NodeSet(r, j, "failed") /\ Fault
      /\ pass' = [pass EXCEPT ![p].pc = "advance", ![p].claimed = {}, ![p].snap = snap]
      /\ UNCHANGED <<dag, night, runDate, runStatus, job, starts, ticks, cut>>
  BY DEF SendRefused, At
<1>2. pass[p].pc \in {"advance", "send"} /\ UNCHANGED <<dag, job>>
  BY <1>1
<1>3. /\ r \in Run
      /\ pass[p].snap \in [Job -> NodeRow] /\ \A k \in Job : pass[p].snap[k].id = NoPass
  BY <1>2, AdvanceHolds
<1>4. "failed" \in NodeStates /\ "failed" # "pending"
  BY DEF NodeStates, Terminal
<1>5. /\ RowsFit' /\ NodesKept(node, node')
      /\ node[r][j].status \notin Terminal => node'[r][j].status = "failed"
  BY <1>1, <1>2, <1>3, <1>4, NodeSetFits
<1>6. /\ snap \in [Job -> NodeRow] /\ \A k \in Job : snap[k].id = NoPass
      /\ \A k \in Job : snap[k].status \in Terminal =>
                          node'[r][k].status = snap[k].status
  <2>1. CASE node[r][j].status \in Terminal
    <3>1. snap = pass[p].snap
      BY <2>1 DEF SnapSet
    <3> QED
      BY <1>2, <1>3, <1>5, <3>1, SameCopyFits
  <2>2. CASE node[r][j].status \notin Terminal
    <3>1. snap = CopyEdited(p, j, "failed")
      BY <2>2 DEF SnapSet, CopyEdited
    <3>2. "failed" \in Terminal => node'[r][j].status = "failed"
      BY <1>5, <2>2
    <3> HIDE DEF snap
    <3> QED
      BY <1>2, <1>4, <1>5, <3>1, <3>2, CopyFits
  <2> QED
    BY <2>1, <2>2
<1>7. RestTyped' /\ UNCHANGED <<runStatus, cut>>
  BY <1>1, RestSame
<1> HIDE DEF snap
<1>8. pass[p].pc = "send"
  BY <1>1
<1>9. pass' = [pass EXCEPT ![p].pc = "advance", ![p].claimed = {}, ![p].snap = snap]
  BY <1>1
<1> QED
  BY <1>5, <1>6, <1>7, <1>8, <1>9, SentMoves

---------------------------------------------------------------------------
(* The end of a pass, the jobs and time *)

LEMMA FinishRunKeeps == ASSUME Inv, NEW p \in Pass, FinishRun(p) PROVE Inv'
<1> DEFINE r == pass[p].run
<1>1. /\ pass[p].pc = "advance" /\ Complete(pass[p].snap)
      /\ runStatus' = IF runStatus[r] = "running"
                      THEN [runStatus EXCEPT ![r] = "completed"] ELSE runStatus
      /\ pass' = [pass EXCEPT ![p] = IdlePass]
      /\ UNCHANGED <<dag, night, runDate, node, job, starts, ticks, cut, faults>>
  BY DEF FinishRun, Done, At
<1>2. r \in Run /\ Settled(r)
  BY <1>1, AdvanceHolds DEF Complete, Settled
<1>3. RestTyped'
  <2>1. runStatus' \in [Run -> RunStates]
    BY <1>1 DEF Inv, RestTyped, RunStates
  <2> QED
    BY <1>1, <2>1 DEF Inv, RestTyped
<1>4. RowsFit' /\ NodesKept(node, node')
  BY <1>1, RowsSame
<1>5. PassFits(p, IdlePass, node') /\ IdlePass \in PassState
  BY IdleFits, IdleTyped
<1>6. \A q \in Run, j \in Job : ~Sweeps(pass[p], q, j)
  BY <1>1 DEF Sweeps
<1>7. \A q \in Run : runStatus'[q] = runStatus[q] \/ (q = r /\ runStatus'[q] = "completed")
  BY <1>1 DEF Inv, RestTyped
<1>8. /\ \A q \in Run : runStatus'[q] = "abandoned" =>
           runStatus[q] = "abandoned" \/ \A k \in Job : Sweeps(IdlePass, q, k)
      /\ \A q \in Run : runStatus'[q] = "completed" => runStatus[q] = "completed" \/ Settled(q)
      /\ cut \subseteq cut'
  BY <1>1, <1>2, <1>7
<1> QED
  BY <1>1, <1>3, <1>4, <1>5, <1>6, <1>8, PassMoves

LEMMA FinishFailsKeeps == ASSUME Inv, NEW p \in Pass, FinishFails(p) PROVE Inv'
<1>1. /\ pass[p].pc = "advance" /\ Fault
      /\ pass' = [pass EXCEPT ![p].pc = "arm", ![p].snap = IdlePass.snap]
      /\ UNCHANGED <<dag, night, runDate, runStatus, node, job, starts, ticks, cut>>
  BY DEF FinishFails, At
<1>2. IdlePass.snap \in [Job -> NodeRow] /\ \A j \in Job : IdlePass.snap[j].id = NoPass
  BY IdleTyped, NewNodeTyped DEF PassState
<1>3. pass[p].pc \in {"load", "poll", "advance"}
  BY <1>1
<1>4. RestTyped' /\ UNCHANGED <<dag, node, job, runStatus, cut>>
  BY <1>1, RestSame
<1> QED
  BY <1>1, <1>2, <1>3, <1>4, ArmsNext

LEMMA ArmKeeps == ASSUME Inv, NEW p \in Pass, Arm(p) PROVE Inv'
<1>1. /\ pass[p].pc \in {"arm", "advance"} /\ Done(p)
      /\ ticks' = [ticks EXCEPT ![pass[p].run] = @ + 1]
      /\ UNCHANGED <<dag, night, runDate, runStatus, node, job, starts, cut, faults>>
  BY DEF Arm, NotSettled, At
<1>2. pass[p].run \in Run
  BY <1>1, AtPass DEF PassFits
<1>3. RestTyped'
  BY <1>1, <1>2 DEF Inv, RestTyped
<1>4. pass[p].pc \notin {"sweep_load", "sweep"} /\ UNCHANGED <<dag, node, job, runStatus, cut>>
  BY <1>1
<1> QED
  BY <1>1, <1>3, <1>4, PassEnds

LEMMA JobStartsKeeps ==
  ASSUME Inv, NEW r \in Run, NEW j \in Job, NEW p \in Pass, JobStarts(r, j, p) PROVE Inv'
<1>1. /\ job[r][j][p] = "created" /\ job' = JobEdited(r, j, p, "active")
      /\ UNCHANGED <<dag, night, runDate, runStatus, node, starts, ticks, pass, cut, faults>>
  BY DEF JobStarts, JobEdited
<1>2. node[r][j].id = p /\ "active" \in JobStates /\ UNCHANGED <<dag, node>>
  BY <1>1 DEF Inv, RowsFit, JobStates, LiveJob
<1>3. RowsFit' /\ NodesKept(node, node')
  BY <1>1, <1>2, JobWritten
<1>4. RestTyped' /\ pass' = pass /\ runStatus' = runStatus /\ cut' = cut
  BY <1>1, RestSame
<1> QED
  BY <1>3, <1>4, PassesStay

LEMMA JobEndsKeeps ==
  ASSUME Inv, NEW r \in Run, NEW j \in Job, NEW p \in Pass, JobEnds(r, j, p) PROVE Inv'
<1>1. /\ job[r][j][p] = "active"
      /\ \E s \in {"completed", "failed", "created"} : job' = JobEdited(r, j, p, s)
      /\ faults' = faults \/ Fault
      /\ UNCHANGED <<dag, night, runDate, runStatus, node, starts, ticks, pass, cut>>
  BY DEF JobEnds, JobEdited
<1>2. PICK s \in {"completed", "failed", "created"} : job' = JobEdited(r, j, p, s)
  BY <1>1
<1>3. node[r][j].id = p /\ s \in JobStates /\ UNCHANGED <<dag, node>>
  BY <1>1 DEF Inv, RowsFit, JobStates, LiveJob
<1>4. RowsFit' /\ NodesKept(node, node')
  BY <1>2, <1>3, JobWritten
<1>5. RestTyped' /\ pass' = pass /\ runStatus' = runStatus /\ cut' = cut
  BY <1>1, RestSame
<1> QED
  BY <1>4, <1>5, PassesStay

LEMMA TimeoutElapsesKeeps ==
  ASSUME Inv, NEW r \in Run, NEW j \in Job, TimeoutElapses(r, j) PROVE Inv'
<1> DEFINE x == [node[r][j] EXCEPT !.late = TRUE]
<1>1. /\ node[r][j].status \in InFlight /\ node' = [node EXCEPT ![r][j].late = TRUE]
      /\ UNCHANGED <<dag, night, runDate, runStatus, job, starts, ticks, pass, cut, faults>>
  BY DEF TimeoutElapses
<1>2. node \in [Run -> [Job -> NodeRow]] /\ node[r][j] \in NodeRow /\ RowsFit
  BY DEF Inv, RowsFit
<1>3. node' = NodeEdited(r, j, x)
  BY <1>1, <1>2 DEF NodeEdited
<1>4. x \in NodeRow /\ x.id = node[r][j].id /\ x.status = node[r][j].status
  BY <1>2 DEF NodeRow
<1>5. x.status # "pending" /\ (x.id # NoPass => UpstreamsDone(node[r], j))
  BY <1>1, <1>2, <1>4 DEF RowsFit, InFlight
<1> HIDE DEF x
<1>6. RowsFit' /\ NodesKept(node, node')
  BY <1>1, <1>3, <1>4, <1>5, NodeWritten
<1>7. RestTyped' /\ pass' = pass /\ runStatus' = runStatus /\ cut' = cut
  BY <1>1, RestSame
<1> QED
  BY <1>6, <1>7, PassesStay
---------------------------------------------------------------------------
(* Every step *)

LEMMA PollKeeps == ASSUME Inv, NEW p \in Pass, NEW j \in Job, Poll(p, j) PROVE Inv'
BY ObserveKeeps, PollWritesKeeps, PollResendsKeeps, PollCancelsKeeps DEF Poll

LEMMA AdvanceNodeKeeps ==
  ASSUME Inv, NEW p \in Pass, NEW j \in Job, AdvanceNode(p, j) PROVE Inv'
BY SkipBlockedKeeps, WaitKeeps, NotNeededKeeps, ClaimKeeps, SendKeeps DEF AdvanceNode

LEMMA StartKeeps == ASSUME Inv, NEW p \in Pass, Start(p) PROVE Inv'
BY AbandonKeeps, SweepLoadKeeps, SweepCancelKeeps, SweepSettleKeeps, FindRunKeeps,
   CronGuardKeeps, CreateRunKeeps, AdoptRunKeeps DEF Start

LEMMA AdvanceKeeps == ASSUME Inv, NEW p \in Pass, Advance(p) PROVE Inv'
BY LoadInflightKeeps, PollKeeps, AdvanceNodeKeeps, ReloadKeeps, FinishRunKeeps, ArmKeeps
DEF Advance

LEMMA TakeKeeps == ASSUME Inv, NEW p \in Pass, Take(p) PROVE Inv'
BY TakeTickKeeps, TakeAnchorKeeps DEF Take

LEMMA FailsKeeps == ASSUME Inv, NEW p \in Pass, Fails(p) PROVE Inv'
BY BootCatchUpKeeps, DiesKeeps, ExpireKeeps, SweepFailsKeeps, LoadFailsKeeps,
   FinishFailsKeeps, ArmFailsKeeps, PollFailsKeeps, SendThrowsKeeps, SendRefusedKeeps
DEF Fails

LEMMA InitInv == Init => Inv
<1> SUFFICES ASSUME Init PROVE Inv
  OBVIOUS
<1>1. RestTyped
  BY BoundAssumption DEF Init, RestTyped, RunStates
<1>2. RowsFit
  <2>1. node \in [Run -> [Job -> NodeRow]]
    BY NewNodeTyped DEF Init
  <2>2. /\ \A r \in Run, j \in Job : node[r][j].id = NoPass
        /\ job \in [Run -> [Job -> [Pass -> JobStates]]]
        /\ \A r \in Run, j \in Job, p \in Pass : job[r][j][p] = "none"
    BY NewNodeTyped DEF Init, JobStates
  <2> QED
    BY <2>1, <2>2 DEF RowsFit
<1>3. pass \in [Pass -> PassState] /\ PassesFit
  BY IdleTyped, IdleFits DEF Init, PassesFit
<1>4. ClosedFits
  BY DEF Init, ClosedFits
<1> QED
  BY <1>1, <1>2, <1>3, <1>4 DEF Inv

LEMMA NextKeeps == Inv /\ [Next]_vars => Inv'
<1> SUFFICES ASSUME Inv, [Next]_vars PROVE Inv'
  OBVIOUS
<1>1. CASE NightFalls
  BY <1>1, NightFallsKeeps
<1>2. CASE ManualStart
  BY <1>2, ManualStartKeeps
<1>3. ASSUME NEW p \in Pass, Take(p) \/ Start(p) \/ Advance(p) \/ Fails(p)
      PROVE  Inv'
  BY <1>3, TakeKeeps, StartKeeps, AdvanceKeeps, FailsKeeps
<1>4. ASSUME NEW r \in Run, NEW j \in Job, TimeoutElapses(r, j)
      PROVE  Inv'
  BY <1>4, TimeoutElapsesKeeps
<1>5. ASSUME NEW r \in Run, NEW j \in Job, NEW p \in Pass, JobStarts(r, j, p) \/ JobEnds(r, j, p)
      PROVE  Inv'
  BY <1>5, JobStartsKeeps, JobEndsKeeps
<1>6. CASE UNCHANGED vars
  <2>1. UNCHANGED <<dag, night, runDate, runStatus, starts, ticks, cut, node, job, pass, faults>>
    BY <1>6 DEF vars
  <2>2. RestTyped' /\ RowsFit' /\ NodesKept(node, node')
    BY <2>1, RestSame, RowsSame
  <2> QED
    BY <2>1, <2>2, PassesStay
<1> QED
  BY <1>1, <1>2, <1>3, <1>4, <1>5, <1>6 DEF Next
---------------------------------------------------------------------------
(* What the steps do to the verdicts *)

StatusKept ==
  \A r \in Run, j \in Job :
    node[r][j].status \in Terminal => node'[r][j].status = node[r][j].status

LEMMA NodeSetKeepsStatus ==
  ASSUME node \in [Run -> [Job -> NodeRow]], NEW r, NEW j, NEW s, node' = NodeSet(r, j, s)
  PROVE  StatusKept
<1>1. CASE node[r][j].status \in Terminal
  BY <1>1 DEF NodeSet, StatusKept
<1>2. CASE node[r][j].status \notin Terminal
  <2> DEFINE x == [node[r][j] EXCEPT !.status = s, !.late = @ /\ s \notin Terminal]
  <2>1. node' = [node EXCEPT ![r][j] = x]
    BY <1>2 DEF NodeSet
  <2> HIDE DEF x
  <2> QED
    BY <1>2, <2>1 DEF StatusKept
<1> QED
  BY <1>1, <1>2

LEMMA StepKeepsStatus == Inv /\ [Next]_vars => StatusKept
<1> SUFFICES ASSUME Inv, [Next]_vars PROVE StatusKept
  OBVIOUS
<1> USE DEF StatusKept
<1>1. node \in [Run -> [Job -> NodeRow]]
  BY DEF Inv, RowsFit
<1>2. CASE node' = node
  BY <1>2
<1>3. ASSUME NEW p \in Pass, NEW j \in Job,
             \/ SweepSettle(p, j) \/ PollWrites(p, j) \/ SkipBlocked(p, j) \/ SendRefused(p, j)
      PROVE  StatusKept
  BY <1>1, <1>3, NodeSetKeepsStatus DEF SweepSettle, PollWrites, SkipBlocked, SendRefused
<1>4. ASSUME NEW r \in Run, NEW j \in Job, NEW x, node' = NodeEdited(r, j, x),
             node[r][j].status \in Terminal => x.status = node[r][j].status
      PROVE  StatusKept
  BY <1>1, <1>4 DEF NodeEdited
<1>5. ASSUME NEW p \in Pass, NEW j \in Job, NotNeeded(p, j) PROVE StatusKept
  <2> DEFINE x == [node[pass[p].run][j] EXCEPT !.status = "not_needed"]
  <2>1. /\ pass[p].pc = "advance"
        /\ \/ node' = NodeEdited(pass[p].run, j, x) /\ node[pass[p].run][j].status = "pending"
           \/ node' = node
    BY <1>1, <1>5 DEF NotNeeded, Considers, At, Pending, NodeEdited
  <2>2. pass[p].run \in Run
    BY <2>1, AdvanceHolds
  <2>3. "pending" \notin Terminal
    BY DEF Terminal, Succeeded
  <2> HIDE DEF x
  <2> QED
    BY <1>2, <1>4, <2>1, <2>2, <2>3
<1>6. ASSUME NEW p \in Pass, NEW j \in Job, Claim(p, j) PROVE StatusKept
  <2> DEFINE x == [status |-> "enqueued", id |-> p, late |-> FALSE]
  <2>1. /\ pass[p].pc = "advance"
        /\ \/ node' = NodeEdited(pass[p].run, j, x) /\ node[pass[p].run][j].status = "pending"
           \/ node' = node
    BY <1>6 DEF Claim, Considers, At, Pending, NodeEdited
  <2>2. pass[p].run \in Run
    BY <2>1, AdvanceHolds
  <2>3. "pending" \notin Terminal
    BY DEF Terminal, Succeeded
  <2> HIDE DEF x
  <2> QED
    BY <1>2, <1>4, <2>1, <2>2, <2>3
<1>7. ASSUME NEW r \in Run, NEW j \in Job, TimeoutElapses(r, j) PROVE StatusKept
  <2> DEFINE x == [node[r][j] EXCEPT !.late = TRUE]
  <2>1. node' = NodeEdited(r, j, x)
    BY <1>1, <1>7 DEF TimeoutElapses, NodeEdited
  <2>2. x.status = node[r][j].status
    BY <1>1 DEF NodeRow
  <2> HIDE DEF x
  <2> QED
    BY <1>4, <2>1, <2>2
<1>8. CASE NightFalls \/ ManualStart \/ UNCHANGED vars
  BY <1>8, <1>2 DEF NightFalls, ManualStart, vars
<1>9. ASSUME NEW p \in Pass, Take(p) \/ Start(p) PROVE StatusKept
  <2>1. CASE \E j \in Job : SweepSettle(p, j)
    BY <1>3, <2>1
  <2>2. CASE ~\E j \in Job : SweepSettle(p, j)
    BY <1>2, <1>9, <2>2
    DEF Take, TakeTick, TakeAnchor, Start, Abandon, SweepLoad, SweepCancel, FindRun,
        CronGuard, CreateRun, AdoptRun
  <2> QED
    BY <2>1, <2>2
<1>10. ASSUME NEW p \in Pass, Advance(p) PROVE StatusKept
  <2>1. ASSUME NEW j \in Job, Poll(p, j) PROVE StatusKept
    BY <1>2, <1>3, <2>1 DEF Poll, Observe, PollResends, PollCancels
  <2>2. ASSUME NEW j \in Job, AdvanceNode(p, j) PROVE StatusKept
    BY <1>2, <1>3, <1>5, <1>6, <2>2 DEF AdvanceNode, Wait, Send
  <2> QED
    BY <1>2, <1>10, <2>1, <2>2 DEF Advance, LoadInflight, Reload, FinishRun, Arm
<1>11. ASSUME NEW p \in Pass, Fails(p) PROVE StatusKept
  BY <1>2, <1>3, <1>11
  DEF Fails, BootCatchUp, Dies, Expire, SweepFails, LoadFails, FinishFails, ArmFails,
      PollFails, SendThrows
<1>12. ASSUME NEW r \in Run, NEW j \in Job, NEW p \in Pass, JobStarts(r, j, p) \/ JobEnds(r, j, p)
       PROVE  StatusKept
  BY <1>2, <1>12 DEF JobStarts, JobEnds
<1> QED
  BY <1>7, <1>8, <1>9, <1>10, <1>11, <1>12 DEF Next

---------------------------------------------------------------------------
(* The theorems *)

\* The invariant of every pass: rows, reserved ids, copies, closed runs.
THEOREM NightCorrect == Spec => []Inv
BY InitInv, NextKeeps, PTL DEF Spec

\* Every row, job, queue and pass has its type.
THEOREM Typed == Spec => []TypeOK
<1>1. Inv => TypeOK
  BY DEF Inv, RestTyped, RowsFit, TypeOK
<1> QED
  BY <1>1, NightCorrect, PTL

\* However many passes overlap, a node is sent under the one id its row holds: claims,
\* resends of a vanished job and sweeps included.
THEOREM SentOnce == Spec => []OneJobPerNode
<1>1. Inv => OneJobPerNode
  BY NoPassAssumption DEF Inv, RowsFit, OneJobPerNode
<1> QED
  BY <1>1, NightCorrect, PTL

\* A job exists only over settled upstreams, for every graph: the stale copy it was sent from
\* cannot have shown a verdict the row does not keep.
THEOREM UpstreamsComeFirst == Spec => []UpstreamsFirst
<1>1. ASSUME Inv PROVE UpstreamsFirst
  <2>1. ASSUME NEW r \in Run, NEW j \in Job, NEW p \in Pass, job[r][j][p] # "none"
        PROVE  UpstreamsDone(node[r], j)
    BY <1>1, <2>1, NoPassAssumption DEF Inv, RowsFit
  <2> QED
    BY <2>1 DEF UpstreamsDone, UpstreamsFirst
<1> QED
  BY <1>1, NightCorrect, PTL

\* A completed run is settled, and so is an abandoned one whose sweep is over and lost
\* nothing to a fault, with any number of passes still at work on it.
THEOREM ClosedMeansSettled == Spec => []ClosedIsSettled
<1>1. ASSUME Inv PROVE ClosedIsSettled
  <2>1. ASSUME NEW r \in Run, NEW j \in Job, runStatus[r] = "abandoned", r \notin cut,
               ~BeingSwept(r)
        PROVE  node[r][j].status \in Terminal
    <3>1. node[r][j].status \in Terminal \/ \E p \in Pass : Sweeps(pass[p], r, j)
      BY <1>1, <2>1 DEF Inv, ClosedFits
    <3>2. ~\E p \in Pass : Sweeps(pass[p], r, j)
      BY <2>1 DEF BeingSwept, Sweeps, At
    <3> QED
      BY <3>1, <3>2
  <2>2. \A r \in Run : runStatus[r] = "completed" => \A j \in Job : node[r][j].status \in Terminal
    BY <1>1 DEF Inv, ClosedFits, Settled
  <2> QED
    BY <2>1, <2>2 DEF ClosedIsSettled
<1> QED
  BY <1>1, NightCorrect, PTL

\* No write of any pass changes a verdict.
THEOREM VerdictsAreFinal == Spec => SettledNodesFinal
<1>1. Inv /\ [Next]_vars =>
        [\A r \in Run, j \in Job :
           node[r][j].status \in Terminal => node'[r][j].status = node[r][j].status]_vars
  BY StepKeepsStatus DEF StatusKept
<1> QED
  BY <1>1, NightCorrect, PTL DEF Spec, SettledNodesFinal
=============================================================================
