------------------------- MODULE NightlyChainProofs -------------------------
(***************************************************************************)
(* The chain of a nightly run: while at most one fault has happened, every *)
(* running run has a tick in the queue, a pass over it or a start message  *)
(* that will come to it.  Proved for every graph, number of runs, nights   *)
(* and worker slots.                                                       *)
(***************************************************************************)
EXTENDS NightlyProofs

---------------------------------------------------------------------------
(* The invariant *)

WorkPcs == {"load", "poll", "advance", "send", "arm"}
SweepPcs == {"leftovers", "sweep_load", "sweep"}

\* A pass in state d works on run r, of the given date, or will come to it.
Serves(d, r, date) ==
  \/ d.run = r /\ d.pc \in WorkPcs
  \/ /\ d.held /\ d.msg \in Anchors
     /\ r \in d.left \/ (date = d.today /\ d.pc \in SweepPcs)

Queued(r) == ticks[r] > 0 \/ \E m \in Anchors : starts[m] > 0
Served(r) == Queued(r) \/ \E p \in Pass : Serves(pass[p], r, runDate[r])

\* A start forgets its leftovers only when it has been through them; and before the first
\* fault every pass holds the message that brought it.
ErrandFits(d, n) ==
  /\ d.left # {} => d.pc \in SweepPcs
  /\ d.pc # "idle" /\ n = 0 => d.held /\ d.msg \in {"tick"} \cup Anchors

OneRunPerDate ==
  \A r, q \in Run :
    runStatus[r] = "running" /\ runStatus[q] = "running" /\ runDate[r] = runDate[q] => r = q

ChainFits ==
  /\ OneRunPerDate
  /\ \A p \in Pass : ErrandFits(pass[p], faults)
  /\ faults <= 1 => \A r \in Run : runStatus[r] = "running" => Served(r)

LEMMA ServesIsChain ==
  (\A r \in Run : runStatus[r] = "running" => Served(r)) => ChainNeverCut
<1>1. \A r \in Run, p \in Pass :
        Serves(pass[p], r, runDate[r]) => Working(p, r) \/ WillReach(p, r)
  BY DEF Serves, WorkPcs, SweepPcs, Working, WillReach
<1> QED
  BY <1>1 DEF ChainNeverCut, Served, Queued

---------------------------------------------------------------------------
(* What a step owes the chain *)

\* No run opens and none changes its date.
NoneOpens ==
  \A r \in Run : runStatus'[r] = "running" => runStatus[r] = "running" /\ runDate'[r] = runDate[r]

LEMMA SameRuns == UNCHANGED <<runStatus, runDate>> => NoneOpens
BY DEF NoneOpens

LEMMA OneRunKept == ASSUME OneRunPerDate, NoneOpens PROVE OneRunPerDate'
BY DEF OneRunPerDate, NoneOpens

LEMMA FaultsGrow ==
  ASSUME Inv, faults' = faults \/ Fault
  PROVE  /\ faults \in Nat /\ faults' \in Nat /\ faults <= faults'
         /\ faults' = 0 => faults = 0
         /\ faults' <= 1 => faults <= 1
         /\ Fault /\ faults' <= 1 => faults = 0
         /\ Fault => faults' # 0
BY BoundAssumption DEF Inv, RestTyped, Fault

\* One pass moves from its state to d: it hands on every run it served.
LEMMA ChainMoves ==
  ASSUME Inv, ChainFits, NEW p \in Pass, NEW d, pass' = [pass EXCEPT ![p] = d],
         faults' = faults \/ Fault, ErrandFits(d, faults'), OneRunPerDate',
         \A r \in Run : runStatus'[r] = "running" =>
           \/ runStatus[r] = "running" /\ runDate'[r] = runDate[r]
           \/ Serves(d, r, runDate'[r]),
         \A r \in Run :
           /\ faults' <= 1 /\ runStatus'[r] = "running"
           /\ Queued(r) \/ Serves(pass[p], r, runDate[r])
           => Queued(r)' \/ Serves(d, r, runDate'[r])
  PROVE  ChainFits'
<1>1. pass \in [Pass -> PassState] /\ \A q \in Pass : ErrandFits(pass[q], faults)
  BY DEF Inv, ChainFits
<1>2. pass'[p] = d /\ \A q \in Pass : q # p => pass'[q] = pass[q]
  BY <1>1
<1>3. \A q \in Pass : ErrandFits(pass'[q], faults')
  <2>1. \A q \in Pass : ErrandFits(pass[q], faults')
    BY <1>1, FaultsGrow DEF ErrandFits
  <2> QED
    BY <1>2, <2>1
<1>4. ASSUME NEW r \in Run, faults' <= 1, runStatus'[r] = "running" PROVE Served(r)'
  <2>1. CASE Serves(d, r, runDate'[r])
    BY <1>2, <2>1 DEF Served
  <2>2. CASE runStatus[r] = "running" /\ runDate'[r] = runDate[r]
    <3>1. Queued(r) \/ \E q \in Pass : Serves(pass[q], r, runDate[r])
      BY <1>4, <2>2, FaultsGrow DEF ChainFits, Served
    <3>2. CASE Queued(r) \/ Serves(pass[p], r, runDate[r])
      <4>1. Queued(r)' \/ Serves(d, r, runDate'[r])
        BY <1>4, <3>2
      <4> QED
        BY <1>2, <4>1 DEF Served
    <3>3. ASSUME NEW q \in Pass, q # p, Serves(pass[q], r, runDate[r]) PROVE Served(r)'
      <4>1. pass'[q] = pass[q]
        BY <1>2, <3>3
      <4> QED
        BY <2>2, <3>3, <4>1 DEF Served
    <3> QED
      BY <3>1, <3>2, <3>3
  <2> QED
    BY <1>4, <2>1, <2>2
<1>5. (\A q \in Pass : ErrandFits(pass[q], faults))'
  BY <1>3
<1>6. (faults <= 1 => \A r \in Run : runStatus[r] = "running" => Served(r))'
  BY <1>4
<1> QED
  BY <1>5, <1>6 DEF ChainFits

\* No pass moves and no message leaves the queues.
LEMMA ChainStays ==
  ASSUME Inv, ChainFits, UNCHANGED <<runStatus, runDate, pass>>, faults' = faults \/ Fault,
         \A r \in Run : Queued(r) => Queued(r)'
  PROVE  ChainFits'
<1>1. OneRunPerDate'
  BY SameRuns, OneRunKept DEF ChainFits
<1>2. (\A q \in Pass : ErrandFits(pass[q], faults))'
  BY FaultsGrow DEF ChainFits, ErrandFits
<1>3. ASSUME NEW r \in Run, faults' <= 1, runStatus'[r] = "running" PROVE Served(r)'
  <2>1. Queued(r) \/ \E q \in Pass : Serves(pass[q], r, runDate[r])
    BY <1>3, FaultsGrow DEF ChainFits, Served
  <2> QED
    BY <2>1 DEF Served
<1> QED
  BY <1>1, <1>2, <1>3 DEF ChainFits

\* The pass goes on with what it was about: the work on its run, or its sweep.
SameErrand(c, d) ==
  /\ d.msg = c.msg /\ d.held = c.held /\ d.today = c.today /\ d.left = c.left /\ d.run = c.run
  /\ \/ c.pc \in WorkPcs /\ d.pc \in WorkPcs
     \/ c.pc \in SweepPcs /\ d.pc \in SweepPcs

LEMMA PcsApart == WorkPcs \cap SweepPcs = {} /\ "idle" \notin WorkPcs \cup SweepPcs
BY DEF WorkPcs, SweepPcs

LEMMA ErrandGoesOn ==
  ASSUME Inv, ChainFits, NEW p \in Pass, NEW d, pass' = [pass EXCEPT ![p] = d],
         SameErrand(pass[p], d), UNCHANGED <<runStatus, runDate, starts, ticks>>,
         faults' = faults \/ Fault
  PROVE  ChainFits'
<1>1. ErrandFits(pass[p], faults)
  BY DEF ChainFits
<1>2. ErrandFits(d, faults')
  BY <1>1, PcsApart, FaultsGrow DEF ErrandFits, SameErrand
<1>3. OneRunPerDate' /\ NoneOpens
  BY SameRuns, OneRunKept DEF ChainFits
<1>4. \A r \in Run : Serves(pass[p], r, runDate[r]) => Serves(d, r, runDate'[r])
  BY <1>1, PcsApart DEF ErrandFits, SameErrand, Serves
<1>5. \A r \in Run : Queued(r) => Queued(r)'
  BY DEF Queued
<1> QED
  BY <1>2, <1>3, <1>4, <1>5, ChainMoves DEF NoneOpens

\* An end of the pass, or a move that serves nobody: it served nobody before.
LEMMA IdleErrand == ASSUME NEW n PROVE ErrandFits(IdlePass, n)
BY DEF IdlePass, ErrandFits

---------------------------------------------------------------------------
(* The steps that go on with the errand *)

\* The step moves p alone, keeps its errand and touches no run and no queue.
GoesOnWith(p) ==
  /\ pass' = [pass EXCEPT ![p] = pass'[p]] /\ SameErrand(pass[p], pass'[p])
  /\ UNCHANGED <<runStatus, runDate, starts, ticks>> /\ (faults' = faults \/ Fault)

LEMMA GoingOn == ASSUME Inv, ChainFits, NEW p \in Pass, GoesOnWith(p) PROVE ChainFits'
BY ErrandGoesOn DEF GoesOnWith

LEMMA NodeDoneGoesOn ==
  ASSUME Inv, NEW p \in Pass, NEW j \in Job, NodeDone(p, j), pass[p].pc \in WorkPcs \cup SweepPcs
  PROVE  pass' = [pass EXCEPT ![p] = pass'[p]] /\ SameErrand(pass[p], pass'[p])
BY AtPass DEF NodeDone, SameErrand, PassState

LEMMA PollGoesOn ==
  ASSUME Inv, NEW p \in Pass, NEW j \in Job, Poll(p, j) \/ PollFails(p, j)
  PROVE  GoesOnWith(p)
<1>1. pass[p].pc = "poll" /\ "poll" \in WorkPcs
  BY DEF Poll, PollFails, Observe, PollWrites, PollResends, PollCancels, At, WorkPcs
<1>2. /\ UNCHANGED <<runStatus, runDate, starts, ticks>> /\ (faults' = faults \/ Fault)
      /\ \/ NodeDone(p, j)
         \/ \E s : pass' = [pass EXCEPT ![p].seen[j] = s]
  BY DEF Poll, PollFails, Observe, PollWrites, PollResends, PollCancels
<1>3. ASSUME NEW s, pass' = [pass EXCEPT ![p].seen[j] = s]
      PROVE  pass' = [pass EXCEPT ![p] = pass'[p]] /\ SameErrand(pass[p], pass'[p])
  BY <1>1, <1>3, AtPass DEF SameErrand, PassState
<1> QED
  BY <1>1, <1>2, <1>3, NodeDoneGoesOn DEF GoesOnWith

LEMMA SweepGoesOn ==
  ASSUME Inv, NEW p \in Pass,
         SweepLoad(p) \/ SweepFails(p) \/ \E j \in Job : SweepCancel(p, j) \/ SweepSettle(p, j)
  PROVE  GoesOnWith(p)
<1>1. pass[p].pc \in {"sweep_load", "sweep"} /\ "sweep" \in SweepPcs /\ "sweep_load" \in SweepPcs
  BY DEF SweepLoad, SweepFails, SweepCancel, SweepSettle, At, SweepPcs
<1>2. /\ UNCHANGED <<runStatus, runDate, starts, ticks>> /\ (faults' = faults \/ Fault)
      /\ \/ \E j \in Job : NodeDone(p, j) \/ \E s : pass' = [pass EXCEPT ![p].seen[j] = s]
         \/ pass' = [pass EXCEPT ![p].pc = "sweep", ![p].todo = {}]
         \/ \E s, x : pass' = [pass EXCEPT ![p].pc = "sweep", ![p].snap = s, ![p].todo = x]
  <2>1. CASE SweepLoad(p) \/ SweepFails(p)
    <3>1. pass[p].todo \subseteq Job
      BY AtPass DEF PassState
    <3> QED
      BY <2>1, <3>1 DEF SweepLoad, SweepFails
  <2>2. ASSUME NEW j \in Job, SweepCancel(p, j)
        PROVE  /\ UNCHANGED <<runStatus, runDate, starts, ticks>> /\ (faults' = faults \/ Fault)
               /\ \E s : pass' = [pass EXCEPT ![p].seen[j] = s]
    BY <2>2, Zenon DEF SweepCancel
  <2>3. ASSUME NEW j \in Job, SweepSettle(p, j)
        PROVE  /\ UNCHANGED <<runStatus, runDate, starts, ticks>> /\ faults' = faults
               /\ NodeDone(p, j)
    BY <2>3 DEF SweepSettle
  <2> QED
    BY <2>1, <2>2, <2>3
<1>3. ASSUME NEW j \in Job, NEW s, pass' = [pass EXCEPT ![p].seen[j] = s]
      PROVE  pass' = [pass EXCEPT ![p] = pass'[p]] /\ SameErrand(pass[p], pass'[p])
  BY <1>1, <1>3, AtPass DEF SameErrand, PassState
<1>4. ASSUME NEW s, NEW x, \/ pass' = [pass EXCEPT ![p].pc = "sweep", ![p].todo = x]
                           \/ pass' = [pass EXCEPT ![p].pc = "sweep", ![p].snap = s, ![p].todo = x]
      PROVE  pass' = [pass EXCEPT ![p] = pass'[p]] /\ SameErrand(pass[p], pass'[p])
  BY <1>1, <1>4, AtPass DEF SameErrand, PassState
<1> QED
  BY <1>1, <1>2, <1>3, <1>4, NodeDoneGoesOn DEF GoesOnWith

LEMMA LoadGoesOn ==
  ASSUME Inv, NEW p \in Pass, LoadInflight(p) \/ LoadFails(p) \/ Reload(p) \/ FinishFails(p)
  PROVE  GoesOnWith(p)
<1>1. /\ pass[p].pc \in {"load", "poll", "advance"}
      /\ UNCHANGED <<runStatus, runDate, starts, ticks>> /\ (faults' = faults \/ Fault)
  BY DEF LoadInflight, LoadFails, Reload, ReloadDue, FinishFails, At
<1>2. \E c \in {"poll", "arm", "advance"} :
        \/ pass' = [pass EXCEPT ![p].pc = c]
        \/ \E s : pass' = [pass EXCEPT ![p].pc = c, ![p].snap = s]
        \/ \E s, x : pass' = [pass EXCEPT ![p].pc = c, ![p].snap = s, ![p].todo = x]
  BY DEF LoadInflight, LoadFails, Reload, FinishFails
<1>3. ASSUME NEW c \in {"poll", "arm", "advance"}, NEW s, NEW x,
             \/ pass' = [pass EXCEPT ![p].pc = c]
             \/ pass' = [pass EXCEPT ![p].pc = c, ![p].snap = s]
             \/ pass' = [pass EXCEPT ![p].pc = c, ![p].snap = s, ![p].todo = x]
      PROVE  pass' = [pass EXCEPT ![p] = pass'[p]] /\ SameErrand(pass[p], pass'[p])
  BY <1>1, <1>3, AtPass DEF SameErrand, PassState, WorkPcs
<1> QED
  BY <1>1, <1>2, <1>3 DEF GoesOnWith

LEMMA AdvanceGoesOn ==
  ASSUME Inv, NEW p \in Pass, NEW j \in Job,
         AdvanceNode(p, j) \/ SendThrows(p, j) \/ SendRefused(p, j)
  PROVE  GoesOnWith(p)
<1>1. /\ pass[p].pc \in {"advance", "send"}
      /\ UNCHANGED <<runStatus, runDate, starts, ticks>> /\ (faults' = faults \/ Fault)
  BY DEF AdvanceNode, SkipBlocked, Wait, NotNeeded, Claim, Send, SendThrows, SendRefused,
         Considers, At
<1>2. \/ pass' = [pass EXCEPT ![p].todo = @ \ {j}]
      \/ \E s : pass' = [pass EXCEPT ![p].todo = @ \ {j}, ![p].snap = s]
      \/ \E s : pass' = [pass EXCEPT ![p].todo = @ \ {j}, ![p].snap[j].status = s]
      \/ pass' = [pass EXCEPT ![p].pc = "send", ![p].todo = @ \ {j}, ![p].claimed = {j}]
      \/ pass' = [pass EXCEPT ![p].pc = "advance", ![p].claimed = {},
                              ![p].snap[j].status = "enqueued"]
      \/ pass' = [pass EXCEPT ![p].pc = "advance", ![p].claimed = {}]
      \/ \E s : pass' = [pass EXCEPT ![p].pc = "advance", ![p].claimed = {}, ![p].snap = s]
  BY ZenonT(60)
  DEF AdvanceNode, SkipBlocked, Wait, NotNeeded, Claim, Send, SendThrows, SendRefused
<1>3. ASSUME NEW s,
             \/ pass' = [pass EXCEPT ![p].todo = @ \ {j}]
             \/ pass' = [pass EXCEPT ![p].todo = @ \ {j}, ![p].snap = s]
             \/ pass' = [pass EXCEPT ![p].todo = @ \ {j}, ![p].snap[j].status = s]
      PROVE  pass' = [pass EXCEPT ![p] = pass'[p]] /\ SameErrand(pass[p], pass'[p])
  BY <1>1, <1>3, AtPass DEF SameErrand, PassState, WorkPcs
<1>4. ASSUME NEW s,
             \/ pass' = [pass EXCEPT ![p].pc = "send", ![p].todo = @ \ {j}, ![p].claimed = {j}]
             \/ pass' = [pass EXCEPT ![p].pc = "advance", ![p].claimed = {},
                                     ![p].snap[j].status = "enqueued"]
             \/ pass' = [pass EXCEPT ![p].pc = "advance", ![p].claimed = {}]
             \/ pass' = [pass EXCEPT ![p].pc = "advance", ![p].claimed = {}, ![p].snap = s]
      PROVE  pass' = [pass EXCEPT ![p] = pass'[p]] /\ SameErrand(pass[p], pass'[p])
  BY <1>1, <1>4, AtPass DEF SameErrand, PassState, WorkPcs
<1> QED
  BY <1>1, <1>2, <1>3, <1>4 DEF GoesOnWith

---------------------------------------------------------------------------
(* The steps that touch the queues or the runs *)

\* The state of a pass whose record is one of these holds no leftover and works on no run.
LEMMA ServesNobody ==
  ASSUME Inv, ChainFits, NEW p \in Pass, pass[p].pc \notin WorkPcs \cup SweepPcs, NEW r, NEW date
  PROVE  ~Serves(pass[p], r, date)
<1>1. pass[p].left = {}
  BY DEF ChainFits, ErrandFits
<1> QED
  BY <1>1 DEF Serves

LEMMA QueueTyped ==
  ASSUME Inv
  PROVE  starts \in [Anchors -> Nat] /\ ticks \in [Run -> Nat]
BY DEF Inv, RestTyped

LEMMA NightFallsChain == ASSUME Inv, ChainFits, NightFalls PROVE ChainFits'
<1>1. /\ UNCHANGED <<runStatus, runDate, pass, ticks>> /\ (faults' = faults \/ Fault)
      /\ starts' = [starts EXCEPT !["cron"] = @ + 1] \/ starts' = starts
  BY DEF NightFalls
<1>2. \A r \in Run : Queued(r) => Queued(r)'
  BY <1>1, QueueTyped DEF Queued
<1> QED
  BY <1>1, <1>2, ChainStays

LEMMA ManualStartChain == ASSUME Inv, ChainFits, ManualStart PROVE ChainFits'
<1>1. /\ UNCHANGED <<runStatus, runDate, pass, ticks>> /\ Fault
      /\ starts' = [starts EXCEPT !["manual"] = @ + 1]
  BY DEF ManualStart
<1>2. \A r \in Run : Queued(r) => Queued(r)'
  BY <1>1, QueueTyped DEF Queued
<1> QED
  BY <1>1, <1>2, ChainStays

LEMMA MembersChain ==
  ASSUME Inv, ChainFits, NEW r \in Run, NEW j \in Job,
         TimeoutElapses(r, j) \/ \E p \in Pass : JobStarts(r, j, p) \/ JobEnds(r, j, p)
  PROVE  ChainFits'
<1>1. UNCHANGED <<runStatus, runDate, pass, starts, ticks>> /\ (faults' = faults \/ Fault)
  BY DEF TimeoutElapses, JobStarts, JobEnds
<1>2. \A q \in Run : Queued(q) => Queued(q)'
  BY <1>1 DEF Queued
<1> QED
  BY <1>1, <1>2, ChainStays

\* The tick leaves the queue and its run is worked on.
LEMMA TakeTickChain ==
  ASSUME Inv, ChainFits, NEW p \in Pass, NEW r \in Run, TakeTick(p, r) PROVE ChainFits'
<1> DEFINE d == [IdlePass EXCEPT !.pc = "load", !.msg = "tick", !.held = TRUE, !.run = r]
<1>1. /\ pass[p].pc = "idle" /\ ticks' = [ticks EXCEPT ![r] = @ - 1]
      /\ UNCHANGED <<runStatus, runDate, starts, faults>>
      /\ \/ runStatus[r] = "running" /\ pass' = [pass EXCEPT ![p] = d]
         \/ runStatus[r] # "running" /\ pass' = pass
  BY DEF TakeTick, At
<1>2. d.pc = "load" /\ d.msg = "tick" /\ d.held = TRUE /\ d.run = r /\ d.left = {}
  BY DEF IdlePass
<1> HIDE DEF d
<1>3. \A q \in Run : \A date : ~Serves(pass[p], q, date)
  BY <1>1, ServesNobody DEF WorkPcs, SweepPcs
<1>4. \A q \in Run : q # r /\ Queued(q) => Queued(q)'
  BY <1>1, QueueTyped DEF Queued
<1>5. OneRunPerDate' /\ NoneOpens
  BY <1>1, SameRuns, OneRunKept DEF ChainFits
<1>6. CASE runStatus[r] = "running"
  <2>1. ErrandFits(d, faults')
    BY <1>2 DEF ErrandFits
  <2>2. Serves(d, r, runDate'[r])
    BY <1>2 DEF Serves, WorkPcs
  <2>3. \A q \in Run : Queued(q) \/ Serves(pass[p], q, runDate[q])
                         => Queued(q)' \/ Serves(d, q, runDate'[q])
    BY <1>3, <1>4, <2>2
  <2>4. pass' = [pass EXCEPT ![p] = d] /\ faults' = faults
    BY <1>1, <1>6
  <2> QED
    BY <1>5, <2>1, <2>3, <2>4, ChainMoves DEF NoneOpens
<1>7. CASE runStatus[r] # "running"
  <2>1. \A q \in Pass : ErrandFits(pass'[q], faults')
    BY <1>1, <1>7 DEF ChainFits
  <2>2. ASSUME NEW q \in Run, faults' <= 1, runStatus'[q] = "running" PROVE Served(q)'
    <3>1. Served(q) /\ q # r
      BY <1>1, <1>7, <2>2 DEF ChainFits
    <3> QED
      BY <1>1, <1>4, <1>7, <3>1 DEF Served
  <2> QED
    BY <1>5, <2>1, <2>2 DEF ChainFits
<1> QED
  BY <1>6, <1>7

\* A start takes in every running run: those of other dates as leftovers, tonight's by date.
LEMMA StartTakesAll ==
  ASSUME Inv, ChainFits, NEW p \in Pass, NEW m \in {"boot"} \cup Anchors, NEW held \in BOOLEAN,
         pass[p].pc = "idle", StartPass(p, m, held), UNCHANGED <<runStatus, runDate, ticks>>,
         faults' = faults \/ Fault,
         (held /\ m \in Anchors) \/ (Fault /\ starts' = starts)
  PROVE  ChainFits'
<1> DEFINE d == [IdlePass EXCEPT !.pc = "leftovers", !.msg = m, !.held = held, !.today = night,
                                 !.left = {r \in Run : /\ runStatus[r] = "running"
                                                       /\ runDate[r] # night}]
<1>1. pass' = [pass EXCEPT ![p] = d]
  BY DEF StartPass
<1>2. /\ d.pc = "leftovers" /\ d.msg = m /\ d.held = held /\ d.today = night
      /\ d.left = {r \in Run : runStatus[r] = "running" /\ runDate[r] # night}
  BY DEF IdlePass
<1> HIDE DEF d
<1>3. \A q \in Run : \A date : ~Serves(pass[p], q, date)
  BY ServesNobody DEF WorkPcs, SweepPcs
<1>4. OneRunPerDate' /\ NoneOpens
  BY SameRuns, OneRunKept DEF ChainFits
<1>5. ErrandFits(d, faults')
  BY <1>2, FaultsGrow DEF ErrandFits, SweepPcs
<1>6. ASSUME NEW r \in Run, runStatus'[r] = "running", Queued(r)
      PROVE  Queued(r)' \/ Serves(d, r, runDate'[r])
  <2>1. CASE held /\ m \in Anchors
    BY <1>2, <1>6, <2>1 DEF Serves, SweepPcs
  <2>2. CASE starts' = starts
    BY <1>6, <2>2 DEF Queued
  <2> QED
    BY <2>1, <2>2
<1> QED
  BY <1>1, <1>3, <1>4, <1>5, <1>6, ChainMoves DEF NoneOpens

LEMMA TakeAnchorChain ==
  ASSUME Inv, ChainFits, NEW p \in Pass, NEW m \in Anchors, TakeAnchor(p, m) PROVE ChainFits'
BY StartTakesAll DEF TakeAnchor, At

LEMMA BootCatchUpChain == ASSUME Inv, ChainFits, NEW p \in Pass, BootCatchUp(p) PROVE ChainFits'
BY StartTakesAll DEF BootCatchUp, At

\* Before the first fault a lost pass gives its message back: the tick of the run it works
\* on, or the start that would have come to it.
LEMMA LostChain ==
  ASSUME Inv, ChainFits, NEW p \in Pass, pass[p].pc # "idle", Fault, Lost(p),
         UNCHANGED <<runStatus, runDate>>
  PROVE  ChainFits'
<1>1. pass' = [pass EXCEPT ![p] = IdlePass] /\ Redelivered(p, pass[p].held)
  BY DEF Lost, Done
<1>2. OneRunPerDate' /\ NoneOpens
  BY SameRuns, OneRunKept DEF ChainFits
<1>3. ASSUME NEW r \in Run, faults' <= 1, Queued(r) \/ Serves(pass[p], r, runDate[r])
      PROVE  Queued(r)'
  <2>1. pass[p].held /\ pass[p].msg \in {"tick"} \cup Anchors
    BY <1>3, FaultsGrow DEF ChainFits, ErrandFits
  <2>2. CASE pass[p].msg = "tick"
    <3>1. pass[p].run \in Run /\ pass[p].pc \in WorkPcs /\ "tick" \notin Anchors
      BY <2>2, AtPass DEF PassFits, WorkPcs, Anchors
    <3>2. ticks' = [ticks EXCEPT ![pass[p].run] = @ + 1] /\ starts' = starts
      BY <1>1, <2>1, <2>2, <3>1 DEF Redelivered
    <3>3. Serves(pass[p], r, runDate[r]) => pass[p].run = r
      BY <2>2, <3>1 DEF Serves
    <3> QED
      BY <1>3, <3>1, <3>2, <3>3, QueueTyped DEF Queued
  <2>3. CASE pass[p].msg \in Anchors
    <3>1. starts' = [starts EXCEPT ![pass[p].msg] = @ + 1]
      BY <1>1, <2>1, <2>3 DEF Redelivered
    <3>2. starts'[pass[p].msg] > 0
      BY <2>3, <3>1, QueueTyped
    <3> QED
      BY <2>3, <3>2 DEF Queued
  <2> QED
    BY <2>1, <2>2, <2>3
<1> QED
  BY <1>1, <1>2, <1>3, IdleErrand, ChainMoves DEF NoneOpens

LEMMA DiesChain == ASSUME Inv, ChainFits, NEW p \in Pass, Dies(p) PROVE ChainFits'
BY LostChain DEF Dies, At

LEMMA ArmFailsChain == ASSUME Inv, ChainFits, NEW p \in Pass, ArmFails(p) PROVE ChainFits'
BY LostChain DEF ArmFails, NotSettled, At

\* The expired message is back in the queue and the pass that held it lives on.
LEMMA ExpireChain == ASSUME Inv, ChainFits, NEW p \in Pass, Expire(p) PROVE ChainFits'
<1> DEFINE d == [pass[p] EXCEPT !.held = FALSE]
<1>1. /\ pass' = [pass EXCEPT ![p] = d] /\ Fault /\ UNCHANGED <<runStatus, runDate>>
      /\ Redelivered(p, TRUE)
  BY AtPass DEF Expire
<1>2. /\ d.pc = pass[p].pc /\ d.left = pass[p].left /\ d.run = pass[p].run
  BY AtPass DEF PassState
<1> HIDE DEF d
<1>3. OneRunPerDate' /\ NoneOpens
  BY <1>1, SameRuns, OneRunKept DEF ChainFits
<1>4. ErrandFits(d, faults')
  BY <1>1, <1>2, FaultsGrow DEF ChainFits, ErrandFits
<1>5. ASSUME NEW r \in Run, Queued(r) \/ Serves(pass[p], r, runDate[r])
      PROVE  Queued(r)' \/ Serves(d, r, runDate'[r])
  <2>1. CASE pass[p].msg \in Anchors
    <3>1. starts' = [starts EXCEPT ![pass[p].msg] = @ + 1]
      BY <1>1, <2>1 DEF Redelivered
    <3>2. starts'[pass[p].msg] > 0
      BY <2>1, <3>1, QueueTyped
    <3> QED
      BY <2>1, <3>2 DEF Queued
  <2>2. CASE pass[p].msg \notin Anchors
    <3>1. Serves(pass[p], r, runDate[r]) => Serves(d, r, runDate'[r])
      BY <1>2, <2>2 DEF Serves
    <3>2. starts' = starts /\ (ticks' = ticks \/ ticks' = [ticks EXCEPT ![pass[p].run] = @ + 1])
      BY <1>1, <2>2 DEF Redelivered
    <3>3. Queued(r) => Queued(r)'
      BY <3>2, QueueTyped DEF Queued
    <3> QED
      BY <1>5, <3>1, <3>3
  <2> QED
    BY <2>1, <2>2
<1> QED
  BY <1>1, <1>3, <1>4, <1>5, ChainMoves DEF NoneOpens

LEMMA BetweenIsSweep == ASSUME NEW p \in Pass, BetweenRuns(p) PROVE pass[p].pc \in SweepPcs
BY DEF BetweenRuns, At, SweepPcs

\* The leftover closes; the start goes on to the others and to tonight's run.
LEMMA AbandonChain ==
  ASSUME Inv, ChainFits, NEW p \in Pass, NEW r \in Run, Abandon(p, r) PROVE ChainFits'
<1> DEFINE d == [pass[p] EXCEPT !.pc = "sweep_load", !.left = @ \ {r}, !.run = r]
<1>1. /\ pass' = [pass EXCEPT ![p] = d] /\ UNCHANGED <<runDate, starts, ticks, faults>>
      /\ runStatus' = IF runStatus[r] = "running" THEN [runStatus EXCEPT ![r] = "abandoned"]
                                                  ELSE runStatus
      /\ BetweenRuns(p)
  BY AtPass DEF Abandon
<1>2. /\ d.pc = "sweep_load" /\ d.left = pass[p].left \ {r} /\ d.run = r
      /\ d.held = pass[p].held /\ d.msg = pass[p].msg /\ d.today = pass[p].today
  BY AtPass DEF PassState
<1> HIDE DEF d
<1>3. \A q \in Run : runStatus'[q] = "running" => runStatus[q] = "running" /\ q # r
  BY <1>1 DEF Inv, RestTyped
<1>4. OneRunPerDate' /\ NoneOpens
  BY <1>1, <1>3, OneRunKept DEF ChainFits, NoneOpens
<1>5. ErrandFits(d, faults')
  BY <1>1, <1>2, BetweenIsSweep DEF ChainFits, ErrandFits, SweepPcs
<1>6. ASSUME NEW q \in Run, runStatus'[q] = "running", Queued(q) \/ Serves(pass[p], q, runDate[q])
      PROVE  Queued(q)' \/ Serves(d, q, runDate'[q])
  <2>1. q # r
    BY <1>3, <1>6
  <2>2. Serves(pass[p], q, runDate[q]) => Serves(d, q, runDate'[q])
    BY <1>1, <1>2, <2>1, BetweenIsSweep, PcsApart DEF Serves, SweepPcs
  <2>3. Queued(q) => Queued(q)'
    BY <1>1 DEF Queued
  <2> QED
    BY <1>6, <2>2, <2>3
<1> QED
  BY <1>1, <1>4, <1>5, <1>6, ChainMoves DEF NoneOpens

\* A pass with no leftover turns to the run it found, or to the search.
LEMMA TurnsTo ==
  ASSUME Inv, ChainFits, NEW p \in Pass, NEW d, pass' = [pass EXCEPT ![p] = d],
         UNCHANGED <<runStatus, runDate, starts, ticks, faults>>,
         d.left = {}, pass[p].pc # "idle",
         d.pc = "idle" \/ (d.held = pass[p].held /\ d.msg = pass[p].msg),
         \A r \in Run : runStatus[r] = "running" /\ Serves(pass[p], r, runDate[r])
                          => Serves(d, r, runDate[r])
  PROVE  ChainFits'
<1>1. OneRunPerDate' /\ NoneOpens
  BY SameRuns, OneRunKept DEF ChainFits
<1>2. ErrandFits(d, faults')
  BY DEF ChainFits, ErrandFits
<1>3. \A r \in Run : Queued(r) => Queued(r)'
  BY DEF Queued
<1> QED
  BY <1>1, <1>2, <1>3, ChainMoves DEF NoneOpens

\* The date has one running run, so the start that would come to it has come.
LEMMA FindRunChain == ASSUME Inv, ChainFits, NEW p \in Pass, FindRun(p) PROVE ChainFits'
<1>1. /\ pass[p].pc \in SweepPcs /\ pass[p].left = {}
      /\ UNCHANGED <<runStatus, runDate, starts, ticks, faults>>
  BY BetweenIsSweep DEF FindRun
<1>2. pass[p].pc \notin WorkPcs \cup {"idle"}
  BY <1>1, PcsApart
<1>3. CASE ActiveFor(pass[p].today) = {}
  <2> DEFINE d == [pass[p] EXCEPT !.pc = IF pass[p].msg = "manual" THEN "create" ELSE "guard",
                                  !.run = NoRun]
  <2>1. pass' = [pass EXCEPT ![p] = d]
    BY <1>3, AtPass DEF FindRun
  <2>2. d.left = {} /\ d.held = pass[p].held /\ d.msg = pass[p].msg
    BY <1>1, AtPass DEF PassState
  <2> HIDE DEF d
  <2>3. \A r \in Run : runStatus[r] = "running" => ~Serves(pass[p], r, runDate[r])
    BY <1>1, <1>2, <1>3 DEF Serves, ActiveFor
  <2> QED
    BY <1>1, <1>2, <2>1, <2>2, <2>3, TurnsTo
<1>4. ASSUME NEW q \in ActiveFor(pass[p].today),
             pass' = [pass EXCEPT ![p].pc = "load", ![p].run = q]
      PROVE  ChainFits'
  <2> DEFINE d == [pass[p] EXCEPT !.pc = "load", !.run = q]
  <2>1. pass' = [pass EXCEPT ![p] = d]
    BY <1>4, AtPass
  <2>2. d.left = {} /\ d.held = pass[p].held /\ d.msg = pass[p].msg /\ d.pc = "load" /\ d.run = q
    BY <1>1, AtPass DEF PassState
  <2> HIDE DEF d
  <2>3. ASSUME NEW r \in Run, runStatus[r] = "running", Serves(pass[p], r, runDate[r])
        PROVE  Serves(d, r, runDate[r])
    <3>1. runDate[r] = pass[p].today
      BY <1>1, <1>2, <2>3 DEF Serves
    <3>2. q = r
      BY <2>3, <3>1 DEF ActiveFor, ChainFits, OneRunPerDate
    <3> QED
      BY <2>2, <3>2 DEF Serves, WorkPcs
  <2> QED
    BY <1>1, <1>2, <2>1, <2>2, <2>3, TurnsTo
<1> QED
  BY <1>3, <1>4 DEF FindRun

LEMMA CronGuardChain == ASSUME Inv, ChainFits, NEW p \in Pass, CronGuard(p) PROVE ChainFits'
<1>1. /\ pass[p].pc = "guard" /\ UNCHANGED <<runStatus, runDate, starts, ticks, faults>>
      /\ \/ pass' = [pass EXCEPT ![p] = IdlePass]
         \/ pass' = [pass EXCEPT ![p].pc = "create"]
  BY DEF CronGuard, At, Done
<1>2. \A r, date : ~Serves(pass[p], r, date)
  BY <1>1, ServesNobody DEF WorkPcs, SweepPcs
<1>3. pass[p].left = {}
  BY <1>1 DEF ChainFits, ErrandFits, SweepPcs
<1>4. CASE pass' = [pass EXCEPT ![p] = IdlePass]
  <2>1. IdlePass.left = {} /\ IdlePass.pc = "idle"
    BY DEF IdlePass
  <2> QED
    BY <1>1, <1>2, <1>4, <2>1, TurnsTo
<1>5. CASE pass' = [pass EXCEPT ![p].pc = "create"]
  <2> DEFINE d == [pass[p] EXCEPT !.pc = "create"]
  <2>1. pass' = [pass EXCEPT ![p] = d]
    BY <1>5, AtPass
  <2>2. d.left = {} /\ d.held = pass[p].held /\ d.msg = pass[p].msg
    BY <1>3, AtPass DEF PassState
  <2> HIDE DEF d
  <2>3. pass[p].pc # "idle"
    BY <1>1
  <2>4. \A r \in Run : runStatus[r] = "running" /\ Serves(pass[p], r, runDate[r])
                         => Serves(d, r, runDate[r])
    BY <1>2
  <2> QED
    BY <1>1, <2>1, <2>2, <2>3, <2>4, TurnsTo
<1> QED
  BY <1>1, <1>4, <1>5

LEMMA AdoptRunChain == ASSUME Inv, ChainFits, NEW p \in Pass, AdoptRun(p) PROVE ChainFits'
<1>1. /\ pass[p].pc = "adopt" /\ UNCHANGED <<runStatus, runDate, starts, ticks, faults>>
      /\ \/ pass' = [pass EXCEPT ![p] = IdlePass]
         \/ \E q : pass' = [pass EXCEPT ![p].pc = "load", ![p].run = q]
  BY DEF AdoptRun, At, Done
<1>2. \A r, date : ~Serves(pass[p], r, date)
  BY <1>1, ServesNobody DEF WorkPcs, SweepPcs
<1>3. pass[p].left = {}
  BY <1>1 DEF ChainFits, ErrandFits, SweepPcs
<1>4. CASE pass' = [pass EXCEPT ![p] = IdlePass]
  <2>1. IdlePass.left = {} /\ IdlePass.pc = "idle"
    BY DEF IdlePass
  <2> QED
    BY <1>1, <1>2, <1>4, <2>1, TurnsTo
<1>5. ASSUME NEW q, pass' = [pass EXCEPT ![p].pc = "load", ![p].run = q] PROVE ChainFits'
  <2> DEFINE d == [pass[p] EXCEPT !.pc = "load", !.run = q]
  <2>1. pass' = [pass EXCEPT ![p] = d]
    BY <1>5, AtPass
  <2>2. d.left = {} /\ d.held = pass[p].held /\ d.msg = pass[p].msg
    BY <1>3, AtPass DEF PassState
  <2> HIDE DEF d
  <2>3. pass[p].pc # "idle"
    BY <1>1
  <2>4. \A r \in Run : runStatus[r] = "running" /\ Serves(pass[p], r, runDate[r])
                         => Serves(d, r, runDate[r])
    BY <1>2
  <2> QED
    BY <1>1, <2>1, <2>2, <2>3, <2>4, TurnsTo
<1> QED
  BY <1>1, <1>4, <1>5

\* The created run is worked on by its creator, and its date had no running run.
LEMMA CreateRunChain == ASSUME Inv, ChainFits, NEW p \in Pass, CreateRun(p) PROVE ChainFits'
<1>1. pass[p].pc = "create" /\ UNCHANGED <<starts, ticks, faults>>
  BY DEF CreateRun, At
<1>2. \A r, date : ~Serves(pass[p], r, date)
  BY <1>1, ServesNobody DEF WorkPcs, SweepPcs
<1>3. pass[p].left = {}
  BY <1>1 DEF ChainFits, ErrandFits, SweepPcs
<1>4. ErrandFits(pass[p], faults) /\ pass[p].pc # "idle"
  BY <1>1 DEF ChainFits
<1>5. \A r \in Run : Queued(r) => Queued(r)'
  BY <1>1 DEF Queued
<1>6. CASE /\ UNCHANGED <<runDate, runStatus>> /\ pass' = [pass EXCEPT ![p].pc = "adopt"]
  <2> DEFINE d == [pass[p] EXCEPT !.pc = "adopt"]
  <2>1. pass' = [pass EXCEPT ![p] = d]
    BY <1>6, AtPass
  <2>2. d.left = {} /\ d.held = pass[p].held /\ d.msg = pass[p].msg
    BY <1>3, AtPass DEF PassState
  <2> HIDE DEF d
  <2>3. \A r \in Run : runStatus[r] = "running" /\ Serves(pass[p], r, runDate[r])
                         => Serves(d, r, runDate[r])
    BY <1>2
  <2> QED
    BY <1>1, <1>4, <1>6, <2>1, <2>2, <2>3, TurnsTo
<1>7. ASSUME NEW r \in Run, ActiveFor(pass[p].today) = {}, runStatus[r] = "none",
             runStatus' = [runStatus EXCEPT ![r] = "running"],
             runDate' = [runDate EXCEPT ![r] = pass[p].today],
             pass' = [pass EXCEPT ![p].pc = "load", ![p].run = r]
      PROVE  ChainFits'
  <2> DEFINE d == [pass[p] EXCEPT !.pc = "load", !.run = r]
  <2>1. pass' = [pass EXCEPT ![p] = d]
    BY <1>7, AtPass
  <2>2. /\ d.left = {} /\ d.held = pass[p].held /\ d.msg = pass[p].msg
        /\ d.pc = "load" /\ d.run = r
    BY <1>3, AtPass DEF PassState
  <2> HIDE DEF d
  <2>3. ErrandFits(d, faults')
    BY <1>1, <1>4, <2>2 DEF ErrandFits
  <2>4. Serves(d, r, runDate'[r])
    BY <2>2 DEF Serves, WorkPcs
  <2>5. /\ runDate'[r] = pass[p].today /\ runStatus'[r] = "running"
        /\ \A q \in Run : q # r => runStatus'[q] = runStatus[q] /\ runDate'[q] = runDate[q]
    BY <1>7 DEF Inv, RestTyped
  <2>6. \A q \in Run : runStatus[q] = "running" => runDate[q] # pass[p].today
    BY <1>7 DEF ActiveFor
  <2>7. OneRunPerDate'
    BY <2>5, <2>6 DEF ChainFits, OneRunPerDate
  <2>8. \A q \in Run : runStatus'[q] = "running" =>
           \/ runStatus[q] = "running" /\ runDate'[q] = runDate[q]
           \/ Serves(d, q, runDate'[q])
    BY <2>4, <2>5
  <2>9. \A q \in Run : Queued(q) \/ Serves(pass[p], q, runDate[q])
                         => Queued(q)' \/ Serves(d, q, runDate'[q])
    BY <1>2, <1>5
  <2> QED
    BY <1>1, <2>1, <2>3, <2>7, <2>8, <2>9, ChainMoves
<1> QED
  BY <1>6, <1>7 DEF CreateRun

\* The pass has closed its run.
LEMMA FinishRunChain == ASSUME Inv, ChainFits, NEW p \in Pass, FinishRun(p) PROVE ChainFits'
<1>1. /\ pass[p].pc = "advance" /\ UNCHANGED <<runDate, starts, ticks, faults>>
      /\ pass' = [pass EXCEPT ![p] = IdlePass]
      /\ runStatus' = IF runStatus[pass[p].run] = "running"
                      THEN [runStatus EXCEPT ![pass[p].run] = "completed"] ELSE runStatus
  BY DEF FinishRun, At, Done
<1>2. \A r \in Run : runStatus'[r] = "running" => runStatus[r] = "running" /\ r # pass[p].run
  BY <1>1, AdvanceHolds DEF Inv, RestTyped
<1>3. OneRunPerDate' /\ NoneOpens
  BY <1>1, <1>2, OneRunKept DEF ChainFits, NoneOpens
<1>4. pass[p].left = {} /\ pass[p].pc \notin SweepPcs
  BY <1>1 DEF ChainFits, ErrandFits, SweepPcs
<1>5. \A r \in Run : Serves(pass[p], r, runDate[r]) => r = pass[p].run
  BY <1>4 DEF Serves
<1>6. \A r \in Run : Queued(r) => Queued(r)'
  BY <1>1 DEF Queued
<1> QED
  BY <1>1, <1>2, <1>3, <1>5, <1>6, IdleErrand, ChainMoves DEF NoneOpens

\* The pass leaves the next tick behind.
LEMMA ArmChain == ASSUME Inv, ChainFits, NEW p \in Pass, Arm(p) PROVE ChainFits'
<1>1. /\ pass[p].pc \in {"arm", "advance"} /\ UNCHANGED <<runDate, runStatus, starts, faults>>
      /\ pass' = [pass EXCEPT ![p] = IdlePass]
      /\ ticks' = [ticks EXCEPT ![pass[p].run] = @ + 1]
  BY DEF Arm, NotSettled, At, Done
<1>2. OneRunPerDate' /\ NoneOpens
  BY <1>1, SameRuns, OneRunKept DEF ChainFits
<1>3. pass[p].left = {} /\ pass[p].pc \notin SweepPcs
  BY <1>1 DEF ChainFits, ErrandFits, SweepPcs
<1>4. \A r \in Run : Serves(pass[p], r, runDate[r]) => r = pass[p].run
  BY <1>3 DEF Serves
<1>5. \A r \in Run : Queued(r) \/ r = pass[p].run => Queued(r)'
  BY <1>1, QueueTyped DEF Queued
<1> QED
  BY <1>1, <1>2, <1>4, <1>5, IdleErrand, ChainMoves DEF NoneOpens

---------------------------------------------------------------------------
(* The theorem *)

LEMMA InitChain == Init => ChainFits
BY DEF Init, ChainFits, OneRunPerDate, ErrandFits, IdlePass

LEMMA FailsChain == ASSUME Inv, ChainFits, NEW p \in Pass, Fails(p) PROVE ChainFits'
<1>1. CASE SweepFails(p) \/ LoadFails(p) \/ FinishFails(p)
  BY <1>1, SweepGoesOn, LoadGoesOn, GoingOn
<1>2. ASSUME NEW j \in Job, PollFails(p, j) \/ SendThrows(p, j) \/ SendRefused(p, j)
      PROVE  ChainFits'
  BY <1>2, PollGoesOn, AdvanceGoesOn, GoingOn
<1> QED
  BY <1>1, <1>2, BootCatchUpChain, DiesChain, ExpireChain, ArmFailsChain DEF Fails

LEMMA StartChain == ASSUME Inv, ChainFits, NEW p \in Pass, Start(p) PROVE ChainFits'
BY SweepGoesOn, GoingOn, AbandonChain, FindRunChain, CronGuardChain, CreateRunChain,
   AdoptRunChain DEF Start

LEMMA AdvanceChain == ASSUME Inv, ChainFits, NEW p \in Pass, Advance(p) PROVE ChainFits'
BY LoadGoesOn, PollGoesOn, AdvanceGoesOn, GoingOn, FinishRunChain, ArmChain DEF Advance

LEMMA TakeChain == ASSUME Inv, ChainFits, NEW p \in Pass, Take(p) PROVE ChainFits'
BY TakeTickChain, TakeAnchorChain DEF Take

LEMMA NextChain == Inv /\ ChainFits /\ [Next]_vars => ChainFits'
<1> SUFFICES ASSUME Inv, ChainFits, [Next]_vars PROVE ChainFits'
  OBVIOUS
<1>1. CASE UNCHANGED vars
  <2>1. /\ UNCHANGED <<runStatus, runDate, pass, starts, ticks>> /\ faults' = faults
        /\ \A r \in Run : Queued(r) => Queued(r)'
    BY <1>1 DEF vars, Queued
  <2> QED
    BY <2>1, ChainStays
<1>2. CASE NightFalls \/ ManualStart
  BY <1>2, NightFallsChain, ManualStartChain
<1>3. ASSUME NEW p \in Pass, Take(p) \/ Start(p) \/ Advance(p) \/ Fails(p) PROVE ChainFits'
  BY <1>3, TakeChain, StartChain, AdvanceChain, FailsChain
<1> QED
  BY <1>1, <1>2, <1>3, MembersChain DEF Next

\* One fault, of any kind and at any statement, cuts no chain: a running run has a tick in the
\* queue, a pass at work on it, or a start that will abandon or adopt it.
THEOREM ChainHolds == Spec => [](faults <= 1 => ChainNeverCut)
<1>1. ChainFits => (faults <= 1 => ChainNeverCut)
  BY ServesIsChain DEF ChainFits
<1> QED
  BY <1>1, InitChain, NextChain, NightCorrect, PTL DEF Spec
=============================================================================
