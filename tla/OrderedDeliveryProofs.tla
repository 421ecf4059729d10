------------------------ MODULE OrderedDeliveryProofs ------------------------
(***************************************************************************)
(* EventDispatch implements OrderedDelivery, for every finite set of       *)
(* events and versions and every number of workers, attempts, redrives and *)
(* crashes, with and without old code beside new code.                     *)
(***************************************************************************)
EXTENDS EventDispatchProofs

---------------------------------------------------------------------------
(* What a bootstrap carries, when old code never runs beside new code *)

\* What an uncommitted version has waiting is what older versions still owe.
CarriesOnly ==
  \A v \in Version, e \in Event :
    Booting(v) /\ status[v][e] \in Carrying => \E p \in Carried(v) : p[2] = e

\* A step of the deployed version that gives an open bootstrap nothing more to deliver.
AddsNothing ==
  checkpoint'[deployed] \in {"translated", "marked"} => \A e \in Event :
    status'[deployed][e] \in Carrying => Booting(deployed) /\ status[deployed][e] \in Carrying

LEMMA CarriedSame ==
  ASSUME Inv, DeployFits, Steady, NEW v \in Version, v = deployed
  PROVE  Carried(v) \subseteq Carried(v)'
<1>1. ASSUME NEW p \in Carried(v) PROVE p \in Carried(v)'
  <2>1. /\ p \in Version \X Event /\ p[1] < v /\ checkpoint[p[1]] = "active"
        /\ status[p[1]][p[2]] \in Outstanding /\ p[2] \in Subscribed[v]
    BY <1>1 DEF Carried, OwedBy
  <2>2. p[1] \in Version /\ p[1] # deployed
    BY <2>1, VersionsOrdered
  <2>3. checkpoint'[p[1]] = "active" /\ status'[p[1]][p[2]] \in Outstanding
    BY <2>1, <2>2 DEF Steady
  <2> QED
    BY <2>1, <2>3 DEF Carried, OwedBy
<1> QED
  BY <1>1

LEMMA SteadyBoots ==
  ASSUME Inv, DeployFits, Steady, NEW v \in Version, Booting(v)' PROVE v = deployed
<1>1. CASE v # deployed
  <2>1. Booting(v)
    BY <1>1 DEF Steady, Booting
  <2> QED
    BY <2>1, BootingIsDeployed
<1> QED
  BY <1>1

LEMMA SteadyCarries ==
  ASSUME Inv, DeployFits, CarriesOnly, Steady, AddsNothing PROVE CarriesOnly'
<1>1. ASSUME NEW v \in Version, NEW e \in Event, Booting(v)', status'[v][e] \in Carrying
      PROVE  \E p \in Carried(v)' : p[2] = e
  <2>1. v = deployed /\ v = deployed'
    BY <1>1, SteadyBoots DEF Steady
  <2>2. checkpoint'[deployed] \in {"translated", "marked"} /\ status'[deployed][e] \in Carrying
    BY <1>1, <2>1 DEF Booting
  <2>3. Booting(v) /\ status[v][e] \in Carrying
    BY <2>1, <2>2 DEF AddsNothing
  <2>4. PICK p \in Carried(v) : p[2] = e
    BY <2>3 DEF CarriesOnly
  <2>5. p \in Carried(v)'
    BY <2>1, <2>4, CarriedSame
  <2> QED
    BY <2>4, <2>5
<1> QED
  BY <1>1 DEF CarriesOnly

LEMMA SameCarries ==
  ASSUME Inv, DeployFits, CarriesOnly, UNCHANGED <<deployed, checkpoint, status>>
  PROVE  CarriesOnly'
<1>1. AddsNothing
  BY DEF AddsNothing, Booting
<1> QED
  BY <1>1, SameIsSteady, SteadyCarries

\* A step while the deployed version is active, and stays so, opens no bootstrap.
LEMMA ActiveCarries ==
  ASSUME Inv, DeployFits, CarriesOnly, Steady, checkpoint[deployed] = "active"
  PROVE  CarriesOnly'
<1>1. checkpoint'[deployed] = "active"
  BY DEF Steady
<1>2. AddsNothing
  BY <1>1 DEF AddsNothing
<1> QED
  BY <1>2, SteadyCarries

LEMMA RollbackCarries ==
  ASSUME Inv, DeployFits, CarriesOnly, Steady, Rollback(deployed) PROVE CarriesOnly'
<1>1. checkpoint'[deployed] = "none"
  BY VersionsOrdered DEF Rollback, Inv, RowsTyped
<1>2. AddsNothing
  BY <1>1 DEF AddsNothing, Booting, Steady
<1> QED
  BY <1>2, SteadyCarries

LEMMA TranslateCarries ==
  ASSUME ~Rolling, Inv, DeployFits, CarriesOnly, NEW w \in Worker, BootTranslate(w)
  PROVE  CarriesOnly'
<1>1. VersionOf[w] = deployed /\ Steady
  BY RunningIsDeployed, TranslateSteady DEF BootTranslate
<1> DEFINE carried == {p[2] : p \in Carried(deployed)}
<1>2. \E st \in [Event -> {"none", "retry_wait", "pending"}] :
        /\ status' = [status EXCEPT ![deployed] = st]
        /\ \A e \in Event : e \notin carried => st[e] = "none"
  <2>1. PICK from :
          status' = [status EXCEPT ![deployed] = [e \in Event |->
            IF e \notin carried THEN "none"
            ELSE IF status[from[e]][e] = "retry_wait" THEN "retry_wait" ELSE "pending"]]
    <3>1. PICK from \in [{p[2] : p \in Carried(VersionOf[w])} -> Version] :
            status' = [status EXCEPT ![VersionOf[w]] = [e \in Event |->
                 IF e \notin {p[2] : p \in Carried(VersionOf[w])} THEN "none"
                 ELSE IF status[from[e]][e] = "retry_wait" THEN "retry_wait" ELSE "pending"]]
      BY Zenon DEF BootTranslate
    <3> QED
      BY <1>1, <3>1
  <2> DEFINE st == [e \in Event |->
            IF e \notin carried THEN "none"
            ELSE IF status[from[e]][e] = "retry_wait" THEN "retry_wait" ELSE "pending"]
  <2>2. st \in [Event -> {"none", "retry_wait", "pending"}]
    OBVIOUS
  <2>3. \A e \in Event : e \notin carried => st[e] = "none"
    OBVIOUS
  <2> QED
    BY <2>1, <2>2, <2>3, Zenon
<1>3. \A e \in Event : status'[deployed][e] \in Carrying => e \in carried
  BY <1>2, VersionsOrdered DEF Inv, RowsTyped, Carrying
<1>4. ASSUME NEW v \in Version, NEW e \in Event, Booting(v)', status'[v][e] \in Carrying
      PROVE  \E p \in Carried(v)' : p[2] = e
  <2>1. v = deployed
    BY <1>1, <1>4, SteadyBoots
  <2>2. PICK p \in Carried(v) : p[2] = e
    BY <1>3, <1>4, <2>1
  <2> QED
    BY <1>1, <2>1, <2>2, CarriedSame
<1> QED
  BY <1>4 DEF CarriesOnly

LEMMA MarkCarries ==
  ASSUME Inv, DeployFits, CarriesOnly, NEW w \in Worker, BootMark(w) PROVE CarriesOnly'
<1>1. VersionOf[w] = deployed /\ Steady
  BY CrewWorks, MarkSteady DEF BootMark, DeployFits
<1>2. /\ checkpoint[deployed] = "translated"
      /\ status' = [status EXCEPT ![deployed] = [e \in Event |->
           IF e \in History(deployed) THEN "bootstrap_skipped" ELSE @[e]]]
  BY <1>1 DEF BootMark
<1>3. \A e \in Event : status'[deployed][e] \in Carrying => status[deployed][e] \in Carrying
  BY <1>2, VersionsOrdered DEF Inv, RowsTyped, Carrying
<1>4. AddsNothing
  BY <1>2, <1>3 DEF AddsNothing, Booting
<1> QED
  BY <1>1, <1>4, SteadyCarries

\* Nothing is booting after a commit or a deploy.
LEMMA NoneBoots == ASSUME \A v \in Version : ~Booting(v)' PROVE CarriesOnly'
BY DEF CarriesOnly

LEMMA CommitCarries ==
  ASSUME Inv, DeployFits, NEW w \in Worker, BootCommit(w) PROVE CarriesOnly'
<1>1. VersionOf[w] = deployed /\ checkpoint' = [checkpoint EXCEPT ![deployed] = "active"]
  BY CrewWorks DEF BootCommit, DeployFits
<1>2. \A v \in Version : ~Booting(v)'
  BY <1>1, BootingIsDeployed, VersionsOrdered DEF Inv, RowsTyped, Booting
<1> QED
  BY <1>2, NoneBoots

LEMMA DeployCarries ==
  ASSUME ~Rolling, Inv, DeployFits, NEW v \in Version, Deploy(v) PROVE CarriesOnly'
<1>1. /\ UNCHANGED <<checkpoint, status>> /\ \A w \in Worker : pc[w] = "idle"
  BY DEF Deploy, rows
<1>2. \A u \in Version : ~Booting(u)'
  BY <1>1 DEF DeployFits, Crew, Booting
<1> QED
  BY <1>2, NoneBoots

LEMMA NextCarries ==
  ASSUME ~Rolling, Inv, DeployFits, CarriesOnly, [Next]_vars PROVE CarriesOnly'
<1>1. CASE UNCHANGED <<deployed, checkpoint, status>>
  BY <1>1, SameCarries
<1>2. CASE (\E e \in Event : CommitEvent(e)) \/ UNCHANGED vars
  BY <1>1, <1>2 DEF CommitEvent, rows, vars
<1>3. CASE \E v \in Version : Deploy(v)
  BY <1>3, DeployCarries
<1>4. CASE \E w \in Worker : BootTranslate(w)
  BY <1>4, TranslateCarries
<1>5. CASE \E w \in Worker : BootMark(w)
  BY <1>5, MarkCarries
<1>6. CASE \E w \in Worker : BootCommit(w)
  BY <1>6, CommitCarries
<1>7. ASSUME NEW w \in Worker, BootRefused(w) PROVE CarriesOnly'
  <2>1. VersionOf[w] = deployed
    BY <1>7, CrewWorks DEF BootRefused, DeployFits
  <2> QED
    BY <1>7, <2>1, BootRefusedSteady, RollbackCarries DEF BootRefused
<1>8. ASSUME NEW w \in Worker, ClaimLease(w) \/ Discovered(w) \/ EndCycle(w) PROVE CarriesOnly'
  BY <1>1, <1>8 DEF ClaimLease, Discovered, EndCycle, rows
<1>9. ASSUME NEW w \in Worker, Discover(w) PROVE CarriesOnly'
  <2>1. checkpoint[deployed] = "active"
    BY <1>9, LeasedIsActive DEF Discover
  <2> QED
    BY <1>9, <2>1, DiscoverSteady, ActiveCarries
<1>10. ASSUME NEW w \in Worker, NEW e \in Event, ClaimNext(w, e) PROVE CarriesOnly'
  <2>1. checkpoint[deployed] = "active"
    BY <1>10, LeasedIsActive DEF ClaimNext
  <2> QED
    BY <1>10, <2>1, ClaimNextSteady, ActiveCarries
<1>11. ASSUME NEW w \in Worker, Fail(w) \/ \E outcome \in Outcomes : Complete(w, outcome)
       PROVE  CarriesOnly'
  <2>1. CASE OwnsClaim(w)
    <3>1. checkpoint[deployed] = "active"
      BY <1>11, <2>1, LeasedIsActive DEF Fail, Complete, OwnsClaim
    <3> QED
      BY <1>11, <3>1, FailSteady, CompleteSteady, ActiveCarries
  <2>2. CASE ~OwnsClaim(w)
    BY <1>1, <1>11, <2>2 DEF Fail, Complete, LoseClaim, rows
  <2> QED
    BY <2>1, <2>2
<1>12. ASSUME NEW w \in Worker, Crash(w) PROVE CarriesOnly'
  <2>1. CASE pc[w] = "booting"
    <3>1. Rollback(deployed)
      BY <1>12, <2>1, CrewWorks DEF Crash, DeployFits
    <3> QED
      BY <1>12, <3>1, CrashSteady, RollbackCarries
  <2>2. CASE pc[w] # "booting"
    BY <1>1, <1>12, <2>2 DEF Crash, rows
  <2> QED
    BY <2>1, <2>2
<1>13. CASE \E v \in Version : LeaseExpires(v)
  BY <1>1, <1>13 DEF LeaseExpires, rows
<1>14. CASE \E v \in Version, e \in Event : ClaimExpires(v, e) \/ RetryFallsDue(v, e)
  BY <1>1, <1>14 DEF ClaimExpires, RetryFallsDue, rows
<1>15. ASSUME NEW v \in Version, NEW e \in Event, Redrive(v, e) PROVE CarriesOnly'
  <2>1. checkpoint[deployed] = "active"
    BY <1>15, RunningIsDeployed DEF Redrive
  <2> QED
    BY <1>15, <2>1, RedriveSteady, ActiveCarries
<1> QED
  BY <1>2, <1>3, <1>4, <1>5, <1>6, <1>7, <1>8, <1>9, <1>10, <1>11, <1>12, <1>13, <1>14,
     <1>15 DEF Next

---------------------------------------------------------------------------
(* What the handlers see *)

Stages == {"absent", "history", "waiting", "handling", "done", "dead", "moved"}

LEMMA StagesOf ==
  ASSUME NEW s \in Statuses
  PROVE  /\ StageOf(s) \in Stages
         /\ StageOf(s) \in Delivery!Owed <=> s \in Outstanding
         /\ StageOf(s) = "absent" <=> s = "none"
         /\ StageOf(s) = "dead" <=> s = "dead_letter"
         /\ StageOf(s) = "handling" <=> s = "claimed"
         /\ StageOf(s) = "waiting" <=> s \in Carrying
BY DEF StageOf, Delivery!Owed, Statuses, Terminal, Outstanding, Carrying, Stages

LEMMA Views ==
  ASSUME NEW v \in Version, NEW e \in Event
  PROVE  /\ v \in Active => Lines[v][e] = StageOf(status[v][e]) /\ Places[v][e] = seq[v][e]
         /\ v \notin Active => Lines[v][e] = "absent" /\ Places[v][e] = 0
BY DEF Lines, Places

LEMMA NextViews ==
  ASSUME NEW v \in Version, NEW e \in Event
  PROVE  /\ v \in Active' => Lines'[v][e] = StageOf(status'[v][e]) /\ Places'[v][e] = seq'[v][e]
         /\ v \notin Active' => Lines'[v][e] = "absent" /\ Places'[v][e] = 0
BY DEF Lines, Places, StageOf

LEMMA LinesAre ==
  /\ Lines = [v \in Version |-> [e \in Event |-> Lines[v][e]]]
  /\ Lines' = [v \in Version |-> [e \in Event |-> Lines'[v][e]]]
  /\ Places = [v \in Version |-> [e \in Event |-> Places[v][e]]]
  /\ Places' = [v \in Version |-> [e \in Event |-> Places'[v][e]]]
BY DEF Lines, Places

LEMMA ActiveIs ==
  /\ \A v \in Version : v \in Active <=> checkpoint[v] = "active"
  /\ \A v \in Version : v \in Active' <=> checkpoint'[v] = "active"
  /\ Active \subseteq Version /\ Active' \subseteq Version
BY DEF Active

\* No active version shows a change.
LEMMA StillLines ==
  ASSUME Active' = Active,
         \A v \in Active, e \in Event :
           StageOf(status'[v][e]) = StageOf(status[v][e]) /\ seq'[v][e] = seq[v][e]
  PROVE  UNCHANGED Delivery!delivery
<1>1. \A v \in Version, e \in Event :
        Lines'[v][e] = Lines[v][e] /\ Places'[v][e] = Places[v][e]
  BY Views, NextViews
<1>2. Lines' = Lines /\ Places' = Places
  BY <1>1, LinesAre
<1> QED
  BY <1>2 DEF Delivery!delivery

LEMMA SameLines ==
  ASSUME UNCHANGED <<checkpoint, status, seq>> PROVE UNCHANGED Delivery!delivery
BY StillLines DEF Active

\* One delivery of an active version changes.
LEMMA LineMoves ==
  ASSUME Inv, NEW v \in Active, NEW e \in Event, NEW s,
         status' = [status EXCEPT ![v][e] = s], UNCHANGED <<checkpoint, seq>>
  PROVE  Delivery!Moves(v, e, StageOf(s))
<1>1. v \in Version /\ status \in [Version -> [Event -> Statuses]] /\ Active' = Active
  BY ActiveIs DEF Inv, RowsTyped, Active
<1>2. \A u \in Version, f \in Event :
        status'[u][f] = IF u = v /\ f = e THEN s ELSE status[u][f]
  BY <1>1
<1>3. \A u \in Version, f \in Event :
        /\ Lines'[u][f] = IF u = v /\ f = e THEN StageOf(s) ELSE Lines[u][f]
        /\ Places'[u][f] = Places[u][f]
  BY <1>1, <1>2, Views, NextViews
<1>4. Lines' = [Lines EXCEPT ![v][e] = StageOf(s)] /\ Places' = Places
  BY <1>3, <1>1, LinesAre
<1> QED
  BY <1>1, <1>4 DEF Delivery!Moves

\* Fit to be seen: without old code beside new code, the deployed version is the newest line.
Seen == Inv /\ (~Rolling => DeployFits /\ CarriesOnly)

LEMMA ServingHolds ==
  ASSUME Seen, NEW v \in Active, ~Rolling => v = deployed PROVE Delivery!Serving(v)
<1>1. ASSUME ~Rolling, NEW u \in Active PROVE u <= v
  BY <1>1, ActiveIs DEF Seen, DeployFits
<1> QED
  BY <1>1 DEF Delivery!Serving

LEMMA WorkerServes ==
  ASSUME Seen, NEW w \in Worker, pc[w] # "idle", Leased(w)
  PROVE  VersionOf[w] \in Active /\ Delivery!Serving(VersionOf[w])
<1>1. VersionOf[w] \in Active
  BY OfWorker, ActiveIs DEF Leased, Seen, Inv, CyclesFit
<1>2. ~Rolling => VersionOf[w] = deployed
  BY CrewWorks DEF Seen, DeployFits
<1> QED
  BY <1>1, <1>2, ServingHolds

\* What is handled, or was given up last, has only settled deliveries before it.
LEMMA FirstHolds ==
  ASSUME Seen, NEW v \in Active, NEW e \in Event, status[v][e] \in Touched
  PROVE  Delivery!First(v, e)
<1>1. /\ v \in Version /\ status[v] \in [Event -> Statuses] /\ seq[v] \in [Event -> Nat]
      /\ OrderFits(status[v], seq[v])
  BY ActiveIs, VersionTyped DEF Seen, Inv, VersionFits
<1>2. ASSUME NEW f \in Event, Lines[v][f] \in Delivery!Owed
      PROVE  Places[v][e] <= Places[v][f]
  <2>1. status[v][f] \in Outstanding
    BY <1>1, <1>2, Views, StagesOf
  <2>2. ~(seq[v][f] < seq[v][e])
    BY <1>1, <2>1 DEF OrderFits, Outstanding, Terminal
  <2>3. seq[v][e] <= seq[v][f]
    BY <1>1, <2>2
  <2> QED
    BY <1>1, <2>3, Views
<1> QED
  BY <1>2 DEF Delivery!First

---------------------------------------------------------------------------
(* The steps on one delivery *)

Shown == [Delivery!Next]_(Delivery!delivery)

LEMMA StillShown == ASSUME UNCHANGED Delivery!delivery PROVE Shown
BY DEF Shown

LEMMA RowShown ==
  ASSUME NEW v \in Active, NEW e \in Event,
         Delivery!Begin(v, e) \/ Delivery!Finish(v, e) \/ Delivery!Redrive(v, e)
  PROVE  Shown
BY ActiveIs DEF Shown, Delivery!Next

\* A claim begins a delivery; taking over an expired claim is not seen.
LEMMA ClaimNextShown ==
  ASSUME Seen, NEW w \in Worker, NEW e \in Event, ClaimNext(w, e) PROVE Shown
<1> DEFINE v == VersionOf[w]
<1>1. /\ pc[w] = "draining" /\ Leased(w) /\ Head(v, e) /\ Claimable(v, e)
      /\ status' = [status EXCEPT ![v][e] = "claimed"] /\ UNCHANGED <<checkpoint, seq>>
  BY DEF ClaimNext
<1>2. v \in Active /\ Delivery!Serving(v)
  BY <1>1, WorkerServes
<1>3. v \in Version /\ \A f \in Event : status[v][f] \in Statuses
  BY OfWorker DEF Seen, Inv, RowsTyped
<1> HIDE DEF v
<1>4. CASE status[v][e] \in Carrying
  <2>1. Lines[v][e] = "waiting"
    BY <1>2, <1>3, <1>4, Views, StagesOf
  <2>2. Delivery!First(v, e)
    BY <1>1, <1>2, <1>3, Views, StagesOf DEF Head, Delivery!First
  <2>3. Delivery!Moves(v, e, "handling")
    BY <1>1, <1>2, LineMoves DEF Seen, StageOf
  <2>4. Delivery!Begin(v, e)
    BY <1>2, <2>1, <2>2, <2>3 DEF Delivery!Begin
  <2> QED
    BY <1>2, <2>4, RowShown
<1>5. CASE status[v][e] = "claimed"
  <2>1. status' = status
    BY <1>1, <1>3, <1>5 DEF Seen, Inv, RowsTyped
  <2> QED
    BY <1>1, <2>1, SameLines, StillShown
<1> QED
  BY <1>1, <1>4, <1>5 DEF Claimable, Carrying

\* A settled delivery is finished: handled, given up, or to be tried again.
LEMMA SettleShown ==
  ASSUME Seen, NEW w \in Worker, pc[w] = "handling", OwnsClaim(w),
         NEW s \in {"succeeded", "skipped", "dead_letter", "retry_wait"},
         Settle(w, s), UNCHANGED <<checkpoint, seq>>
  PROVE  Shown
<1> DEFINE v == VersionOf[w]
           e == job[w]
<1>1. v \in Active /\ Delivery!Serving(v)
  BY WorkerServes DEF OwnsClaim
<1>2. e \in Event /\ status[v][e] = "claimed"
  BY DEF OwnsClaim, Seen, Inv, CyclesFit
<1>3. status' = [status EXCEPT ![v][e] = s]
  BY DEF Settle
<1>4. v \in Version
  BY OfWorker
<1> HIDE DEF v, e
<1>5. Lines[v][e] = "handling"
  BY <1>1, <1>2, <1>4, Views DEF StageOf
<1>6. Delivery!First(v, e)
  BY <1>1, <1>2, FirstHolds DEF Touched
<1>7. Delivery!Moves(v, e, StageOf(s)) /\ StageOf(s) \in {"done", "dead", "waiting"}
  BY <1>1, <1>2, <1>3, LineMoves DEF Seen, StageOf
<1>8. Delivery!Finish(v, e)
  BY <1>1, <1>5, <1>6, <1>7 DEF Delivery!Finish
<1> QED
  BY <1>1, <1>2, <1>8, RowShown

LEMMA LostShown ==
  ASSUME NEW w \in Worker, LoseClaim(w), UNCHANGED checkpoint PROVE Shown
BY SameLines, StillShown DEF LoseClaim, rows

LEMMA CompleteShown ==
  ASSUME Seen, NEW w \in Worker, NEW outcome \in Outcomes, Complete(w, outcome) PROVE Shown
<1>1. pc[w] = "handling" /\ UNCHANGED checkpoint
  BY DEF Complete
<1>2. CASE OwnsClaim(w)
  <2>1. Settle(w, outcome) /\ UNCHANGED seq
    BY <1>2 DEF Complete
  <2> QED
    BY <1>1, <1>2, <2>1, SettleShown, BoundAssumption
<1>3. CASE ~OwnsClaim(w)
  BY <1>1, <1>3, LostShown DEF Complete
<1> QED
  BY <1>2, <1>3

LEMMA FailShown == ASSUME Seen, NEW w \in Worker, Fail(w) PROVE Shown
<1>1. pc[w] = "handling" /\ UNCHANGED checkpoint
  BY DEF Fail
<1>2. CASE OwnsClaim(w)
  <2>1. /\ Settle(w, IF Exhausted(VersionOf[w], job[w]) THEN "dead_letter" ELSE "retry_wait")
        /\ UNCHANGED seq
    BY <1>2, Zenon DEF Fail
  <2>2. PICK s \in {"dead_letter", "retry_wait"} : Settle(w, s)
    BY <2>1
  <2> QED
    BY <1>1, <1>2, <2>1, <2>2, SettleShown
<1>3. CASE ~OwnsClaim(w)
  BY <1>1, <1>3, LostShown DEF Fail
<1> QED
  BY <1>2, <1>3

\* A dead letter is redriven in its place, before anything later has been begun.
LEMMA RedriveShown ==
  ASSUME Seen, NEW v \in Version, NEW e \in Event, Redrive(v, e) PROVE Shown
<1>1. /\ Runs(v) /\ checkpoint[v] = "active" /\ status[v][e] = "dead_letter"
      /\ UntouchedAfter(v, e) /\ status' = [status EXCEPT ![v][e] = "retry_wait"]
      /\ UNCHANGED <<checkpoint, seq>>
  BY DEF Redrive
<1>2. v \in Active /\ Delivery!Serving(v)
  BY <1>1, ActiveIs, RunningIsDeployed, ServingHolds
<1>3. \A f \in Event : status[v][f] \in Statuses
  BY DEF Seen, Inv, RowsTyped
<1>4. Lines[v][e] = "dead"
  BY <1>1, <1>2, Views DEF StageOf
<1>5. Delivery!First(v, e)
  BY <1>1, <1>2, FirstHolds DEF Touched
<1>6. ASSUME NEW f \in Event, Places[v][f] > Places[v][e]
      PROVE  Lines[v][f] \in {"absent", "waiting"}
  <2>1. seq[v][f] > seq[v][e]
    BY <1>2, <1>6, Views
  <2>2. status[v][f] \in {"none", "pending"}
    BY <1>1, <2>1 DEF UntouchedAfter, Rows
  <2> QED
    BY <1>2, <2>2, Views DEF StageOf
<1>7. Delivery!Moves(v, e, "waiting")
  BY <1>1, <1>2, LineMoves DEF Seen, StageOf
<1>8. Delivery!Redrive(v, e)
  BY <1>2, <1>4, <1>5, <1>6, <1>7 DEF Delivery!Redrive
<1> QED
  BY <1>2, <1>8, RowShown

---------------------------------------------------------------------------
(* Discovery *)

Joined(st, sq, n, found, nsq) ==
  /\ sq \in [Event -> Nat] /\ n \in Nat \ {0} /\ found \in SUBSET Event
  /\ \A e \in Event : st[e] # "none" => sq[e] < n
  /\ nsq = [e \in Event |-> IF e \in found THEN n - 1 + Rank(found, e) ELSE sq[e]]
  /\ \A e \in found : st[e] = "none"

\* New deliveries are numbered after everything the version has, in log order.
LEMMA JoinsInOrder ==
  ASSUME NEW st, NEW sq, NEW n, NEW found, NEW nsq, Joined(st, sq, n, found, nsq),
         NEW e \in found, NEW f \in Event, st[f] # "none" \/ (f \in found /\ f < e)
  PROVE  nsq[f] < nsq[e]
<1> USE DEF Joined
<1>1. e \in Event /\ Rank(found, e) \in Nat /\ Rank(found, e) > 0 /\ Rank(found, f) \in Nat
  BY RankFits
<1>2. nsq[e] = n - 1 + Rank(found, e)
  BY <1>1
<1>3. CASE f \in found /\ f < e
  <2>1. Rank(found, f) < Rank(found, e)
    BY <1>1, <1>3, RankRises
  <2>2. nsq[f] = n - 1 + Rank(found, f)
    BY <1>3
  <2> QED
    BY <1>1, <1>2, <2>1, <2>2
<1>4. CASE st[f] # "none"
  <2>1. nsq[f] = sq[f] /\ sq[f] \in Nat /\ sq[f] < n
    BY <1>4
  <2> QED
    BY <1>1, <1>2, <2>1
<1> QED
  BY <1>3, <1>4

LEMMA DiscoverShown == ASSUME Seen, NEW w \in Worker, Discover(w) PROVE Shown
<1> DEFINE v == VersionOf[w]
           found == {e \in Undelivered(v) : Rank(Undelivered(v), e) <= Batch}
           numbers == [e \in Event |->
             IF e \in found THEN nextSeq[v] - 1 + Rank(found, e) ELSE seq[v][e]]
<1>1. /\ pc[w] = "discovering" /\ Leased(w) /\ found # {}
      /\ status' = [status EXCEPT ![v] = [e \in Event |->
                      IF e \in found THEN "pending" ELSE @[e]]]
      /\ seq' = [seq EXCEPT ![v] = numbers] /\ UNCHANGED checkpoint
  BY DEF Discover
<1>2. v \in Version /\ v \in Active /\ Active' = Active /\ Delivery!Serving(v)
  BY <1>1, OfWorker, WorkerServes DEF Active
<1>3. found \in SUBSET Subscribed[v] /\ found \in SUBSET Event
      /\ \A e \in found : status[v][e] = "none"
  BY <1>2, SubscriberAssumption DEF Undelivered, Rows
<1>4. /\ status \in [Version -> [Event -> Statuses]] /\ seq \in [Version -> [Event -> Nat]]
      /\ nextSeq[v] \in Nat \ {0} /\ checkpoint[v] = "active"
      /\ NumbersFit(checkpoint[v], status[v], seq[v], nextSeq[v])
  BY <1>2, ActiveIs, VersionTyped DEF Seen, Inv, RowsTyped, VersionFits
<1> HIDE DEF v, found
<1>5. /\ numbers \in [Event -> Nat]
      /\ \A u \in Version, e \in Event : u # v => seq'[u][e] = seq[u][e]
      /\ \A e \in Event : seq'[v][e] = numbers[e]
      /\ \A e \in Event : e \notin found => numbers[e] = seq[v][e]
  <2>1. \A e \in Event : Rank(found, e) \in Nat
    BY <1>3, RankFits
  <2>2. numbers \in [Event -> Nat]
    <3>1. ASSUME NEW e \in Event
          PROVE  nextSeq[v] - 1 + Rank(found, e) \in Nat /\ seq[v][e] \in Nat
      <4>1. Rank(found, e) \in Nat /\ nextSeq[v] \in Nat \ {0}
        BY <1>4, <2>1
      <4>2. nextSeq[v] - 1 + Rank(found, e) \in Nat
        BY <4>1
      <4>3. seq[v][e] \in Nat
        BY <1>2, <1>4
      <4> QED
        BY <4>2, <4>3
    <3> QED
      BY <3>1
  <2> HIDE DEF numbers
  <2>3. seq'[v] = numbers /\ \A u \in Version : u # v => seq'[u] = seq[u]
    BY <1>1, <1>2, <1>4
  <2> QED
    BY <2>2, <2>3 DEF numbers
<1>6. /\ \A u \in Version, e \in Event : u # v => status'[u][e] = status[u][e]
      /\ \A e \in Event : status'[v][e] = IF e \in found THEN "pending" ELSE status[v][e]
  BY <1>1, <1>2, <1>4
<1>7. ASSUME NEW e \in found, NEW f \in Event,
             Lines[v][f] # "absent" \/ (f \in found /\ f < e)
      PROVE  Places'[v][f] < Places'[v][e]
  <2>1. \A g \in Event : status[v][g] # "none" => seq[v][g] < nextSeq[v]
    BY <1>4 DEF NumbersFit
  <2>2. status[v][f] # "none" \/ (f \in found /\ f < e)
    BY <1>2, <1>4, <1>7, Views, StagesOf
  <2>3. numbers[f] < numbers[e]
    <3>1. seq[v] \in [Event -> Nat] /\ nextSeq[v] \in Nat \ {0} /\ found \in SUBSET Event
      BY <1>2, <1>3, <1>4
    <3>2. Joined(status[v], seq[v], nextSeq[v], found, numbers)
      BY <1>3, <2>1, <3>1 DEF Joined
    <3> HIDE DEF numbers
    <3> QED
      BY <1>7, <2>2, <3>2, JoinsInOrder
  <2> HIDE DEF numbers
  <2>4. Places'[v][f] = numbers[f] /\ Places'[v][e] = numbers[e]
    BY <1>2, <1>3, <1>5, NextViews
  <2> QED
    BY <2>3, <2>4
<1> HIDE DEF numbers
<1>8. \A u \in Version, e \in Event : u # v \/ e \notin found => Places'[u][e] = Places[u][e]
  BY <1>2, <1>5, Views, NextViews
<1>9. \A u \in Version, e \in Event :
        Lines'[u][e] = IF u = v /\ e \in found THEN "waiting" ELSE Lines[u][e]
  BY <1>2, <1>6, Views, NextViews DEF StageOf
<1>10. Lines' = [Lines EXCEPT ![v] = [e \in Event |-> IF e \in found THEN "waiting" ELSE @[e]]]
  BY <1>2, <1>9, LinesAre
<1>11. \A e \in found : Lines[v][e] = "absent"
  BY <1>2, <1>3, Views DEF StageOf
<1>12. Delivery!Join(v, found)
  BY <1>1, <1>2, <1>7, <1>8, <1>10, <1>11 DEF Delivery!Join
<1> QED
  BY <1>2, <1>3, <1>12 DEF Shown, Delivery!Next

---------------------------------------------------------------------------
(* Bootstrap *)

\* A version that is not active is seen by nobody.
LEMMA HiddenShown ==
  ASSUME NEW v \in Version, v \notin Active, v \notin Active',
         \A u \in Version : u # v =>
           checkpoint'[u] = checkpoint[u] /\ status'[u] = status[u] /\ seq'[u] = seq[u]
  PROVE  Shown
<1>1. Active' = Active
  BY DEF Active
<1>2. \A u \in Active : u \in Version /\ u # v
  BY ActiveIs
<1> QED
  BY <1>1, <1>2, StillLines, StillShown

LEMMA TranslateShown == ASSUME Seen, NEW w \in Worker, BootTranslate(w) PROVE Shown
<1> DEFINE v == VersionOf[w]
<1>1. v \in Version /\ checkpoint[v] = "none"
      /\ checkpoint' = [checkpoint EXCEPT ![v] = "translated"]
  BY OfWorker, Zenon DEF BootTranslate
<1>2. \E st : status' = [status EXCEPT ![v] = st]
  <2>1. PICK from \in [{p[2] : p \in Carried(VersionOf[w])} -> Version] :
          status' = [status EXCEPT ![VersionOf[w]] = [e \in Event |->
               IF e \notin {p[2] : p \in Carried(VersionOf[w])} THEN "none"
               ELSE IF status[from[e]][e] = "retry_wait" THEN "retry_wait" ELSE "pending"]]
    BY Zenon DEF BootTranslate
  <2> QED
    BY <2>1, Zenon
<1>3. \E sq : seq' = [seq EXCEPT ![v] = sq]
  BY Zenon DEF BootTranslate
<1> HIDE DEF v
<1>4. \A u \in Version : u # v =>
        checkpoint'[u] = checkpoint[u] /\ status'[u] = status[u] /\ seq'[u] = seq[u]
  BY <1>1, <1>2, <1>3 DEF Seen, Inv, RowsTyped
<1>5. v \notin Active /\ v \notin Active'
  BY <1>1, ActiveIs DEF Seen, Inv, RowsTyped
<1> QED
  BY <1>1, <1>4, <1>5, HiddenShown

LEMMA MarkShown == ASSUME Seen, NEW w \in Worker, BootMark(w) PROVE Shown
<1> DEFINE v == VersionOf[w]
<1>1. v \in Version /\ checkpoint[v] = "translated"
      /\ checkpoint' = [checkpoint EXCEPT ![v] = "marked"]
  BY OfWorker DEF BootMark
<1>2. \E st : status' = [status EXCEPT ![v] = st]
  BY Zenon DEF BootMark
<1>3. \E sq : seq' = [seq EXCEPT ![v] = sq]
  BY Zenon DEF BootMark
<1> HIDE DEF v
<1>4. \A u \in Version : u # v =>
        checkpoint'[u] = checkpoint[u] /\ status'[u] = status[u] /\ seq'[u] = seq[u]
  BY <1>1, <1>2, <1>3 DEF Seen, Inv, RowsTyped
<1>5. v \notin Active /\ v \notin Active'
  BY <1>1, ActiveIs DEF Seen, Inv, RowsTyped
<1> QED
  BY <1>1, <1>4, <1>5, HiddenShown

LEMMA RollbackShown ==
  ASSUME Seen, NEW v \in Version, checkpoint[v] # "active", Rollback(v) PROVE Shown
<1>1. /\ \A u \in Version : u # v =>
           checkpoint'[u] = checkpoint[u] /\ status'[u] = status[u] /\ seq'[u] = seq[u]
      /\ checkpoint'[v] = "none"
  BY DEF Rollback, Seen, Inv, RowsTyped
<1>2. v \notin Active /\ v \notin Active'
  BY <1>1, ActiveIs
<1> QED
  BY <1>1, <1>2, HiddenShown

LEMMA BootRefusedShown == ASSUME Seen, NEW w \in Worker, BootRefused(w) PROVE Shown
BY OfWorker, RollbackShown DEF BootRefused

LEMMA CrashShown == ASSUME Seen, NEW w \in Worker, Crash(w) PROVE Shown
<1>1. CASE pc[w] = "booting"
  <2>1. checkpoint[VersionOf[w]] # "active" /\ Rollback(VersionOf[w])
    BY <1>1 DEF Crash, Seen, Inv, CyclesFit, Booting
  <2> QED
    BY <2>1, OfWorker, RollbackShown
<1>2. CASE pc[w] # "booting"
  BY <1>2, SameLines, StillShown DEF Crash, rows
<1> QED
  BY <1>1, <1>2

\* The commit opens the line, and closes the older ones, in one step.
LEMMA CommitShown == ASSUME Seen, NEW w \in Worker, BootCommit(w) PROVE Shown
<1> DEFINE v == VersionOf[w]
<1>1. /\ v \in Version /\ checkpoint[v] = "marked" /\ UNCHANGED seq
      /\ checkpoint' = [checkpoint EXCEPT ![v] = "active"]
      /\ status' = [u \in Version |-> [e \in Event |->
           IF <<u, e>> \in OwedBy(v) THEN "superseded" ELSE status[u][e]]]
  BY OfWorker DEF BootCommit
<1>2. ~Rolling => v = deployed
  BY CrewWorks DEF BootCommit, Seen, DeployFits
<1> HIDE DEF v
<1>3. /\ checkpoint \in [Version -> Checkpoints] /\ \A u \in Version : u \in Nat
      /\ status \in [Version -> [Event -> Statuses]]
      /\ CheckpointFits(checkpoint[v], status[v])
      /\ \A e, f \in Event :
           status[v][e] # "none" /\ status[v][f] # "none" /\ seq[v][e] = seq[v][f] => e = f
  BY <1>1, VersionTyped, VersionsOrdered DEF Seen, Inv, RowsTyped, VersionFits, NumbersFit
<1>4. v \notin Active /\ v \in Active' /\ Active' = Active \cup {v}
  BY <1>1, <1>3 DEF Active
<1>5. \A u \in Version, e \in Event :
        <<u, e>> \in OwedBy(v) <=> u \in Active /\ u < v /\ status[u][e] \in Outstanding
  BY ActiveIs DEF OwedBy
<1>6. \A e \in Event :
        /\ status[v][e] \in Untried /\ status[v][e] \in Statuses
        /\ status'[v][e] = status[v][e]
        /\ Lines'[v][e] = StageOf(status[v][e]) /\ Places'[v][e] = seq[v][e]
  BY <1>1, <1>3, <1>4, <1>5, NextViews DEF CheckpointFits
<1>7. \A e \in Event : Lines'[v][e] \in {"absent", "history", "waiting"}
  BY <1>6 DEF StageOf, Untried
<1>8. ASSUME NEW e \in Event, NEW f \in Event, Lines'[v][e] # "absent", Lines'[v][f] # "absent",
             Places'[v][e] = Places'[v][f]
      PROVE  e = f
  BY <1>3, <1>6, <1>8, StagesOf
<1>9. ASSUME ~Rolling
      PROVE  {e \in Event : Lines'[v][e] = "waiting"} = Delivery!HandedTo(v)
  <2>1. \A e \in Event : Lines'[v][e] = "waiting" <=> status[v][e] \in Carrying
    BY <1>6, StagesOf
  <2>2. Booting(v) /\ DeployFits /\ CarriesOnly
    BY <1>1, <1>9 DEF Booting, Seen
  <2>3. \A e \in Event : status[v][e] \in Carrying <=> \E p \in Carried(v) : p[2] = e
    BY <1>1, <2>2 DEF DeployFits, CarriesOnly
  <2>4. \A e \in Event :
          (\E p \in Carried(v) : p[2] = e)
            <=> e \in Subscribed[v]
                /\ \E u \in Active : u < v /\ status[u][e] \in Outstanding
    <3>1. ASSUME NEW p \in Carried(v)
          PROVE  p[2] \in Subscribed[v]
                 /\ \E u \in Active : u < v /\ status[u][p[2]] \in Outstanding
      BY ActiveIs DEF Carried, OwedBy
    <3>2. ASSUME NEW e \in Event, e \in Subscribed[v], NEW u \in Active, u < v,
                 status[u][e] \in Outstanding
          PROVE  \E p \in Carried(v) : p[2] = e
      <4>1. <<u, e>> \in OwedBy(v)
        BY <1>5, <3>2, ActiveIs
      <4>2. <<u, e>> \in Carried(v) /\ <<u, e>>[2] = e
        BY <3>2, <4>1 DEF Carried
      <4> QED
        BY <4>2
    <3> QED
      BY <3>1, <3>2
  <2>5. \A e \in Event, u \in Active :
          status[u][e] \in Outstanding <=> Lines[u][e] \in Delivery!Owed
    BY <1>3, ActiveIs, Views, StagesOf
  <2>6. Subscribed[v] \subseteq Event
    BY <1>1, SubscriberAssumption
  <2> QED
    BY <2>1, <2>3, <2>4, <2>5, <2>6 DEF Delivery!HandedTo
<1>10. ASSUME NEW u \in Version \ {v}, NEW e \in Event
       PROVE  /\ Places'[u][e] = Places[u][e]
              /\ Lines'[u][e] = IF u \in Active /\ u < v /\ Lines[u][e] \in Delivery!Owed
                                THEN "moved" ELSE Lines[u][e]
  <2>1. Places'[u][e] = Places[u][e]
    <3>1. (u \in Active' <=> u \in Active) /\ seq'[u][e] = seq[u][e]
      BY <1>1, <1>4
    <3> QED
      BY <3>1, Views, NextViews
  <2>2. CASE u \notin Active
    BY <1>4, <2>1, <2>2, Views, NextViews
  <2>3. CASE u \in Active
    <3>1. Lines[u][e] = StageOf(status[u][e]) /\ Lines'[u][e] = StageOf(status'[u][e])
      BY <1>4, <2>3, Views, NextViews
    <3>2. Lines[u][e] \in Delivery!Owed <=> status[u][e] \in Outstanding
      BY <1>3, <3>1, StagesOf
    <3>3. status'[u][e] = IF u < v /\ status[u][e] \in Outstanding
                          THEN "superseded" ELSE status[u][e]
      BY <1>1, <1>5, <2>3
    <3>4. StageOf("superseded") = "moved"
      BY DEF StageOf
    <3> QED
      BY <2>1, <2>3, <3>1, <3>2, <3>3, <3>4
  <2> QED
    BY <2>2, <2>3
<1>11. Delivery!Open(v)
  BY <1>4, <1>7, <1>8, <1>9, <1>10 DEF Delivery!Open
<1> QED
  BY <1>1, <1>11 DEF Shown, Delivery!Next

---------------------------------------------------------------------------
(* The refinement *)

LEMMA SeenNext == ASSUME Seen, [Next]_vars PROVE Seen'
<1>1. Inv'
  BY NextInv DEF Seen
<1>2. ASSUME ~Rolling PROVE DeployFits' /\ CarriesOnly'
  BY <1>2, NextDeployFits, NextCarries DEF Seen
<1> QED
  BY <1>1, <1>2 DEF Seen

LEMMA InitShown == ASSUME Init PROVE Seen /\ Delivery!Init
<1>1. \A v \in Version : checkpoint[v] = "none" /\ \A e \in Event : status[v][e] = "none"
  BY DEF Init
<1>2. CarriesOnly
  BY <1>1 DEF CarriesOnly, Booting
<1>3. Seen
  BY <1>2, InitInv, InitDeployFits DEF Seen
<1>4. Active = {}
  BY <1>1 DEF Active
<1> QED
  BY <1>3, <1>4 DEF Delivery!Init, Lines, Places

LEMMA NextShown == ASSUME Seen, [Next]_vars PROVE Shown
<1>1. CASE UNCHANGED <<checkpoint, status, seq>>
  BY <1>1, SameLines, StillShown
<1>2. CASE (\E e \in Event : CommitEvent(e)) \/ (\E v \in Version : Deploy(v)) \/ UNCHANGED vars
  BY <1>1, <1>2 DEF CommitEvent, Deploy, rows, vars
<1>3. CASE \E w \in Worker : BootTranslate(w)
  BY <1>3, TranslateShown
<1>4. CASE \E w \in Worker : BootMark(w)
  BY <1>4, MarkShown
<1>5. CASE \E w \in Worker : BootCommit(w)
  BY <1>5, CommitShown
<1>6. CASE \E w \in Worker : BootRefused(w)
  BY <1>6, BootRefusedShown
<1>7. ASSUME NEW w \in Worker, ClaimLease(w) \/ Discovered(w) \/ EndCycle(w) PROVE Shown
  BY <1>1, <1>7 DEF ClaimLease, Discovered, EndCycle, rows
<1>8. CASE \E w \in Worker : Discover(w)
  BY <1>8, DiscoverShown
<1>9. CASE \E w \in Worker, e \in Event : ClaimNext(w, e)
  BY <1>9, ClaimNextShown
<1>10. CASE \E w \in Worker, outcome \in Outcomes : Complete(w, outcome)
  BY <1>10, CompleteShown
<1>11. CASE \E w \in Worker : Fail(w)
  BY <1>11, FailShown
<1>12. CASE \E w \in Worker : Crash(w)
  BY <1>12, CrashShown
<1>13. CASE \E v \in Version : LeaseExpires(v)
  BY <1>1, <1>13 DEF LeaseExpires, rows
<1>14. CASE \E v \in Version, e \in Event : ClaimExpires(v, e) \/ RetryFallsDue(v, e)
  BY <1>1, <1>14 DEF ClaimExpires, RetryFallsDue, rows
<1>15. CASE \E v \in Version, e \in Event : Redrive(v, e)
  BY <1>15, RedriveShown
<1> QED
  BY <1>2, <1>3, <1>4, <1>5, <1>6, <1>7, <1>8, <1>9, <1>10, <1>11, <1>12, <1>13, <1>14,
     <1>15 DEF Next

\* Every step of the bus, with its leases, take-overs, crashes, retries and three-read
\* bootstraps, is one step of the lines or none.
THEOREM KeepsDelivery == Spec => ImplementsDelivery
<1>1. Init => Seen /\ Delivery!Init
  BY InitShown
<1>2. Seen /\ [Next]_vars => Seen'
  BY SeenNext
<1>3. Seen /\ [Next]_vars => [Delivery!Next]_(Delivery!delivery)
  BY NextShown DEF Shown
<1> QED
  BY <1>1, <1>2, <1>3, PTL DEF Spec, ImplementsDelivery, Delivery!Spec
=============================================================================
