---------------------------- MODULE CopilotTurns ----------------------------
(***************************************************************************)
(* The durable turns of one Copilot session.  A chat request is accepted   *)
(* in order; the oldest turn without a verdict gets a pg-boss job, a       *)
(* delivery of that job runs the model at most once behind a fence, the    *)
(* outcome is committed as a marker and then projected as the verdict the  *)
(* learner sees, and the verdict lets the next turn go.  Two advisory      *)
(* locks order this: the dispatch lock of a turn (start, fence, Stop,      *)
(* loss) and its settlement lock (marker, verdict).  Deliveries that       *)
(* outlived their heartbeat, Stop and the reconciling sweep all race.      *)
(***************************************************************************)
EXTENDS Naturals, Sequences

CONSTANTS
  MaxTurn,    \* bound: turns accepted in the session
  Crisis,     \* turns answered by the crisis template
  Worker,     \* handler invocations at a time
  Retries,    \* retryLimit of the queue
  MaxFaults   \* bound: crashes, missed heartbeats, failed statements

Turn == 1..MaxTurn
NoTurn == 0

ASSUME BoundAssumption == MaxTurn \in Nat /\ Retries \in Nat /\ MaxFaults \in Nat
ASSUME CrisisAssumption == Crisis \subseteq Turn

VARIABLES
  accepted,   \* number of QUEUED turns, in dispatch_seq order
  row,        \* the job_events and the reply event of each turn
  job,        \* its pg-boss job
  tries,      \* deliveries of that job so far
  paid,       \* history: executions that may have called the model
  worker,     \* what each handler invocation holds
  sweep,      \* what the reconciling sweep holds
  wake,       \* a Stop has committed and has not yet woken the session
  faults

vars == <<accepted, row, job, tries, paid, worker, sweep, wake, faults>>

NoMarker == "none"
Outcomes == {"done", "exhausted", "cancelled", "ambiguous", "lost"}
\* stoppedLate: the frame of "stopped", where the fence was there before it
Verdicts == Outcomes \cup {"stopped", "stoppedLate"}
LiveJob == {"created", "retry", "active"}
JobStates == LiveJob \cup {"none", "over"}

Row == [dispatched : BOOLEAN, started : BOOLEAN, fence : BOOLEAN, cancel : BOOLEAN,
        expired : BOOLEAN, marker : Outcomes \cup {NoMarker}, verdicts : Seq(Verdicts)]

Steps == {"idle", "replay", "reply", "crisis", "template", "start", "gate", "claim", "pay",
          "wait", "settle", "project", "wake", "ack"}
\* fenced: the fence as the replay saw it; held: pg-boss still counts this delivery;
\* threw: the handler will end with an error
Delivery == [pc : Steps, turn : Turn \cup {NoTurn}, fenced : BOOLEAN, held : BOOLEAN,
             threw : BOOLEAN, intent : Outcomes \cup {NoMarker}]
Free == [pc |-> "idle", turn |-> NoTurn, fenced |-> FALSE, held |-> FALSE,
         threw |-> FALSE, intent |-> NoMarker]

SweepSteps == {"next", "dispatch", "optimistic", "lock", "decide",
               "settle", "project", "wake"}
Evidence == {"untouched", "settling", "expired"}
\* turn: the candidate at hand, or the last one; saw: what the log said of it under the lock
Sweep == [pc : SweepSteps, turn : Turn \cup {NoTurn}, saw : Evidence]
Rest == [pc |-> "next", turn |-> NoTurn, saw |-> "untouched"]

\* One type invariant for the rows, the jobs, the deliveries and the sweep.
TypeOK ==
  /\ accepted \in 0..MaxTurn
  /\ row \in [Turn -> Row]
  /\ job \in [Turn -> JobStates]
  /\ tries \in [Turn -> 0..Retries + 1]
  /\ paid \in [Turn -> Nat]
  /\ worker \in [Worker -> Delivery]
  /\ sweep \in Sweep
  /\ wake \in BOOLEAN
  /\ faults \in 0..MaxFaults

Blank == [dispatched |-> FALSE, started |-> FALSE, fence |-> FALSE, cancel |-> FALSE,
          expired |-> FALSE, marker |-> NoMarker, verdicts |-> <<>>]

Init ==
  /\ accepted = 0
  /\ row = [t \in Turn |-> Blank]
  /\ job = [t \in Turn |-> "none"]
  /\ tries = [t \in Turn |-> 0]
  /\ paid = [t \in Turn |-> 0]
  /\ worker = [w \in Worker |-> Free]
  /\ sweep = Rest
  /\ wake = FALSE
  /\ faults = 0

Fault == faults < MaxFaults /\ faults' = faults + 1

---------------------------------------------------------------------------
(* The session queue *)

Open(r) == r.verdicts = <<>>

\* Mutant: the head is the oldest turn that was never dispatched.
SessionHeadNew(n, rows) == {t \in 1..n : /\ ~rows[t].dispatched /\ Open(rows[t])
                                           /\ \A u \in 1..(t - 1) : rows[u].dispatched}

\* The oldest accepted turn without a verdict.
SessionHead(n, rows) == {t \in 1..n : Open(rows[t]) /\ \A u \in 1..(t - 1) : ~Open(rows[u])}

\* Under the session lock: the physical job and DISPATCHED of the head commit together.
DispatchHead(n, rows) ==
  LET sent == {t \in SessionHead(n, rows) : ~rows[t].dispatched}
  IN /\ row' = [t \in Turn |-> [rows[t] EXCEPT !.dispatched = @ \/ t \in sent]]
     /\ job' = [t \in Turn |-> IF t \in sent THEN "created" ELSE job[t]]

\* The ask and QUEUED commit together with the dispatch of the session's head.
Accept ==
  /\ accepted < MaxTurn
  /\ accepted' = accepted + 1
  /\ DispatchHead(accepted + 1, row)
  /\ UNCHANGED <<tries, paid, worker, sweep, wake, faults>>

---------------------------------------------------------------------------
(* What the transactions write into a turn's row *)

\* The turn's dispatch lock is not held by the sweep or by a start gate.
Unlocked(t) ==
  /\ ~(sweep.pc = "decide" /\ sweep.turn = t)
  /\ \A w \in Worker : ~(worker[w].pc = "gate" /\ worker[w].turn = t)

\* Its settlement lock is not held by a crisis answer, the one settlement transaction that
\* another one without this lock can overtake; the others are one step each.
Unsettling(t) == \A w \in Worker : ~(worker[w].pc = "template" /\ worker[w].turn = t)

\* The closing marker once per run, then FAILED(cancelled_before_start).
Stopped(r) == [r EXCEPT !.marker = IF @ = NoMarker THEN "cancelled" ELSE @,
                        !.verdicts = Append(@, IF r.fence THEN "stoppedLate" ELSE "stopped")]

\* Mutant: an outcome that a Stop overtook is dropped.
MarkedDropped(r, intent) ==
  IF ~Open(r) \/ r.marker # NoMarker \/ (r.cancel /\ intent \in {"done", "exhausted"})
    THEN r
  ELSE [r EXCEPT !.marker = intent]

\* Under the settlement lock: a verdict or a marker that is there stays; a Stop that
\* committed first turns the owner's outcome into a cancellation.
Marked(r, intent) ==
  IF ~Open(r) \/ r.marker # NoMarker THEN r
  ELSE [r EXCEPT !.marker = IF r.cancel /\ intent \in {"done", "exhausted"}
                              THEN "cancelled" ELSE intent]

\* Mutant: the projection does not look for a verdict under the lock.
ProjectedAgain(r) == [r EXCEPT !.verdicts = Append(@, r.marker)]

\* Under the settlement lock: project the marker that won, unless a verdict is there.
Projected(r) == IF Open(r) THEN [r EXCEPT !.verdicts = Append(@, r.marker)] ELSE r

\* The sweep's marker and FAILED(pre_execution_lost).
Lost(r) == [r EXCEPT !.marker = "lost", !.verdicts = Append(@, "lost")]

\* Mutant: a second delivery may pass the fence.
ClaimableAgain(r) == Open(r) /\ ~r.cancel

\* The paid execution may begin.
Claimable(r) == Open(r) /\ ~r.fence /\ ~r.cancel

---------------------------------------------------------------------------
(* A delivery of a turn's job *)

At(w, pc) == worker[w].pc = pc
Of(w) == worker[w].turn
Mine(w) == row[Of(w)]
Goto(w, pc) == worker' = [worker EXCEPT ![w].pc = pc,
                                        ![w].intent = IF pc = "wake" THEN NoMarker ELSE @]
Keep == UNCHANGED <<accepted, tries, paid, sweep, wake, faults>>

\* pg-boss hands a created or retried job to a free handler.
Pickup(w, t) ==
  /\ At(w, "idle") /\ job[t] \in {"created", "retry"}
  /\ job' = [job EXCEPT ![t] = "active"]
  /\ tries' = [tries EXCEPT ![t] = @ + 1]
  /\ worker' = [worker EXCEPT ![w] = [Free EXCEPT !.pc = "replay", !.turn = t, !.held = TRUE]]
  /\ UNCHANGED <<accepted, row, paid, sweep, wake, faults>>

\* Replay the events: a verdict ends the delivery; the fence is remembered.
Replay(w) ==
  /\ At(w, "replay")
  /\ worker' = [worker EXCEPT ![w].fenced = Mine(w).fence,
                              ![w].pc = IF Open(Mine(w)) THEN "reply" ELSE "wake"]
  /\ UNCHANGED <<row, job>> /\ Keep

\* Then read the marker: repair it, answer a crisis, wait for or give up on the owner
\* of the fence the replay saw, or start.
ReadReply(w) ==
  /\ At(w, "reply")
  /\ LET lost == /\ worker[w].fenced /\ Mine(w).expired
                 /\ Mine(w).marker = NoMarker /\ Of(w) \notin Crisis
     IN worker' = [worker EXCEPT
          ![w].pc = IF Mine(w).marker # NoMarker THEN "project"
                    ELSE IF Of(w) \in Crisis THEN "crisis"
                    ELSE IF lost THEN "settle"
                    ELSE IF worker[w].fenced THEN "wait" ELSE "start",
          ![w].fenced = FALSE, ![w].intent = IF lost THEN "ambiguous" ELSE @]
  /\ UNCHANGED <<row, job>> /\ Keep

\* A crisis is answered under the settlement lock alone: the read, then marker and DONE.
CrisisLocks(w) ==
  /\ At(w, "crisis") /\ Unsettling(Of(w))
  /\ Goto(w, IF Open(Mine(w)) THEN "template" ELSE "wake")
  /\ UNCHANGED <<row, job>> /\ Keep

CrisisReply(w) ==
  /\ At(w, "template")
  /\ row' = [row EXCEPT ![Of(w)].marker = "done", ![Of(w)].verdicts = Append(@, "done")]
  /\ Goto(w, "wake")
  /\ UNCHANGED job /\ Keep

\* Under the dispatch lock: STARTED, or the end of a turn with a verdict, or the gate of
\* a turn whose Stop it sees.
MarkStarted(w) ==
  /\ At(w, "start") /\ Unlocked(Of(w))
  /\ LET r == Mine(w)
     IN /\ Goto(w, IF ~Open(r) THEN "wake" ELSE IF r.cancel THEN "gate" ELSE "claim")
        /\ row' = [row EXCEPT ![Of(w)].started = @ \/ (Open(r) /\ ~r.cancel)]
  /\ UNCHANGED job /\ Keep

\* The gate takes the settlement lock after its read and writes without another.
StartGate(w) ==
  /\ At(w, "gate") /\ Unsettling(Of(w))
  /\ row' = [row EXCEPT ![Of(w)] = Stopped(@)]
  /\ Goto(w, "wake")
  /\ UNCHANGED job /\ Keep

\* Under the dispatch lock: the one execution of the turn, or what forbids it.  A Stop
\* before the fence always brought its verdict with it.
ClaimFence(w) ==
  /\ At(w, "claim") /\ Unlocked(Of(w))
  /\ LET r == Mine(w)  claims == Claimable(r)
     IN /\ row' = [row EXCEPT ![Of(w)].fence = @ \/ claims,
                              ![Of(w)].expired = @ /\ ~claims]
        /\ paid' = [paid EXCEPT ![Of(w)] = IF claims THEN @ + 1 ELSE @]
        /\ Goto(w, IF claims THEN "pay" ELSE IF Open(r) /\ r.fence THEN "wait" ELSE "wake")
  /\ UNCHANGED <<accepted, job, tries, sweep, wake, faults>>

\* The model and its tools return; a Stop the last probe sees is settled as cancelled, or
\* as ambiguous when a tool did not drain.
Finish(w) ==
  /\ At(w, "pay")
  /\ \E intent \in IF Mine(w).cancel THEN {"cancelled", "ambiguous"}
                                     ELSE {"done", "exhausted"} :
       worker' = [worker EXCEPT ![w].pc = "settle", ![w].intent = intent]
  /\ UNCHANGED <<row, job>> /\ Keep

\* A delivery that lost the fence comes back when there is a verdict or the owner is late.
Resume(w) ==
  /\ At(w, "wait") /\ (~Open(Mine(w)) \/ Mine(w).expired)
  /\ Goto(w, "replay")
  /\ UNCHANGED <<row, job>> /\ Keep

\* The marker commits before the verdict is projected.
Settle(w) ==
  /\ At(w, "settle") /\ Unsettling(Of(w))
  /\ row' = [row EXCEPT ![Of(w)] = Marked(@, worker[w].intent)]
  /\ Goto(w, IF Open(Mine(w)) THEN "project" ELSE "wake")
  /\ UNCHANGED job /\ Keep

Project(w) ==
  /\ At(w, "project") /\ Unsettling(Of(w))
  /\ row' = [row EXCEPT ![Of(w)] = Projected(@)]
  /\ Goto(w, "wake")
  /\ UNCHANGED job /\ Keep

\* However the turn ended, a verdict wakes the session.
WakeSession(w) ==
  /\ At(w, "wake")
  /\ IF Open(Mine(w)) THEN UNCHANGED <<row, job>> ELSE DispatchHead(accepted, row)
  /\ Goto(w, "ack")
  /\ Keep

\* A job that ends in an error, or without a heartbeat, is retried while it may be.
Failed(t) == IF tries[t] <= Retries THEN "retry" ELSE "over"

\* The handler returns or throws; pg-boss completes or fails the job if it is active,
\* whoever's delivery that is.
Acknowledge(w) ==
  /\ At(w, "ack")
  /\ job' = [job EXCEPT ![Of(w)] =
               IF @ # "active" THEN @ ELSE IF worker[w].threw THEN Failed(Of(w)) ELSE "over"]
  /\ worker' = [worker EXCEPT ![w] = Free]
  /\ UNCHANGED row /\ Keep

---------------------------------------------------------------------------
(* Stop, and the reconciling sweep *)

\* Stop, under both locks: nothing when the turn is settled or marked, a request when the
\* fence is there, the request and the verdict when it is not.
Stop(t) ==
  /\ t <= accepted /\ Unlocked(t) /\ Unsettling(t)
  /\ LET r == [row[t] EXCEPT !.cancel = TRUE]
         settled == ~Open(row[t]) \/ row[t].marker # NoMarker
     IN /\ row' = [row EXCEPT ![t] = IF settled THEN @ ELSE IF @.fence THEN r ELSE Stopped(r)]
        /\ wake' = (wake \/ settled \/ ~row[t].fence)
  /\ UNCHANGED <<accepted, job, tries, paid, worker, sweep, faults>>

\* After its commit Stop wakes the session; a failure is swallowed.
StopWakes ==
  /\ wake /\ wake' = FALSE
  /\ DispatchHead(accepted, row)
  /\ UNCHANGED <<accepted, tries, paid, worker, sweep, faults>>

StopWakeFails ==
  /\ wake /\ wake' = FALSE /\ Fault
  /\ UNCHANGED <<accepted, row, job, tries, paid, worker, sweep>>

KeepRest == UNCHANGED <<accepted, tries, paid, worker, wake, faults>>

\* Mutant: the sweep looks only at turns that were dispatched.
CandidatesDispatched == {t \in 1..accepted : Open(row[t]) /\ row[t].dispatched}

\* Accepted turns without a verdict.
Candidates == {t \in 1..accepted : Open(row[t])}

\* The candidates in order, each looked at again when its turn comes; one that was not
\* dispatched is only dispatched.  After the last one the sweep ends.
SweepNext ==
  /\ sweep.pc = "next"
  /\ LET ahead == {t \in Candidates : t > sweep.turn}
     IN IF ahead = {} THEN sweep.turn # NoTurn /\ sweep' = Rest
        ELSE \E t \in ahead :
               /\ \A u \in ahead : t <= u
               /\ sweep' = [Rest EXCEPT !.turn = t, !.pc = IF row[t].dispatched
                                                           THEN "optimistic" ELSE "dispatch"]
  /\ UNCHANGED <<row, job>> /\ KeepRest

SweepGoto(pc) == sweep' = [sweep EXCEPT !.pc = pc, !.saw = "untouched"]

SweepDispatch ==
  /\ sweep.pc \in {"dispatch", "wake"}
  /\ DispatchHead(accepted, row)
  /\ SweepGoto("next")
  /\ KeepRest

\* The marker without a lock: if it is there, project it.
SweepReads ==
  /\ sweep.pc = "optimistic"
  /\ SweepGoto(IF row[sweep.turn].marker # NoMarker THEN "project" ELSE "lock")
  /\ UNCHANGED <<row, job>> /\ KeepRest

\* What the log says of a touched turn: the fence, or else the start, and its age.
EvidenceOf(r) == IF ~r.fence /\ ~r.started THEN "untouched"
                 ELSE IF r.expired THEN "expired" ELSE "settling"

\* Under the dispatch lock: a verdict, a marker, or the evidence to decide on.
SweepLocks ==
  /\ sweep.pc = "lock" /\ Unlocked(sweep.turn)
  /\ LET r == row[sweep.turn]
     IN sweep' = [sweep EXCEPT
          !.pc = IF ~Open(r) THEN "wake"
                 ELSE IF r.marker # NoMarker THEN "project" ELSE "decide",
          !.saw = IF Open(r) /\ r.marker = NoMarker THEN EvidenceOf(r) ELSE "untouched"]
  /\ UNCHANGED <<row, job>> /\ KeepRest

\* Still under that lock: nothing while the job lives or the owner may; ambiguous when the
\* owner is late; marker and FAILED(pre_execution_lost) when no delivery ever started.
SweepDecides ==
  /\ sweep.pc = "decide"
  /\ LET t == sweep.turn
         live == job[t] \in LiveJob
         loses == ~live /\ sweep.saw = "untouched"
     IN /\ row' = IF loses THEN [row EXCEPT ![t] = Lost(@)] ELSE row
        /\ SweepGoto(IF loses THEN "wake"
                     ELSE IF ~live /\ sweep.saw = "expired" THEN "settle" ELSE "next")
  /\ UNCHANGED job /\ KeepRest

SweepSettles ==
  /\ sweep.pc = "settle" /\ Unsettling(sweep.turn)
  /\ row' = [row EXCEPT ![sweep.turn] = Marked(@, "ambiguous")]
  /\ SweepGoto(IF Open(row[sweep.turn]) THEN "project" ELSE "wake")
  /\ UNCHANGED job /\ KeepRest

SweepProjects ==
  /\ sweep.pc = "project" /\ Unsettling(sweep.turn)
  /\ row' = [row EXCEPT ![sweep.turn] = Projected(@)]
  /\ SweepGoto("wake")
  /\ UNCHANGED job /\ KeepRest

---------------------------------------------------------------------------
(* Time and faults *)

\* The owner's budget runs out after the fence, or after the start when there is none.
DeadlinePasses(t) ==
  /\ Open(row[t]) /\ (row[t].started \/ row[t].fence) /\ ~row[t].expired
  /\ row' = [row EXCEPT ![t].expired = TRUE]
  /\ UNCHANGED job /\ Keep /\ UNCHANGED worker

\* pg-boss fails an active job whose delivery is gone.
Expire(t) ==
  /\ job[t] = "active"
  /\ \A w \in Worker : ~(Of(w) = t /\ worker[w].held)
  /\ job' = [job EXCEPT ![t] = Failed(t)]
  /\ UNCHANGED row /\ Keep /\ UNCHANGED worker

\* A living delivery misses its heartbeat: the job is failed and the handler goes on.
HeartbeatMissed(w) ==
  /\ Fault /\ worker[w].held /\ job[Of(w)] = "active"
  /\ job' = [job EXCEPT ![Of(w)] = Failed(Of(w))]
  /\ worker' = [worker EXCEPT ![w].held = FALSE]
  /\ UNCHANGED <<accepted, row, tries, paid, sweep, wake>>

\* The job is cancelled or its row deleted; a handler that has it goes on.
JobLost(t) ==
  /\ Fault /\ job[t] \in LiveJob
  /\ job' = [job EXCEPT ![t] = "over"]
  /\ UNCHANGED <<accepted, row, tries, paid, worker, sweep, wake>>

Crash(w) ==
  /\ Fault /\ ~At(w, "idle")
  /\ worker' = [worker EXCEPT ![w] = Free]
  /\ UNCHANGED <<accepted, row, job, tries, paid, sweep, wake>>

\* A statement fails: the transaction rolls back and the handler ends with an error; a
\* failed wake is swallowed.  The execution itself turns an error into an outcome.
Throws(w) ==
  /\ Fault
  /\ worker[w].pc \in {"replay", "reply", "crisis", "template", "start", "gate", "claim",
                       "settle", "project", "wake"}
  /\ worker' = [worker EXCEPT ![w].pc = IF @ = "wake" THEN "ack" ELSE "wake",
                              ![w].threw = @ \/ ~At(w, "wake"),
                              ![w].fenced = FALSE, ![w].intent = NoMarker]
  /\ UNCHANGED <<accepted, row, job, tries, paid, sweep, wake>>

\* Only a confirmation turn settles a failed settlement again, as exhausted or, when its
\* last probe sees a Stop, as cancelled or ambiguous.
SettlesAgain(w) ==
  /\ Fault /\ worker[w].pc \in {"settle", "project"} /\ worker[w].intent = "done"
  /\ \E intent \in IF Mine(w).cancel THEN {"cancelled", "ambiguous"} ELSE {"exhausted"} :
       worker' = [worker EXCEPT ![w].pc = "settle", ![w].intent = intent]
  /\ UNCHANGED <<accepted, row, job, tries, paid, sweep, wake>>

\* A candidate's statement fails and the sweep goes on, or the sweep dies.
SweepFails ==
  /\ Fault /\ sweep.pc # "next"
  /\ \E last \in {NoTurn, sweep.turn} : sweep' = [Rest EXCEPT !.turn = last]
  /\ UNCHANGED <<accepted, row, job, tries, paid, worker, wake>>

---------------------------------------------------------------------------
Delivers(w) ==
  \/ Replay(w) \/ ReadReply(w) \/ CrisisLocks(w) \/ CrisisReply(w) \/ MarkStarted(w)
  \/ StartGate(w) \/ ClaimFence(w) \/ Finish(w) \/ Resume(w) \/ Settle(w) \/ Project(w)
  \/ WakeSession(w) \/ Acknowledge(w)

Sweeps ==
  \/ SweepNext \/ SweepDispatch \/ SweepReads \/ SweepLocks
  \/ SweepDecides \/ SweepSettles \/ SweepProjects

Next ==
  \/ Accept \/ Sweeps \/ StopWakes \/ StopWakeFails \/ SweepFails
  \/ \E t \in Turn : Stop(t) \/ DeadlinePasses(t) \/ Expire(t) \/ JobLost(t)
  \/ \E w \in Worker : Delivers(w) \/ HeartbeatMissed(w) \/ Crash(w) \/ Throws(w)
                       \/ SettlesAgain(w)
  \/ \E w \in Worker, t \in Turn : Pickup(w, t)

\* The workers run and get the lock they wait for in turn, pg-boss delivers and expires,
\* time passes and the cron sweeps; nobody has to send, stop, or wake after a Stop.
Fairness ==
  /\ \A w \in Worker : SF_vars(Delivers(w))
  /\ WF_vars(\E t \in Turn : DeadlinePasses(t))
  /\ WF_vars(\E t \in Turn : Expire(t))
  /\ WF_vars(\E w \in Worker, t \in Turn : Pickup(w, t))
  /\ WF_vars(Sweeps)

Spec == Init /\ [][Next]_vars /\ Fairness

---------------------------------------------------------------------------
(* Properties *)

Said(t) == {row[t].verdicts[i] : i \in DOMAIN row[t].verdicts}

\* The known way round the start gate: a delivery that replayed before the fence reaches it
\* after a Stop that found the fence.
StoppedLate(t) == "stoppedLate" \in Said(t)

\* The known way round the dispatch lock: a crisis answer, which takes only the settlement
\* lock, commits while the sweep takes the turn for lost.
LostLate(t) == t \in Crisis /\ Said(t) = {"done", "lost"}

\* A turn gets one verdict, the one its marker says: the owner, a second delivery, Stop and
\* the sweep never tell the learner two things, but for the two ways above.
OneVerdict == \A t \in Turn : ~StoppedLate(t) /\ ~LostLate(t) =>
  /\ Len(row[t].verdicts) <= 1
  /\ ~Open(row[t]) => row[t].verdicts[1] \in {row[t].marker, "stopped"}

\* A turn is executed at most once, and never when the learner was told that the model was
\* not called, by the sweep or by a Stop that came before the fence.
ToldUnpaid == \A t \in Turn :
  /\ paid[t] <= 1
  /\ Said(t) \cap {"lost", "stopped"} # {} => paid[t] = 0

\* No turn has a job before every earlier turn of the session has its verdict.
OneTurnAtATime == \A t \in Turn : job[t] # "none" => \A u \in 1..(t - 1) : ~Open(row[u])

Waiting == \E t \in 1..accepted : Open(row[t])

\* The session never stays stuck: as long as a turn waits for its verdict, the deliveries,
\* the wakes and the sweep bring it, whatever single fault they meet.
EventuallySettled == Waiting ~> ~Waiting
=============================================================================
