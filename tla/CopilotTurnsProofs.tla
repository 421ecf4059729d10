------------------------- MODULE CopilotTurnsProofs -------------------------
(***************************************************************************)
(* Proofs about CopilotTurns, for every number of turns, workers, retries  *)
(* and faults and every choice of crisis turns.                            *)
(***************************************************************************)
EXTENDS CopilotTurns, SequenceTheorems, TLAPS

USE DEF NoTurn, NoMarker

---------------------------------------------------------------------------
(* The inductive invariant, in parts *)

Says(r) == {r.verdicts[i] : i \in DOMAIN r.verdicts}

\* A crisis turn runs nothing, is marked exactly when it has a verdict, and has two only
\* when the sweep and its answer overtook each other.
CrisisFits(r) ==
  /\ ~r.fence /\ ~r.started
  /\ r.marker = NoMarker <=> Open(r)
  /\ r.verdicts \in {<<>>, <<"done">>, <<"lost">>, <<"stopped">>,
                     <<"done", "lost">>, <<"lost", "done">>}
  /\ r.verdicts = <<"done">> => r.marker = "done"
  /\ r.verdicts = <<"lost">> => r.marker = "lost"

\* A turn with n executions: none without the fence, a Stop of an open turn only behind
\* it, no "not called" verdict beside it, and one verdict unless a late gate added one.
RowFits(t, r, n) ==
  /\ n <= 1 /\ (~r.fence => n = 0)
  /\ r.cancel /\ Open(r) => r.fence
  /\ r.marker = "lost" => ~Open(r)
  /\ r.fence => "stopped" \notin Says(r) /\ "lost" \notin Says(r)
  /\ t \in Crisis => CrisisFits(r)
  /\ t \notin Crisis =>
       r.verdicts \in {<<>>, <<r.marker>>, <<"stopped">>} \/ "stoppedLate" \in Says(r)

\* What a delivery at a step knows of the row of its turn.
DeliveryFits(d, rows) ==
  /\ d.pc # "idle" => d.turn \in Turn
  /\ d.held => d.turn \in Turn
  /\ d.fenced => d.turn \in Turn /\ rows[d.turn].fence
  /\ d.intent # NoMarker =>
       /\ d.turn \in Turn /\ d.turn \notin Crisis /\ rows[d.turn].fence /\ d.intent # "lost"
  /\ d.pc = "settle" => d.intent # NoMarker
  /\ d.pc = "project" => rows[d.turn].marker # NoMarker
  /\ d.pc \in {"gate", "pay", "wait"} => rows[d.turn].fence
  /\ d.pc \in {"start", "gate", "claim", "pay", "wait"} => d.turn \notin Crisis
  /\ d.pc \in {"crisis", "template"} => d.turn \in Crisis

\* The sweep may still take the turn for lost.
Losable(t, r) ==
  /\ ~r.fence
  /\ t \in Crisis => r.verdicts \in {<<>>, <<"done">>}
  /\ t \notin Crisis => Open(r) /\ r.marker = NoMarker

SweepFits(s, rows) ==
  /\ s.pc # "next" => s.turn \in Turn
  /\ s.pc = "project" => rows[s.turn].marker # NoMarker
  /\ s.turn \in Crisis => s.pc # "settle" /\ s.saw = "untouched"
  /\ s.pc = "decide" /\ s.saw = "untouched" => Losable(s.turn, rows[s.turn])

\* One crisis answer of a turn at a time, before any verdict but the sweep's.
Answering == \A w \in Worker : At(w, "template") =>
  /\ Mine(w).verdicts \in {<<>>, <<"lost">>}
  /\ \A v \in Worker : At(v, "template") /\ Of(v) = Of(w) => v = w

\* A job that will be delivered has a delivery left.
TriesLeft == \A t \in Turn :
  /\ job[t] # "none" => row[t].dispatched
  /\ ~row[t].dispatched => tries[t] = 0
  /\ job[t] \in {"created", "retry"} => tries[t] <= Retries

Queued == TriesLeft /\ OneTurnAtATime

RowsFit == \A t \in Turn : RowFits(t, row[t], paid[t])
DeliveriesFit == \A w \in Worker : DeliveryFits(worker[w], row)
SweepFit == SweepFits(sweep, row)

Inv ==
  /\ TypeOK
  /\ RowsFit
  /\ DeliveriesFit
  /\ SweepFit
  /\ Answering
  /\ Queued

---------------------------------------------------------------------------
(* Verdict sequences and edits of a row *)

LEMMA Appended ==
  ASSUME NEW S, NEW s \in Seq(S), NEW v \in S
  PROVE  Append(s, v) \in Seq(S) /\ Append(s, v) # <<>>
BY AppendProperties

LEMMA TwoVerdicts ==
  ASSUME NEW a \in Verdicts, NEW b \in Verdicts
  PROVE  Append(<<a>>, b) = <<a, b>>
<1>1. <<a>> \in Seq(Verdicts) /\ Len(<<a>>) = 1 /\ <<a>>[1] = a
  OBVIOUS
<1>2. <<a, b>> \in Seq(Verdicts) /\ Len(<<a, b>>) = 2 /\ <<a, b>>[1] = a /\ <<a, b>>[2] = b
  OBVIOUS
<1>3. /\ Append(<<a>>, b) \in Seq(Verdicts)
      /\ Len(Append(<<a>>, b)) = 2
      /\ Append(<<a>>, b)[1] = a /\ Append(<<a>>, b)[2] = b
  BY <1>1, AppendProperties
<1> DEFINE s == Append(<<a>>, b)
           u == <<a, b>>
<1>4. Len(s) = Len(u) /\ s \in Seq(Verdicts) /\ u \in Seq(Verdicts)
  BY <1>2, <1>3
<1>5. \A i \in 1..2 : s[i] = u[i]
  BY <1>2, <1>3
<1>6. Len(s) = 2
  BY <1>3
<1> HIDE DEF s, u
<1>7. s = u
  BY <1>4, <1>5, <1>6, SeqEqual
<1> QED
  BY <1>7 DEF s, u

LEMMA SaysAppended ==
  ASSUME NEW r, r.verdicts \in Seq(Verdicts), NEW v \in Verdicts,
         NEW x, x.verdicts = Append(r.verdicts, v)
  PROVE  Says(x) = Says(r) \cup {v}
<1> DEFINE s == r.verdicts
           y == x.verdicts
<1>1. s \in Seq(Verdicts) /\ y = Append(s, v)
  OBVIOUS
<1> HIDE DEF s, y
<1>2. /\ y \in Seq(Verdicts)
      /\ Len(y) = Len(s) + 1
      /\ \A i \in 1..Len(s) : y[i] = s[i]
      /\ y[Len(s) + 1] = v
  BY <1>1, AppendProperties
<1>3. Len(s) \in Nat /\ DOMAIN s = 1..Len(s) /\ DOMAIN y = 1..(Len(s) + 1)
  BY <1>1, <1>2, LenProperties
<1>4. \A i \in DOMAIN y : i \in DOMAIN s \/ i = Len(s) + 1
  BY <1>3
<1>5. \A i \in DOMAIN s : i \in DOMAIN y
  BY <1>3
<1>6. Len(s) + 1 \in DOMAIN y
  BY <1>3
<1>7. {y[i] : i \in DOMAIN y} = {s[i] : i \in DOMAIN s} \cup {v}
  BY <1>2, <1>3, <1>4, <1>5, <1>6
<1> QED
  BY <1>7 DEF Says, s, y

LEMMA SaysOne == \A r, v : r.verdicts = <<v>> => Says(r) = {v}
BY DEF Says

LEMMA SaysNothing == \A r : Open(r) => Says(r) = {}
BY DEF Says, Open

\* An edit takes back no dispatch, verdict, fence or marker.
Kept(r, x) ==
  /\ r.dispatched => x.dispatched
  /\ ~Open(r) => ~Open(x)
  /\ r.fence => x.fence
  /\ r.marker # NoMarker => x.marker # NoMarker

\* An edit leaves alone all that the invariant looks at.
Same(r, x) ==
  /\ x.verdicts = r.verdicts /\ x.fence = r.fence /\ x.started = r.started
  /\ x.cancel = r.cancel /\ x.marker = r.marker

LEMMA SameFits ==
  ASSUME NEW t \in Turn, NEW r \in Row, NEW x \in Row, NEW n, Same(r, x), RowFits(t, r, n)
  PROVE  RowFits(t, x, n)
BY DEF Same, RowFits, CrisisFits, Says, Open

LEMMA SameLosable ==
  ASSUME NEW t, NEW r, NEW x, Same(r, x), Losable(t, r)
  PROVE  Losable(t, x)
BY DEF Same, Losable, Open

LEMMA MarkedFits ==
  ASSUME NEW t \in Turn, t \notin Crisis, NEW r \in Row, NEW intent \in Outcomes,
         intent # "lost", NEW n, RowFits(t, r, n)
  PROVE  /\ Marked(r, intent) \in Row
         /\ Kept(r, Marked(r, intent))
         /\ RowFits(t, Marked(r, intent), n)
         /\ Marked(r, intent).verdicts = r.verdicts
         /\ Open(r) => Marked(r, intent).marker # NoMarker
<1> DEFINE x == Marked(r, intent)
<1>1. /\ x \in Row
      /\ x.verdicts = r.verdicts /\ x.fence = r.fence /\ x.dispatched = r.dispatched
      /\ x.cancel = r.cancel /\ x.started = r.started
      /\ Open(r) => x.marker # NoMarker
      /\ r.marker # NoMarker \/ ~Open(r) => x = r
      /\ x.marker \in {r.marker, intent, "cancelled"}
  BY DEF Marked, Row, Outcomes, Verdicts, Open
<1>2. CASE x = r
  BY <1>1, <1>2 DEF Kept
<1>3. CASE Open(r) /\ r.marker = NoMarker
  <2>1. x.verdicts = <<>> /\ Says(x) = {}
    BY <1>1, <1>3, SaysNothing DEF Open
  <2>2. x.marker # "lost"
    BY <1>1, <1>3
  <2> HIDE DEF x
  <2>3. RowFits(t, x, n)
    BY <1>1, <1>3, <2>1, <2>2 DEF RowFits, Open
  <2>4. Kept(r, x)
    BY <1>1, <1>3 DEF Kept, Open
  <2> QED BY <1>1, <2>3, <2>4 DEF x
<1> QED
  BY <1>1, <1>2, <1>3

LEMMA ProjectedFits ==
  ASSUME NEW t \in Turn, NEW r \in Row, r.marker # NoMarker, NEW n, RowFits(t, r, n)
  PROVE  /\ Projected(r) \in Row
         /\ Kept(r, Projected(r))
         /\ RowFits(t, Projected(r), n)
         /\ t \in Crisis => Projected(r) = r
         /\ ~Open(Projected(r))
<1> DEFINE x == Projected(r)
<1>1. CASE ~Open(r)
  BY <1>1 DEF Projected, Kept
<1>2. CASE Open(r)
  <2>1. t \notin Crisis
    BY <1>2 DEF RowFits, CrisisFits
  <2>2. x = [r EXCEPT !.verdicts = Append(@, r.marker)] /\ r.verdicts = <<>>
    BY <1>2 DEF Projected, Open
  <2>3. r.marker \in Outcomes /\ r.marker \in Verdicts /\ r.verdicts \in Seq(Verdicts)
    BY DEF Row, Outcomes, Verdicts
  <2>4. Append(r.verdicts, r.marker) \in Seq(Verdicts) /\ Append(r.verdicts, r.marker) # <<>>
        /\ Append(r.verdicts, r.marker) = <<r.marker>>
    BY <2>2, <2>3, Appended
  <2>5. /\ x \in Row /\ x.verdicts = <<r.marker>> /\ x.verdicts # <<>>
        /\ x.fence = r.fence /\ x.dispatched = r.dispatched /\ x.started = r.started
        /\ x.cancel = r.cancel /\ x.marker = r.marker
    BY <2>2, <2>4 DEF Row
  <2>6. Says(x) = {r.marker}
    BY <2>5, SaysOne
  <2>7. r.marker # "stopped" /\ r.marker # "lost"
    BY <1>2, <2>3 DEF Outcomes, RowFits
  <2> HIDE DEF x
  <2>8. RowFits(t, x, n)
    BY <1>2, <2>1, <2>5, <2>6, <2>7 DEF RowFits, Open
  <2>9. Kept(r, x) /\ ~Open(x)
    BY <2>5 DEF Kept, Open
  <2> QED BY <2>1, <2>5, <2>8, <2>9 DEF x
<1> QED
  BY <1>1, <1>2

\* A Stop before the fence.
LEMMA StoppedFits ==
  ASSUME NEW t \in Turn, NEW r \in Row, Open(r), r.marker = NoMarker, ~r.fence,
         NEW n, RowFits(t, r, n)
  PROVE  LET x == Stopped([r EXCEPT !.cancel = TRUE])
         IN  x \in Row /\ Kept(r, x) /\ RowFits(t, x, n)
<1> DEFINE x == Stopped([r EXCEPT !.cancel = TRUE])
<1>1. "stopped" \in Verdicts /\ r.verdicts \in Seq(Verdicts) /\ r.verdicts = <<>>
  BY DEF Verdicts, Row, Open
<1>2. Append(r.verdicts, "stopped") \in Seq(Verdicts) /\ Append(r.verdicts, "stopped") # <<>>
      /\ Append(r.verdicts, "stopped") = <<"stopped">>
  BY <1>1, Appended
<1>3. /\ x \in Row /\ x.verdicts = <<"stopped">> /\ x.verdicts # <<>>
      /\ x.fence = r.fence /\ x.dispatched = r.dispatched /\ x.started = r.started
      /\ x.marker = "cancelled"
  BY <1>2 DEF Stopped, Row, Outcomes
<1>4. Says(x) = {"stopped"} /\ ~Open(x)
  BY <1>3, SaysOne DEF Open
<1>5. x.verdicts # <<"done">> /\ x.verdicts # <<"lost">>
  BY <1>3
<1>6. t \in Crisis => CrisisFits(x)
  <2> HIDE DEF x
  <2> QED BY <1>3, <1>4, <1>5 DEF CrisisFits, RowFits
<1>7. RowFits(t, x, n)
  <2> HIDE DEF x
  <2> QED BY <1>3, <1>4, <1>6 DEF RowFits
<1> QED
  BY <1>3, <1>4, <1>7 DEF Kept

\* The start gate behind the fence.
LEMMA StoppedLateFits ==
  ASSUME NEW t \in Turn, t \notin Crisis, NEW r \in Row, r.fence, NEW n, RowFits(t, r, n)
  PROVE  Stopped(r) \in Row /\ Kept(r, Stopped(r)) /\ RowFits(t, Stopped(r), n)
<1> DEFINE x == Stopped(r)
<1>1. "stoppedLate" \in Verdicts /\ r.verdicts \in Seq(Verdicts)
  BY DEF Verdicts, Row
<1>2. /\ Append(r.verdicts, "stoppedLate") \in Seq(Verdicts)
      /\ Append(r.verdicts, "stoppedLate") # <<>>
  BY <1>1, Appended
<1>4. /\ x \in Row /\ x.verdicts = Append(r.verdicts, "stoppedLate")
      /\ x.fence = r.fence /\ x.dispatched = r.dispatched /\ x.started = r.started
      /\ x.cancel = r.cancel
      /\ x.marker = IF r.marker = NoMarker THEN "cancelled" ELSE r.marker
  BY <1>2 DEF Stopped, Row, Outcomes
<1>3. Says(x) = Says(r) \cup {"stoppedLate"}
  BY <1>1, <1>4, SaysAppended
<1>5. ~Open(x)
  BY <1>2, <1>4 DEF Open
<1> HIDE DEF x
<1>6. RowFits(t, x, n)
  BY <1>3, <1>4, <1>5 DEF RowFits
<1>7. x \in Row /\ Kept(r, x)
  BY <1>4, <1>5 DEF Kept
<1> QED
  BY <1>6, <1>7 DEF x

LEMMA LostFits ==
  ASSUME NEW t \in Turn, NEW r \in Row, Losable(t, r), NEW n, RowFits(t, r, n)
  PROVE  LET x == Lost(r)
         IN  /\ x \in Row /\ Kept(r, x) /\ RowFits(t, x, n)
             /\ Open(r) => x.verdicts = <<"lost">>
<1> DEFINE x == Lost(r)
<1>1. "lost" \in Verdicts /\ "lost" \in Outcomes /\ r.verdicts \in Seq(Verdicts)
  BY DEF Verdicts, Outcomes, Row
<1>2. Append(r.verdicts, "lost") \in Seq(Verdicts) /\ Append(r.verdicts, "lost") # <<>>
  BY <1>1, Appended
<1>3. /\ x \in Row /\ x.verdicts = Append(r.verdicts, "lost") /\ x.marker = "lost"
      /\ x.fence = r.fence /\ x.dispatched = r.dispatched /\ x.started = r.started
      /\ x.cancel = r.cancel
  BY <1>1, <1>2 DEF Lost, Row
<1>4. ~Open(x)
  BY <1>2, <1>3 DEF Open
<1> HIDE DEF x
<1>5. /\ r.verdicts = <<>> => x.verdicts = <<"lost">>
      /\ r.verdicts = <<"done">> => x.verdicts = <<"done", "lost">>
  <2>1. Append(<<"done">>, "lost") = <<"done", "lost">>
    BY TwoVerdicts DEF Verdicts, Outcomes
  <2>2. Append(<<>>, "lost") = <<"lost">>
    OBVIOUS
  <2> QED BY <1>3, <2>1, <2>2, Zenon
<1>6. t \in Crisis => CrisisFits(x)
  <2>1. ASSUME t \in Crisis PROVE r.verdicts = <<>> \/ r.verdicts = <<"done">>
    BY <2>1 DEF Losable
  <2>2. /\ <<"lost">> # <<"done">> /\ <<"done", "lost">> # <<"done">>
        /\ <<"done", "lost">> # <<"lost">>
    OBVIOUS
  <2> QED
    BY <1>3, <1>4, <1>5, <2>1, <2>2 DEF CrisisFits, RowFits
<1>7. RowFits(t, x, n)
  BY <1>3, <1>4, <1>5, <1>6 DEF RowFits, Losable, Open
<1>8. x \in Row /\ Kept(r, x) /\ (Open(r) => x.verdicts = <<"lost">>)
  BY <1>3, <1>4, <1>5 DEF Kept, Open
<1> QED
  BY <1>7, <1>8 DEF x

LEMMA AnsweredFits ==
  ASSUME NEW t \in Turn, t \in Crisis, NEW r \in Row, r.verdicts \in {<<>>, <<"lost">>},
         NEW n, RowFits(t, r, n)
  PROVE  LET x == [r EXCEPT !.marker = "done", !.verdicts = Append(@, "done")]
         IN  /\ x \in Row /\ Kept(r, x) /\ RowFits(t, x, n)
             /\ Losable(t, r) => Losable(t, x)
<1> DEFINE x == [r EXCEPT !.marker = "done", !.verdicts = Append(@, "done")]
<1>1. "done" \in Verdicts /\ "done" \in Outcomes /\ r.verdicts \in Seq(Verdicts)
  BY DEF Verdicts, Outcomes, Row
<1>2. Append(r.verdicts, "done") \in Seq(Verdicts) /\ Append(r.verdicts, "done") # <<>>
  BY <1>1, Appended
<1>3. /\ x \in Row /\ x.verdicts = Append(r.verdicts, "done") /\ x.marker = "done"
      /\ x.fence = r.fence /\ x.dispatched = r.dispatched /\ x.started = r.started
      /\ x.cancel = r.cancel
  BY <1>1, <1>2 DEF Row
<1>4. ~Open(x)
  BY <1>2, <1>3 DEF Open
<1> HIDE DEF x
<1>5. /\ r.verdicts = <<>> => x.verdicts = <<"done">>
      /\ r.verdicts = <<"lost">> => x.verdicts = <<"lost", "done">>
  <2>1. Append(<<"lost">>, "done") = <<"lost", "done">>
    BY TwoVerdicts DEF Verdicts, Outcomes
  <2>2. Append(<<>>, "done") = <<"done">>
    OBVIOUS
  <2> QED BY <1>3, <2>1, <2>2, Zenon
<1>6. CrisisFits(x)
  <2>1. /\ <<"lost">> # <<"done">> /\ <<"lost", "done">> # <<"done">>
        /\ <<"lost", "done">> # <<"lost">>
    OBVIOUS
  <2> QED
    BY <1>3, <1>4, <1>5, <2>1 DEF CrisisFits, RowFits
<1>7. RowFits(t, x, n)
  BY <1>3, <1>4, <1>6 DEF RowFits, CrisisFits
<1>8. Losable(t, r) => Losable(t, x)
  <2>1. <<"lost">> # <<"done">> /\ <<"lost">> # <<>>
    OBVIOUS
  <2> QED
    BY <1>3, <1>5, <2>1 DEF Losable
<1>9. x \in Row /\ Kept(r, x)
  BY <1>3, <1>4 DEF Kept
<1> QED
  BY <1>7, <1>8, <1>9 DEF x

---------------------------------------------------------------------------
(* What a step leaves true of the rest *)

KeptAll(rows, next) == \A t \in Turn : Kept(rows[t], next[t])

LEMMA DeliveryKept ==
  ASSUME NEW d \in Delivery, NEW rows, NEW next, KeptAll(rows, next), DeliveryFits(d, rows)
  PROVE  DeliveryFits(d, next)
BY DEF KeptAll, Kept, DeliveryFits

LEMMA SweepKept ==
  ASSUME NEW s \in Sweep, NEW rows, NEW next, KeptAll(rows, next), SweepFits(s, rows),
         s.pc = "decide" /\ Losable(s.turn, rows[s.turn]) => Losable(s.turn, next[s.turn])
  PROVE  SweepFits(s, next)
BY DEF KeptAll, Kept, SweepFits

\* A row is written: nothing that the jobs or the other turns rest on is taken back.
LEMMA RowWritten ==
  ASSUME TypeOK, RowsFit, Queued, NEW t \in Turn, NEW x \in Row,
         row' = [row EXCEPT ![t] = x], Kept(row[t], x), RowFits(t, x, paid'[t]),
         \A u \in Turn : u # t => paid'[u] = paid[u],
         UNCHANGED <<job, tries>>
  PROVE  /\ row' \in [Turn -> Row]
         /\ row'[t] = x /\ \A u \in Turn : u # t => row'[u] = row[u]
         /\ KeptAll(row, row')
         /\ RowsFit' /\ Queued'
<1>1. row \in [Turn -> Row]
  BY DEF TypeOK
<1>2. row' \in [Turn -> Row] /\ row'[t] = x /\ \A u \in Turn : u # t => row'[u] = row[u]
  BY <1>1
<1>3. KeptAll(row, row')
  BY <1>2 DEF KeptAll, Kept
<1>4. RowsFit'
  BY <1>2 DEF RowsFit
<1>5. \A u \in Turn : (row[u].dispatched => row'[u].dispatched) /\ (~Open(row[u]) => ~Open(row'[u]))
  BY <1>3 DEF KeptAll, Kept
<1>6. \A u \in Turn : \A v \in 1..(u - 1) : v \in Turn
  BY BoundAssumption DEF Turn
<1>7. TriesLeft'
  BY <1>5 DEF Queued, TriesLeft
<1>8. OneTurnAtATime'
  BY <1>5, <1>6 DEF Queued, OneTurnAtATime
<1> QED
  BY <1>2, <1>3, <1>4, <1>7, <1>8 DEF Queued

\* A job that is there moves on.
LEMMA JobMoved ==
  ASSUME TypeOK, Queued, NEW t \in Turn, NEW j \in JobStates, NEW n \in 0..(Retries + 1),
         job[t] # "none", job' = [job EXCEPT ![t] = j], tries' = [tries EXCEPT ![t] = n],
         j \in {"created", "retry"} => n <= Retries,
         row' = row
  PROVE  job' \in [Turn -> JobStates] /\ tries' \in [Turn -> 0..Retries + 1] /\ Queued'
<1>1. job \in [Turn -> JobStates] /\ tries \in [Turn -> 0..Retries + 1]
  BY DEF TypeOK
<1>2. row[t].dispatched
  BY DEF Queued, TriesLeft
<1>3. /\ job' \in [Turn -> JobStates] /\ tries' \in [Turn -> 0..Retries + 1]
      /\ job'[t] = j /\ tries'[t] = n
      /\ \A u \in Turn : u # t => job'[u] = job[u] /\ tries'[u] = tries[u]
  BY <1>1
<1>4. TriesLeft'
  BY <1>2, <1>3 DEF Queued, TriesLeft
<1>5. OneTurnAtATime'
  BY <1>3 DEF Queued, OneTurnAtATime
<1> QED
  BY <1>3, <1>4, <1>5 DEF Queued

\* One delivery moves.
LEMMA WorkerMoved ==
  ASSUME TypeOK, DeliveriesFit, NEW w \in Worker, NEW d \in Delivery,
         worker' = [worker EXCEPT ![w] = d], KeptAll(row, row'), DeliveryFits(d, row')
  PROVE  worker' \in [Worker -> Delivery] /\ DeliveriesFit'
<1>1. worker \in [Worker -> Delivery]
  BY DEF TypeOK
<1>2. /\ worker' \in [Worker -> Delivery] /\ worker'[w] = d
      /\ \A v \in Worker : v # w => worker'[v] = worker[v]
  BY <1>1
<1>3. ASSUME NEW v \in Worker PROVE DeliveryFits(worker'[v], row')
  <2>1. CASE v = w
    BY <1>2, <2>1
  <2>2. CASE v # w
    BY <1>1, <1>2, <2>2, DeliveryKept DEF DeliveriesFit
  <2> QED
    BY <2>1, <2>2
<1> QED
  BY <1>2, <1>3 DEF DeliveriesFit

LEMMA WorkersStay ==
  ASSUME TypeOK, DeliveriesFit, worker' = worker, KeptAll(row, row')
  PROVE  DeliveriesFit'
<1>1. ASSUME NEW v \in Worker PROVE DeliveryFits(worker'[v], row')
  BY DeliveryKept DEF DeliveriesFit, TypeOK
<1> QED
  BY <1>1 DEF DeliveriesFit

LEMMA SweepStays ==
  ASSUME TypeOK, SweepFit, sweep' = sweep, KeptAll(row, row'),
         sweep.pc = "decide" /\ Losable(sweep.turn, row[sweep.turn])
           => Losable(sweep.turn, row'[sweep.turn])
  PROVE  SweepFit'
BY SweepKept DEF SweepFit, TypeOK

\* No delivery begins a crisis answer, and no verdict reaches a turn that one is given to.
LEMMA AnsweringStays ==
  ASSUME TypeOK, Answering,
         \A v \in Worker : worker'[v].pc = "template" =>
           /\ worker'[v] = worker[v]
           /\ row'[Of(v)].verdicts \in {<<>>, <<"lost">>}
  PROVE  Answering'
BY DEF Answering, At, Of, Mine

LEMMA KeptSame == row' = row => KeptAll(row, row')
BY DEF KeptAll, Kept

\* A delivery steps without writing a row.
LEMMA DeliverySteps ==
  ASSUME Inv, NEW w \in Worker, NEW d \in Delivery,
         worker' = [worker EXCEPT ![w] = d],
         UNCHANGED <<accepted, row, paid, sweep, wake>>, faults' \in 0..MaxFaults,
         job' \in [Turn -> JobStates], tries' \in [Turn -> 0..Retries + 1], Queued',
         DeliveryFits(d, row),
         d.pc = "template" =>
           /\ row[d.turn].verdicts \in {<<>>, <<"lost">>}
           /\ \A v \in Worker : v # w /\ At(v, "template") => Of(v) # d.turn
  PROVE  Inv'
<1>1. row' = row /\ KeptAll(row, row')
  BY KeptSame
<1>2. TypeOK /\ RowsFit /\ DeliveriesFit /\ SweepFit /\ Answering
  BY DEF Inv
<1>3. worker' \in [Worker -> Delivery] /\ DeliveriesFit'
  BY <1>1, <1>2, WorkerMoved
<1>4. TypeOK'
  BY <1>2, <1>3 DEF TypeOK
<1>5. RowsFit'
  BY <1>2 DEF RowsFit
<1>6. SweepFit'
  BY <1>1, <1>2, SweepStays
<1>7. Answering'
  <2>1. worker'[w] = d /\ \A v \in Worker : v # w => worker'[v] = worker[v]
    BY <1>2 DEF TypeOK
  <2> QED
    BY <1>1, <1>2, <2>1 DEF Answering, At, Of, Mine
<1> QED
  BY <1>3, <1>4, <1>5, <1>6, <1>7 DEF Inv

\* A delivery steps and writes a row.
LEMMA DeliveryWrites ==
  ASSUME Inv, NEW w \in Worker, NEW d \in Delivery, NEW t \in Turn, NEW x \in Row,
         worker' = [worker EXCEPT ![w] = d], row' = [row EXCEPT ![t] = x],
         UNCHANGED <<accepted, job, tries, sweep, wake, faults>>,
         paid' \in [Turn -> Nat], \A u \in Turn : u # t => paid'[u] = paid[u],
         Kept(row[t], x), RowFits(t, x, paid'[t]),
         DeliveryFits(d, [row EXCEPT ![t] = x]), d.pc # "template",
         sweep.pc = "decide" /\ sweep.turn = t /\ Losable(t, row[t]) => Losable(t, x),
         \A v \in Worker : v # w /\ At(v, "template") /\ Of(v) = t
                             => x.verdicts \in {<<>>, <<"lost">>}
  PROVE  Inv'
<1>1. TypeOK /\ RowsFit /\ DeliveriesFit /\ SweepFit /\ Answering /\ Queued
  BY DEF Inv
<1>2. /\ row' \in [Turn -> Row]
      /\ row'[t] = x /\ \A u \in Turn : u # t => row'[u] = row[u]
      /\ KeptAll(row, row') /\ RowsFit' /\ Queued'
  BY <1>1, RowWritten
<1>3. worker' \in [Worker -> Delivery] /\ DeliveriesFit'
  BY <1>1, <1>2, WorkerMoved
<1>4. TypeOK'
  BY <1>1, <1>2, <1>3 DEF TypeOK
<1>5. SweepFit'
  <2>1. sweep.pc = "decide" => sweep.turn \in Turn
    BY <1>1 DEF SweepFit, SweepFits
  <2>2. sweep.pc = "decide" /\ Losable(sweep.turn, row[sweep.turn])
          => Losable(sweep.turn, row'[sweep.turn])
    BY <1>2, <2>1
  <2> QED
    BY <1>1, <1>2, <2>2, SweepStays
<1>6. Answering'
  <2>1. worker'[w] = d /\ \A v \in Worker : v # w => worker'[v] = worker[v]
    BY <1>1 DEF TypeOK
  <2>2. ASSUME NEW v \in Worker, worker'[v].pc = "template"
        PROVE  worker'[v] = worker[v] /\ row'[Of(v)].verdicts \in {<<>>, <<"lost">>}
    <3>1. v # w /\ worker'[v] = worker[v] /\ At(v, "template")
      BY <2>1, <2>2 DEF At
    <3>2. Of(v) \in Turn /\ row[Of(v)].verdicts \in {<<>>, <<"lost">>}
      BY <1>1, <3>1 DEF Answering, DeliveriesFit, DeliveryFits, At, Of, Mine
    <3> QED
      BY <1>2, <3>1, <3>2
  <2> QED
    BY <1>1, <2>2, AnsweringStays
<1> QED
  BY <1>2, <1>3, <1>4, <1>5, <1>6 DEF Inv

\* The sweep or the clock writes a row, and the deliveries stay where they are.
LEMMA OthersWrite ==
  ASSUME Inv, NEW t \in Turn, NEW x \in Row,
         row' = [row EXCEPT ![t] = x], worker' = worker, sweep' \in Sweep, wake' \in BOOLEAN,
         UNCHANGED <<accepted, job, tries, paid, faults>>,
         Kept(row[t], x), RowFits(t, x, paid[t]), SweepFits(sweep', [row EXCEPT ![t] = x]),
         \A v \in Worker : At(v, "template") /\ Of(v) = t => x.verdicts \in {<<>>, <<"lost">>}
  PROVE  Inv'
<1>1. TypeOK /\ RowsFit /\ DeliveriesFit /\ SweepFit /\ Answering /\ Queued
  BY DEF Inv
<1>2. /\ row' \in [Turn -> Row]
      /\ row'[t] = x /\ \A u \in Turn : u # t => row'[u] = row[u]
      /\ KeptAll(row, row') /\ RowsFit' /\ Queued'
  BY <1>1, RowWritten
<1>3. DeliveriesFit'
  BY <1>1, <1>2, WorkersStay
<1>4. TypeOK'
  BY <1>1, <1>2 DEF TypeOK
<1>5. SweepFit'
  BY DEF SweepFit
<1>6. Answering'
  <2>1. ASSUME NEW v \in Worker, worker'[v].pc = "template"
        PROVE  worker'[v] = worker[v] /\ row'[Of(v)].verdicts \in {<<>>, <<"lost">>}
    <3>1. At(v, "template")
      BY <2>1 DEF At
    <3>2. Of(v) \in Turn /\ row[Of(v)].verdicts \in {<<>>, <<"lost">>}
      BY <1>1, <3>1 DEF Answering, DeliveriesFit, DeliveryFits, At, Of, Mine
    <3> QED
      BY <1>2, <3>1, <3>2
  <2> QED
    BY <1>1, <2>1, AnsweringStays
<1> QED
  BY <1>2, <1>3, <1>4, <1>5, <1>6 DEF Inv

---------------------------------------------------------------------------
(* The wake of the session *)

LEMMA DispatchOnlyHead ==
  ASSUME TypeOK, NEW n \in Nat, DispatchHead(n, row)
  PROVE /\ row' \in [Turn -> Row]
        /\ job' \in [Turn -> JobStates]
        /\ \A t \in Turn :
             /\ Same(row[t], row'[t]) /\ (row[t].dispatched => row'[t].dispatched)
             /\ \/ job'[t] = job[t]
                \/ /\ t \in SessionHead(n, row) /\ ~row[t].dispatched
                   /\ row'[t].dispatched /\ job'[t] = "created"
<1> DEFINE sent == {t \in SessionHead(n, row) : ~row[t].dispatched}
<1>1. row' = [t \in Turn |-> [row[t] EXCEPT !.dispatched = @ \/ t \in sent]]
  BY DEF DispatchHead
<1>2. job' = [t \in Turn |-> IF t \in sent THEN "created" ELSE job[t]]
  BY DEF DispatchHead
<1>3. \A t \in Turn : row[t] \in Row
  BY DEF TypeOK
<1>4. \A t \in Turn : [row[t] EXCEPT !.dispatched = @ \/ t \in sent] \in Row
  <2> HIDE DEF sent
  <2> QED BY <1>3 DEF Row
<1>5. job' \in [Turn -> JobStates]
  <2> HIDE DEF sent
  <2> QED BY <1>2 DEF TypeOK, JobStates, LiveJob
<1>6. ASSUME NEW t \in Turn
      PROVE /\ Same(row[t], row'[t])
            /\ row[t].dispatched => row'[t].dispatched
            /\ t \in sent => row'[t].dispatched /\ job'[t] = "created"
            /\ t \notin sent => job'[t] = job[t]
  <2> HIDE DEF sent
  <2> QED BY <1>1, <1>2, <1>3 DEF Row, Same
<1> QED
  BY <1>1, <1>4, <1>5, <1>6

\* The head is the first open turn: everything before it has its verdict.
LEMMA Dispatched ==
  ASSUME Inv, NEW n \in 0..MaxTurn, DispatchHead(n, row), UNCHANGED <<tries, paid, faults>>,
         accepted' \in 0..MaxTurn, wake' \in BOOLEAN, sweep' \in Sweep,
         sweep' = sweep \/ (sweep'.pc = "next" /\ sweep'.saw = "untouched"),
         worker' = worker
           \/ \E w \in Worker, d \in Delivery :
                /\ worker' = [worker EXCEPT ![w] = d]
                /\ d.pc = "ack" /\ d.turn = Of(w) /\ At(w, "wake")
                /\ d.fenced = worker[w].fenced /\ d.intent = worker[w].intent
  PROVE  Inv'
<1>1. TypeOK /\ RowsFit /\ DeliveriesFit /\ SweepFit /\ Answering /\ Queued
  BY DEF Inv
<1>2. n \in Nat
  BY BoundAssumption
<1>3. /\ row' \in [Turn -> Row] /\ job' \in [Turn -> JobStates]
      /\ \A t \in Turn :
           /\ Same(row[t], row'[t]) /\ (row[t].dispatched => row'[t].dispatched)
           /\ \/ job'[t] = job[t]
              \/ /\ t \in SessionHead(n, row) /\ ~row[t].dispatched
                 /\ row'[t].dispatched /\ job'[t] = "created"
  BY <1>1, <1>2, DispatchOnlyHead
<1>4. KeptAll(row, row')
  BY <1>3 DEF KeptAll, Kept, Same, Open
<1>5. RowsFit'
  BY <1>1, <1>3, SameFits DEF RowsFit, TypeOK
<1>6. DeliveriesFit' /\ worker' \in [Worker -> Delivery]
  <2>1. CASE worker' = worker
    BY <1>1, <1>4, <2>1, WorkersStay DEF TypeOK
  <2>2. CASE worker' # worker
    <3>1. PICK w \in Worker, d \in Delivery :
                /\ worker' = [worker EXCEPT ![w] = d]
                /\ d.pc = "ack" /\ d.turn = Of(w) /\ At(w, "wake")
                /\ d.fenced = worker[w].fenced /\ d.intent = worker[w].intent
      BY <2>2
    <3>2. DeliveryFits(d, row)
      BY <1>1, <3>1 DEF DeliveriesFit, DeliveryFits, At, Of
    <3>3. DeliveryFits(d, row')
      BY <1>4, <3>2, DeliveryKept
    <3> QED
      BY <1>1, <1>4, <3>1, <3>3, WorkerMoved
  <2> QED
    BY <2>1, <2>2
<1>7. TypeOK'
  <2>1. wake' \in BOOLEAN /\ faults' = faults
    OBVIOUS
  <2> QED
    BY <1>1, <1>3, <1>6, <2>1 DEF TypeOK
<1>8. SweepFit'
  <2>1. CASE sweep' = sweep
    <3>1. sweep.pc = "decide" => sweep.turn \in Turn
      BY <1>1 DEF SweepFit, SweepFits
    <3>2. sweep.pc = "decide" /\ Losable(sweep.turn, row[sweep.turn])
            => Losable(sweep.turn, row'[sweep.turn])
      BY <1>1, <1>3, <3>1, SameLosable DEF TypeOK
    <3> QED
      BY <1>1, <1>4, <2>1, <3>2, SweepStays
  <2>2. CASE sweep'.pc = "next" /\ sweep'.saw = "untouched"
    BY <1>1, <2>2 DEF SweepFit, SweepFits
  <2> QED
    BY <2>1, <2>2
<1>9. Answering'
  <2>1. ASSUME NEW v \in Worker, worker'[v].pc = "template"
        PROVE  worker'[v] = worker[v] /\ row'[Of(v)].verdicts \in {<<>>, <<"lost">>}
    <3>1. worker'[v] = worker[v]
      BY <1>1, <2>1 DEF TypeOK
    <3>2. Of(v) \in Turn /\ row[Of(v)].verdicts \in {<<>>, <<"lost">>}
      BY <1>1, <2>1, <3>1 DEF Answering, DeliveriesFit, DeliveryFits, At, Of, Mine
    <3> QED
      BY <1>3, <3>1, <3>2 DEF Same
  <2> QED
    BY <1>1, <2>1, AnsweringStays
<1>10. TriesLeft'
  BY <1>1, <1>3, BoundAssumption DEF Queued, TriesLeft
<1>11. OneTurnAtATime'
  <2>1. \A u \in Turn : \A v \in 1..(u - 1) : v \in Turn
    BY BoundAssumption DEF Turn
  <2>2. \A t \in Turn : t \in SessionHead(n, row) => \A u \in 1..(t - 1) : ~Open(row[u])
    BY DEF SessionHead
  <2>3. \A u \in Turn : ~Open(row[u]) => ~Open(row'[u])
    BY <1>4 DEF KeptAll, Kept
  <2> QED
    BY <1>1, <1>3, <2>1, <2>2, <2>3 DEF Queued, OneTurnAtATime
<1> QED
  BY <1>5, <1>6, <1>7, <1>8, <1>9, <1>10, <1>11 DEF Inv, Queued

---------------------------------------------------------------------------
(* The steps of a delivery *)

LEMMA AtWork ==
  ASSUME Inv, NEW w \in Worker
  PROVE  /\ worker[w] \in Delivery /\ DeliveryFits(worker[w], row)
         /\ ~At(w, "idle") =>
              Of(w) \in Turn /\ Mine(w) \in Row /\ RowFits(Of(w), Mine(w), paid[Of(w)])
BY DEF Inv, TypeOK, DeliveriesFit, DeliveryFits, RowsFit, At, Of, Mine

Moved(d, pc) == [d EXCEPT !.pc = pc, !.intent = IF pc = "wake" THEN NoMarker ELSE @]

LEMMA GotoMoves ==
  ASSUME Inv, NEW w \in Worker, NEW pc \in Steps, Goto(w, pc)
  PROVE  LET d == Moved(worker[w], pc)
         IN  /\ d \in Delivery /\ worker' = [worker EXCEPT ![w] = d]
             /\ d.pc = pc /\ d.turn = Of(w) /\ d.fenced = worker[w].fenced
             /\ d.held = worker[w].held
             /\ d.intent = IF pc = "wake" THEN NoMarker ELSE worker[w].intent
<1>1. worker \in [Worker -> Delivery] /\ worker[w] \in Delivery
  BY DEF Inv, TypeOK
<1>2. worker' = [worker EXCEPT ![w] = Moved(worker[w], pc)]
  BY <1>1 DEF Goto, Moved
<1> QED
  BY <1>1, <1>2 DEF Moved, Delivery, Of

LEMMA DeliveryReads ==
  ASSUME Inv, NEW w \in Worker, NEW d \in Delivery,
         worker' = [worker EXCEPT ![w] = d],
         UNCHANGED <<accepted, row, job, tries, paid, sweep, wake>>, faults' \in 0..MaxFaults,
         DeliveryFits(d, row),
         d.pc = "template" =>
           /\ row[d.turn].verdicts \in {<<>>, <<"lost">>}
           /\ \A v \in Worker : v # w /\ At(v, "template") => Of(v) # d.turn
  PROVE  Inv'
<1>1. job' \in [Turn -> JobStates] /\ tries' \in [Turn -> 0..Retries + 1]
  BY DEF Inv, TypeOK
<1>2. Queued'
  BY DEF Inv, Queued, TriesLeft, OneTurnAtATime
<1> QED
  BY <1>1, <1>2, DeliverySteps

LEMMA FaultTyped == ASSUME Inv, Fault PROVE faults' \in 0..MaxFaults
BY BoundAssumption DEF Inv, TypeOK, Fault

LEMMA FaultsTyped == ASSUME Inv, faults' = faults PROVE faults' \in 0..MaxFaults
BY DEF Inv, TypeOK

LEMMA FreeFits == Free \in Delivery /\ DeliveryFits(Free, row) /\ Free.pc = "idle"
BY DEF Free, Delivery, Steps, DeliveryFits

LEMMA ReplayKeeps == ASSUME Inv, NEW w \in Worker, Replay(w) PROVE Inv'
<1> DEFINE pc == IF Open(Mine(w)) THEN "reply" ELSE "wake"
           d == [worker[w] EXCEPT !.fenced = Mine(w).fence, !.pc = pc]
<1>1. At(w, "replay") /\ worker' = [worker EXCEPT ![w].fenced = Mine(w).fence, ![w].pc = pc]
  BY DEF Replay
<1>2. /\ worker[w] \in Delivery /\ DeliveryFits(worker[w], row)
      /\ Of(w) \in Turn /\ Mine(w) \in Row
  BY <1>1, AtWork DEF At
<1>3. d \in Delivery /\ d.pc \in {"reply", "wake"} /\ d.turn = Of(w) /\ d.fenced = Mine(w).fence
      /\ d.intent = worker[w].intent
  BY <1>2 DEF Delivery, Steps, Of, Row
<1>4. worker' = [worker EXCEPT ![w] = d]
  BY <1>1 DEF Inv, TypeOK
<1> HIDE DEF d
<1>5. DeliveryFits(d, row)
  BY <1>2, <1>3 DEF DeliveryFits, Of, Mine
<1>6. UNCHANGED <<accepted, row, job, tries, paid, sweep, wake, faults>>
  BY DEF Replay, Keep
<1> QED
  BY <1>3, <1>4, <1>5, <1>6, DeliveryReads, FaultsTyped

LEMMA ReadReplyKeeps == ASSUME Inv, NEW w \in Worker, ReadReply(w) PROVE Inv'
<1> DEFINE lost == /\ worker[w].fenced /\ Mine(w).expired
                   /\ Mine(w).marker = NoMarker /\ Of(w) \notin Crisis
           pc == IF Mine(w).marker # NoMarker THEN "project"
                    ELSE IF Of(w) \in Crisis THEN "crisis"
                    ELSE IF lost THEN "settle"
                    ELSE IF worker[w].fenced THEN "wait" ELSE "start"
           d == [worker[w] EXCEPT !.pc = pc, !.fenced = FALSE,
                                  !.intent = IF lost THEN "ambiguous" ELSE @]
<1>1. At(w, "reply") /\ worker' = [worker EXCEPT ![w].pc = pc, ![w].fenced = FALSE,
                                   ![w].intent = IF lost THEN "ambiguous" ELSE @]
  BY DEF ReadReply
<1>2. /\ worker[w] \in Delivery /\ DeliveryFits(worker[w], row)
      /\ Of(w) \in Turn /\ Mine(w) \in Row
  BY <1>1, AtWork DEF At
<1>3. worker' = [worker EXCEPT ![w] = d]
  BY <1>1 DEF Inv, TypeOK
<1>4. /\ d \in Delivery /\ d.pc = pc /\ d.turn = Of(w) /\ ~d.fenced
      /\ d.intent = IF lost THEN "ambiguous" ELSE worker[w].intent
  <2> HIDE DEF lost
  <2>1. pc \in Steps
    BY DEF Steps
  <2> HIDE DEF pc
  <2> QED BY <1>2, <2>1 DEF Delivery, Of, Outcomes
<1>5. DeliveryFits(d, row)
  <2> HIDE DEF d
  <2> QED BY <1>2, <1>4 DEF DeliveryFits, Of, Mine
<1>6. d.pc # "template"
  BY <1>4
<1>7. UNCHANGED <<accepted, row, job, tries, paid, sweep, wake, faults>>
  BY DEF ReadReply, Keep
<1> HIDE DEF d
<1> QED
  BY <1>3, <1>4, <1>5, <1>6, <1>7, DeliveryReads, FaultsTyped

LEMMA CrisisLocksKeeps == ASSUME Inv, NEW w \in Worker, CrisisLocks(w) PROVE Inv'
<1> DEFINE pc == IF Open(Mine(w)) THEN "template" ELSE "wake"
           d == Moved(worker[w], pc)
<1>1. At(w, "crisis") /\ Unsettling(Of(w)) /\ Goto(w, pc)
      /\ UNCHANGED <<accepted, row, job, tries, paid, sweep, wake, faults>>
  BY DEF CrisisLocks, Keep
<1>2. pc \in Steps /\ pc \in {"template", "wake"} /\ (pc = "template" => Open(Mine(w)))
  BY DEF Steps
<1> HIDE DEF pc
<1>3. /\ d \in Delivery /\ worker' = [worker EXCEPT ![w] = d]
      /\ d.pc = pc /\ d.turn = Of(w) /\ d.fenced = worker[w].fenced
      /\ d.intent = IF pc = "wake" THEN NoMarker ELSE worker[w].intent
  BY <1>1, <1>2, GotoMoves
<1>4. DeliveryFits(worker[w], row) /\ Of(w) \in Turn
  BY <1>1, AtWork DEF At
<1> HIDE DEF d
<1>5. DeliveryFits(d, row)
  BY <1>1, <1>2, <1>3, <1>4 DEF DeliveryFits, At, Of
<1>6. d.pc = "template" =>
        /\ row[d.turn].verdicts \in {<<>>, <<"lost">>}
        /\ \A v \in Worker : v # w /\ At(v, "template") => Of(v) # d.turn
  BY <1>1, <1>2, <1>3 DEF Open, Mine, Unsettling, At, Of
<1> QED
  BY <1>1, <1>3, <1>5, <1>6, DeliveryReads, FaultsTyped

LEMMA CrisisReplyKeeps == ASSUME Inv, NEW w \in Worker, CrisisReply(w) PROVE Inv'
<1> DEFINE t == Of(w)
           x == [row[t] EXCEPT !.marker = "done", !.verdicts = Append(@, "done")]
           d == Moved(worker[w], "wake")
<1>1. /\ At(w, "template") /\ Goto(w, "wake")
      /\ row' = [row EXCEPT ![t].marker = "done", ![t].verdicts = Append(@, "done")]
      /\ UNCHANGED <<accepted, job, tries, paid, sweep, wake, faults>>
  BY DEF CrisisReply, Keep
<1>2. /\ worker[w] \in Delivery /\ DeliveryFits(worker[w], row)
      /\ t \in Turn /\ row[t] \in Row /\ RowFits(t, row[t], paid[t])
  BY <1>1, AtWork DEF At, Mine
<1>3. t \in Crisis /\ row[t].verdicts \in {<<>>, <<"lost">>}
  BY <1>1, <1>2 DEF DeliveryFits, At, Of, Inv, Answering, Mine
<1>4. /\ x \in Row /\ Kept(row[t], x) /\ RowFits(t, x, paid[t])
      /\ Losable(t, row[t]) => Losable(t, x)
  BY <1>2, <1>3, AnsweredFits
<1>5. row' = [row EXCEPT ![t] = x]
  BY <1>1, <1>2 DEF Inv, TypeOK
<1>6. /\ d \in Delivery /\ worker' = [worker EXCEPT ![w] = d]
      /\ d.pc = "wake" /\ d.turn = Of(w) /\ d.fenced = worker[w].fenced
      /\ d.intent = NoMarker
  BY <1>1, GotoMoves DEF Steps
<1>7. \A v \in Worker : v # w /\ At(v, "template") /\ Of(v) = t => FALSE
  BY <1>1 DEF Inv, Answering
<1>8. DeliveryFits(d, row)
  <2> HIDE DEF d
  <2> QED BY <1>1, <1>2, <1>6 DEF DeliveryFits, At, Of
<1> HIDE DEF x, d, t
<1>9. KeptAll(row, [row EXCEPT ![t] = x])
  BY <1>2, <1>4 DEF KeptAll, Kept, Inv, TypeOK
<1>10. DeliveryFits(d, [row EXCEPT ![t] = x])
  BY <1>6, <1>8, <1>9, DeliveryKept
<1>11. paid' \in [Turn -> Nat] /\ paid' = paid
  BY <1>1 DEF Inv, TypeOK
<1>12. UNCHANGED <<accepted, job, tries, sweep, wake, faults>>
  BY <1>1
<1>13. RowFits(t, x, paid'[t]) /\ \A u \in Turn : u # t => paid'[u] = paid[u]
  BY <1>4, <1>11
<1>14. sweep.pc = "decide" /\ sweep.turn = t /\ Losable(t, row[t]) => Losable(t, x)
  BY <1>4
<1>15. d.pc # "template" /\ d \in Delivery /\ worker' = [worker EXCEPT ![w] = d]
  BY <1>6
<1>16. x \in Row /\ t \in Turn /\ Kept(row[t], x)
  BY <1>2, <1>4
<1>17. \A v \in Worker : v # w /\ At(v, "template") /\ Of(v) = t
                             => x.verdicts \in {<<>>, <<"lost">>}
  BY <1>7
<1> QED
  BY <1>5, <1>10, <1>11, <1>12, <1>13, <1>14, <1>15, <1>16, <1>17, DeliveryWrites

LEMMA MarkStartedKeeps == ASSUME Inv, NEW w \in Worker, MarkStarted(w) PROVE Inv'
<1> DEFINE t == Of(w)
           r == Mine(w)
           x == [row[t] EXCEPT !.started = @ \/ (Open(r) /\ ~r.cancel)]
           pc == IF ~Open(r) THEN "wake" ELSE IF r.cancel THEN "gate" ELSE "claim"
           d == Moved(worker[w], pc)
<1>1. /\ At(w, "start") /\ Unlocked(t) /\ Goto(w, pc)
      /\ row' = [row EXCEPT ![t].started = @ \/ (Open(r) /\ ~r.cancel)]
      /\ UNCHANGED <<accepted, job, tries, paid, sweep, wake, faults>>
  BY DEF MarkStarted, Keep
<1>2. /\ worker[w] \in Delivery /\ DeliveryFits(worker[w], row)
      /\ t \in Turn /\ row[t] \in Row /\ RowFits(t, row[t], paid[t]) /\ r = row[t]
  BY <1>1, AtWork DEF At, Mine
<1>3. t \notin Crisis
  BY <1>1, <1>2 DEF DeliveryFits, At, Of
<1>4. /\ x \in Row /\ x.verdicts = r.verdicts /\ x.fence = r.fence /\ x.cancel = r.cancel
      /\ x.marker = r.marker /\ x.dispatched = r.dispatched
  BY <1>2 DEF Row
<1>5. row' = [row EXCEPT ![t] = x]
  BY <1>1, <1>2 DEF Inv, TypeOK
<1>6. pc \in Steps /\ pc \in {"wake", "gate", "claim"} /\ (pc = "gate" => Open(r) /\ r.cancel)
  BY DEF Steps
<1> HIDE DEF pc, x
<1>7. /\ d \in Delivery /\ worker' = [worker EXCEPT ![w] = d]
      /\ d.pc = pc /\ d.turn = Of(w) /\ d.fenced = worker[w].fenced
      /\ d.held = worker[w].held
      /\ d.intent = IF pc = "wake" THEN NoMarker ELSE worker[w].intent
  BY <1>1, <1>6, GotoMoves
<1>8. Kept(row[t], x) /\ RowFits(t, x, paid[t])
  BY <1>2, <1>3, <1>4 DEF Kept, Open, RowFits, Says
<1>9. pc = "gate" => row[t].fence
  BY <1>2, <1>6 DEF RowFits
<1> HIDE DEF d
<1>10. DeliveryFits(d, row)
  BY <1>1, <1>2, <1>3, <1>6, <1>7, <1>9 DEF DeliveryFits, At, Of
<1> HIDE DEF t, r
<1>11. KeptAll(row, [row EXCEPT ![t] = x])
  BY <1>2, <1>8 DEF KeptAll, Kept, Inv, TypeOK
<1>12. DeliveryFits(d, [row EXCEPT ![t] = x])
  BY <1>7, <1>10, <1>11, DeliveryKept
<1>13. paid' \in [Turn -> Nat] /\ UNCHANGED <<accepted, job, tries, sweep, wake, faults>>
  BY <1>1 DEF Inv, TypeOK
<1>14. RowFits(t, x, paid'[t]) /\ \A u \in Turn : u # t => paid'[u] = paid[u]
  BY <1>1, <1>8
<1>15. ~(sweep.pc = "decide" /\ sweep.turn = t)
  BY <1>1 DEF Unlocked
<1>16. d.pc # "template" /\ d \in Delivery /\ worker' = [worker EXCEPT ![w] = d]
  BY <1>6, <1>7
<1>17. x \in Row /\ t \in Turn /\ Kept(row[t], x)
  BY <1>2, <1>4, <1>8
<1>18. \A v \in Worker : ~(At(v, "template") /\ Of(v) = t)
  BY <1>3 DEF Inv, DeliveriesFit, DeliveryFits, At, Of
<1> QED
  BY <1>5, <1>12, <1>13, <1>14, <1>15, <1>16, <1>17, <1>18, DeliveryWrites

LEMMA StartGateKeeps == ASSUME Inv, NEW w \in Worker, StartGate(w) PROVE Inv'
<1> DEFINE t == Of(w)
           x == Stopped(row[t])
           d == Moved(worker[w], "wake")
<1>1. /\ At(w, "gate") /\ Goto(w, "wake")
      /\ row' = [row EXCEPT ![t] = Stopped(@)]
      /\ UNCHANGED <<accepted, job, tries, paid, sweep, wake, faults>>
  BY DEF StartGate, Keep
<1>2. /\ worker[w] \in Delivery /\ DeliveryFits(worker[w], row)
      /\ t \in Turn /\ row[t] \in Row /\ RowFits(t, row[t], paid[t])
  BY <1>1, AtWork DEF At, Mine
<1>3. t \notin Crisis /\ row[t].fence
  BY <1>1, <1>2 DEF DeliveryFits, At, Of
<1>4. x \in Row /\ Kept(row[t], x) /\ RowFits(t, x, paid[t])
  BY <1>2, <1>3, StoppedLateFits
<1>5. row' = [row EXCEPT ![t] = x]
  BY <1>1, <1>2 DEF Inv, TypeOK
<1> HIDE DEF x
<1>6. /\ d \in Delivery /\ worker' = [worker EXCEPT ![w] = d]
      /\ d.pc = "wake" /\ d.turn = Of(w) /\ d.fenced = worker[w].fenced
      /\ d.intent = NoMarker
  BY <1>1, GotoMoves DEF Steps
<1> HIDE DEF d
<1>7. DeliveryFits(d, row)
  BY <1>1, <1>2, <1>6 DEF DeliveryFits, At, Of
<1> HIDE DEF t
<1>8. KeptAll(row, [row EXCEPT ![t] = x])
  BY <1>2, <1>4 DEF KeptAll, Kept, Inv, TypeOK
<1>9. DeliveryFits(d, [row EXCEPT ![t] = x])
  BY <1>6, <1>7, <1>8, DeliveryKept
<1>10. paid' \in [Turn -> Nat] /\ UNCHANGED <<accepted, job, tries, sweep, wake, faults>>
  BY <1>1 DEF Inv, TypeOK
<1>11. RowFits(t, x, paid'[t]) /\ \A u \in Turn : u # t => paid'[u] = paid[u]
  BY <1>1, <1>4
<1>12. ~Losable(t, row[t])
  BY <1>3 DEF Losable
<1>13. d.pc # "template" /\ d \in Delivery /\ worker' = [worker EXCEPT ![w] = d]
  BY <1>6
<1>14. x \in Row /\ t \in Turn /\ Kept(row[t], x)
  BY <1>2, <1>4
<1>15. \A v \in Worker : ~(At(v, "template") /\ Of(v) = t)
  BY <1>3 DEF Inv, DeliveriesFit, DeliveryFits, At, Of
<1> QED
  BY <1>5, <1>9, <1>10, <1>11, <1>12, <1>13, <1>14, <1>15, DeliveryWrites

LEMMA ClaimFenceKeeps == ASSUME Inv, NEW w \in Worker, ClaimFence(w) PROVE Inv'
<1> DEFINE t == Of(w)
           r == Mine(w)
           claims == Claimable(r)
           x == [row[t] EXCEPT !.fence = @ \/ claims, !.expired = @ /\ ~claims]
           pc == IF claims THEN "pay" ELSE IF Open(r) /\ r.fence THEN "wait" ELSE "wake"
           d == Moved(worker[w], pc)
<1>1. /\ At(w, "claim") /\ Unlocked(t) /\ Goto(w, pc)
      /\ row' = [row EXCEPT ![t].fence = @ \/ claims, ![t].expired = @ /\ ~claims]
      /\ paid' = [paid EXCEPT ![t] = IF claims THEN @ + 1 ELSE @]
      /\ UNCHANGED <<accepted, job, tries, sweep, wake, faults>>
  BY DEF ClaimFence
<1>2. /\ worker[w] \in Delivery /\ DeliveryFits(worker[w], row)
      /\ t \in Turn /\ row[t] \in Row /\ RowFits(t, row[t], paid[t]) /\ r = row[t]
  BY <1>1, AtWork DEF At, Mine
<1>3. t \notin Crisis
  BY <1>1, <1>2 DEF DeliveryFits, At, Of
<1>4. claims => Open(r) /\ ~r.fence
  BY DEF Claimable
<1> HIDE DEF claims
<1>5. /\ x \in Row /\ x.verdicts = r.verdicts /\ x.cancel = r.cancel
      /\ x.marker = r.marker /\ x.dispatched = r.dispatched
      /\ x.fence = (r.fence \/ claims)
  BY <1>2 DEF Row
<1>6. row' = [row EXCEPT ![t] = x]
  BY <1>1, <1>2 DEF Inv, TypeOK
<1>7. pc \in Steps /\ pc \in {"wake", "pay", "wait"} /\ (pc \in {"pay", "wait"} => x.fence)
  BY <1>5 DEF Steps
<1> HIDE DEF pc, x
<1>8. /\ d \in Delivery /\ worker' = [worker EXCEPT ![w] = d]
      /\ d.pc = pc /\ d.turn = Of(w) /\ d.fenced = worker[w].fenced
      /\ d.held = worker[w].held
      /\ d.intent = IF pc = "wake" THEN NoMarker ELSE worker[w].intent
  BY <1>1, <1>7, GotoMoves
<1>9. /\ paid' \in [Turn -> Nat] /\ \A u \in Turn : u # t => paid'[u] = paid[u]
      /\ paid'[t] = IF claims THEN paid[t] + 1 ELSE paid[t]
  BY <1>1, <1>2 DEF Inv, TypeOK
<1>10. Kept(row[t], x)
  BY <1>2, <1>5 DEF Kept, Open
<1>11. RowFits(t, x, paid'[t])
  <2>1. Says(x) = Says(r)
    BY <1>5 DEF Says
  <2>2. (x.fence <=> (r.fence \/ claims)) /\ r.fence \in BOOLEAN
    BY <1>2, <1>5 DEF Row
  <2>3. CASE claims
    <3>1. paid[t] = 0 /\ paid'[t] = 1 /\ Says(x) = {} /\ Open(x)
      BY <1>2, <1>4, <1>5, <1>9, <2>1, <2>3, SaysNothing DEF RowFits, Open
    <3>2. x.fence /\ x.marker # "lost" /\ x.verdicts = <<>>
      BY <1>2, <1>4, <1>5, <2>2, <2>3, <3>1 DEF RowFits, Open
    <3> QED
      BY <1>3, <3>1, <3>2 DEF RowFits
  <2>4. CASE ~claims
    BY <1>2, <1>3, <1>5, <1>9, <2>1, <2>2, <2>4 DEF RowFits, Open
  <2> QED
    BY <2>3, <2>4
<1>12. KeptAll(row, [row EXCEPT ![t] = x]) /\ [row EXCEPT ![t] = x][t] = x
  BY <1>2, <1>10 DEF KeptAll, Kept, Inv, TypeOK
<1>13. DeliveryFits(worker[w], [row EXCEPT ![t] = x])
  BY <1>2, <1>12, DeliveryKept
<1>14. DeliveryFits(d, [row EXCEPT ![t] = x])
  <2> HIDE DEF d
  <2> QED
    BY <1>1, <1>2, <1>3, <1>7, <1>8, <1>12, <1>13 DEF DeliveryFits, At, Of
<1> HIDE DEF d, t, r
<1>15. UNCHANGED <<accepted, job, tries, sweep, wake, faults>>
  BY <1>1
<1>16. ~(sweep.pc = "decide" /\ sweep.turn = t)
  BY <1>1 DEF Unlocked
<1>17. d.pc # "template" /\ d \in Delivery /\ worker' = [worker EXCEPT ![w] = d]
  BY <1>7, <1>8
<1>18. x \in Row /\ t \in Turn /\ Kept(row[t], x)
  BY <1>2, <1>5, <1>10
<1>19. \A v \in Worker : ~(At(v, "template") /\ Of(v) = t)
  BY <1>3 DEF Inv, DeliveriesFit, DeliveryFits, At, Of
<1> QED
  BY <1>6, <1>9, <1>11, <1>14, <1>15, <1>16, <1>17, <1>18, <1>19, DeliveryWrites

LEMMA FinishKeeps == ASSUME Inv, NEW w \in Worker, Finish(w) PROVE Inv'
<1>1. PICK intent \in {"cancelled", "ambiguous", "done", "exhausted"} :
        worker' = [worker EXCEPT ![w].pc = "settle", ![w].intent = intent]
  BY DEF Finish
<1>2. At(w, "pay") /\ UNCHANGED <<accepted, row, job, tries, paid, sweep, wake, faults>>
  BY DEF Finish, Keep
<1>3. /\ worker[w] \in Delivery /\ DeliveryFits(worker[w], row) /\ Of(w) \in Turn
  BY <1>2, AtWork DEF At
<1> DEFINE d == [worker[w] EXCEPT !.pc = "settle", !.intent = intent]
<1>4. worker' = [worker EXCEPT ![w] = d]
  BY <1>1 DEF Inv, TypeOK
<1>5. /\ d \in Delivery /\ d.pc = "settle" /\ d.turn = Of(w) /\ d.fenced = worker[w].fenced
      /\ d.intent = intent /\ d.intent # "lost"
  BY <1>3 DEF Delivery, Steps, Outcomes, Of
<1> HIDE DEF d
<1>6. DeliveryFits(d, row)
  BY <1>2, <1>3, <1>5 DEF DeliveryFits, At, Of
<1> QED
  BY <1>2, <1>4, <1>5, <1>6, DeliveryReads, FaultsTyped

LEMMA ResumeKeeps == ASSUME Inv, NEW w \in Worker, Resume(w) PROVE Inv'
<1> DEFINE d == Moved(worker[w], "replay")
<1>1. /\ At(w, "wait") /\ Goto(w, "replay")
      /\ UNCHANGED <<accepted, row, job, tries, paid, sweep, wake, faults>>
  BY DEF Resume, Keep
<1>2. DeliveryFits(worker[w], row) /\ Of(w) \in Turn
  BY <1>1, AtWork DEF At
<1>3. /\ d \in Delivery /\ worker' = [worker EXCEPT ![w] = d]
      /\ d.pc = "replay" /\ d.turn = Of(w) /\ d.fenced = worker[w].fenced
      /\ d.intent = worker[w].intent
  BY <1>1, GotoMoves DEF Steps
<1> HIDE DEF d
<1>4. DeliveryFits(d, row)
  BY <1>1, <1>2, <1>3 DEF DeliveryFits, At, Of
<1> QED
  BY <1>1, <1>3, <1>4, DeliveryReads, FaultsTyped

LEMMA SettleKeeps == ASSUME Inv, NEW w \in Worker, Settle(w) PROVE Inv'
<1> DEFINE t == Of(w)
           x == Marked(row[t], worker[w].intent)
           pc == IF Open(Mine(w)) THEN "project" ELSE "wake"
           d == Moved(worker[w], pc)
<1>1. /\ At(w, "settle") /\ Goto(w, pc)
      /\ row' = [row EXCEPT ![t] = Marked(@, worker[w].intent)]
      /\ UNCHANGED <<accepted, job, tries, paid, sweep, wake, faults>>
  BY DEF Settle, Keep
<1>2. /\ worker[w] \in Delivery /\ DeliveryFits(worker[w], row)
      /\ t \in Turn /\ row[t] \in Row /\ RowFits(t, row[t], paid[t]) /\ Mine(w) = row[t]
  BY <1>1, AtWork DEF At, Mine
<1>3. t \notin Crisis /\ row[t].fence /\ worker[w].intent \in Outcomes /\ worker[w].intent # "lost"
  BY <1>1, <1>2 DEF DeliveryFits, At, Of, Delivery
<1>4. /\ x \in Row /\ Kept(row[t], x) /\ RowFits(t, x, paid[t])
      /\ Open(row[t]) => x.marker # NoMarker
  BY <1>2, <1>3, MarkedFits
<1>5. row' = [row EXCEPT ![t] = x]
  BY <1>1, <1>2 DEF Inv, TypeOK
<1> HIDE DEF x
<1>6. pc \in Steps /\ pc \in {"project", "wake"} /\ (pc = "project" => x.marker # NoMarker)
  BY <1>2, <1>4 DEF Steps
<1> HIDE DEF pc
<1>7. /\ d \in Delivery /\ worker' = [worker EXCEPT ![w] = d]
      /\ d.pc = pc /\ d.turn = Of(w) /\ d.fenced = worker[w].fenced
      /\ d.held = worker[w].held
      /\ d.intent = IF pc = "wake" THEN NoMarker ELSE worker[w].intent
  BY <1>1, <1>6, GotoMoves
<1>8. KeptAll(row, [row EXCEPT ![t] = x]) /\ [row EXCEPT ![t] = x][t] = x
  BY <1>2, <1>4 DEF KeptAll, Kept, Inv, TypeOK
<1>9. DeliveryFits(worker[w], [row EXCEPT ![t] = x])
  BY <1>2, <1>8, DeliveryKept
<1> HIDE DEF d
<1>10. DeliveryFits(d, [row EXCEPT ![t] = x])
  BY <1>2, <1>6, <1>7, <1>8, <1>9 DEF DeliveryFits, Of
<1> HIDE DEF t
<1>11. paid' \in [Turn -> Nat] /\ UNCHANGED <<accepted, job, tries, sweep, wake, faults>>
  BY <1>1 DEF Inv, TypeOK
<1>12. RowFits(t, x, paid'[t]) /\ \A u \in Turn : u # t => paid'[u] = paid[u]
  BY <1>1, <1>4
<1>13. ~Losable(t, row[t])
  BY <1>3 DEF Losable
<1>14. d.pc # "template" /\ d \in Delivery /\ worker' = [worker EXCEPT ![w] = d]
  BY <1>6, <1>7
<1>15. x \in Row /\ t \in Turn /\ Kept(row[t], x)
  BY <1>2, <1>4
<1>16. \A v \in Worker : ~(At(v, "template") /\ Of(v) = t)
  BY <1>3 DEF Inv, DeliveriesFit, DeliveryFits, At, Of
<1> QED
  BY <1>5, <1>10, <1>11, <1>12, <1>13, <1>14, <1>15, <1>16, DeliveryWrites

LEMMA ProjectKeeps == ASSUME Inv, NEW w \in Worker, Project(w) PROVE Inv'
<1> DEFINE t == Of(w)
           x == Projected(row[t])
           d == Moved(worker[w], "wake")
<1>1. /\ At(w, "project") /\ Goto(w, "wake")
      /\ row' = [row EXCEPT ![t] = Projected(@)]
      /\ UNCHANGED <<accepted, job, tries, paid, sweep, wake, faults>>
  BY DEF Project, Keep
<1>2. /\ worker[w] \in Delivery /\ DeliveryFits(worker[w], row)
      /\ t \in Turn /\ row[t] \in Row /\ RowFits(t, row[t], paid[t])
  BY <1>1, AtWork DEF At, Mine
<1>3. row[t].marker # NoMarker
  BY <1>1, <1>2 DEF DeliveryFits, At, Of
<1>4. /\ x \in Row /\ Kept(row[t], x) /\ RowFits(t, x, paid[t])
      /\ t \in Crisis => x = row[t]
  BY <1>2, <1>3, ProjectedFits
<1>5. row' = [row EXCEPT ![t] = x]
  BY <1>1, <1>2 DEF Inv, TypeOK
<1> HIDE DEF x
<1>6. /\ d \in Delivery /\ worker' = [worker EXCEPT ![w] = d]
      /\ d.pc = "wake" /\ d.turn = Of(w) /\ d.fenced = worker[w].fenced
      /\ d.intent = NoMarker
  BY <1>1, GotoMoves DEF Steps
<1> HIDE DEF d
<1>7. DeliveryFits(d, row)
  BY <1>1, <1>2, <1>6 DEF DeliveryFits, At, Of
<1> HIDE DEF t
<1>8. KeptAll(row, [row EXCEPT ![t] = x])
  BY <1>2, <1>4 DEF KeptAll, Kept, Inv, TypeOK
<1>9. DeliveryFits(d, [row EXCEPT ![t] = x])
  BY <1>6, <1>7, <1>8, DeliveryKept
<1>10. paid' \in [Turn -> Nat] /\ UNCHANGED <<accepted, job, tries, sweep, wake, faults>>
  BY <1>1 DEF Inv, TypeOK
<1>11. RowFits(t, x, paid'[t]) /\ \A u \in Turn : u # t => paid'[u] = paid[u]
  BY <1>1, <1>4
<1>12. Losable(t, row[t]) => Losable(t, x)
  BY <1>3, <1>4 DEF Losable
<1>13. d.pc # "template" /\ d \in Delivery /\ worker' = [worker EXCEPT ![w] = d]
  BY <1>6
<1>14. x \in Row /\ t \in Turn /\ Kept(row[t], x)
  BY <1>2, <1>4
<1>15. \A v \in Worker : At(v, "template") /\ Of(v) = t => x.verdicts \in {<<>>, <<"lost">>}
  <2>1. ASSUME NEW v \in Worker, At(v, "template"), Of(v) = t
        PROVE  t \in Crisis /\ row[t].verdicts \in {<<>>, <<"lost">>}
    BY <2>1 DEF Inv, Answering, DeliveriesFit, DeliveryFits, At, Of, Mine
  <2> QED
    BY <1>4, <2>1
<1> QED
  BY <1>5, <1>9, <1>10, <1>11, <1>12, <1>13, <1>14, <1>15, DeliveryWrites

LEMMA WakeSessionKeeps == ASSUME Inv, NEW w \in Worker, WakeSession(w) PROVE Inv'
<1> DEFINE d == Moved(worker[w], "ack")
<1>1. /\ At(w, "wake") /\ Goto(w, "ack")
      /\ UNCHANGED <<accepted, tries, paid, sweep, wake, faults>>
      /\ IF Open(Mine(w)) THEN UNCHANGED <<row, job>> ELSE DispatchHead(accepted, row)
  BY DEF WakeSession, Keep
<1>2. DeliveryFits(worker[w], row) /\ Of(w) \in Turn
  BY <1>1, AtWork DEF At
<1>3. /\ d \in Delivery /\ worker' = [worker EXCEPT ![w] = d]
      /\ d.pc = "ack" /\ d.turn = Of(w) /\ d.fenced = worker[w].fenced
      /\ d.intent = worker[w].intent
  BY <1>1, GotoMoves DEF Steps
<1> HIDE DEF d
<1>4. CASE Open(Mine(w))
  <2>1. DeliveryFits(d, row)
    BY <1>1, <1>2, <1>3 DEF DeliveryFits, At, Of
  <2>2. UNCHANGED <<accepted, row, job, tries, paid, sweep, wake, faults>>
    BY <1>1, <1>4
  <2> QED
    BY <1>3, <2>1, <2>2, DeliveryReads, FaultsTyped
<1>5. CASE ~Open(Mine(w))
  <2>1. DispatchHead(accepted, row)
    BY <1>1, <1>5
  <2>2. /\ accepted \in 0..MaxTurn /\ accepted' \in 0..MaxTurn
        /\ sweep' \in Sweep /\ sweep' = sweep /\ UNCHANGED <<tries, paid, faults>>
    BY <1>1 DEF Inv, TypeOK
  <2>3. wake' \in BOOLEAN
    BY <1>1 DEF Inv, TypeOK
  <2> QED
    BY <1>1, <1>3, <2>1, <2>2, <2>3, Dispatched
<1> QED
  BY <1>4, <1>5

\* A delivery of a live job moves both.
LEMMA FailedTyped ==
  ASSUME Inv, NEW t \in Turn
  PROVE  /\ Failed(t) \in {"retry", "over"} /\ Failed(t) \in JobStates
         /\ Failed(t) = "retry" => tries[t] <= Retries
         /\ tries[t] \in 0..(Retries + 1) /\ tries = [tries EXCEPT ![t] = tries[t]]
BY DEF Failed, JobStates, LiveJob, Inv, TypeOK

LEMMA AcknowledgeKeeps == ASSUME Inv, NEW w \in Worker, Acknowledge(w) PROVE Inv'
<1> DEFINE t == Of(w)
           j == IF job[t] # "active" THEN job[t]
                ELSE IF worker[w].threw THEN Failed(t) ELSE "over"
<1>1. /\ At(w, "ack") /\ worker' = [worker EXCEPT ![w] = Free]
      /\ UNCHANGED <<accepted, row, tries, paid, sweep, wake, faults>>
      /\ job' = [job EXCEPT ![t] = IF @ # "active" THEN @
                                   ELSE IF worker[w].threw THEN Failed(t) ELSE "over"]
  BY DEF Acknowledge, Keep
<1>2. t \in Turn
  BY <1>1, AtWork DEF At
<1>3. job' = [job EXCEPT ![t] = j]
  BY <1>1, <1>2 DEF Inv, TypeOK
<1>4. CASE job[t] # "active"
  <2>1. job' = job
    BY <1>2, <1>3, <1>4 DEF Inv, TypeOK
  <2>2. UNCHANGED <<accepted, row, job, tries, paid, sweep, wake, faults>>
    BY <1>1, <2>1
  <2> QED
    BY <1>1, <2>2, FreeFits, DeliveryReads, FaultsTyped
<1>5. CASE job[t] = "active"
  <2>1. j \in JobStates /\ (j \in {"created", "retry"} => tries[t] <= Retries)
    BY <1>2, <1>5, FailedTyped DEF JobStates
  <2>2. tries' = [tries EXCEPT ![t] = tries[t]] /\ tries[t] \in 0..(Retries + 1)
    BY <1>1, <1>2, FailedTyped
  <2> HIDE DEF j, t
  <2>3. job' \in [Turn -> JobStates] /\ tries' \in [Turn -> 0..Retries + 1] /\ Queued'
    BY <1>1, <1>2, <1>3, <1>5, <2>1, <2>2, JobMoved DEF Inv
  <2>4. UNCHANGED <<accepted, row, paid, sweep, wake>> /\ faults' \in 0..MaxFaults
    BY <1>1, FaultsTyped
  <2> QED
    BY <1>1, <2>3, <2>4, FreeFits, DeliverySteps
<1> QED
  BY <1>4, <1>5

LEMMA HeartbeatMissedKeeps == ASSUME Inv, NEW w \in Worker, HeartbeatMissed(w) PROVE Inv'
<1> DEFINE t == Of(w)
           d == [worker[w] EXCEPT !.held = FALSE]
<1>1. /\ Fault /\ worker[w].held /\ job[t] = "active"
      /\ job' = [job EXCEPT ![t] = Failed(t)]
      /\ worker' = [worker EXCEPT ![w].held = FALSE]
      /\ UNCHANGED <<accepted, row, tries, paid, sweep, wake>>
  BY DEF HeartbeatMissed
<1>2. /\ worker[w] \in Delivery /\ DeliveryFits(worker[w], row) /\ t \in Turn
  BY <1>1, AtWork DEF DeliveryFits, Of
<1>3. worker' = [worker EXCEPT ![w] = d]
  BY <1>1 DEF Inv, TypeOK
<1>4. /\ d \in Delivery /\ d.pc = worker[w].pc /\ d.turn = Of(w) /\ ~d.held
      /\ d.fenced = worker[w].fenced /\ d.intent = worker[w].intent
  BY <1>2 DEF Delivery, Of
<1>5. DeliveryFits(d, row)
  <2> HIDE DEF d
  <2> QED BY <1>2, <1>4 DEF DeliveryFits, Of
<1>6. tries' = [tries EXCEPT ![t] = tries[t]] /\ tries[t] \in 0..(Retries + 1)
  BY <1>1, <1>2, FailedTyped
<1>7. d.pc = "template" =>
        /\ row[d.turn].verdicts \in {<<>>, <<"lost">>}
        /\ \A v \in Worker : v # w /\ At(v, "template") => Of(v) # d.turn
  BY <1>4 DEF Inv, Answering, At, Of, Mine
<1> HIDE DEF d, t
<1>8. job' \in [Turn -> JobStates] /\ tries' \in [Turn -> 0..Retries + 1] /\ Queued'
  BY <1>1, <1>2, <1>6, FailedTyped, JobMoved DEF Inv
<1>9. UNCHANGED <<accepted, row, paid, sweep, wake>> /\ faults' \in 0..MaxFaults
  BY <1>1, FaultTyped
<1> QED
  BY <1>3, <1>4, <1>5, <1>7, <1>8, <1>9, DeliverySteps

LEMMA CrashKeeps == ASSUME Inv, NEW w \in Worker, Crash(w) PROVE Inv'
<1>1. /\ Fault /\ worker' = [worker EXCEPT ![w] = Free]
      /\ UNCHANGED <<accepted, row, job, tries, paid, sweep, wake>>
  BY DEF Crash
<1> QED
  BY <1>1, FreeFits, FaultTyped, DeliveryReads

LEMMA ThrowsKeeps == ASSUME Inv, NEW w \in Worker, Throws(w) PROVE Inv'
<1> DEFINE pc == IF At(w, "wake") THEN "ack" ELSE "wake"
           d == [worker[w] EXCEPT !.pc = pc, !.threw = @ \/ ~At(w, "wake"),
                                  !.fenced = FALSE, !.intent = NoMarker]
<1>1. /\ Fault /\ ~At(w, "idle")
      /\ worker' = [worker EXCEPT ![w].pc = IF @ = "wake" THEN "ack" ELSE "wake",
                                  ![w].threw = @ \/ ~At(w, "wake"),
                                  ![w].fenced = FALSE, ![w].intent = NoMarker]
      /\ UNCHANGED <<accepted, row, job, tries, paid, sweep, wake>>
  BY DEF Throws, At
<1>2. /\ worker[w] \in Delivery /\ DeliveryFits(worker[w], row) /\ Of(w) \in Turn
  BY <1>1, AtWork
<1>3. worker' = [worker EXCEPT ![w] = d]
  BY <1>1 DEF Inv, TypeOK, At
<1>4. /\ d \in Delivery /\ d.pc \in {"wake", "ack"} /\ d.turn = Of(w)
      /\ ~d.fenced /\ d.intent = NoMarker
  BY <1>2 DEF Delivery, Steps, Of
<1> HIDE DEF d
<1>5. DeliveryFits(d, row)
  BY <1>2, <1>4 DEF DeliveryFits, Of
<1> QED
  BY <1>1, <1>3, <1>4, <1>5, FaultTyped, DeliveryReads

LEMMA SettlesAgainKeeps == ASSUME Inv, NEW w \in Worker, SettlesAgain(w) PROVE Inv'
<1>1. PICK intent \in {"cancelled", "ambiguous", "exhausted"} :
        worker' = [worker EXCEPT ![w].pc = "settle", ![w].intent = intent]
  BY DEF SettlesAgain
<1>2. /\ Fault /\ worker[w].pc \in {"settle", "project"} /\ worker[w].intent = "done"
      /\ UNCHANGED <<accepted, row, job, tries, paid, sweep, wake>>
  BY DEF SettlesAgain
<1>3. /\ worker[w] \in Delivery /\ DeliveryFits(worker[w], row) /\ Of(w) \in Turn
  BY <1>2, AtWork DEF At
<1> DEFINE d == [worker[w] EXCEPT !.pc = "settle", !.intent = intent]
<1>4. worker' = [worker EXCEPT ![w] = d]
  BY <1>1 DEF Inv, TypeOK
<1>5. /\ d \in Delivery /\ d.pc = "settle" /\ d.turn = Of(w) /\ d.fenced = worker[w].fenced
      /\ d.intent = intent /\ d.intent # "lost"
  BY <1>3 DEF Delivery, Steps, Outcomes, Of
<1> HIDE DEF d
<1>6. DeliveryFits(d, row)
  BY <1>2, <1>3, <1>5 DEF DeliveryFits, At, Of
<1> QED
  BY <1>2, <1>4, <1>5, <1>6, FaultTyped, DeliveryReads

LEMMA PickupKeeps == ASSUME Inv, NEW w \in Worker, NEW t \in Turn, Pickup(w, t) PROVE Inv'
<1> DEFINE d == [Free EXCEPT !.pc = "replay", !.turn = t, !.held = TRUE]
<1>1. /\ job[t] \in {"created", "retry"} /\ job' = [job EXCEPT ![t] = "active"]
      /\ tries' = [tries EXCEPT ![t] = @ + 1] /\ worker' = [worker EXCEPT ![w] = d]
      /\ UNCHANGED <<accepted, row, paid, sweep, wake, faults>>
  BY DEF Pickup
<1>2. tries \in [Turn -> 0..Retries + 1] /\ tries[t] <= Retries
  BY <1>1 DEF Inv, TypeOK, Queued, TriesLeft
<1>3. tries' = [tries EXCEPT ![t] = tries[t] + 1] /\ tries[t] + 1 \in 0..(Retries + 1)
  BY <1>1, <1>2, BoundAssumption
<1>4. "active" \in JobStates
  BY DEF JobStates, LiveJob
<1>5. job' \in [Turn -> JobStates] /\ tries' \in [Turn -> 0..Retries + 1] /\ Queued'
  BY <1>1, <1>3, <1>4, JobMoved DEF Inv
<1>6. /\ d \in Delivery /\ d.pc = "replay" /\ d.turn = t /\ ~d.fenced /\ d.intent = NoMarker
  BY DEF Free, Delivery, Steps
<1>7. DeliveryFits(d, row)
  <2> HIDE DEF d
  <2> QED BY <1>6 DEF DeliveryFits
<1>8. faults' \in 0..MaxFaults
  BY <1>1, FaultsTyped
<1> QED
  BY <1>1, <1>5, <1>6, <1>7, <1>8, DeliverySteps

---------------------------------------------------------------------------
(* The session, the sweep, Stop and the clock *)

\* No row, job or delivery moves.
LEMMA RowsStay ==
  ASSUME Inv, sweep' \in Sweep, SweepFits(sweep', row), wake' \in BOOLEAN,
         faults' \in 0..MaxFaults, UNCHANGED <<accepted, row, job, tries, paid, worker>>
  PROVE  Inv'
<1>1. TypeOK'
  BY DEF Inv, TypeOK
<1>2. RowsFit' /\ Answering'
  BY DEF Inv, RowsFit, Answering, At, Of, Mine
<1>3. DeliveriesFit'
  BY KeptSame, WorkersStay DEF Inv
<1>4. SweepFit'
  BY DEF SweepFit
<1>5. Queued'
  BY DEF Inv, Queued, TriesLeft, OneTurnAtATime
<1> QED
  BY <1>1, <1>2, <1>3, <1>4, <1>5 DEF Inv

LEMMA AcceptKeeps == ASSUME Inv, Accept PROVE Inv'
<1>1. /\ accepted + 1 \in 0..MaxTurn /\ accepted' = accepted + 1
      /\ DispatchHead(accepted + 1, row)
      /\ UNCHANGED <<tries, paid, worker, sweep, wake, faults>>
  BY BoundAssumption DEF Accept, Inv, TypeOK
<1>2. sweep' \in Sweep /\ sweep' = sweep /\ worker' = worker
      /\ UNCHANGED <<tries, paid, faults>>
  BY <1>1 DEF Inv, TypeOK
<1>3. wake' \in BOOLEAN
  BY <1>1 DEF Inv, TypeOK
<1> QED
  BY <1>1, <1>2, <1>3, Dispatched

LEMMA SweepGotoMoves ==
  ASSUME Inv, NEW pc \in SweepSteps, SweepGoto(pc)
  PROVE  /\ sweep' \in Sweep /\ sweep'.pc = pc
         /\ sweep'.turn = sweep.turn /\ sweep'.saw = "untouched"
BY DEF SweepGoto, Inv, TypeOK, Sweep, Evidence

LEMMA SweepAt ==
  ASSUME Inv, sweep.pc # "next"
  PROVE  LET t == sweep.turn
         IN  /\ t \in Turn /\ row[t] \in Row /\ RowFits(t, row[t], paid[t])
             /\ SweepFits(sweep, row)
BY DEF Inv, TypeOK, SweepFit, SweepFits, RowsFit

LEMMA SweepNextKeeps == ASSUME Inv, SweepNext PROVE Inv'
<1>1. /\ sweep' = Rest
           \/ \E t \in Candidates : \E pc \in {"optimistic", "dispatch"} :
                sweep' = [Rest EXCEPT !.turn = t, !.pc = pc]
      /\ UNCHANGED <<accepted, row, job, tries, paid, worker>> /\ wake' = wake
      /\ UNCHANGED faults
  BY DEF SweepNext, KeepRest
<1>2. Candidates \subseteq Turn
  BY BoundAssumption DEF Candidates, Turn, Inv, TypeOK
<1>3. Rest \in Sweep /\ SweepFits(Rest, row)
  BY DEF Rest, Sweep, SweepSteps, Evidence, SweepFits
<1>4. ASSUME NEW t \in Turn, NEW pc \in {"optimistic", "dispatch"}
      PROVE  LET s == [Rest EXCEPT !.turn = t, !.pc = pc]
             IN  s \in Sweep /\ SweepFits(s, row)
  BY DEF Rest, Sweep, SweepSteps, Evidence, SweepFits
<1>5. sweep' \in Sweep /\ SweepFits(sweep', row)
  <2>1. CASE sweep' = Rest
    BY <1>3, <2>1
  <2>2. CASE sweep' # Rest
    <3>1. PICK t \in Candidates, pc \in {"optimistic", "dispatch"} :
            sweep' = [Rest EXCEPT !.turn = t, !.pc = pc]
      BY <1>1, <2>2
    <3>2. t \in Turn
      BY <1>2
    <3> DEFINE s == [Rest EXCEPT !.turn = t, !.pc = pc]
    <3>3. s \in Sweep /\ SweepFits(s, row) /\ sweep' = s
      BY <1>4, <3>1, <3>2
    <3> QED
      BY <3>3
  <2> QED
    BY <2>1, <2>2
<1>6. wake' \in BOOLEAN
  BY <1>1 DEF Inv, TypeOK
<1> QED
  BY <1>1, <1>5, <1>6, FaultsTyped, RowsStay

LEMMA SweepDispatchKeeps == ASSUME Inv, SweepDispatch PROVE Inv'
<1>1. /\ DispatchHead(accepted, row) /\ SweepGoto("next")
      /\ UNCHANGED <<accepted, tries, paid, worker, faults>> /\ wake' = wake
  BY DEF SweepDispatch, KeepRest
<1>2. sweep' \in Sweep /\ sweep'.pc = "next" /\ sweep'.saw = "untouched"
  BY <1>1, SweepGotoMoves DEF SweepSteps
<1>3. wake' \in BOOLEAN
  BY <1>1 DEF Inv, TypeOK
<1>4. accepted \in 0..MaxTurn /\ accepted' \in 0..MaxTurn
  BY <1>1 DEF Inv, TypeOK
<1> QED
  BY <1>1, <1>2, <1>3, <1>4, Dispatched

LEMMA SweepReadsKeeps == ASSUME Inv, SweepReads PROVE Inv'
<1> DEFINE pc == IF row[sweep.turn].marker # NoMarker THEN "project" ELSE "lock"
<1>1. /\ sweep.pc = "optimistic" /\ SweepGoto(pc) /\ wake' = wake /\ UNCHANGED faults
      /\ UNCHANGED <<accepted, row, job, tries, paid, worker>>
  BY DEF SweepReads, KeepRest
<1>2. pc \in SweepSteps
  BY DEF SweepSteps
<1>3. /\ sweep' \in Sweep /\ sweep'.pc = pc
      /\ sweep'.turn = sweep.turn /\ sweep'.saw = "untouched"
  BY <1>1, <1>2, SweepGotoMoves
<1>4. SweepFits(sweep', row)
  BY <1>1, <1>3, SweepAt DEF SweepFits
<1>5. wake' \in BOOLEAN
  BY <1>1 DEF Inv, TypeOK
<1> QED
  BY <1>1, <1>3, <1>4, <1>5, FaultsTyped, RowsStay

LEMMA SweepLocksKeeps == ASSUME Inv, SweepLocks PROVE Inv'
<1> DEFINE t == sweep.turn
           r == row[t]
           pc == IF ~Open(r) THEN "wake"
                 ELSE IF r.marker # NoMarker THEN "project" ELSE "decide"
           saw == IF Open(r) /\ r.marker = NoMarker THEN EvidenceOf(r) ELSE "untouched"
<1>1. /\ sweep.pc = "lock" /\ sweep' = [sweep EXCEPT !.pc = pc, !.saw = saw]
      /\ wake' = wake /\ UNCHANGED faults
      /\ UNCHANGED <<accepted, row, job, tries, paid, worker>>
  BY DEF SweepLocks, KeepRest
<1>2. /\ t \in Turn /\ r \in Row /\ RowFits(t, r, paid[t]) /\ SweepFits(sweep, row)
  BY <1>1, SweepAt
<1>3. pc \in SweepSteps /\ saw \in Evidence
  BY DEF SweepSteps, Evidence, EvidenceOf
<1>4. pc = "project" => r.marker # NoMarker
  OBVIOUS
<1>5. t \in Crisis => pc # "settle" /\ saw = "untouched"
  BY <1>2 DEF EvidenceOf, RowFits, CrisisFits
<1>6. pc = "decide" /\ saw = "untouched" => Losable(t, r)
  BY <1>2 DEF EvidenceOf, Losable, Open
<1>7. pc # "settle"
  OBVIOUS
<1> HIDE DEF pc, saw
<1>8. sweep' \in Sweep /\ sweep'.pc = pc /\ sweep'.turn = t /\ sweep'.saw = saw
  BY <1>1, <1>3 DEF Sweep, Inv, TypeOK
<1>9. SweepFits(sweep', row)
  BY <1>2, <1>4, <1>5, <1>6, <1>8 DEF SweepFits
<1>10. wake' \in BOOLEAN
  BY <1>1 DEF Inv, TypeOK
<1> QED
  BY <1>1, <1>8, <1>9, <1>10, FaultsTyped, RowsStay

LEMMA SweepFailsKeeps == ASSUME Inv, SweepFails PROVE Inv'
<1>1. /\ Fault /\ wake' = wake /\ UNCHANGED <<accepted, row, job, tries, paid, worker>>
      /\ \E last \in {NoTurn, sweep.turn} : sweep' = [Rest EXCEPT !.turn = last]
  BY DEF SweepFails
<1>2. sweep' \in Sweep /\ SweepFits(sweep', row)
  <2>1. PICK last \in {NoTurn, sweep.turn} : sweep' = [Rest EXCEPT !.turn = last]
    BY <1>1
  <2>2. last \in Turn \cup {NoTurn}
    BY DEF Inv, TypeOK, Sweep
  <2> QED
    BY <2>1, <2>2 DEF Rest, Sweep, SweepSteps, Evidence, SweepFits
<1>3. wake' \in BOOLEAN
  BY <1>1 DEF Inv, TypeOK
<1> QED
  BY <1>1, <1>2, <1>3, FaultTyped, RowsStay

LEMMA StopWakesKeeps == ASSUME Inv, StopWakes PROVE Inv'
<1>1. /\ DispatchHead(accepted, row) /\ wake' = FALSE
      /\ UNCHANGED <<accepted, tries, paid, worker, sweep, faults>>
  BY DEF StopWakes
<1>2. wake' \in BOOLEAN
  BY <1>1
<1>3. accepted \in 0..MaxTurn /\ accepted' \in 0..MaxTurn /\ sweep' \in Sweep /\ sweep' = sweep
      /\ UNCHANGED <<tries, paid, faults>> /\ worker' = worker
  BY <1>1 DEF Inv, TypeOK
<1> QED
  BY <1>1, <1>2, <1>3, Dispatched

LEMMA StopWakeFailsKeeps == ASSUME Inv, StopWakeFails PROVE Inv'
<1>1. /\ wake' = FALSE /\ Fault
      /\ UNCHANGED <<accepted, row, job, tries, paid, worker>> /\ sweep' = sweep
  BY DEF StopWakeFails
<1>2. wake' \in BOOLEAN
  BY <1>1
<1>3. sweep' \in Sweep /\ SweepFits(sweep', row)
  BY <1>1 DEF Inv, TypeOK, SweepFit
<1> QED
  BY <1>1, <1>2, <1>3, FaultTyped, RowsStay

LEMMA SweepDecidesKeeps == ASSUME Inv, SweepDecides PROVE Inv'
<1> DEFINE t == sweep.turn
           r == row[t]
           live == job[t] \in LiveJob
           loses == ~live /\ sweep.saw = "untouched"
           pc == IF loses THEN "wake"
                 ELSE IF ~live /\ sweep.saw = "expired" THEN "settle" ELSE "next"
           x == Lost(r)
<1>1. /\ sweep.pc = "decide" /\ SweepGoto(pc)
      /\ row' = IF loses THEN [row EXCEPT ![t] = Lost(@)] ELSE row
      /\ wake' = wake /\ UNCHANGED <<accepted, job, tries, paid, worker, faults>>
  BY DEF SweepDecides, KeepRest
<1>2. /\ t \in Turn /\ r \in Row /\ RowFits(t, r, paid[t]) /\ SweepFits(sweep, row)
  BY <1>1, SweepAt
<1>3. pc \in SweepSteps
  BY DEF SweepSteps
<1>4. /\ sweep' \in Sweep /\ sweep'.pc = pc
      /\ sweep'.turn = t /\ sweep'.saw = "untouched"
  BY <1>1, <1>3, SweepGotoMoves
<1>5. wake' \in BOOLEAN
  BY <1>1 DEF Inv, TypeOK
<1>6. CASE loses
  <2>1. Losable(t, r)
    BY <1>1, <1>2, <1>6 DEF SweepFits
  <2>2. x \in Row /\ Kept(r, x) /\ RowFits(t, x, paid[t]) /\ (Open(r) => x.verdicts = <<"lost">>)
    BY <1>2, <2>1, LostFits
  <2>3. row' = [row EXCEPT ![t] = x]
    BY <1>1, <1>6
  <2> HIDE DEF x
  <2>4. SweepFits(sweep', [row EXCEPT ![t] = x])
    BY <1>2, <1>4, <1>6 DEF SweepFits
  <2>5. ASSUME NEW v \in Worker, At(v, "template"), Of(v) = t
        PROVE  x.verdicts \in {<<>>, <<"lost">>}
    <3>1. r.verdicts \in {<<>>, <<"lost">>} /\ t \in Crisis
      BY <2>5 DEF Inv, Answering, DeliveriesFit, DeliveryFits, At, Of, Mine
    <3>2. <<"lost">> # <<>> /\ <<"lost">> # <<"done">>
      OBVIOUS
    <3>3. r.verdicts = <<>>
      BY <2>1, <3>1, <3>2 DEF Losable
    <3> QED
      BY <2>2, <3>3 DEF Open
  <2>6. UNCHANGED <<accepted, job, tries, paid, faults>> /\ worker' = worker
    BY <1>1
  <2> HIDE DEF pc, loses, live, r, t
  <2>7. Kept(row[t], x)
    BY <2>2 DEF r
  <2> QED
    BY <1>2, <1>4, <1>5, <2>2, <2>3, <2>4, <2>5, <2>6, <2>7, OthersWrite
<1>7. CASE ~loses
  <2>1. row' = row
    BY <1>1, <1>7 DEF Inv, TypeOK
  <2>2. SweepFits(sweep', row)
    BY <1>2, <1>4, <1>7 DEF SweepFits, Sweep, Evidence
  <2>3. UNCHANGED <<accepted, row, job, tries, paid, worker>> /\ faults' \in 0..MaxFaults
    BY <1>1, <2>1, FaultsTyped
  <2> QED
    BY <1>4, <1>5, <2>2, <2>3, RowsStay
<1> QED
  BY <1>6, <1>7

LEMMA SweepSettlesKeeps == ASSUME Inv, SweepSettles PROVE Inv'
<1> DEFINE t == sweep.turn
           x == Marked(row[t], "ambiguous")
           pc == IF Open(row[t]) THEN "project" ELSE "wake"
<1>1. /\ sweep.pc = "settle" /\ SweepGoto(pc) /\ row' = [row EXCEPT ![t] = Marked(@, "ambiguous")]
      /\ wake' = wake /\ UNCHANGED <<accepted, job, tries, paid, worker, faults>>
  BY DEF SweepSettles, KeepRest
<1>2. /\ t \in Turn /\ row[t] \in Row /\ RowFits(t, row[t], paid[t]) /\ SweepFits(sweep, row)
  BY <1>1, SweepAt
<1>3. t \notin Crisis
  BY <1>1, <1>2 DEF SweepFits
<1>4. /\ x \in Row /\ Kept(row[t], x) /\ RowFits(t, x, paid[t])
      /\ Open(row[t]) => x.marker # NoMarker
  BY <1>2, <1>3, MarkedFits DEF Outcomes
<1>5. row' = [row EXCEPT ![t] = x]
  BY <1>1, <1>2 DEF Inv, TypeOK
<1> HIDE DEF x
<1>6. pc \in SweepSteps /\ pc \in {"project", "wake"} /\ (pc = "project" => x.marker # NoMarker)
  BY <1>4 DEF SweepSteps
<1> HIDE DEF pc
<1>7. /\ sweep' \in Sweep /\ sweep'.pc = pc
      /\ sweep'.turn = t /\ sweep'.saw = "untouched"
  BY <1>1, <1>6, SweepGotoMoves
<1>8. [row EXCEPT ![t] = x][t] = x
  BY <1>2 DEF Inv, TypeOK
<1> HIDE DEF t
<1>9. SweepFits(sweep', [row EXCEPT ![t] = x])
  BY <1>2, <1>6, <1>7, <1>8 DEF SweepFits
<1>10. wake' \in BOOLEAN
  BY <1>1 DEF Inv, TypeOK
<1>11. \A v \in Worker : ~(At(v, "template") /\ Of(v) = t)
  BY <1>3 DEF Inv, DeliveriesFit, DeliveryFits, At, Of
<1>12. UNCHANGED <<accepted, job, tries, paid, faults>> /\ worker' = worker
  BY <1>1
<1> QED
  BY <1>2, <1>4, <1>5, <1>7, <1>9, <1>10, <1>11, <1>12, OthersWrite

LEMMA SweepProjectsKeeps == ASSUME Inv, SweepProjects PROVE Inv'
<1> DEFINE t == sweep.turn
           x == Projected(row[t])
<1>1. /\ sweep.pc = "project" /\ SweepGoto("wake") /\ row' = [row EXCEPT ![t] = Projected(@)]
      /\ wake' = wake /\ UNCHANGED <<accepted, job, tries, paid, worker, faults>>
  BY DEF SweepProjects, KeepRest
<1>2. /\ t \in Turn /\ row[t] \in Row /\ RowFits(t, row[t], paid[t]) /\ SweepFits(sweep, row)
  BY <1>1, SweepAt
<1>3. row[t].marker # NoMarker
  BY <1>1, <1>2 DEF SweepFits
<1>4. /\ x \in Row /\ Kept(row[t], x) /\ RowFits(t, x, paid[t])
      /\ t \in Crisis => x = row[t]
  BY <1>2, <1>3, ProjectedFits
<1>5. row' = [row EXCEPT ![t] = x]
  BY <1>1, <1>2 DEF Inv, TypeOK
<1> HIDE DEF x
<1>6. /\ sweep' \in Sweep /\ sweep'.pc = "wake"
      /\ sweep'.turn = t /\ sweep'.saw = "untouched"
  BY <1>1, SweepGotoMoves DEF SweepSteps
<1> HIDE DEF t
<1>7. SweepFits(sweep', [row EXCEPT ![t] = x])
  BY <1>2, <1>6 DEF SweepFits
<1>8. wake' \in BOOLEAN
  BY <1>1 DEF Inv, TypeOK
<1>9. \A v \in Worker : At(v, "template") /\ Of(v) = t => x.verdicts \in {<<>>, <<"lost">>}
  <2>1. ASSUME NEW v \in Worker, At(v, "template"), Of(v) = t
        PROVE  t \in Crisis /\ row[t].verdicts \in {<<>>, <<"lost">>}
    BY <2>1 DEF Inv, Answering, DeliveriesFit, DeliveryFits, At, Of, Mine
  <2> QED
    BY <1>4, <2>1
<1>10. UNCHANGED <<accepted, job, tries, paid, faults>> /\ worker' = worker
  BY <1>1
<1> QED
  BY <1>2, <1>4, <1>5, <1>6, <1>7, <1>8, <1>9, <1>10, OthersWrite

LEMMA StopKeeps == ASSUME Inv, NEW t \in Turn, Stop(t) PROVE Inv'
<1> DEFINE r == row[t]
           asked == [r EXCEPT !.cancel = TRUE]
           settled == ~Open(r) \/ r.marker # NoMarker
           x == IF settled THEN r ELSE IF r.fence THEN asked ELSE Stopped(asked)
<1>1. /\ Unlocked(t) /\ Unsettling(t)
      /\ row' = [row EXCEPT ![t] = IF settled THEN @ ELSE IF @.fence THEN asked ELSE Stopped(asked)]
      /\ wake' = (wake \/ settled \/ ~r.fence)
      /\ UNCHANGED <<accepted, job, tries, paid, worker, sweep, faults>>
  BY DEF Stop
<1>2. r \in Row /\ RowFits(t, r, paid[t])
  BY DEF Inv, TypeOK, RowsFit
<1>3. row' = [row EXCEPT ![t] = x]
  BY <1>1 DEF Inv, TypeOK
<1>4. x \in Row /\ Kept(r, x) /\ RowFits(t, x, paid[t])
  <2>1. CASE settled
    BY <1>2, <2>1 DEF Kept
  <2>2. CASE ~settled /\ r.fence
    <3>1. x = asked
      BY <2>2
    <3>2. /\ asked \in Row /\ asked.verdicts = r.verdicts /\ asked.fence = r.fence
          /\ asked.started = r.started /\ asked.marker = r.marker
          /\ asked.dispatched = r.dispatched
      BY <1>2 DEF Row
    <3>3. Says(asked) = Says(r) /\ t \notin Crisis
      BY <1>2, <2>2, <3>2 DEF Says, RowFits, CrisisFits
    <3> HIDE DEF asked, x
    <3>4. RowFits(t, asked, paid[t])
      BY <1>2, <2>2, <3>2, <3>3 DEF RowFits, Open
    <3>5. Kept(r, asked)
      BY <3>2 DEF Kept, Open
    <3> QED
      BY <3>1, <3>2, <3>4, <3>5
  <2>3. CASE ~settled /\ ~r.fence
    <3>1. x = Stopped(asked)
      BY <2>3
    <3> HIDE DEF x
    <3> QED
      BY <1>2, <2>3, <3>1, StoppedFits
  <2> QED
    BY <2>1, <2>2, <2>3
<1> HIDE DEF x
<1>5. wake' \in BOOLEAN
  BY <1>1, Zenon
<1>6. sweep' \in Sweep /\ sweep' = sweep /\ SweepFits(sweep, row)
  BY <1>1 DEF Inv, TypeOK, SweepFit
<1>7. KeptAll(row, [row EXCEPT ![t] = x])
  BY <1>2, <1>4 DEF KeptAll, Kept, Inv, TypeOK
<1>8. ASSUME sweep.pc = "decide", Losable(sweep.turn, row[sweep.turn])
      PROVE  Losable(sweep.turn, [row EXCEPT ![t] = x][sweep.turn])
  <2>1. sweep.turn # t /\ sweep.turn \in Turn
    BY <1>1, <1>6, <1>8 DEF Unlocked, SweepFits
  <2>2. [row EXCEPT ![t] = x][sweep.turn] = row[sweep.turn]
    BY <2>1 DEF Inv, TypeOK
  <2> QED
    BY <1>8, <2>2
<1>9. SweepFits(sweep', [row EXCEPT ![t] = x])
  BY <1>6, <1>7, <1>8, SweepKept
<1>10. \A v \in Worker : ~(At(v, "template") /\ Of(v) = t)
  BY <1>1 DEF Unsettling, At, Of
<1>11. UNCHANGED <<accepted, job, tries, paid, faults>> /\ worker' = worker
  BY <1>1
<1> QED
  BY <1>3, <1>4, <1>5, <1>6, <1>9, <1>10, <1>11, OthersWrite

LEMMA DeadlinePassesKeeps == ASSUME Inv, NEW t \in Turn, DeadlinePasses(t) PROVE Inv'
<1> DEFINE r == row[t]
           x == [r EXCEPT !.expired = TRUE]
<1>1. /\ row' = [row EXCEPT ![t].expired = TRUE] /\ wake' = wake
      /\ UNCHANGED <<accepted, job, tries, paid, sweep, faults>> /\ worker' = worker
  BY DEF DeadlinePasses, Keep
<1>2. r \in Row /\ RowFits(t, r, paid[t])
  BY DEF Inv, TypeOK, RowsFit
<1>3. x \in Row /\ Same(r, x) /\ x.dispatched = r.dispatched
  BY <1>2 DEF Row, Same
<1>4. row' = [row EXCEPT ![t] = x]
  BY <1>1 DEF Inv, TypeOK
<1> HIDE DEF x
<1>5. Kept(r, x) /\ RowFits(t, x, paid[t])
  BY <1>2, <1>3, SameFits DEF Kept, Same, Open
<1>6. sweep' \in Sweep /\ sweep' = sweep /\ SweepFits(sweep, row)
  BY <1>1 DEF Inv, TypeOK, SweepFit
<1>7. KeptAll(row, [row EXCEPT ![t] = x])
  BY <1>2, <1>5 DEF KeptAll, Kept, Inv, TypeOK
<1>8. ASSUME sweep.pc = "decide", Losable(sweep.turn, row[sweep.turn])
      PROVE  Losable(sweep.turn, [row EXCEPT ![t] = x][sweep.turn])
  <2>1. sweep.turn \in Turn
    BY <1>6, <1>8 DEF SweepFits
  <2>2. [row EXCEPT ![t] = x][sweep.turn] = IF sweep.turn = t THEN x ELSE row[sweep.turn]
    BY <2>1 DEF Inv, TypeOK
  <2> QED
    BY <1>3, <1>8, <2>2, SameLosable
<1>9. SweepFits(sweep', [row EXCEPT ![t] = x])
  BY <1>6, <1>7, <1>8, SweepKept
<1>10. \A v \in Worker : At(v, "template") /\ Of(v) = t => x.verdicts \in {<<>>, <<"lost">>}
  BY <1>3 DEF Inv, Answering, At, Of, Mine, Same
<1>11. wake' \in BOOLEAN
  BY <1>1 DEF Inv, TypeOK
<1> QED
  BY <1>1, <1>3, <1>4, <1>5, <1>6, <1>9, <1>10, <1>11, OthersWrite

\* Only the job of a turn moves.
LEMMA JobOnly ==
  ASSUME Inv, NEW t \in Turn, NEW j \in {"retry", "over"}, job[t] # "none",
         j = "retry" => tries[t] <= Retries,
         job' = [job EXCEPT ![t] = j], faults' \in 0..MaxFaults,
         UNCHANGED <<accepted, row, tries, paid, worker, sweep, wake>>
  PROVE  Inv'
<1>1. tries' = [tries EXCEPT ![t] = tries[t]] /\ tries[t] \in 0..(Retries + 1)
  BY FailedTyped
<1>2. j \in JobStates
  BY DEF JobStates, LiveJob
<1>3. job' \in [Turn -> JobStates] /\ tries' \in [Turn -> 0..Retries + 1] /\ Queued'
  BY <1>1, <1>2, JobMoved DEF Inv
<1>4. TypeOK'
  BY <1>3 DEF Inv, TypeOK
<1>5. RowsFit' /\ Answering'
  BY DEF Inv, RowsFit, Answering, At, Of, Mine
<1>6. DeliveriesFit' /\ SweepFit'
  BY KeptSame, WorkersStay DEF Inv, SweepFit
<1> QED
  BY <1>3, <1>4, <1>5, <1>6 DEF Inv

LEMMA ExpireKeeps == ASSUME Inv, NEW t \in Turn, Expire(t) PROVE Inv'
<1>1. /\ job[t] # "none" /\ job' = [job EXCEPT ![t] = Failed(t)]
      /\ UNCHANGED <<accepted, row, tries, paid, worker, sweep, wake, faults>>
  BY DEF Expire, Keep
<1>2. UNCHANGED <<accepted, row, tries, paid, worker, sweep, wake>> /\ faults' \in 0..MaxFaults
  BY <1>1, FaultsTyped
<1>3. Failed(t) \in {"retry", "over"} /\ (Failed(t) = "retry" => tries[t] <= Retries)
  BY FailedTyped
<1> QED
  BY <1>1, <1>2, <1>3, JobOnly

LEMMA JobLostKeeps == ASSUME Inv, NEW t \in Turn, JobLost(t) PROVE Inv'
<1>1. /\ job[t] # "none" /\ job' = [job EXCEPT ![t] = "over"] /\ Fault
      /\ UNCHANGED <<accepted, row, tries, paid, worker, sweep, wake>>
  BY DEF JobLost, LiveJob
<1>2. faults' \in 0..MaxFaults
  BY <1>1, FaultTyped
<1> QED
  BY <1>1, <1>2, JobOnly

---------------------------------------------------------------------------
(* The invariant is inductive *)

LEMMA InvInit == Init => Inv
<1> SUFFICES ASSUME Init PROVE Inv
  OBVIOUS
<1>1. Blank \in Row /\ Open(Blank) /\ Says(Blank) = {}
  BY EmptySeq, SaysNothing DEF Blank, Row, Outcomes, Open
<1>2. Free \in Delivery /\ Rest \in Sweep
  BY DEF Free, Delivery, Steps, Rest, Sweep, SweepSteps, Evidence
<1>3. TypeOK
  <2>1. row \in [Turn -> Row] /\ worker \in [Worker -> Delivery] /\ sweep \in Sweep
    BY <1>1, <1>2 DEF Init
  <2>2. accepted \in 0..MaxTurn /\ faults \in 0..MaxFaults
    BY BoundAssumption DEF Init
  <2>3. wake \in BOOLEAN
    BY DEF Init
  <2>4. 0 \in 0..Retries + 1 /\ "none" \in JobStates
    BY BoundAssumption DEF JobStates
  <2>5. job \in [Turn -> JobStates] /\ tries \in [Turn -> 0..Retries + 1] /\ paid \in [Turn -> Nat]
    BY <2>4 DEF Init
  <2> QED
    BY <2>1, <2>2, <2>3, <2>5 DEF TypeOK
<1>4. RowsFit
  <2>1. ASSUME NEW t \in Turn PROVE RowFits(t, Blank, 0)
    BY <1>1 DEF RowFits, CrisisFits, Blank
  <2> QED
    BY <2>1 DEF Init, RowsFit
<1>5. DeliveriesFit
  BY FreeFits DEF Init, DeliveriesFit
<1>6. SweepFit /\ Answering
  BY DEF Init, SweepFit, SweepFits, Rest, Answering, At, Free
<1>7. Queued
  BY DEF Init, Queued, TriesLeft, OneTurnAtATime
<1> QED
  BY <1>3, <1>4, <1>5, <1>6, <1>7 DEF Inv

LEMMA InvNext == Inv /\ [Next]_vars => Inv'
<1> SUFFICES ASSUME Inv, [Next]_vars PROVE Inv'
  OBVIOUS
<1>1. CASE Accept
  BY <1>1, AcceptKeeps
<1>2. CASE Sweeps
  BY <1>2, SweepNextKeeps, SweepDispatchKeeps, SweepReadsKeeps, SweepLocksKeeps,
     SweepDecidesKeeps, SweepSettlesKeeps, SweepProjectsKeeps DEF Sweeps
<1>3. CASE StopWakes \/ StopWakeFails \/ SweepFails
  BY <1>3, StopWakesKeeps, StopWakeFailsKeeps, SweepFailsKeeps
<1>4. CASE \E t \in Turn : Stop(t) \/ DeadlinePasses(t) \/ Expire(t) \/ JobLost(t)
  BY <1>4, StopKeeps, DeadlinePassesKeeps, ExpireKeeps, JobLostKeeps
<1>5. ASSUME NEW w \in Worker, Delivers(w) PROVE Inv'
  BY <1>5, ReplayKeeps, ReadReplyKeeps, CrisisLocksKeeps, CrisisReplyKeeps, MarkStartedKeeps,
     StartGateKeeps, ClaimFenceKeeps, FinishKeeps, ResumeKeeps, SettleKeeps, ProjectKeeps,
     WakeSessionKeeps, AcknowledgeKeeps DEF Delivers
<1>6. ASSUME NEW w \in Worker, HeartbeatMissed(w) \/ Crash(w) \/ Throws(w) \/ SettlesAgain(w)
      PROVE Inv'
  BY <1>6, HeartbeatMissedKeeps, CrashKeeps, ThrowsKeeps, SettlesAgainKeeps
<1>7. CASE \E w \in Worker, t \in Turn : Pickup(w, t)
  BY <1>7, PickupKeeps
<1>8. CASE UNCHANGED vars
  <2>1. sweep' \in Sweep /\ SweepFits(sweep', row) /\ faults' \in 0..MaxFaults
        /\ UNCHANGED <<accepted, row, job, tries, paid, worker>> /\ wake' = wake
    BY <1>8 DEF vars, Inv, TypeOK, SweepFit
  <2>2. wake' \in BOOLEAN
    BY <2>1 DEF Inv, TypeOK
  <2> QED
    BY <2>1, <2>2, RowsStay
<1> QED
  BY <1>1, <1>2, <1>3, <1>4, <1>5, <1>6, <1>7, <1>8 DEF Next

---------------------------------------------------------------------------
(* Theorems *)

\* The inductive invariant: what each row, each delivery and the sweep may rely on while
\* the others write.
THEOREM TurnsCorrect == Spec => []Inv
BY InvInit, InvNext, PTL DEF Spec

\* Rows, jobs, deliveries and the sweep stay well typed, for every session.
THEOREM TurnsTyped == Spec => []TypeOK
<1>1. Inv => TypeOK
  BY DEF Inv
<1> QED
  BY <1>1, TurnsCorrect, PTL

LEMMA AtMostOne ==
  ASSUME NEW r, r.verdicts \in {<<>>, <<r.marker>>, <<"stopped">>}
  PROVE  Len(r.verdicts) <= 1 /\ (~Open(r) => r.verdicts[1] \in {r.marker, "stopped"})
<1>1. CASE r.verdicts = <<>>
  <2>1. Len(<<>>) = 0
    BY EmptySeq
  <2> QED
    BY <1>1, <2>1 DEF Open
<1>2. ASSUME NEW v \in {r.marker, "stopped"}, r.verdicts = <<v>>
      PROVE  Len(r.verdicts) <= 1 /\ r.verdicts[1] \in {r.marker, "stopped"}
  <2>1. Len(<<v>>) = 1 /\ <<v>>[1] = v
    OBVIOUS
  <2> QED
    BY <1>2, <2>1
<1> QED
  BY <1>1, <1>2

\* However deliveries, Stop and the sweep interleave and fail, the verdict of a turn is one,
\* and it is the one its marker says, outside the late gate and the overtaken crisis answer.
THEOREM VerdictIsOne == Spec => []OneVerdict
<1>1. ASSUME Inv, NEW t \in Turn, ~StoppedLate(t), ~LostLate(t)
      PROVE  /\ Len(row[t].verdicts) <= 1
             /\ ~Open(row[t]) => row[t].verdicts[1] \in {row[t].marker, "stopped"}
  <2> DEFINE r == row[t]
  <2>1. RowFits(t, r, paid[t]) /\ Says(r) = Said(t)
    BY <1>1 DEF Inv, RowsFit, Says, Said
  <2> HIDE DEF r
  <2>2. CASE t \notin Crisis
    <3>1. r.verdicts \in {<<>>, <<r.marker>>, <<"stopped">>}
      BY <1>1, <2>1, <2>2 DEF RowFits, StoppedLate
    <3> QED
      BY <3>1, AtMostOne DEF r
  <2>3. CASE t \in Crisis
    <3>1. CrisisFits(r)
      BY <2>1, <2>3 DEF RowFits
    <3>2. r.verdicts # <<"done", "lost">> /\ r.verdicts # <<"lost", "done">>
      <4>1. ASSUME r.verdicts = <<"done", "lost">> \/ r.verdicts = <<"lost", "done">>
            PROVE  Says(r) = {"done", "lost"}
        BY <4>1 DEF Says
      <4> QED
        BY <1>1, <2>1, <2>3, <4>1 DEF LostLate
    <3>3. r.verdicts \in {<<>>, <<r.marker>>, <<"stopped">>}
      BY <3>1, <3>2 DEF CrisisFits
    <3> QED
      BY <3>3, AtMostOne DEF r
  <2> QED
    BY <2>2, <2>3
<1>2. Inv => OneVerdict
  BY <1>1 DEF OneVerdict
<1> QED
  BY <1>2, TurnsCorrect, PTL

\* No turn is executed twice, and none that the learner was told had not called the model
\* has called it: the fence and the verdicts before it exclude each other.
THEOREM NotCalledIsTrue == Spec => []ToldUnpaid
<1>1. ASSUME Inv, NEW t \in Turn
      PROVE  /\ paid[t] <= 1
             /\ Said(t) \cap {"lost", "stopped"} # {} => paid[t] = 0
  <2>1. RowFits(t, row[t], paid[t]) /\ Says(row[t]) = Said(t)
    BY <1>1 DEF Inv, RowsFit, Says, Said
  <2> QED
    BY <2>1 DEF RowFits
<1>2. Inv => ToldUnpaid
  BY <1>1 DEF ToldUnpaid
<1> QED
  BY <1>2, TurnsCorrect, PTL

\* A turn's job waits for the verdict of every earlier turn of the session: only the head
\* is dispatched, and a verdict is never taken back.
THEOREM OneTurnRuns == Spec => []OneTurnAtATime
<1>1. Inv => OneTurnAtATime
  BY DEF Inv, Queued
<1> QED
  BY <1>1, TurnsCorrect, PTL
=============================================================================
