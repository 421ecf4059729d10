------------------------- MODULE EventDispatchProofs -------------------------
(***************************************************************************)
(* Proofs about EventDispatch, for every finite set of events and versions *)
(* and every number of workers, attempts, redrives and crashes.            *)
(***************************************************************************)
EXTENDS EventDispatch, FiniteSetTheorems, WellFoundedInduction, TLAPS

---------------------------------------------------------------------------
(* Ranks and maxima *)

\* A bounded set of naturals has a greatest element.
LEMMA MaxFits ==
  ASSUME NEW S \in SUBSET Nat, S # {}, NEW b \in Nat, \A x \in S : x <= b
  PROVE  Max(S) \in S /\ \A x \in S : x <= Max(S)
<1> DEFINE U == {n \in Nat : \A x \in S : x <= n}
<1>1. U \subseteq Nat /\ U # {}
  <2>1. b \in U
    OBVIOUS
  <2> QED
    BY <2>1
<1>2. PICK n \in U : \A m \in U : ~ (<<m, n>> \in OpToRel(<, Nat))
  <2> HIDE DEF U
  <2> QED
    BY <1>1, NatLessThanWellFounded, WFMin
<1>3. n \in Nat /\ \A x \in S : x <= n
  OBVIOUS
<1>4. n \in S
  <2> SUFFICES ASSUME n \notin S PROVE FALSE
    OBVIOUS
  <2>1. \A x \in S : x < n
    BY <1>3
  <2>2. n > 0
    <3>1. PICK x \in S : TRUE
      OBVIOUS
    <3>2. x \in Nat /\ x < n
      BY <2>1
    <3> QED
      BY <1>3, <3>2
  <2>3. n - 1 \in U
    BY <1>3, <2>1, <2>2
  <2>4. <<n - 1, n>> \in OpToRel(<, Nat)
    BY <1>3, <2>2 DEF OpToRel
  <2> QED
    BY <1>2, <2>3, <2>4
<1>5. \E x \in S : \A y \in S : x >= y
  BY <1>3, <1>4
<1>6. Max(S) \in S /\ \A y \in S : Max(S) >= y
  BY <1>5 DEF Max
<1> QED
  BY <1>6

\* After is beyond every number it is given.
LEMMA AfterFits ==
  ASSUME NEW numbers, NEW has, \A e \in has : numbers[e] \in Nat,
         NEW b \in Nat, \A e \in has : numbers[e] <= b
  PROVE  /\ After(numbers, has) \in Nat \ {0}
         /\ \A e \in has : numbers[e] < After(numbers, has)
<1> DEFINE S == {0} \cup {numbers[e] : e \in has}
<1>1. S \in SUBSET Nat /\ S # {} /\ \A x \in S : x <= b
  OBVIOUS
<1>2. \A e \in has : numbers[e] \in S
  OBVIOUS
<1>3. After(numbers, has) = 1 + Max(S)
  BY DEF After
<1> HIDE DEF S
<1>4. Max(S) \in S /\ \A x \in S : x <= Max(S)
  BY <1>1, MaxFits
<1>5. Max(S) \in Nat /\ \A e \in has : numbers[e] <= Max(S)
  BY <1>1, <1>2, <1>4
<1> HIDE DEF After
<1>6. \A e \in has : numbers[e] < 1 + Max(S)
  BY <1>5
<1> QED
  BY <1>3, <1>5, <1>6

LEMMA EventsFinite ==
  /\ Event \subseteq Nat \ {0} /\ IsFiniteSet(Event)
  /\ IsFiniteSet(Version \X Event) /\ Cardinality(Version \X Event) \in Nat
<1>1. IsFiniteSet(Version \X Event)
  BY SubscriberAssumption, FS_Product
<1> QED
  BY <1>1, SubscriberAssumption, FS_CardinalityType

\* A rank counts from one, and rises with every member.
LEMMA RankFits ==
  ASSUME NEW S \in SUBSET Event, NEW e \in Event
  PROVE  /\ Rank(S, e) \in Nat /\ Rank(S, e) <= Cardinality(Event)
         /\ e \in S => Rank(S, e) > 0
<1> DEFINE T == {f \in S : f <= e}
<1>1. T \in SUBSET Event /\ IsFiniteSet(Event)
  BY EventsFinite
<1>2. IsFiniteSet(T) /\ Cardinality(T) <= Cardinality(Event)
  BY <1>1, FS_Subset
<1>3. Cardinality(T) \in Nat
  BY <1>2, FS_CardinalityType
<1>4. e \in S => T # {}
  BY EventsFinite
<1>5. T # {} => Cardinality(T) > 0
  BY <1>2, <1>3, FS_EmptySet
<1> QED
  BY <1>2, <1>3, <1>4, <1>5 DEF Rank

LEMMA RankRises ==
  ASSUME NEW S \in SUBSET Event, NEW e \in Event, NEW f \in S, e < f
  PROVE  Rank(S, e) < Rank(S, f)
<1> DEFINE T == {g \in S : g <= e}
           U == {g \in S : g <= f}
<1>1. U \in SUBSET Event /\ IsFiniteSet(Event)
  BY EventsFinite
<1>2. IsFiniteSet(U)
  BY <1>1, FS_Subset
<1>3. T \in SUBSET U /\ f \in U /\ f \notin T
  <2>1. f \in Nat /\ \A g \in S : g \in Nat
    BY EventsFinite
  <2>2. \A g \in S : g <= e => g <= f
    BY <2>1, EventsFinite
  <2>3. ~(f <= e) /\ f <= f
    BY <2>1, EventsFinite
  <2> QED
    BY <2>2, <2>3
<1>4. IsFiniteSet(T) /\ Cardinality(T) <= Cardinality(U) /\ Cardinality(T) # Cardinality(U)
  BY <1>2, <1>3, FS_Subset
<1>5. Cardinality(T) \in Nat /\ Cardinality(U) \in Nat
  BY <1>2, <1>4, FS_CardinalityType
<1> QED
  BY <1>4, <1>5 DEF Rank

LEMMA RankTellsApart ==
  ASSUME NEW S \in SUBSET Event, NEW e \in S, NEW f \in S, Rank(S, e) = Rank(S, f)
  PROVE  e = f
<1>1. e \in Nat /\ f \in Nat /\ e \in Event /\ f \in Event
  BY EventsFinite
<1>2. Rank(S, e) \in Nat /\ Rank(S, f) \in Nat
  BY <1>1, RankFits
<1>3. ~(e < f) /\ ~(f < e)
  BY <1>1, <1>2, RankRises
<1> QED
  BY <1>1, <1>3

---------------------------------------------------------------------------
(* The inductive invariant, in parts *)

Checkpoints == {"none", "translated", "marked", "active"}

RestTyped ==
  /\ visible \subseteq Event
  /\ deployed \in Version
  /\ holder \in [Version -> Worker \cup {NoWorker}]
  /\ live \in [Version -> BOOLEAN]
  /\ pc \in [Worker -> {"idle", "booting", "discovering", "draining", "handling", "ending"}]
  /\ job \in [Worker -> Event \cup {NoEvent}]
  /\ crashes \in Nat

RowsTyped ==
  /\ checkpoint \in [Version -> Checkpoints]
  /\ status \in [Version -> [Event -> Statuses]]
  /\ seq \in [Version -> [Event -> Nat]]
  /\ attempts \in [Version -> [Event -> Nat]]
  /\ redrives \in [Version -> [Event -> Nat]]
  /\ due \in [Version -> [Event -> BOOLEAN]]
  /\ nextSeq \in [Version -> Nat \ {0}]
  /\ claimant \in [Version -> [Event -> Worker \cup {NoWorker}]]
  /\ claimLive \in [Version -> [Event -> BOOLEAN]]

\* One delivery: its claim, its retry and its budget.  What may still be tried has an
\* attempt left.
RowFits(s, a, r, d, c, l) ==
  /\ s = "claimed" <=> c # NoWorker
  /\ l => c # NoWorker
  /\ d => s = "retry_wait"
  /\ a <= MaxAttempts + r
  /\ s \in Outstanding \cup {"none"} => a < MaxAttempts + r

Untried == {"none", "pending", "retry_wait", "bootstrap_skipped"}

\* A version that is not active has handled nothing.
CheckpointFits(c, st) ==
  /\ c = "none" => \A e \in Event : st[e] = "none"
  /\ c # "active" => \A e \in Event : st[e] \in Untried

\* The numbers of a version tell its rows apart, and the next one is beyond them.
NumbersFit(c, st, sq, n) ==
  /\ c = "translated" =>
       \A e \in Event : st[e] # "none" => sq[e] <= 1 + Cardinality(Version \X Event)
  /\ c \in {"marked", "active"} => \A e \in Event : st[e] # "none" => sq[e] < n
  /\ \A e, f \in Event : st[e] # "none" /\ st[f] # "none" /\ sq[e] = sq[f] => e = f

Touched == {"claimed", "succeeded", "skipped", "superseded", "dead_letter"}

OrderFits(st, sq) ==
  \A e, f \in Event :
    st[e] \in Touched /\ st[f] # "none" /\ sq[f] < sq[e] => st[f] \in Terminal

VersionFits(c, st, sq, at, rd, du, n, cl, lv) ==
  /\ \A e \in Event : RowFits(st[e], at[e], rd[e], du[e], cl[e], lv[e])
  /\ CheckpointFits(c, st)
  /\ NumbersFit(c, st, sq, n)
  /\ OrderFits(st, sq)

VersionsFit ==
  \A v \in Version :
    VersionFits(checkpoint[v], status[v], seq[v], attempts[v], redrives[v], due[v],
                nextSeq[v], claimant[v], claimLive[v])

Booting(v) == checkpoint[v] \in {"translated", "marked"}

\* A lease is of an active version, a bootstrap has one worker, a handler one delivery.
CyclesFit ==
  /\ \A v \in Version : live[v] => checkpoint[v] = "active"
  /\ \A w \in Worker : pc[w] = "booting" => Booting(VersionOf[w])
  /\ \A w, x \in Worker :
       pc[w] = "booting" /\ pc[x] = "booting" /\ VersionOf[w] = VersionOf[x] => w = x
  /\ \A w \in Worker : pc[w] = "handling" => job[w] \in Event

Inv == RestTyped /\ RowsTyped /\ VersionsFit /\ CyclesFit

---------------------------------------------------------------------------
(* The steps of one version *)

LEMMA OfWorker == ASSUME NEW w \in Worker PROVE VersionOf[w] \in Version
BY SubscriberAssumption

RowsOf(c, st, sq, at, rd, du, n, cl, lv) ==
  /\ c \in Checkpoints
  /\ st \in [Event -> Statuses] /\ sq \in [Event -> Nat]
  /\ at \in [Event -> Nat] /\ rd \in [Event -> Nat]
  /\ du \in [Event -> BOOLEAN] /\ n \in Nat \ {0}
  /\ cl \in [Event -> Worker \cup {NoWorker}] /\ lv \in [Event -> BOOLEAN]

Replaced(v, c, st, sq, at, rd, du, n, cl, lv) ==
  /\ checkpoint' = [checkpoint EXCEPT ![v] = c] /\ status' = [status EXCEPT ![v] = st]
  /\ seq' = [seq EXCEPT ![v] = sq] /\ attempts' = [attempts EXCEPT ![v] = at]
  /\ redrives' = [redrives EXCEPT ![v] = rd] /\ due' = [due EXCEPT ![v] = du]
  /\ nextSeq' = [nextSeq EXCEPT ![v] = n] /\ claimant' = [claimant EXCEPT ![v] = cl]
  /\ claimLive' = [claimLive EXCEPT ![v] = lv]

\* The rows of one version are replaced.
LEMMA VersionMoves ==
  ASSUME RowsTyped, VersionsFit, NEW v \in Version, NEW c, NEW st, NEW sq, NEW at, NEW rd,
         NEW du, NEW n, NEW cl, NEW lv,
         RowsOf(c, st, sq, at, rd, du, n, cl, lv),
         Replaced(v, c, st, sq, at, rd, du, n, cl, lv),
         VersionFits(c, st, sq, at, rd, du, n, cl, lv)
  PROVE  RowsTyped' /\ VersionsFit'
<1> USE DEF RowsOf, Replaced
<1>1. RowsTyped'
  BY DEF RowsTyped
<1>2. /\ checkpoint'[v] = c /\ status'[v] = st /\ seq'[v] = sq /\ attempts'[v] = at
      /\ redrives'[v] = rd /\ due'[v] = du /\ nextSeq'[v] = n /\ claimant'[v] = cl
      /\ claimLive'[v] = lv
  BY DEF RowsTyped
<1>3. \A u \in Version : u # v =>
        /\ checkpoint'[u] = checkpoint[u] /\ status'[u] = status[u] /\ seq'[u] = seq[u]
        /\ attempts'[u] = attempts[u] /\ redrives'[u] = redrives[u] /\ due'[u] = due[u]
        /\ nextSeq'[u] = nextSeq[u] /\ claimant'[u] = claimant[u]
        /\ claimLive'[u] = claimLive[u]
  BY DEF RowsTyped
<1>4. ASSUME NEW u \in Version
      PROVE  VersionFits(checkpoint'[u], status'[u], seq'[u], attempts'[u], redrives'[u],
                         due'[u], nextSeq'[u], claimant'[u], claimLive'[u])
  <2>1. CASE u = v
    BY <1>2, <2>1
  <2>2. CASE u # v
    BY <1>3, <2>2 DEF VersionsFit
  <2> QED
    BY <2>1, <2>2
<1>5. VersionsFit'
  BY <1>4 DEF VersionsFit
<1> QED
  BY <1>1, <1>5

LEMMA RowsSame ==
  ASSUME RowsTyped, VersionsFit, UNCHANGED <<checkpoint, rows, nextSeq, claims>>
  PROVE  RowsTyped' /\ VersionsFit'
BY DEF RowsTyped, VersionsFit, rows, claims

\* Unchanged functions, written as a replacement of one version.
LEMMA SameRows ==
  ASSUME RowsTyped, NEW v \in Version
  PROVE  /\ checkpoint = [checkpoint EXCEPT ![v] = checkpoint[v]]
         /\ seq = [seq EXCEPT ![v] = seq[v]]
         /\ attempts = [attempts EXCEPT ![v] = attempts[v]]
         /\ redrives = [redrives EXCEPT ![v] = redrives[v]]
         /\ due = [due EXCEPT ![v] = due[v]]
         /\ nextSeq = [nextSeq EXCEPT ![v] = nextSeq[v]]
         /\ claimant = [claimant EXCEPT ![v] = claimant[v]]
         /\ claimLive = [claimLive EXCEPT ![v] = claimLive[v]]
         /\ status = [status EXCEPT ![v] = status[v]]
BY DEF RowsTyped

LEMMA VersionTyped ==
  ASSUME RowsTyped, VersionsFit, NEW v \in Version
  PROVE  /\ checkpoint[v] \in Checkpoints
         /\ status[v] \in [Event -> Statuses] /\ seq[v] \in [Event -> Nat]
         /\ attempts[v] \in [Event -> Nat] /\ redrives[v] \in [Event -> Nat]
         /\ due[v] \in [Event -> BOOLEAN] /\ nextSeq[v] \in Nat \ {0}
         /\ claimant[v] \in [Event -> Worker \cup {NoWorker}]
         /\ claimLive[v] \in [Event -> BOOLEAN]
         /\ VersionFits(checkpoint[v], status[v], seq[v], attempts[v], redrives[v], due[v],
                        nextSeq[v], claimant[v], claimLive[v])
BY DEF RowsTyped, VersionsFit

RowOf(s, a, r, d, c, l) ==
  /\ s \in Statuses \ {"none"} /\ a \in Nat /\ r \in Nat /\ d \in BOOLEAN
  /\ c \in Worker \cup {NoWorker} /\ l \in BOOLEAN

RowReplaced(v, e, s, a, r, d, c, l) ==
  /\ status' = [status EXCEPT ![v] = [status[v] EXCEPT ![e] = s]]
  /\ attempts' = [attempts EXCEPT ![v] = [attempts[v] EXCEPT ![e] = a]]
  /\ redrives' = [redrives EXCEPT ![v] = [redrives[v] EXCEPT ![e] = r]]
  /\ due' = [due EXCEPT ![v] = [due[v] EXCEPT ![e] = d]]
  /\ claimant' = [claimant EXCEPT ![v] = [claimant[v] EXCEPT ![e] = c]]
  /\ claimLive' = [claimLive EXCEPT ![v] = [claimLive[v] EXCEPT ![e] = l]]
  /\ UNCHANGED <<checkpoint, seq, nextSeq>>

EarlierSettled(v, e) ==
  \A f \in Event : status[v][f] # "none" /\ seq[v][f] < seq[v][e] => status[v][f] \in Terminal

LaterUntouched(v, e) ==
  \A f \in Event : status[v][f] \in Touched => ~(seq[v][e] < seq[v][f])

\* One row moves on.
LEMMA RowMoves ==
  ASSUME RowsTyped, VersionsFit, NEW v \in Version, NEW e \in Event,
         NEW s, NEW a, NEW r, NEW d, NEW c, NEW l, RowOf(s, a, r, d, c, l),
         status[v][e] # "none", checkpoint[v] = "active" \/ s \in Untried,
         RowFits(s, a, r, d, c, l),
         s \in Touched => EarlierSettled(v, e), s \notin Terminal => LaterUntouched(v, e),
         RowReplaced(v, e, s, a, r, d, c, l)
  PROVE  RowsTyped' /\ VersionsFit'
<1> USE DEF RowOf, RowReplaced, EarlierSettled, LaterUntouched
<1> DEFINE st == [status[v] EXCEPT ![e] = s]
           at == [attempts[v] EXCEPT ![e] = a]
           rd == [redrives[v] EXCEPT ![e] = r]
           du == [due[v] EXCEPT ![e] = d]
           cl == [claimant[v] EXCEPT ![e] = c]
           lv == [claimLive[v] EXCEPT ![e] = l]
           sq == seq[v]
           n == nextSeq[v]
           k == checkpoint[v]
<1>1. /\ checkpoint' = [checkpoint EXCEPT ![v] = k] /\ seq' = [seq EXCEPT ![v] = sq]
      /\ nextSeq' = [nextSeq EXCEPT ![v] = n]
  BY SameRows
<1>2. /\ st \in [Event -> Statuses] /\ at \in [Event -> Nat] /\ rd \in [Event -> Nat]
      /\ du \in [Event -> BOOLEAN] /\ cl \in [Event -> Worker \cup {NoWorker}]
      /\ lv \in [Event -> BOOLEAN] /\ sq \in [Event -> Nat] /\ n \in Nat \ {0}
      /\ k \in Checkpoints
  BY VersionTyped
<1>3. /\ st[e] = s /\ at[e] = a /\ rd[e] = r /\ du[e] = d /\ cl[e] = c /\ lv[e] = l
      /\ \A f \in Event : f # e =>
           /\ st[f] = status[v][f] /\ at[f] = attempts[v][f] /\ rd[f] = redrives[v][f]
           /\ du[f] = due[v][f] /\ cl[f] = claimant[v][f] /\ lv[f] = claimLive[v][f]
  BY VersionTyped
<1>4. /\ \A f \in Event : RowFits(status[v][f], attempts[v][f], redrives[v][f], due[v][f],
                                  claimant[v][f], claimLive[v][f])
      /\ NumbersFit(k, status[v], sq, n) /\ OrderFits(status[v], sq)
      /\ CheckpointFits(k, status[v])
  BY VersionTyped DEF VersionFits
<1>0. /\ status' = [status EXCEPT ![v] = st] /\ attempts' = [attempts EXCEPT ![v] = at]
      /\ redrives' = [redrives EXCEPT ![v] = rd] /\ due' = [due EXCEPT ![v] = du]
      /\ claimant' = [claimant EXCEPT ![v] = cl] /\ claimLive' = [claimLive EXCEPT ![v] = lv]
  OBVIOUS
<1> HIDE DEF st, at, rd, du, cl, lv
<1>5. \A f \in Event : RowFits(st[f], at[f], rd[f], du[f], cl[f], lv[f])
  <2>1. ASSUME NEW f \in Event PROVE RowFits(st[f], at[f], rd[f], du[f], cl[f], lv[f])
    <3>1. CASE f = e
      BY <1>3, <3>1
    <3>2. CASE f # e
      BY <1>3, <1>4, <3>2
    <3> QED
      BY <3>1, <3>2
  <2> QED
    BY <2>1
<1>6. \A f \in Event : st[f] # "none" <=> status[v][f] # "none"
  BY <1>3
<1>7. NumbersFit(k, st, sq, n)
  BY <1>4, <1>6 DEF NumbersFit
<1>8. CheckpointFits(k, st)
  BY <1>3, <1>4 DEF CheckpointFits
<1>9. OrderFits(st, sq)
  <2>1. ASSUME NEW g \in Event, NEW f \in Event, st[g] \in Touched, st[f] # "none",
               sq[f] < sq[g]
        PROVE  st[f] \in Terminal
    <3>1. sq \in [Event -> Nat]
      BY <1>2
    <3>2. CASE g = e
      <4>1. f # e
        BY <2>1, <3>1, <3>2
      <4> QED
        BY <1>3, <2>1, <3>2, <4>1
    <3>3. CASE g # e /\ f = e
      BY <1>3, <2>1, <3>3
    <3>4. CASE g # e /\ f # e
      BY <1>3, <1>4, <2>1, <3>4 DEF OrderFits
    <3> QED
      BY <3>2, <3>3, <3>4
  <2> QED
    BY <2>1 DEF OrderFits
<1>10. VersionFits(k, st, sq, at, rd, du, n, cl, lv)
  BY <1>5, <1>7, <1>8, <1>9 DEF VersionFits
<1>11. RowsOf(k, st, sq, at, rd, du, n, cl, lv)
  BY <1>2 DEF RowsOf
<1> HIDE DEF sq, n, k
<1>12. Replaced(v, k, st, sq, at, rd, du, n, cl, lv)
  BY <1>0, <1>1 DEF Replaced
<1> QED
  BY <1>10, <1>11, <1>12, VersionMoves

---------------------------------------------------------------------------
(* The steps that touch no delivery *)

LEMMA CommitEventInv == ASSUME Inv, NEW e \in Event, CommitEvent(e) PROVE Inv'
<1>1. RowsTyped' /\ VersionsFit'
  BY RowsSame DEF Inv, CommitEvent
<1>2. RestTyped' /\ CyclesFit'
  BY DEF Inv, CommitEvent, RestTyped, CyclesFit, Booting, leases, cycles
<1> QED
  BY <1>1, <1>2 DEF Inv

LEMMA DeployInv == ASSUME Inv, NEW v \in Version, Deploy(v) PROVE Inv'
<1>1. RowsTyped' /\ VersionsFit'
  BY RowsSame DEF Inv, Deploy
<1>2. RestTyped' /\ CyclesFit'
  BY DEF Inv, Deploy, RestTyped, CyclesFit, Booting, leases, cycles
<1> QED
  BY <1>1, <1>2 DEF Inv

\* A worker's cycle moves on, and no worker starts to bootstrap or to handle.
LEMMA CycleMoves ==
  ASSUME Inv, NEW w \in Worker, NEW p \in {"idle", "discovering", "draining", "ending"},
         NEW j \in Event \cup {NoEvent},
         pc' = [pc EXCEPT ![w] = p], job' = [job EXCEPT ![w] = j],
         \A v \in Version : Booting(v) => Booting(v)' \/ (pc[w] = "booting" /\ v = VersionOf[w]),
         \A v \in Version : live'[v] => checkpoint'[v] = "active"
  PROVE  CyclesFit'
<1>1. pc \in [Worker -> {"idle", "booting", "discovering", "draining", "handling", "ending"}]
      /\ job \in [Worker -> Event \cup {NoEvent}]
  BY DEF Inv, RestTyped
<1>2. /\ pc'[w] = p /\ p # "booting" /\ p # "handling"
      /\ \A x \in Worker : x # w => pc'[x] = pc[x] /\ job'[x] = job[x]
  BY <1>1
<1>3. ASSUME NEW x \in Worker, pc'[x] = "booting" PROVE x # w /\ pc[x] = "booting"
  BY <1>2, <1>3
<1>4. ASSUME NEW x \in Worker, pc'[x] = "booting" PROVE Booting(VersionOf[x])'
  <2>1. x # w /\ pc[x] = "booting" /\ VersionOf[x] \in Version
    BY <1>3, <1>4, OfWorker
  <2>2. Booting(VersionOf[x])
    BY <2>1 DEF Inv, CyclesFit
  <2>3. ~(pc[w] = "booting" /\ VersionOf[x] = VersionOf[w])
    BY <2>1 DEF Inv, CyclesFit
  <2> QED
    BY <2>1, <2>2, <2>3
<1>5. \A x, y \in Worker :
        pc'[x] = "booting" /\ pc'[y] = "booting" /\ VersionOf[x] = VersionOf[y] => x = y
  BY <1>3 DEF Inv, CyclesFit
<1>6. \A x \in Worker : pc'[x] = "handling" => job'[x] \in Event
  BY <1>2 DEF Inv, CyclesFit
<1> QED
  BY <1>4, <1>5, <1>6 DEF CyclesFit

LEMMA ClaimLeaseInv == ASSUME Inv, NEW w \in Worker, ClaimLease(w) PROVE Inv'
<1>1. RowsTyped' /\ VersionsFit'
  BY RowsSame DEF Inv, ClaimLease
<1>2. RestTyped'
  BY DEF Inv, ClaimLease, RestTyped
<1>3. CyclesFit'
  <2>1. /\ pc' = [pc EXCEPT ![w] = "discovering"] /\ job' = [job EXCEPT ![w] = job[w]]
        /\ job[w] \in Event \cup {NoEvent}
    BY DEF Inv, ClaimLease, RestTyped
  <2>2. \A v \in Version : Booting(v) => Booting(v)'
    BY DEF ClaimLease, Booting
  <2>3. \A v \in Version : live'[v] => checkpoint'[v] = "active"
    BY DEF Inv, ClaimLease, RestTyped, CyclesFit
  <2> QED
    BY <2>1, <2>2, <2>3, CycleMoves
<1> QED
  BY <1>1, <1>2, <1>3 DEF Inv

LEMMA DiscoveredInv == ASSUME Inv, NEW w \in Worker, Discovered(w) PROVE Inv'
<1>1. RowsTyped' /\ VersionsFit'
  BY RowsSame DEF Inv, Discovered
<1>2. RestTyped'
  BY DEF Inv, Discovered, RestTyped, leases
<1>3. CyclesFit'
  <2>1. /\ pc' = [pc EXCEPT ![w] = "draining"] /\ job' = [job EXCEPT ![w] = job[w]]
        /\ job[w] \in Event \cup {NoEvent}
    BY DEF Inv, Discovered, RestTyped
  <2>2. \A v \in Version : Booting(v) => Booting(v)'
    BY DEF Discovered, Booting
  <2>3. \A v \in Version : live'[v] => checkpoint'[v] = "active"
    BY DEF Inv, Discovered, leases, CyclesFit
  <2> QED
    BY <2>1, <2>2, <2>3, CycleMoves
<1> QED
  BY <1>1, <1>2, <1>3 DEF Inv

LEMMA EndCycleInv == ASSUME Inv, NEW w \in Worker, EndCycle(w) PROVE Inv'
<1>1. RowsTyped' /\ VersionsFit'
  BY RowsSame DEF Inv, EndCycle
<1>2. RestTyped'
  BY DEF Inv, EndCycle, RestTyped, leases
<1>3. CyclesFit'
  <2>1. /\ pc' = [pc EXCEPT ![w] = "idle"] /\ job' = [job EXCEPT ![w] = job[w]]
        /\ job[w] \in Event \cup {NoEvent}
    BY DEF Inv, EndCycle, RestTyped
  <2>2. \A v \in Version : Booting(v) => Booting(v)'
    BY DEF EndCycle, Booting
  <2>3. \A v \in Version : live'[v] => checkpoint'[v] = "active"
    BY DEF Inv, EndCycle, leases, CyclesFit, RestTyped
  <2> QED
    BY <2>1, <2>2, <2>3, CycleMoves
<1> QED
  BY <1>1, <1>2, <1>3 DEF Inv

LEMMA LeaseExpiresInv == ASSUME Inv, NEW v \in Version, LeaseExpires(v) PROVE Inv'
<1>1. RowsTyped' /\ VersionsFit'
  BY RowsSame DEF Inv, LeaseExpires
<1>2. RestTyped' /\ CyclesFit'
  BY DEF Inv, LeaseExpires, RestTyped, CyclesFit, Booting, cycles
<1> QED
  BY <1>1, <1>2 DEF Inv

---------------------------------------------------------------------------
(* The steps that move one delivery *)

LEMMA SameRow ==
  ASSUME RowsTyped, NEW v \in Version, NEW e \in Event
  PROVE  /\ status = [status EXCEPT ![v] = [status[v] EXCEPT ![e] = status[v][e]]]
         /\ attempts = [attempts EXCEPT ![v] = [attempts[v] EXCEPT ![e] = attempts[v][e]]]
         /\ redrives = [redrives EXCEPT ![v] = [redrives[v] EXCEPT ![e] = redrives[v][e]]]
         /\ due = [due EXCEPT ![v] = [due[v] EXCEPT ![e] = due[v][e]]]
         /\ claimant = [claimant EXCEPT ![v] = [claimant[v] EXCEPT ![e] = claimant[v][e]]]
         /\ claimLive = [claimLive EXCEPT ![v] = [claimLive[v] EXCEPT ![e] = claimLive[v][e]]]
BY DEF RowsTyped

LEMMA RowTyped ==
  ASSUME RowsTyped, VersionsFit, NEW v \in Version, NEW e \in Event
  PROVE  /\ status[v][e] \in Statuses /\ seq[v][e] \in Nat /\ attempts[v][e] \in Nat
         /\ redrives[v][e] \in Nat /\ due[v][e] \in BOOLEAN
         /\ claimant[v][e] \in Worker \cup {NoWorker} /\ claimLive[v][e] \in BOOLEAN
         /\ RowFits(status[v][e], attempts[v][e], redrives[v][e], due[v][e], claimant[v][e],
                    claimLive[v][e])
         /\ CheckpointFits(checkpoint[v], status[v])
         /\ checkpoint[v] = "active" \/ status[v][e] \in Untried
         /\ status[v][e] \in Touched => EarlierSettled(v, e)
         /\ status[v][e] \in Outstanding => LaterUntouched(v, e)
<1>1. VersionFits(checkpoint[v], status[v], seq[v], attempts[v], redrives[v], due[v],
                  nextSeq[v], claimant[v], claimLive[v])
  BY VersionTyped
<1>2. /\ RowFits(status[v][e], attempts[v][e], redrives[v][e], due[v][e], claimant[v][e],
                 claimLive[v][e])
      /\ CheckpointFits(checkpoint[v], status[v]) /\ OrderFits(status[v], seq[v])
  BY <1>1 DEF VersionFits
<1>3. /\ status[v][e] \in Statuses /\ seq[v][e] \in Nat /\ attempts[v][e] \in Nat
      /\ redrives[v][e] \in Nat /\ due[v][e] \in BOOLEAN
      /\ claimant[v][e] \in Worker \cup {NoWorker} /\ claimLive[v][e] \in BOOLEAN
  BY VersionTyped
<1>4. checkpoint[v] = "active" \/ status[v][e] \in Untried
  BY <1>2 DEF CheckpointFits
<1>5. status[v][e] \in Touched => EarlierSettled(v, e)
  BY <1>2 DEF OrderFits, EarlierSettled
<1>6. status[v][e] \in Outstanding => LaterUntouched(v, e)
  <2>1. ASSUME status[v][e] \in Outstanding, NEW f \in Event, status[v][f] \in Touched,
               seq[v][e] < seq[v][f]
        PROVE  FALSE
    <3>1. status[v][e] # "none" /\ status[v][e] \notin Terminal
      BY <2>1 DEF Outstanding, Terminal
    <3> QED
      BY <1>2, <2>1, <3>1 DEF OrderFits
  <2> QED
    BY <2>1 DEF LaterUntouched
<1> QED
  BY <1>2, <1>3, <1>4, <1>5, <1>6

\* A claimed row belongs to an active version.
LEMMA ClaimedIsActive ==
  ASSUME RowsTyped, VersionsFit, NEW v \in Version, NEW e \in Event,
         status[v][e] = "claimed"
  PROVE  checkpoint[v] = "active"
BY RowTyped DEF Untried

LEMMA ClaimExpiresInv ==
  ASSUME Inv, NEW v \in Version, NEW e \in Event, ClaimExpires(v, e)
  PROVE  Inv'
<1> DEFINE s == status[v][e]
           a == attempts[v][e]
           r == redrives[v][e]
           d == due[v][e]
           c == claimant[v][e]
<1>0. RowsTyped /\ VersionsFit
  BY DEF Inv
<1>1. /\ RowFits(s, a, r, d, c, claimLive[v][e]) /\ s \in Statuses /\ a \in Nat /\ r \in Nat
      /\ d \in BOOLEAN /\ c \in Worker \cup {NoWorker}
      /\ s \in Touched => EarlierSettled(v, e)
      /\ s \in Outstanding => LaterUntouched(v, e)
  BY <1>0, RowTyped
<1>2. s = "claimed" /\ checkpoint[v] = "active"
  BY <1>0, <1>1, ClaimedIsActive DEF ClaimExpires, RowFits
<1>3. RowOf(s, a, r, d, c, FALSE) /\ RowFits(s, a, r, d, c, FALSE)
  BY <1>1, <1>2 DEF RowOf, RowFits
<1>4. RowReplaced(v, e, s, a, r, d, c, FALSE)
  BY <1>0, SameRow DEF ClaimExpires, RowReplaced, rows
<1>5. /\ s # "none" /\ (s \in Touched => EarlierSettled(v, e))
      /\ s \notin Terminal => LaterUntouched(v, e)
  BY <1>1, <1>2 DEF Outstanding
<1>6. RowsTyped' /\ VersionsFit'
  <2> HIDE DEF s, a, r, d, c
  <2>1. status[v][e] # "none"
    BY <1>5 DEF s
  <2> QED
    BY <1>0, <1>2, <1>3, <1>4, <1>5, <2>1, RowMoves
<1>7. RestTyped' /\ CyclesFit'
  BY DEF Inv, ClaimExpires, RestTyped, CyclesFit, Booting, leases, cycles
<1> QED
  BY <1>6, <1>7 DEF Inv

LEMMA RetryFallsDueInv ==
  ASSUME Inv, NEW v \in Version, NEW e \in Event, RetryFallsDue(v, e)
  PROVE  Inv'
<1> DEFINE s == status[v][e]
           a == attempts[v][e]
           r == redrives[v][e]
           c == claimant[v][e]
           l == claimLive[v][e]
<1>0. RowsTyped /\ VersionsFit
  BY DEF Inv
<1>1. /\ RowFits(s, a, r, due[v][e], c, l) /\ s \in Statuses /\ a \in Nat /\ r \in Nat
      /\ l \in BOOLEAN /\ c \in Worker \cup {NoWorker}
      /\ s \in Touched => EarlierSettled(v, e)
      /\ s \in Outstanding => LaterUntouched(v, e)
      /\ checkpoint[v] = "active" \/ s \in Untried
  BY <1>0, RowTyped
<1>2. s = "retry_wait"
  BY DEF RetryFallsDue
<1>3. RowOf(s, a, r, TRUE, c, l) /\ RowFits(s, a, r, TRUE, c, l)
  BY <1>1, <1>2 DEF RowOf, RowFits
<1>4. RowReplaced(v, e, s, a, r, TRUE, c, l)
  BY <1>0, SameRow DEF RetryFallsDue, RowReplaced, claims
<1>5. /\ s # "none" /\ (s \in Touched => EarlierSettled(v, e))
      /\ s \notin Terminal => LaterUntouched(v, e)
  BY <1>1, <1>2 DEF Outstanding
<1>6. RowsTyped' /\ VersionsFit'
  <2> HIDE DEF s, a, r, c, l
  <2>1. status[v][e] # "none"
    BY <1>5 DEF s
  <2> QED
    BY <1>0, <1>1, <1>3, <1>4, <1>5, <2>1, RowMoves
<1>7. RestTyped' /\ CyclesFit'
  BY DEF Inv, RetryFallsDue, RestTyped, CyclesFit, Booting, leases, cycles
<1> QED
  BY <1>6, <1>7 DEF Inv

LEMMA RedriveInv ==
  ASSUME Inv, NEW v \in Version, NEW e \in Event, Redrive(v, e)
  PROVE  Inv'
<1> DEFINE a == attempts[v][e]
           r == redrives[v][e]
           c == claimant[v][e]
           l == claimLive[v][e]
<1>0. RowsTyped /\ VersionsFit
  BY DEF Inv
<1>1. /\ RowFits(status[v][e], a, r, due[v][e], c, l) /\ a \in Nat /\ r \in Nat
      /\ l \in BOOLEAN /\ c \in Worker \cup {NoWorker}
  BY <1>0, RowTyped
<1>2. status[v][e] = "dead_letter" /\ checkpoint[v] = "active" /\ status[v][e] # "none"
  BY DEF Redrive
<1>3. RowOf("retry_wait", a, r + 1, TRUE, c, l) /\ RowFits("retry_wait", a, r + 1, TRUE, c, l)
  BY <1>1, <1>2, BoundAssumption DEF RowOf, RowFits, Statuses, Outstanding
<1>4. RowReplaced(v, e, "retry_wait", a, r + 1, TRUE, c, l)
  BY <1>0, SameRow DEF Redrive, RowReplaced, claims
<1>5. LaterUntouched(v, e)
  BY DEF Redrive, UntouchedAfter, LaterUntouched, Touched, Rows
<1>6. "retry_wait" \notin Touched
  BY DEF Touched
<1>7. RowsTyped' /\ VersionsFit'
  <2> HIDE DEF a, r, c, l
  <2> QED
    BY <1>0, <1>2, <1>3, <1>4, <1>5, <1>6, RowMoves
<1>8. RestTyped' /\ CyclesFit'
  BY DEF Inv, Redrive, RestTyped, CyclesFit, Booting, leases, cycles
<1> QED
  BY <1>7, <1>8 DEF Inv

LEMMA ClaimNextInv ==
  ASSUME Inv, NEW w \in Worker, NEW e \in Event, ClaimNext(w, e)
  PROVE  Inv'
<1> DEFINE v == VersionOf[w]
           a == attempts[v][e]
           r == redrives[v][e]
<1>0. RowsTyped /\ VersionsFit /\ v \in Version
  BY OfWorker DEF Inv
<1>1. /\ RowFits(status[v][e], a, r, due[v][e], claimant[v][e], claimLive[v][e])
      /\ a \in Nat /\ r \in Nat
      /\ status[v][e] \in Outstanding => LaterUntouched(v, e)
  BY <1>0, RowTyped
<1>2. status[v][e] \in Outstanding /\ Head(v, e)
  BY DEF ClaimNext, Head
<1>3. checkpoint[v] = "active"
  BY <1>0 DEF ClaimNext, Leased, Inv, CyclesFit
<1>4. RowOf("claimed", a, r, FALSE, w, TRUE) /\ RowFits("claimed", a, r, FALSE, w, TRUE)
  <2>1. w # NoWorker
    BY SubscriberAssumption
  <2>2. a < MaxAttempts + r
    BY <1>1, <1>2 DEF RowFits
  <2> QED
    BY <1>1, <2>1, <2>2, BoundAssumption DEF RowOf, RowFits, Statuses, Outstanding
<1>5. RowReplaced(v, e, "claimed", a, r, FALSE, w, TRUE)
  BY <1>0, SameRow DEF ClaimNext, RowReplaced
<1>6. EarlierSettled(v, e)
  <2>1. ASSUME NEW f \in Event, status[v][f] # "none", seq[v][f] < seq[v][e]
        PROVE  status[v][f] \in Terminal
    <3>1. seq[v][e] \in Nat /\ seq[v][f] \in Nat /\ status[v][f] \in Statuses
      BY <1>0, RowTyped
    <3>2. ~(seq[v][e] <= seq[v][f])
      BY <2>1, <3>1
    <3>3. status[v][f] \notin Outstanding
      BY <1>2, <3>2 DEF Head
    <3> QED
      BY <2>1, <3>1, <3>3 DEF Statuses
  <2> QED
    BY <2>1 DEF EarlierSettled
<1>7. LaterUntouched(v, e) /\ status[v][e] # "none"
  BY <1>1, <1>2 DEF Outstanding
<1>8. RowsTyped' /\ VersionsFit'
  <2> HIDE DEF v, a, r
  <2> QED
    BY <1>0, <1>3, <1>4, <1>5, <1>6, <1>7, RowMoves
<1>9. RestTyped'
  BY DEF Inv, ClaimNext, RestTyped, leases
<1>10. CyclesFit'
  <2>1. /\ pc' = [pc EXCEPT ![w] = "handling"] /\ job' = [job EXCEPT ![w] = e]
        /\ UNCHANGED <<checkpoint, live>>
    BY DEF ClaimNext, leases
  <2>2. /\ pc'[w] = "handling" /\ job'[w] = e
        /\ \A x \in Worker : x # w => pc'[x] = pc[x] /\ job'[x] = job[x]
    BY <2>1 DEF Inv, RestTyped
  <2>3. \A x \in Worker : pc'[x] = "booting" => pc[x] = "booting"
    BY <2>2
  <2>4. /\ \A u \in Version : live'[u] => checkpoint'[u] = "active"
        /\ \A u \in Version : Booting(u) => Booting(u)'
    BY <2>1 DEF Inv, CyclesFit, Booting
  <2>5. \A x \in Worker : pc'[x] = "booting" => Booting(VersionOf[x])'
    BY <2>3, <2>4, OfWorker DEF Inv, CyclesFit
  <2>6. \A x, y \in Worker :
          pc'[x] = "booting" /\ pc'[y] = "booting" /\ VersionOf[x] = VersionOf[y] => x = y
    BY <2>3 DEF Inv, CyclesFit
  <2>7. \A x \in Worker : pc'[x] = "handling" => job'[x] \in Event
    BY <2>2 DEF Inv, CyclesFit
  <2> QED
    BY <2>4, <2>5, <2>6, <2>7 DEF CyclesFit
<1> QED
  BY <1>8, <1>9, <1>10 DEF Inv

\* A claim that is owned is settled.
LEMMA SettleMoves ==
  ASSUME Inv, NEW w \in Worker, NEW s \in {"succeeded", "skipped", "dead_letter", "retry_wait"},
         NEW a \in Nat, pc[w] = "handling", OwnsClaim(w), Settle(w, s),
         attempts' = [attempts EXCEPT ![VersionOf[w]][job[w]] = a],
         a <= MaxAttempts + redrives[VersionOf[w]][job[w]],
         s = "retry_wait" => a < MaxAttempts + redrives[VersionOf[w]][job[w]],
         UNCHANGED <<checkpoint, seq, redrives, due, nextSeq>>
  PROVE  RowsTyped' /\ VersionsFit'
<1> DEFINE v == VersionOf[w]
           e == job[w]
           r == redrives[v][e]
           d == due[v][e]
<1>0. RowsTyped /\ VersionsFit /\ v \in Version /\ e \in Event
  BY OfWorker DEF Inv, CyclesFit
<1>1. /\ RowFits(status[v][e], attempts[v][e], r, d, claimant[v][e], claimLive[v][e])
      /\ r \in Nat /\ d \in BOOLEAN
      /\ status[v][e] \in Touched => EarlierSettled(v, e)
      /\ status[v][e] \in Outstanding => LaterUntouched(v, e)
  BY <1>0, RowTyped
<1>2. status[v][e] = "claimed"
  BY DEF OwnsClaim
<1>3. checkpoint[v] = "active" /\ EarlierSettled(v, e) /\ LaterUntouched(v, e)
      /\ status[v][e] # "none"
  BY <1>0, <1>1, <1>2, ClaimedIsActive DEF Touched, Outstanding
<1>4. ~d
  BY <1>1, <1>2 DEF RowFits
<1>5. RowOf(s, a, r, d, NoWorker, FALSE)
  BY <1>1 DEF RowOf, Statuses, Terminal, Outstanding
<1>6. RowFits(s, a, r, d, NoWorker, FALSE)
  BY <1>1, <1>4 DEF RowFits, Outstanding
<1>7. RowReplaced(v, e, s, a, r, d, NoWorker, FALSE)
  BY <1>0, SameRow DEF Settle, RowReplaced
<1> HIDE DEF v, e, r, d
<1> QED
  BY <1>0, <1>3, <1>5, <1>6, <1>7, RowMoves

\* What handlers leave on the cycle.
LEMMA HandledCycle ==
  ASSUME Inv, NEW w \in Worker, NEW p \in {"draining", "ending"},
         pc' = [pc EXCEPT ![w] = p], job' = [job EXCEPT ![w] = NoEvent],
         UNCHANGED <<visible, deployed, checkpoint, leases, crashes>>
  PROVE  RestTyped' /\ CyclesFit'
<1>1. RestTyped'
  BY DEF Inv, RestTyped, leases
<1>2. \A v \in Version : Booting(v) => Booting(v)'
  BY DEF Booting
<1>3. \A v \in Version : live'[v] => checkpoint'[v] = "active"
  BY DEF Inv, CyclesFit, leases
<1> QED
  BY <1>1, <1>2, <1>3, CycleMoves

LEMMA CompleteInv ==
  ASSUME Inv, NEW w \in Worker, NEW outcome \in Outcomes, Complete(w, outcome)
  PROVE  Inv'
<1> DEFINE v == VersionOf[w]
           e == job[w]
<1>0. RowsTyped /\ VersionsFit /\ v \in Version /\ e \in Event /\ pc[w] = "handling"
  BY OfWorker DEF Inv, CyclesFit, Complete
<1>1. CASE OwnsClaim(w)
  <2>1. /\ Settle(w, outcome) /\ pc' = [pc EXCEPT ![w] = "draining"]
        /\ UNCHANGED <<seq, attempts, redrives, due>>
        /\ UNCHANGED <<visible, deployed, checkpoint, nextSeq, leases, crashes>>
    BY <1>1 DEF Complete
  <2>2. job' = [job EXCEPT ![w] = NoEvent]
    BY <2>1 DEF Settle
  <2>3. RestTyped' /\ CyclesFit'
    BY <2>1, <2>2, HandledCycle
  <2>4. outcome \in {"succeeded", "skipped", "dead_letter", "retry_wait"}
        /\ outcome # "retry_wait"
    BY BoundAssumption
  <2>5. attempts[v][e] \in Nat /\ attempts[v][e] <= MaxAttempts + redrives[v][e]
    BY <1>0, RowTyped DEF RowFits
  <2>6. attempts' = [attempts EXCEPT ![v][e] = attempts[v][e]]
    BY <1>0, <2>1, SameRow
  <2>7. RowsTyped' /\ VersionsFit'
    BY <1>0, <1>1, <2>1, <2>4, <2>5, <2>6, SettleMoves
  <2> QED
    BY <2>3, <2>7 DEF Inv
<1>2. CASE ~ OwnsClaim(w)
  <2>1. LoseClaim(w) /\ UNCHANGED <<visible, deployed, checkpoint, nextSeq, leases, crashes>>
    BY <1>2 DEF Complete
  <2>2. pc' = [pc EXCEPT ![w] = "ending"] /\ job' = [job EXCEPT ![w] = NoEvent]
        /\ UNCHANGED <<checkpoint, rows, nextSeq, claims>>
    BY <2>1 DEF LoseClaim
  <2>3. RestTyped' /\ CyclesFit'
    BY <2>1, <2>2, HandledCycle
  <2> QED
    BY <1>0, <2>2, <2>3, RowsSame DEF Inv
<1> QED
  BY <1>1, <1>2

LEMMA FailInv ==
  ASSUME Inv, NEW w \in Worker, Fail(w)
  PROVE  Inv'
<1> DEFINE v == VersionOf[w]
           e == job[w]
           a == attempts[v][e] + 1
           s == IF Exhausted(v, e) THEN "dead_letter" ELSE "retry_wait"
<1>0. RowsTyped /\ VersionsFit /\ v \in Version /\ e \in Event /\ pc[w] = "handling"
  BY OfWorker DEF Inv, CyclesFit, Fail
<1>1. CASE OwnsClaim(w)
  <2>1. /\ Settle(w, s) /\ pc' = [pc EXCEPT ![w] = "ending"]
        /\ attempts' = [attempts EXCEPT ![v][e] = a]
        /\ UNCHANGED <<seq, redrives, due>>
        /\ UNCHANGED <<visible, deployed, checkpoint, nextSeq, leases, crashes>>
    BY <1>1 DEF Fail
  <2>2. job' = [job EXCEPT ![w] = NoEvent]
    BY <2>1 DEF Settle
  <2>3. RestTyped' /\ CyclesFit'
    BY <2>1, <2>2, HandledCycle
  <2>4. s \in {"succeeded", "skipped", "dead_letter", "retry_wait"}
    OBVIOUS
  <2>5. /\ RowFits(status[v][e], attempts[v][e], redrives[v][e], due[v][e], claimant[v][e],
                   claimLive[v][e])
        /\ attempts[v][e] \in Nat /\ redrives[v][e] \in Nat
    BY <1>0, RowTyped
  <2>6. attempts[v][e] < MaxAttempts + redrives[v][e]
    BY <1>1, <2>5 DEF OwnsClaim, RowFits, Outstanding
  <2>7. a \in Nat /\ a <= MaxAttempts + redrives[v][e]
        /\ (s = "retry_wait" => a < MaxAttempts + redrives[v][e])
    BY <2>5, <2>6, BoundAssumption DEF Exhausted
  <2>8. RowsTyped' /\ VersionsFit'
    <3> HIDE DEF a, s
    <3> QED
      BY <1>0, <1>1, <2>1, <2>4, <2>7, SettleMoves
  <2> QED
    BY <2>3, <2>8 DEF Inv
<1>2. CASE ~ OwnsClaim(w)
  <2>1. LoseClaim(w) /\ UNCHANGED <<visible, deployed, checkpoint, nextSeq, leases, crashes>>
    BY <1>2 DEF Fail
  <2>2. pc' = [pc EXCEPT ![w] = "ending"] /\ job' = [job EXCEPT ![w] = NoEvent]
        /\ UNCHANGED <<checkpoint, rows, nextSeq, claims>>
    BY <2>1 DEF LoseClaim
  <2>3. RestTyped' /\ CyclesFit'
    BY <2>1, <2>2, HandledCycle
  <2> QED
    BY <1>0, <2>2, <2>3, RowsSame DEF Inv
<1> QED
  BY <1>1, <1>2

---------------------------------------------------------------------------
(* The bootstrap of a version *)

\* A version that is not active holds no claim.
LEMMA Unclaimed ==
  ASSUME RowsTyped, VersionsFit, NEW v \in Version, checkpoint[v] # "active"
  PROVE  \A e \in Event : claimant[v][e] = NoWorker /\ ~claimLive[v][e]
<1>1. ASSUME NEW e \in Event PROVE claimant[v][e] = NoWorker /\ ~claimLive[v][e]
  <2>1. /\ RowFits(status[v][e], attempts[v][e], redrives[v][e], due[v][e], claimant[v][e],
                   claimLive[v][e])
        /\ status[v][e] \in Untried
    BY RowTyped
  <2> QED
    BY <2>1 DEF RowFits, Untried
<1> QED
  BY <1>1

LEMMA RollbackMoves ==
  ASSUME RowsTyped, VersionsFit, NEW v \in Version, checkpoint[v] # "active",
         Rollback(v), UNCHANGED claims
  PROVE  RowsTyped' /\ VersionsFit'
<1> DEFINE st == [e \in Event |-> "none"]
           zero == [e \in Event |-> 0]
           no == [e \in Event |-> FALSE]
<1>1. RowsOf("none", st, zero, zero, zero, no, 1, claimant[v], claimLive[v])
  <2>1. claimant[v] \in [Event -> Worker \cup {NoWorker}] /\ claimLive[v] \in [Event -> BOOLEAN]
    BY VersionTyped
  <2> QED
    BY <2>1 DEF RowsOf, Checkpoints, Statuses
<1>2. Replaced(v, "none", st, zero, zero, zero, no, 1, claimant[v], claimLive[v])
  BY SameRows DEF Replaced, Rollback, claims
<1>3. \A e \in Event : RowFits(st[e], zero[e], zero[e], no[e], claimant[v][e], claimLive[v][e])
  BY Unclaimed, BoundAssumption DEF RowFits
<1>4. CheckpointFits("none", st) /\ NumbersFit("none", st, zero, 1) /\ OrderFits(st, zero)
  BY DEF CheckpointFits, NumbersFit, OrderFits, Untried, Touched
<1>5. VersionFits("none", st, zero, zero, zero, no, 1, claimant[v], claimLive[v])
  <2> HIDE DEF st, zero, no
  <2> QED
    BY <1>3, <1>4 DEF VersionFits
<1> HIDE DEF st, zero, no
<1> QED
  BY <1>1, <1>2, <1>5, VersionMoves

LEMMA BootRefusedInv == ASSUME Inv, NEW w \in Worker, BootRefused(w) PROVE Inv'
<1> DEFINE v == VersionOf[w]
<1>0. RowsTyped /\ VersionsFit /\ v \in Version /\ checkpoint[v] # "active" /\ pc[w] = "booting"
  BY OfWorker DEF Inv, BootRefused
<1>1. Rollback(v) /\ UNCHANGED claims
  BY DEF BootRefused
<1>2. RowsTyped' /\ VersionsFit'
  BY <1>0, <1>1, RollbackMoves
<1>3. RestTyped'
  BY DEF Inv, BootRefused, RestTyped, leases
<1>4. CyclesFit'
  <2>1. /\ pc' = [pc EXCEPT ![w] = "idle"] /\ job' = [job EXCEPT ![w] = job[w]]
        /\ job[w] \in Event \cup {NoEvent}
    BY DEF Inv, BootRefused, RestTyped
  <2>2. \A u \in Version : u # v => checkpoint'[u] = checkpoint[u]
    BY <1>0, <1>1 DEF Rollback, RowsTyped
  <2>3. \A u \in Version : Booting(u) => Booting(u)' \/ (pc[w] = "booting" /\ u = VersionOf[w])
    BY <1>0, <2>2 DEF Booting
  <2>4. \A u \in Version : live'[u] => checkpoint'[u] = "active"
    BY <1>0, <2>2 DEF Inv, BootRefused, leases, CyclesFit
  <2> QED
    BY <2>1, <2>3, <2>4, CycleMoves
<1> QED
  BY <1>2, <1>3, <1>4 DEF Inv

LEMMA CrashInv == ASSUME Inv, NEW w \in Worker, Crash(w) PROVE Inv'
<1> DEFINE v == VersionOf[w]
<1>0. RowsTyped /\ VersionsFit /\ v \in Version
  BY OfWorker DEF Inv
<1>1. RestTyped'
  BY DEF Inv, Crash, RestTyped, leases
<1>2. pc' = [pc EXCEPT ![w] = "idle"] /\ job' = [job EXCEPT ![w] = NoEvent]
      /\ UNCHANGED <<leases, claims>>
  BY DEF Crash
<1>3. CASE pc[w] = "booting"
  <2>1. Rollback(v)
    BY <1>3 DEF Crash
  <2>2. checkpoint[v] # "active"
    BY <1>3 DEF Inv, CyclesFit, Booting
  <2>3. RowsTyped' /\ VersionsFit'
    BY <1>0, <1>2, <2>1, <2>2, RollbackMoves
  <2>4. \A u \in Version : u # v => checkpoint'[u] = checkpoint[u]
    BY <1>0, <2>1 DEF Rollback, RowsTyped
  <2>5. \A u \in Version : Booting(u) => Booting(u)' \/ (pc[w] = "booting" /\ u = VersionOf[w])
    BY <1>3, <2>4 DEF Booting
  <2>6. \A u \in Version : live'[u] => checkpoint'[u] = "active"
    BY <1>2, <2>2, <2>4 DEF Inv, leases, CyclesFit
  <2> QED
    BY <1>1, <1>2, <2>3, <2>5, <2>6, CycleMoves DEF Inv
<1>4. CASE pc[w] # "booting"
  <2>1. UNCHANGED <<checkpoint, rows, nextSeq, claims>>
    BY <1>2, <1>4 DEF Crash
  <2>2. RowsTyped' /\ VersionsFit'
    BY <1>0, <2>1, RowsSame
  <2>3. \A u \in Version : Booting(u) => Booting(u)'
    BY <2>1 DEF Booting
  <2>4. \A u \in Version : live'[u] => checkpoint'[u] = "active"
    BY <1>2, <2>1 DEF Inv, leases, CyclesFit
  <2> QED
    BY <1>1, <1>2, <2>2, <2>3, <2>4, CycleMoves DEF Inv
<1> QED
  BY <1>3, <1>4

\* The first number of a translated event rises with its dispatch_seq.
LEMMA FirstRises ==
  ASSUME NEW owed \in SUBSET (Version \X Event), NEW e \in Event, NEW f \in Event, e < f,
         NEW p \in owed, p[2] = e
  PROVE  Cardinality({q \in owed : q[2] < e}) < Cardinality({q \in owed : q[2] < f})
<1> DEFINE S == {q \in owed : q[2] < e}
           T == {q \in owed : q[2] < f}
<1>1. IsFiniteSet(Version \X Event)
  BY EventsFinite
<1>2. IsFiniteSet(T)
  BY <1>1, FS_Subset
<1>3. S \in SUBSET T /\ p \in T /\ p \notin S
  <2>1. e \in Nat /\ f \in Nat
    BY EventsFinite
  <2>2. \A q \in owed : q[2] \in Nat
    BY EventsFinite
  <2>3. p \in T /\ p \notin S
    BY <2>1
  <2> QED
    BY <2>1, <2>2, <2>3
<1>4. IsFiniteSet(S) /\ Cardinality(S) <= Cardinality(T) /\ Cardinality(S) # Cardinality(T)
  BY <1>2, <1>3, FS_Subset
<1>5. Cardinality(S) \in Nat /\ Cardinality(T) \in Nat
  BY <1>2, <1>4, FS_CardinalityType
<1> QED
  BY <1>4, <1>5

LEMMA FirstFits ==
  ASSUME NEW owed \in SUBSET (Version \X Event), NEW e \in Event
  PROVE  /\ Cardinality({q \in owed : q[2] < e}) \in Nat
         /\ Cardinality({q \in owed : q[2] < e}) <= Cardinality(Version \X Event)
<1> DEFINE S == {q \in owed : q[2] < e}
<1>1. S \in SUBSET (Version \X Event) /\ IsFiniteSet(Version \X Event)
  BY EventsFinite
<1>2. IsFiniteSet(S) /\ Cardinality(S) <= Cardinality(Version \X Event)
  BY <1>1, FS_Subset
<1> QED
  BY <1>2, FS_CardinalityType

LEMMA BootTranslateInv == ASSUME Inv, NEW w \in Worker, BootTranslate(w) PROVE Inv'
<1> DEFINE v == VersionOf[w]
           owed == Carried(v)
           carried == {p[2] : p \in owed}
           first(e) == 1 + Cardinality({p \in owed : p[2] < e})
<1>0. RowsTyped /\ VersionsFit /\ v \in Version /\ checkpoint[v] = "none" /\ pc[w] = "idle"
  BY OfWorker DEF Inv, BootTranslate
<1>1. PICK from \in [carried -> Version] :
        /\ \A e \in carried : <<from[e], e>> \in owed
        /\ status' = [status EXCEPT ![v] = [e \in Event |->
             IF e \notin carried THEN "none"
             ELSE IF status[from[e]][e] = "retry_wait" THEN "retry_wait" ELSE "pending"]]
        /\ attempts' = [attempts EXCEPT ![v] = [e \in Event |->
             IF e \in carried THEN attempts[from[e]][e] ELSE 0]]
        /\ redrives' = [redrives EXCEPT ![v] = [e \in Event |->
             IF e \in carried THEN redrives[from[e]][e] ELSE 0]]
        /\ due' = [due EXCEPT ![v] = [e \in Event |->
             e \in carried /\ status[from[e]][e] = "retry_wait" /\ due[from[e]][e]]]
  BY Zenon DEF BootTranslate
<1>2. /\ pc' = [pc EXCEPT ![w] = "booting"]
      /\ checkpoint' = [checkpoint EXCEPT ![v] = "translated"]
      /\ seq' = [seq EXCEPT ![v] = [e \in Event |-> IF e \in carried THEN first(e) ELSE 0]]
      /\ UNCHANGED <<visible, deployed, nextSeq, leases, claims, job, crashes>>
  BY Zenon DEF BootTranslate
<1> DEFINE st == [e \in Event |->
             IF e \notin carried THEN "none"
             ELSE IF status[from[e]][e] = "retry_wait" THEN "retry_wait" ELSE "pending"]
           at == [e \in Event |-> IF e \in carried THEN attempts[from[e]][e] ELSE 0]
           rd == [e \in Event |-> IF e \in carried THEN redrives[from[e]][e] ELSE 0]
           du == [e \in Event |->
             e \in carried /\ status[from[e]][e] = "retry_wait" /\ due[from[e]][e]]
           sq == [e \in Event |-> IF e \in carried THEN first(e) ELSE 0]
<1>3. Replaced(v, "translated", st, sq, at, rd, du, nextSeq[v], claimant[v], claimLive[v])
  <2> HIDE DEF st, sq, at, rd, du
  <2>1. /\ status' = [status EXCEPT ![v] = st] /\ attempts' = [attempts EXCEPT ![v] = at]
        /\ redrives' = [redrives EXCEPT ![v] = rd] /\ due' = [due EXCEPT ![v] = du]
        /\ seq' = [seq EXCEPT ![v] = sq]
    BY <1>1, <1>2, Zenon DEF st, sq, at, rd, du
  <2>2. /\ nextSeq' = [nextSeq EXCEPT ![v] = nextSeq[v]]
        /\ claimant' = [claimant EXCEPT ![v] = claimant[v]]
        /\ claimLive' = [claimLive EXCEPT ![v] = claimLive[v]]
    BY <1>0, <1>2, SameRows DEF claims
  <2> QED
    BY <1>2, <2>1, <2>2 DEF Replaced
<1>4. owed \in SUBSET (Version \X Event)
  BY DEF Carried, OwedBy
<1>5. \A e \in carried : from[e] \in Version /\ e \in Event /\ status[from[e]][e] \in Outstanding
  <2>1. ASSUME NEW e \in carried PROVE e \in Event /\ status[from[e]][e] \in Outstanding
    <3>1. <<from[e], e>> \in owed
      BY <1>1
    <3>2. <<from[e], e>>[1] = from[e] /\ <<from[e], e>>[2] = e
      OBVIOUS
    <3> QED
      BY <1>4, <3>1, <3>2 DEF Carried, OwedBy
  <2> QED
    BY <2>1
<1>6. \A e \in carried : /\ attempts[from[e]][e] \in Nat /\ redrives[from[e]][e] \in Nat
                         /\ due[from[e]][e] \in BOOLEAN
                         /\ attempts[from[e]][e] < MaxAttempts + redrives[from[e]][e]
  BY <1>0, <1>5, RowTyped DEF RowFits
<1>7. \A e \in Event : first(e) \in Nat /\ first(e) <= 1 + Cardinality(Version \X Event)
  <2> HIDE DEF owed
  <2>1. ASSUME NEW e \in Event
        PROVE  first(e) \in Nat /\ first(e) <= 1 + Cardinality(Version \X Event)
    <3> DEFINE k == Cardinality({p \in owed : p[2] < e})
    <3>1. k \in Nat /\ k <= Cardinality(Version \X Event)
      BY <1>4, FirstFits
    <3> HIDE DEF k
    <3>2. first(e) = 1 + k
      BY DEF k
    <3> QED
      BY <3>1, <3>2, EventsFinite
  <2> QED
    BY <2>1
<1>8. \A e, f \in carried : first(e) = first(f) => e = f
  <2>1. ASSUME NEW e \in carried, NEW f \in carried, e < f PROVE first(e) < first(f)
    <3>1. PICK p \in owed : p[2] = e
      OBVIOUS
    <3>2. e \in Event /\ f \in Event
      BY <1>5
    <3> DEFINE k(g) == Cardinality({q \in owed : q[2] < g})
    <3>3. k(e) < k(f)
      <4> HIDE DEF owed
      <4> QED
        BY <1>4, <2>1, <3>1, <3>2, FirstRises
    <3>4. k(e) \in Nat /\ k(f) \in Nat
      <4> HIDE DEF owed
      <4> QED
        BY <1>4, <3>2, FirstFits
    <3> QED
      BY <3>3, <3>4
  <2>2. ASSUME NEW e \in carried, NEW f \in carried, first(e) = first(f) PROVE e = f
    <3>1. e \in Nat /\ f \in Nat /\ first(e) \in Nat /\ first(f) \in Nat
      BY <1>5, <1>7, EventsFinite
    <3>2. ~(e < f) /\ ~(f < e)
      <4> HIDE DEF first, carried
      <4> QED
        BY <2>1, <2>2, <3>1
    <3> QED
      BY <3>1, <3>2
  <2> QED
    BY <2>2
<1> HIDE DEF first, carried, owed
<1>9. RowsOf("translated", st, sq, at, rd, du, nextSeq[v], claimant[v], claimLive[v])
  <2>1. /\ claimant[v] \in [Event -> Worker \cup {NoWorker}]
        /\ claimLive[v] \in [Event -> BOOLEAN] /\ nextSeq[v] \in Nat \ {0}
    BY <1>0, VersionTyped
  <2>2. st \in [Event -> Statuses] /\ sq \in [Event -> Nat]
    BY <1>7 DEF Statuses, Outstanding
  <2>3. at \in [Event -> Nat] /\ rd \in [Event -> Nat]
    BY <1>6
  <2>4. du \in [Event -> BOOLEAN]
    BY <1>6
  <2> QED
    BY <2>1, <2>2, <2>3, <2>4 DEF RowsOf, Checkpoints
<1>10. \A e \in Event : RowFits(st[e], at[e], rd[e], du[e], claimant[v][e], claimLive[v][e])
  <2>1. ASSUME NEW e \in Event
        PROVE  RowFits(st[e], at[e], rd[e], du[e], claimant[v][e], claimLive[v][e])
    <3>1. claimant[v][e] = NoWorker /\ ~claimLive[v][e]
      BY <1>0, Unclaimed
    <3>2. st[e] # "claimed" /\ (du[e] => st[e] = "retry_wait")
      OBVIOUS
    <3>3. at[e] \in Nat /\ rd[e] \in Nat /\ at[e] < MaxAttempts + rd[e]
      BY <1>6, BoundAssumption
    <3> QED
      BY <3>1, <3>2, <3>3, BoundAssumption DEF RowFits
  <2> QED
    BY <2>1
<1>11. CheckpointFits("translated", st) /\ OrderFits(st, sq)
  BY DEF CheckpointFits, OrderFits, Untried, Touched
<1>12. NumbersFit("translated", st, sq, nextSeq[v])
  <2>1. \A e \in Event : st[e] # "none" => e \in carried /\ sq[e] = first(e)
    OBVIOUS
  <2> HIDE DEF st, sq
  <2>2. \A e \in Event : st[e] # "none" => sq[e] <= 1 + Cardinality(Version \X Event)
    BY <1>7, <2>1
  <2>3. \A e, f \in Event : st[e] # "none" /\ st[f] # "none" /\ sq[e] = sq[f] => e = f
    BY <1>8, <2>1
  <2> QED
    BY <2>2, <2>3 DEF NumbersFit
<1>13. RowsTyped' /\ VersionsFit'
  <2> HIDE DEF st, sq, at, rd, du, v
  <2>1. VersionFits("translated", st, sq, at, rd, du, nextSeq[v], claimant[v], claimLive[v])
    BY <1>10, <1>11, <1>12 DEF VersionFits
  <2> QED
    BY <1>0, <1>3, <1>9, <2>1, VersionMoves
<1>14. RestTyped'
  BY <1>2 DEF Inv, RestTyped, leases
<1>15. CyclesFit'
  <2>1. /\ pc'[w] = "booting" /\ \A x \in Worker : x # w => pc'[x] = pc[x]
        /\ UNCHANGED <<live, job>>
    BY <1>2 DEF Inv, RestTyped, leases
  <2>2. checkpoint'[v] = "translated" /\ \A u \in Version : u # v => checkpoint'[u] = checkpoint[u]
    BY <1>0, <1>2 DEF RowsTyped
  <2>3. \A x \in Worker : pc'[x] = "booting" => x = w \/ (pc[x] = "booting" /\ VersionOf[x] # v)
    BY <1>0, <2>1 DEF Inv, CyclesFit, Booting
  <2>4. \A x \in Worker : pc'[x] = "booting" => Booting(VersionOf[x])'
    BY <2>2, <2>3, OfWorker DEF Inv, CyclesFit, Booting
  <2>5. \A x, y \in Worker :
          pc'[x] = "booting" /\ pc'[y] = "booting" /\ VersionOf[x] = VersionOf[y] => x = y
    BY <2>1, <2>3 DEF Inv, CyclesFit
  <2>6. \A u \in Version : live'[u] => checkpoint'[u] = "active"
    BY <1>0, <2>1, <2>2 DEF Inv, CyclesFit
  <2>7. \A x \in Worker : pc'[x] = "handling" => job'[x] \in Event
    BY <2>1 DEF Inv, CyclesFit
  <2> QED
    BY <2>4, <2>5, <2>6, <2>7 DEF CyclesFit
<1> QED
  BY <1>13, <1>14, <1>15 DEF Inv

\* Rows of one version that gain numbers of their own: history, or a discovered batch.
Numbered(st, sq, new, number, b) ==
  /\ \A e \in new : number[e] \in Nat /\ number[e] <= b
  /\ \A e \in Event : st[e] # "none" => sq[e] <= b
  /\ \A e, f \in new : number[e] = number[f] => e = f
  /\ \A e \in new, f \in Event : st[f] # "none" => number[e] # sq[f]

Grown(st, sq, new, s, number, nst, nsq, has) ==
  /\ st \in [Event -> Statuses] /\ sq \in [Event -> Nat] /\ new \in SUBSET Event
  /\ s \in Statuses \ {"none"}
  /\ nst = [e \in Event |-> IF e \in new THEN s ELSE st[e]]
  /\ nsq = [e \in Event |-> IF e \in new THEN number[e] ELSE sq[e]]
  /\ has = {e \in Event : nst[e] # "none"}

Distinct(st, sq) ==
  \A e, f \in Event : st[e] # "none" /\ st[f] # "none" /\ sq[e] = sq[f] => e = f

LEMMA NumbersGrow ==
  ASSUME NEW c \in {"marked", "active"}, NEW st, NEW sq, NEW new, NEW s, NEW number,
         NEW b \in Nat, NEW nst, NEW nsq, NEW has,
         Distinct(st, sq), Numbered(st, sq, new, number, b),
         Grown(st, sq, new, s, number, nst, nsq, has)
  PROVE  /\ After(nsq, has) \in Nat \ {0}
         /\ nst \in [Event -> Statuses] /\ nsq \in [Event -> Nat]
         /\ NumbersFit(c, nst, nsq, After(nsq, has))
<1> USE DEF Numbered, Grown, Distinct
<1>1. nst \in [Event -> Statuses] /\ nsq \in [Event -> Nat]
  OBVIOUS
<1>2. \A e \in has : nsq[e] \in Nat /\ nsq[e] <= b
  OBVIOUS
<1>3. After(nsq, has) \in Nat \ {0} /\ \A e \in has : nsq[e] < After(nsq, has)
  BY <1>2, AfterFits
<1>4. \A e, f \in Event : nst[e] # "none" /\ nst[f] # "none" /\ nsq[e] = nsq[f] => e = f
  <2>1. ASSUME NEW e \in Event, NEW f \in Event, nst[e] # "none", nst[f] # "none",
               nsq[e] = nsq[f]
        PROVE  e = f
    <3>1. CASE e \in new /\ f \in new
      BY <2>1, <3>1
    <3>2. CASE e \in new /\ f \notin new
      BY <2>1, <3>2
    <3>3. CASE e \notin new /\ f \in new
      BY <2>1, <3>3
    <3>4. CASE e \notin new /\ f \notin new
      BY <2>1, <3>4
    <3> QED
      BY <3>1, <3>2, <3>3, <3>4
  <2> QED
    BY <2>1
<1> QED
  BY <1>1, <1>3, <1>4 DEF NumbersFit

LEMMA BootMarkInv == ASSUME Inv, NEW w \in Worker, BootMark(w) PROVE Inv'
<1> DEFINE v == VersionOf[w]
           history == History(v)
           sq == [e \in Event |-> IF e \in history THEN HistorySeq(v, e) ELSE seq[v][e]]
           st == [e \in Event |-> IF e \in history THEN "bootstrap_skipped" ELSE status[v][e]]
           has == {e \in Event : st[e] # "none"}
           number == [e \in history |-> HistorySeq(v, e)]
           most == Cardinality(Event) + Cardinality(Event) + 1 + Cardinality(Version \X Event)
<1>0. RowsTyped /\ VersionsFit /\ v \in Version /\ checkpoint[v] = "translated"
      /\ pc[w] = "booting" /\ ~SeqCollides(v)
  BY OfWorker DEF Inv, BootMark
<1>1. /\ status[v] \in [Event -> Statuses] /\ seq[v] \in [Event -> Nat]
      /\ attempts[v] \in [Event -> Nat] /\ redrives[v] \in [Event -> Nat]
      /\ due[v] \in [Event -> BOOLEAN] /\ nextSeq[v] \in Nat \ {0}
      /\ claimant[v] \in [Event -> Worker \cup {NoWorker}] /\ claimLive[v] \in [Event -> BOOLEAN]
      /\ VersionFits(checkpoint[v], status[v], seq[v], attempts[v], redrives[v], due[v],
                     nextSeq[v], claimant[v], claimLive[v])
  BY <1>0, VersionTyped
<1>2. /\ \A e \in Event : RowFits(status[v][e], attempts[v][e], redrives[v][e], due[v][e],
                                  claimant[v][e], claimLive[v][e])
      /\ CheckpointFits("translated", status[v])
      /\ NumbersFit("translated", status[v], seq[v], nextSeq[v])
  BY <1>0, <1>1 DEF VersionFits
<1>3. history \in SUBSET Event /\ \A e \in history : status[v][e] = "none"
  <2>1. visible \subseteq Event
    BY DEF Inv, RestTyped
  <2> QED
    BY <2>1 DEF History, Rows
<1>4. Rows(v) \cup history = has
  BY <1>3 DEF Rows
<1>5. /\ checkpoint' = [checkpoint EXCEPT ![v] = "marked"]
      /\ status' = [status EXCEPT ![v] = st]
      /\ seq' = [seq EXCEPT ![v] = sq]
      /\ nextSeq' = [nextSeq EXCEPT ![v] = After(sq, has)]
      /\ UNCHANGED <<visible, deployed, attempts, redrives, due, leases, claims, cycles, crashes>>
  <2>1. status' = [status EXCEPT ![v] = [e \in Event |->
                     IF e \in history THEN "bootstrap_skipped" ELSE status[v][e]]]
    BY <1>0 DEF BootMark, RowsTyped
  <2> QED
    BY <1>4, <2>1 DEF BootMark
<1>6. Cardinality(Event) \in Nat /\ Cardinality(Version \X Event) \in Nat
      /\ Cardinality(Rows(v)) \in Nat /\ Cardinality(Rows(v)) <= Cardinality(Event)
  <2>1. Rows(v) \in SUBSET Event /\ IsFiniteSet(Event)
    BY EventsFinite DEF Rows
  <2>2. IsFiniteSet(Rows(v)) /\ Cardinality(Rows(v)) <= Cardinality(Event)
    BY <2>1, FS_Subset
  <2> QED
    BY <2>1, <2>2, EventsFinite, FS_CardinalityType
<1>7. visible \cap Subscribed[v] \in SUBSET Event /\ history \in SUBSET (visible \cap Subscribed[v])
  BY DEF Inv, RestTyped, History
<1> DEFINE seen == visible \cap Subscribed[v]
           base == Cardinality(Rows(v))
           K == Cardinality(Version \X Event)
           N == Cardinality(Event)
<1>8. \A e \in history : HistorySeq(v, e) = base + Rank(seen, e)
  BY DEF HistorySeq
<1>9. /\ \A e \in history : Rank(seen, e) \in Nat /\ Rank(seen, e) <= N
      /\ \A e, f \in history : Rank(seen, e) = Rank(seen, f) => e = f
  <2> HIDE DEF seen
  <2>1. seen \in SUBSET Event /\ history \in SUBSET seen
    BY <1>7 DEF seen
  <2> QED
    BY <1>3, <2>1, RankFits, RankTellsApart
<1>10. /\ \A e \in history : HistorySeq(v, e) \in Nat /\ HistorySeq(v, e) <= most
       /\ \A e, f \in history : HistorySeq(v, e) = HistorySeq(v, f) => e = f
  <2>1. N \in Nat /\ K \in Nat /\ base \in Nat /\ base <= N /\ most = N + N + 1 + K
    BY <1>6
  <2> HIDE DEF N, K, base, most, seen, history
  <2> QED
    BY <1>8, <1>9, <2>1
<1>11. \A e \in Event : status[v][e] # "none" => seq[v][e] <= most
  <2>1. N \in Nat /\ K \in Nat /\ most = N + N + 1 + K
    BY <1>6
  <2>2. \A e \in Event : status[v][e] # "none" => seq[v][e] <= 1 + K
    BY <1>2 DEF NumbersFit
  <2> HIDE DEF N, K, most
  <2> QED
    BY <1>1, <2>1, <2>2
<1>12. most \in Nat
  BY <1>6
<1>13. \A e \in history, f \in Event : status[v][f] # "none" => HistorySeq(v, e) # seq[v][f]
  BY <1>0 DEF SeqCollides, Rows
<1>14. Distinct(status[v], seq[v])
  BY <1>2 DEF NumbersFit, Distinct
<1>15. /\ After(sq, has) \in Nat \ {0} /\ st \in [Event -> Statuses] /\ sq \in [Event -> Nat]
       /\ NumbersFit("marked", st, sq, After(sq, has))
  <2>1. number \in [history -> Nat] /\ \A e \in history : number[e] = HistorySeq(v, e)
    BY <1>10
  <2>2. sq = [e \in Event |-> IF e \in history THEN number[e] ELSE seq[v][e]]
    BY <2>1
  <2>3. "bootstrap_skipped" \in Statuses \ {"none"}
    BY DEF Statuses, Terminal
  <2>4. st = [e \in Event |-> IF e \in history THEN "bootstrap_skipped" ELSE status[v][e]]
        /\ has = {e \in Event : st[e] # "none"}
    OBVIOUS
  <2>5. /\ \A e \in history : number[e] <= most
        /\ \A e, f \in history : number[e] = number[f] => e = f
        /\ \A e \in history, f \in Event : status[v][f] # "none" => number[e] # seq[v][f]
    BY <1>10, <1>13, <2>1
  <2>6. "marked" \in {"marked", "active"}
    OBVIOUS
  <2>7. Numbered(status[v], seq[v], history, number, most)
    <3> HIDE DEF history, number, most
    <3> QED
      BY <1>10, <1>11, <2>1, <2>5 DEF Numbered
  <2>8. history \in SUBSET Event /\ status[v] \in [Event -> Statuses] /\ seq[v] \in [Event -> Nat]
    BY <1>1, <1>3
  <2>9. Grown(status[v], seq[v], history, "bootstrap_skipped", number, st, sq, has)
    <3> HIDE DEF history, sq, st, has, number
    <3> QED
      BY <2>2, <2>3, <2>4, <2>8 DEF Grown
  <2> HIDE DEF history, sq, st, has, number, most
  <2> QED
    BY <1>12, <1>14, <2>6, <2>7, <2>9, NumbersGrow
<1>16. \A e \in Event : RowFits(st[e], attempts[v][e], redrives[v][e], due[v][e],
                                claimant[v][e], claimLive[v][e])
  <2>1. ASSUME NEW e \in history
        PROVE  RowFits("bootstrap_skipped", attempts[v][e], redrives[v][e], due[v][e],
                       claimant[v][e], claimLive[v][e])
    <3>1. RowFits("none", attempts[v][e], redrives[v][e], due[v][e], claimant[v][e],
                  claimLive[v][e])
      BY <1>2, <1>3
    <3> QED
      BY <3>1 DEF RowFits, Outstanding
  <2> QED
    BY <1>2, <2>1
<1>17. CheckpointFits("marked", st) /\ OrderFits(st, sq)
  BY <1>2 DEF CheckpointFits, OrderFits, Untried, Touched
<1>18. RowsTyped' /\ VersionsFit'
  <2>1. /\ attempts' = [attempts EXCEPT ![v] = attempts[v]]
        /\ redrives' = [redrives EXCEPT ![v] = redrives[v]]
        /\ due' = [due EXCEPT ![v] = due[v]]
        /\ claimant' = [claimant EXCEPT ![v] = claimant[v]]
        /\ claimLive' = [claimLive EXCEPT ![v] = claimLive[v]]
    BY <1>0, <1>5, SameRows DEF claims
  <2> HIDE DEF history, sq, st, has, v
  <2>2. Replaced(v, "marked", st, sq, attempts[v], redrives[v], due[v], After(sq, has),
                 claimant[v], claimLive[v])
    BY <1>5, <2>1 DEF Replaced
  <2>3. RowsOf("marked", st, sq, attempts[v], redrives[v], due[v], After(sq, has),
               claimant[v], claimLive[v])
    BY <1>1, <1>15 DEF RowsOf, Checkpoints
  <2>4. VersionFits("marked", st, sq, attempts[v], redrives[v], due[v], After(sq, has),
                    claimant[v], claimLive[v])
    BY <1>15, <1>16, <1>17 DEF VersionFits
  <2> QED
    BY <1>0, <2>2, <2>3, <2>4, VersionMoves
<1>19. RestTyped'
  BY <1>5 DEF Inv, RestTyped, leases, cycles
<1>20. CyclesFit'
  <2>1. checkpoint'[v] = "marked" /\ \A u \in Version : u # v => checkpoint'[u] = checkpoint[u]
    BY <1>0, <1>5 DEF RowsTyped
  <2>2. UNCHANGED <<live, pc, job>>
    BY <1>5 DEF leases, cycles
  <2>3. \A u \in Version : (Booting(u) => Booting(u)') /\ (live'[u] => checkpoint'[u] = "active")
    BY <1>0, <2>1, <2>2 DEF Inv, CyclesFit, Booting
  <2> QED
    BY <2>2, <2>3, OfWorker DEF Inv, CyclesFit
<1> QED
  BY <1>18, <1>19, <1>20 DEF Inv

\* What an older version owes is superseded at once, so its order is kept.
LEMMA SupersededFits ==
  ASSUME RowsTyped, VersionsFit, NEW u \in Version, checkpoint[u] = "active",
         NEW st, st = [e \in Event |->
                        IF status[u][e] \in Outstanding THEN "superseded" ELSE status[u][e]],
         NEW du, du = [e \in Event |-> status[u][e] \notin Outstanding /\ due[u][e]],
         NEW cl, cl = [e \in Event |->
                        IF status[u][e] \in Outstanding THEN NoWorker ELSE claimant[u][e]],
         NEW lv, lv = [e \in Event |-> status[u][e] \notin Outstanding /\ claimLive[u][e]]
  PROVE  VersionFits("active", st, seq[u], attempts[u], redrives[u], du, nextSeq[u], cl, lv)
<1>1. VersionFits("active", status[u], seq[u], attempts[u], redrives[u], due[u], nextSeq[u],
                  claimant[u], claimLive[u])
  BY VersionTyped
<1>2. NumbersFit("active", status[u], seq[u], nextSeq[u])
  BY <1>1 DEF VersionFits
<1>3. ASSUME NEW e \in Event
      PROVE  RowFits(st[e], attempts[u][e], redrives[u][e], du[e], cl[e], lv[e])
  <2>1. /\ RowFits(status[u][e], attempts[u][e], redrives[u][e], due[u][e], claimant[u][e],
                   claimLive[u][e])
        /\ attempts[u][e] \in Nat /\ redrives[u][e] \in Nat
    BY RowTyped
  <2>2. CASE status[u][e] \in Outstanding
    <3>1. st[e] = "superseded" /\ cl[e] = NoWorker /\ ~du[e] /\ ~lv[e]
      BY <2>2
    <3> QED
      BY <2>1, <3>1, BoundAssumption DEF RowFits, Outstanding
  <2>3. CASE status[u][e] \notin Outstanding
    <3>1. st[e] = status[u][e] /\ cl[e] = claimant[u][e] /\ du[e] = due[u][e]
          /\ lv[e] = claimLive[u][e]
      BY <2>3, RowTyped
    <3> QED
      BY <2>1, <3>1
  <2> QED
    BY <2>2, <2>3
<1>4. \A e \in Event : st[e] # "none" => status[u][e] # "none" /\ st[e] \in Terminal
  BY RowTyped DEF Statuses, Outstanding, Terminal
<1>5. NumbersFit("active", st, seq[u], nextSeq[u])
  BY <1>2, <1>4 DEF NumbersFit
<1>6. OrderFits(st, seq[u]) /\ CheckpointFits("active", st)
  BY <1>4 DEF OrderFits, CheckpointFits
<1> QED
  BY <1>3, <1>5, <1>6 DEF VersionFits

LEMMA BootCommitInv == ASSUME Inv, NEW w \in Worker, BootCommit(w) PROVE Inv'
<1> DEFINE v == VersionOf[w]
           owed == OwedBy(v)
<1>0. RowsTyped /\ VersionsFit /\ v \in Version /\ checkpoint[v] = "marked" /\ pc[w] = "booting"
  BY OfWorker DEF Inv, BootCommit
<1>1. /\ pc' = [pc EXCEPT ![w] = "idle"] /\ checkpoint' = [checkpoint EXCEPT ![v] = "active"]
      /\ status' = [u \in Version |-> [e \in Event |->
           IF <<u, e>> \in owed THEN "superseded" ELSE status[u][e]]]
      /\ due' = [u \in Version |-> [e \in Event |-> <<u, e>> \notin owed /\ due[u][e]]]
      /\ claimant' = [u \in Version |-> [e \in Event |->
           IF <<u, e>> \in owed THEN NoWorker ELSE claimant[u][e]]]
      /\ claimLive' = [u \in Version |-> [e \in Event |->
           <<u, e>> \notin owed /\ claimLive[u][e]]]
      /\ UNCHANGED <<visible, deployed, seq, attempts, redrives, nextSeq, leases, job, crashes>>
  BY DEF BootCommit
<1>2. checkpoint'[v] = "active" /\ \A u \in Version : u # v => checkpoint'[u] = checkpoint[u]
  BY <1>0, <1>1 DEF RowsTyped
<1>3. \A u \in Version, e \in Event :
        <<u, e>> \in owed <=> u < v /\ checkpoint[u] = "active" /\ status[u][e] \in Outstanding
  BY DEF OwedBy
<1> HIDE DEF owed
<1>4. RowsTyped'
  <2>1. status' \in [Version -> [Event -> Statuses]]
    <3>1. "superseded" \in Statuses
      BY DEF Statuses, Terminal
    <3> QED
      BY <1>0, <1>1, <3>1 DEF RowsTyped
  <2>2. due' \in [Version -> [Event -> BOOLEAN]] /\ claimLive' \in [Version -> [Event -> BOOLEAN]]
    BY <1>1
  <2>3. claimant' \in [Version -> [Event -> Worker \cup {NoWorker}]]
    BY <1>0, <1>1 DEF RowsTyped
  <2>4. checkpoint' \in [Version -> Checkpoints]
    BY <1>0, <1>1 DEF RowsTyped, Checkpoints
  <2> QED
    BY <1>0, <1>1, <2>1, <2>2, <2>3, <2>4 DEF RowsTyped
<1>5. ASSUME NEW u \in Version
      PROVE  VersionFits(checkpoint'[u], status'[u], seq'[u], attempts'[u], redrives'[u],
                         due'[u], nextSeq'[u], claimant'[u], claimLive'[u])
  <2>0. /\ VersionFits(checkpoint[u], status[u], seq[u], attempts[u], redrives[u], due[u],
                       nextSeq[u], claimant[u], claimLive[u])
        /\ status[u] \in [Event -> Statuses] /\ due[u] \in [Event -> BOOLEAN]
        /\ claimant[u] \in [Event -> Worker \cup {NoWorker}]
        /\ claimLive[u] \in [Event -> BOOLEAN]
    BY <1>0, VersionTyped
  <2>1. seq'[u] = seq[u] /\ attempts'[u] = attempts[u] /\ redrives'[u] = redrives[u]
        /\ nextSeq'[u] = nextSeq[u]
    BY <1>1
  <2>2. /\ status'[u] = [e \in Event |->
             IF <<u, e>> \in owed THEN "superseded" ELSE status[u][e]]
        /\ due'[u] = [e \in Event |-> <<u, e>> \notin owed /\ due[u][e]]
        /\ claimant'[u] = [e \in Event |-> IF <<u, e>> \in owed THEN NoWorker ELSE claimant[u][e]]
        /\ claimLive'[u] = [e \in Event |-> <<u, e>> \notin owed /\ claimLive[u][e]]
    BY <1>1, Zenon
  <2>3. CASE u < v /\ checkpoint[u] = "active"
    <3>1. \A e \in Event : <<u, e>> \in owed <=> status[u][e] \in Outstanding
      BY <1>3, <2>3
    <3>2. /\ status'[u] = [e \in Event |->
               IF status[u][e] \in Outstanding THEN "superseded" ELSE status[u][e]]
          /\ due'[u] = [e \in Event |-> status[u][e] \notin Outstanding /\ due[u][e]]
          /\ claimant'[u] = [e \in Event |->
               IF status[u][e] \in Outstanding THEN NoWorker ELSE claimant[u][e]]
          /\ claimLive'[u] = [e \in Event |-> status[u][e] \notin Outstanding /\ claimLive[u][e]]
      BY <2>2, <3>1
    <3>3. VersionFits("active", status'[u], seq[u], attempts[u], redrives[u], due'[u], nextSeq[u],
                      claimant'[u], claimLive'[u])
      BY <1>0, <2>3, <3>2, SupersededFits
    <3>4. checkpoint'[u] = "active"
      BY <1>2, <2>3
    <3> QED
      BY <2>1, <3>3, <3>4
  <2>4. CASE ~(u < v /\ checkpoint[u] = "active")
    <3>1. \A e \in Event : <<u, e>> \notin owed
      BY <1>3, <2>4
    <3>2. /\ status'[u] = status[u] /\ due'[u] = due[u] /\ claimant'[u] = claimant[u]
          /\ claimLive'[u] = claimLive[u]
      <4>1. status'[u] = status[u]
        BY <2>0, <2>2, <3>1
      <4>2. due'[u] = due[u]
        <5>1. due'[u] = [e \in Event |-> <<u, e>> \notin owed /\ due[u][e]]
          BY <2>2
        <5>2. \A e \in Event : due[u][e] \in BOOLEAN
          BY <2>0
        <5>3. \A e \in Event : (<<u, e>> \notin owed /\ due[u][e]) = due[u][e]
          BY <3>1, <5>2
        <5>4. due[u] = [e \in Event |-> due[u][e]]
          BY <2>0
        <5>5. \A e \in Event : due'[u][e] = due[u][e]
          BY <5>1, <5>3, Zenon
        <5>6. due'[u] = [e \in Event |-> due'[u][e]]
          BY <5>1, Zenon
        <5> QED
          BY <5>4, <5>5, <5>6, Zenon
      <4>3. claimant'[u] = claimant[u]
        BY <2>0, <2>2, <3>1
      <4>4. claimLive'[u] = claimLive[u]
        <5>1. claimLive'[u] = [e \in Event |-> <<u, e>> \notin owed /\ claimLive[u][e]]
          BY <2>2
        <5>2. \A e \in Event : claimLive[u][e] \in BOOLEAN
          BY <2>0
        <5>3. \A e \in Event : (<<u, e>> \notin owed /\ claimLive[u][e]) = claimLive[u][e]
          BY <3>1, <5>2
        <5>4. claimLive[u] = [e \in Event |-> claimLive[u][e]]
          BY <2>0
        <5>5. \A e \in Event : claimLive'[u][e] = claimLive[u][e]
          BY <5>1, <5>3, Zenon
        <5>6. claimLive'[u] = [e \in Event |-> claimLive'[u][e]]
          BY <5>1, Zenon
        <5> QED
          BY <5>4, <5>5, <5>6, Zenon
      <4> QED
        BY <4>1, <4>2, <4>3, <4>4
    <3>3. CASE u = v
      <4>1. CheckpointFits("active", status[u])
            /\ NumbersFit("active", status[u], seq[u], nextSeq[u])
        BY <1>0, <2>0, <3>3 DEF VersionFits, CheckpointFits, NumbersFit
      <4>2. VersionFits("active", status[u], seq[u], attempts[u], redrives[u], due[u],
                        nextSeq[u], claimant[u], claimLive[u])
        BY <2>0, <4>1 DEF VersionFits
      <4> QED
        BY <1>2, <2>1, <3>2, <3>3, <4>2
    <3>4. CASE u # v
      BY <1>2, <2>0, <2>1, <3>2, <3>4
    <3> QED
      BY <3>3, <3>4
  <2> QED
    BY <2>3, <2>4
<1>6. VersionsFit'
  BY <1>5 DEF VersionsFit
<1>7. RestTyped'
  BY <1>1 DEF Inv, RestTyped, leases
<1>8. CyclesFit'
  <2>1. /\ pc' = [pc EXCEPT ![w] = "idle"] /\ job' = [job EXCEPT ![w] = job[w]]
        /\ job[w] \in Event \cup {NoEvent}
    BY <1>1 DEF Inv, RestTyped
  <2>2. \A u \in Version : Booting(u) => Booting(u)' \/ (pc[w] = "booting" /\ u = VersionOf[w])
    BY <1>0, <1>2 DEF Booting
  <2>3. \A u \in Version : live'[u] => checkpoint'[u] = "active"
    BY <1>1, <1>2 DEF Inv, leases, CyclesFit
  <2> QED
    BY <2>1, <2>2, <2>3, CycleMoves
<1> QED
  BY <1>4, <1>6, <1>7, <1>8 DEF Inv

LEMMA DiscoverInv == ASSUME Inv, NEW w \in Worker, Discover(w) PROVE Inv'
<1> DEFINE v == VersionOf[w]
           n == nextSeq[v]
           found == {e \in Undelivered(v) : Rank(Undelivered(v), e) <= Batch}
           sq == [e \in Event |-> IF e \in found THEN n - 1 + Rank(found, e) ELSE seq[v][e]]
           st == [e \in Event |-> IF e \in found THEN "pending" ELSE status[v][e]]
           has == {e \in Event : st[e] # "none"}
           number == [e \in found |-> n - 1 + Rank(found, e)]
           N == Cardinality(Event)
           most == n + N
<1>0. RowsTyped /\ VersionsFit /\ v \in Version /\ Leased(w)
  BY OfWorker DEF Inv, Discover
<1>00. checkpoint[v] = "active"
  BY <1>0 DEF Leased, Inv, CyclesFit
<1>1. /\ status[v] \in [Event -> Statuses] /\ seq[v] \in [Event -> Nat]
      /\ attempts[v] \in [Event -> Nat] /\ redrives[v] \in [Event -> Nat]
      /\ due[v] \in [Event -> BOOLEAN] /\ n \in Nat \ {0}
      /\ claimant[v] \in [Event -> Worker \cup {NoWorker}] /\ claimLive[v] \in [Event -> BOOLEAN]
      /\ VersionFits(checkpoint[v], status[v], seq[v], attempts[v], redrives[v], due[v], n,
                     claimant[v], claimLive[v])
  BY <1>0, VersionTyped
<1>2. /\ \A e \in Event : RowFits(status[v][e], attempts[v][e], redrives[v][e], due[v][e],
                                  claimant[v][e], claimLive[v][e])
      /\ NumbersFit("active", status[v], seq[v], n) /\ OrderFits(status[v], seq[v])
  BY <1>00, <1>1 DEF VersionFits
<1>3. found \in SUBSET Event /\ \A e \in found : status[v][e] = "none"
  <2>1. visible \subseteq Event
    BY DEF Inv, RestTyped
  <2> QED
    BY <2>1 DEF Undelivered, Rows
<1>4. Rows(v) \cup found = has
  BY <1>3 DEF Rows
<1>5. /\ status' = [status EXCEPT ![v] = st]
      /\ seq' = [seq EXCEPT ![v] = sq]
      /\ nextSeq' = [nextSeq EXCEPT ![v] = After(sq, has)]
      /\ UNCHANGED <<visible, deployed, checkpoint, attempts, redrives, due, leases, claims,
                     cycles, crashes>>
  <2>1. status' = [status EXCEPT ![v] = [e \in Event |->
                     IF e \in found THEN "pending" ELSE status[v][e]]]
    BY <1>0 DEF Discover, RowsTyped
  <2> QED
    BY <1>4, <2>1 DEF Discover
<1>6. N \in Nat /\ most \in Nat
  BY <1>1, EventsFinite, FS_CardinalityType
<1>7. /\ \A e \in found : Rank(found, e) \in Nat /\ Rank(found, e) <= N /\ Rank(found, e) > 0
      /\ \A e, f \in found : Rank(found, e) = Rank(found, f) => e = f
  <2> HIDE DEF found
  <2> QED
    BY <1>3, RankFits, RankTellsApart
<1>8. \A e \in Event : status[v][e] # "none" => seq[v][e] < n
  BY <1>2 DEF NumbersFit
<1> HIDE DEF found
<1>9. \A e \in found : number[e] \in Nat /\ number[e] <= most /\ number[e] >= n
  <2>1. \A e \in found : number[e] = n - 1 + Rank(found, e)
    OBVIOUS
  <2> HIDE DEF number, N
  <2> QED
    BY <1>1, <1>6, <1>7, <2>1
<1>10. Distinct(status[v], seq[v])
  BY <1>2 DEF NumbersFit, Distinct
<1>11. Numbered(status[v], seq[v], found, number, most)
  <2>1. \A e \in Event : status[v][e] # "none" => seq[v][e] <= most
    <3> HIDE DEF N, n
    <3> QED
      BY <1>1, <1>6, <1>8
  <2>2. \A e, f \in found : number[e] = number[f] => e = f
    <3>1. \A e \in found : number[e] = n - 1 + Rank(found, e)
      OBVIOUS
    <3> HIDE DEF number, n
    <3> QED
      BY <1>1, <1>7, <3>1
  <2>3. \A e \in found, f \in Event : status[v][f] # "none" => number[e] # seq[v][f]
    <3> HIDE DEF number, n
    <3> QED
      BY <1>1, <1>8, <1>9
  <2> HIDE DEF number, most, n
  <2> QED
    BY <1>9, <2>1, <2>2, <2>3 DEF Numbered
<1>12. Grown(status[v], seq[v], found, "pending", number, st, sq, has)
  <2>1. "pending" \in Statuses \ {"none"}
    BY DEF Statuses, Outstanding
  <2>2. sq = [e \in Event |-> IF e \in found THEN number[e] ELSE seq[v][e]]
    OBVIOUS
  <2>3. st = [e \in Event |-> IF e \in found THEN "pending" ELSE status[v][e]]
        /\ has = {e \in Event : st[e] # "none"}
    OBVIOUS
  <2>4. found \in SUBSET Event /\ status[v] \in [Event -> Statuses] /\ seq[v] \in [Event -> Nat]
    BY <1>1, <1>3
  <2> HIDE DEF sq, st, has, number
  <2> QED
    BY <2>1, <2>2, <2>3, <2>4 DEF Grown
<1>13. /\ After(sq, has) \in Nat \ {0} /\ st \in [Event -> Statuses] /\ sq \in [Event -> Nat]
       /\ NumbersFit("active", st, sq, After(sq, has))
  <2>1. "active" \in {"marked", "active"}
    OBVIOUS
  <2> HIDE DEF sq, st, has, number, most
  <2> QED
    BY <1>6, <1>10, <1>11, <1>12, <2>1, NumbersGrow
<1>14. \A e \in Event : RowFits(st[e], attempts[v][e], redrives[v][e], due[v][e],
                                claimant[v][e], claimLive[v][e])
  <2>1. ASSUME NEW e \in found
        PROVE  RowFits("pending", attempts[v][e], redrives[v][e], due[v][e],
                       claimant[v][e], claimLive[v][e])
    <3>1. RowFits("none", attempts[v][e], redrives[v][e], due[v][e], claimant[v][e],
                  claimLive[v][e])
      BY <1>2, <1>3
    <3> QED
      BY <3>1 DEF RowFits, Outstanding
  <2> QED
    BY <1>2, <2>1
<1>15. OrderFits(st, sq)
  <2>1. ASSUME NEW e \in Event, NEW f \in Event, st[e] \in Touched, st[f] # "none",
               sq[f] < sq[e]
        PROVE  st[f] \in Terminal
    <3>1. e \notin found /\ st[e] = status[v][e] /\ sq[e] = seq[v][e] /\ status[v][e] # "none"
      BY <2>1 DEF Touched
    <3>2. sq[e] < n /\ sq[e] \in Nat /\ sq[f] \in Nat
      BY <1>8, <1>13, <3>1
    <3>3. f \notin found
      <4>1. ASSUME f \in found PROVE FALSE
        <5>1. sq[f] = number[f]
          BY <4>1
        <5>2. sq[f] >= n
          <6> HIDE DEF sq, number, n
          <6> QED
            BY <1>9, <4>1, <5>1
        <5> HIDE DEF sq, n
        <5> QED
          BY <1>1, <2>1, <3>2, <5>2
      <4> QED
        BY <4>1
    <3>4. st[f] = status[v][f] /\ sq[f] = seq[v][f]
      BY <3>3
    <3> QED
      BY <1>2, <2>1, <3>1, <3>4 DEF OrderFits
  <2> QED
    BY <2>1 DEF OrderFits
<1>16. RowsTyped' /\ VersionsFit'
  <2>1. /\ attempts' = [attempts EXCEPT ![v] = attempts[v]]
        /\ redrives' = [redrives EXCEPT ![v] = redrives[v]]
        /\ due' = [due EXCEPT ![v] = due[v]]
        /\ claimant' = [claimant EXCEPT ![v] = claimant[v]]
        /\ claimLive' = [claimLive EXCEPT ![v] = claimLive[v]]
        /\ checkpoint' = [checkpoint EXCEPT ![v] = "active"]
    BY <1>0, <1>00, <1>5, SameRows DEF claims
  <2> HIDE DEF sq, st, has, v
  <2>2. Replaced(v, "active", st, sq, attempts[v], redrives[v], due[v], After(sq, has),
                 claimant[v], claimLive[v])
    BY <1>5, <2>1 DEF Replaced
  <2>3. RowsOf("active", st, sq, attempts[v], redrives[v], due[v], After(sq, has),
               claimant[v], claimLive[v])
    BY <1>1, <1>13 DEF RowsOf, Checkpoints
  <2>4. CheckpointFits("active", st)
    BY DEF CheckpointFits
  <2>5. VersionFits("active", st, sq, attempts[v], redrives[v], due[v], After(sq, has),
                    claimant[v], claimLive[v])
    BY <1>13, <1>14, <1>15, <2>4 DEF VersionFits
  <2> QED
    BY <1>0, <2>2, <2>3, <2>5, VersionMoves
<1>17. RestTyped' /\ CyclesFit'
  BY <1>5 DEF Inv, RestTyped, CyclesFit, Booting, leases, cycles
<1> QED
  BY <1>16, <1>17 DEF Inv

---------------------------------------------------------------------------
(* The invariant holds *)

LEMMA InitInv == ASSUME Init PROVE Inv
<1>1. RestTyped
  BY DEF Init, RestTyped
<1>2. RowsTyped
  BY DEF Init, RowsTyped, Checkpoints, Statuses
<1>3. ASSUME NEW v \in Version
      PROVE  VersionFits(checkpoint[v], status[v], seq[v], attempts[v], redrives[v], due[v],
                         nextSeq[v], claimant[v], claimLive[v])
  <2>1. /\ checkpoint[v] = "none" /\ \A e \in Event : status[v][e] = "none"
        /\ \A e \in Event : /\ attempts[v][e] = 0 /\ redrives[v][e] = 0 /\ due[v][e] = FALSE
                            /\ claimant[v][e] = NoWorker /\ claimLive[v][e] = FALSE
    BY DEF Init
  <2>2. \A e \in Event : RowFits(status[v][e], attempts[v][e], redrives[v][e], due[v][e],
                                 claimant[v][e], claimLive[v][e])
    BY <2>1, BoundAssumption DEF RowFits
  <2>3. CheckpointFits(checkpoint[v], status[v]) /\ OrderFits(status[v], seq[v])
        /\ NumbersFit(checkpoint[v], status[v], seq[v], nextSeq[v])
    BY <2>1 DEF CheckpointFits, NumbersFit, OrderFits, Untried, Touched
  <2> QED
    BY <2>2, <2>3 DEF VersionFits
<1>4. CyclesFit
  BY DEF Init, CyclesFit
<1> QED
  BY <1>1, <1>2, <1>3, <1>4 DEF Inv, VersionsFit

LEMMA NextInv == ASSUME Inv, [Next]_vars PROVE Inv'
<1>1. CASE Next
  <2>1. CASE \E e \in Event : CommitEvent(e)
    BY <2>1, CommitEventInv
  <2>2. CASE \E v \in Version : Deploy(v)
    BY <2>2, DeployInv
  <2>3. CASE \E w \in Worker : BootTranslate(w)
    BY <2>3, BootTranslateInv
  <2>4. CASE \E w \in Worker : BootMark(w)
    BY <2>4, BootMarkInv
  <2>5. CASE \E w \in Worker : BootCommit(w)
    BY <2>5, BootCommitInv
  <2>6. CASE \E w \in Worker : BootRefused(w)
    BY <2>6, BootRefusedInv
  <2>7. CASE \E w \in Worker : ClaimLease(w)
    BY <2>7, ClaimLeaseInv
  <2>8. CASE \E w \in Worker : Discover(w)
    BY <2>8, DiscoverInv
  <2>9. CASE \E w \in Worker : Discovered(w)
    BY <2>9, DiscoveredInv
  <2>10. CASE \E w \in Worker, e \in Event : ClaimNext(w, e)
    BY <2>10, ClaimNextInv
  <2>11. CASE \E w \in Worker, outcome \in Outcomes : Complete(w, outcome)
    BY <2>11, CompleteInv
  <2>12. CASE \E w \in Worker : Fail(w)
    BY <2>12, FailInv
  <2>13. CASE \E w \in Worker : EndCycle(w)
    BY <2>13, EndCycleInv
  <2>14. CASE \E w \in Worker : Crash(w)
    BY <2>14, CrashInv
  <2>15. CASE \E v \in Version : LeaseExpires(v)
    BY <2>15, LeaseExpiresInv
  <2>16. CASE \E v \in Version, e \in Event : ClaimExpires(v, e)
    BY <2>16, ClaimExpiresInv
  <2>17. CASE \E v \in Version, e \in Event : RetryFallsDue(v, e)
    BY <2>17, RetryFallsDueInv
  <2>18. CASE \E v \in Version, e \in Event : Redrive(v, e)
    BY <2>18, RedriveInv
  <2> QED
    BY <1>1, <2>1, <2>2, <2>3, <2>4, <2>5, <2>6, <2>7, <2>8, <2>9, <2>10, <2>11, <2>12,
       <2>13, <2>14, <2>15, <2>16, <2>17, <2>18 DEF Next
<1>2. CASE UNCHANGED vars
  <2>1. RowsTyped' /\ VersionsFit'
    BY <1>2, RowsSame DEF Inv, vars
  <2>2. RestTyped' /\ CyclesFit'
    BY <1>2 DEF Inv, RestTyped, CyclesFit, Booting, vars, leases, cycles
  <2> QED
    BY <2>1, <2>2 DEF Inv
<1> QED
  BY <1>1, <1>2

\* The inductive invariant: deliveries, their numbers and the cycles fit together.
THEOREM DeliveriesFit == Spec => []Inv
<1>1. Init => Inv
  BY InitInv
<1>2. Inv /\ [Next]_vars => Inv'
  BY NextInv
<1> QED
  BY <1>1, <1>2, PTL DEF Spec

\* Every variable keeps its type.
THEOREM DispatchTyped == Spec => []TypeOK
<1>1. Inv => TypeOK
  BY DEF Inv, RestTyped, RowsTyped, TypeOK, Checkpoints
<1> QED
  BY <1>1, DeliveriesFit, PTL

\* A row names a claimant exactly while it is claimed; only a waiting retry falls due.
THEOREM ClaimsShaped == Spec => []ClaimShape
<1>1. Inv => ClaimShape
  <2>1. ASSUME Inv, NEW v \in Version, NEW e \in Event
        PROVE  RowFits(status[v][e], attempts[v][e], redrives[v][e], due[v][e],
                       claimant[v][e], claimLive[v][e])
    BY <2>1, RowTyped DEF Inv
  <2> QED
    BY <2>1 DEF ClaimShape, RowFits
<1> QED
  BY <1>1, DeliveriesFit, PTL

\* Each redrive buys one attempt and a version bump buys none.
THEOREM AttemptsCapped == Spec => []AttemptsBounded
<1>1. Inv => AttemptsBounded
  <2>1. ASSUME Inv, NEW v \in Version, NEW e \in Event
        PROVE  RowFits(status[v][e], attempts[v][e], redrives[v][e], due[v][e],
                       claimant[v][e], claimLive[v][e])
    BY <2>1, RowTyped DEF Inv
  <2> QED
    BY <2>1 DEF AttemptsBounded, RowFits
<1> QED
  BY <1>1, DeliveriesFit, PTL

\* A delivery is handled or settled only after every delivery numbered before it.
THEOREM DeliveredInOrder == Spec => []SettledInOrder
<1>1. Inv => SettledInOrder
  <2>1. ASSUME Inv, NEW v \in Version PROVE OrderFits(status[v], seq[v])
    BY <2>1, VersionTyped DEF Inv, VersionFits
  <2> QED
    BY <2>1 DEF SettledInOrder, OrderFits, Touched
<1> QED
  BY <1>1, DeliveriesFit, PTL

\* Numbers are unique in a version and the next one is new.
THEOREM NumbersFresh == Spec => []SeqFresh
<1>1. Inv => SeqFresh
  <2>1. ASSUME Inv, NEW v \in Version
        PROVE  NumbersFit(checkpoint[v], status[v], seq[v], nextSeq[v])
    BY <2>1, VersionTyped DEF Inv, VersionFits
  <2> QED
    BY <2>1 DEF SeqFresh, NumbersFit, Rows
<1> QED
  BY <1>1, DeliveriesFit, PTL

---------------------------------------------------------------------------
(* Settled deliveries are final *)

Final(v, e) ==
  /\ status[v][e] \in {"succeeded", "skipped", "superseded"} => status'[v][e] = status[v][e]
  /\ status[v][e] = "dead_letter" => status'[v][e] \in {"dead_letter", "retry_wait"}

\* One version is rewritten that has settled nothing.
LEMMA UntriedFinal ==
  ASSUME Inv, NEW v \in Version, checkpoint[v] # "active", NEW st,
         status' = [status EXCEPT ![v] = st]
  PROVE  \A u \in Version, e \in Event : Final(u, e)
<1>1. \A e \in Event : status[v][e] \in Untried
  BY RowTyped DEF Inv
<1>2. \A u \in Version : u # v => status'[u] = status[u]
  BY DEF Inv, RowsTyped
<1>3. \A e \in Event : Final(v, e)
  BY <1>1 DEF Final, Untried
<1> QED
  BY <1>2, <1>3 DEF Final

\* One row moves that is not settled, or a dead letter that is tried again.
LEMMA RowFinal ==
  ASSUME Inv, NEW v \in Version, NEW e \in Event, NEW s,
         status[v][e] \in Outstanding \/ (status[v][e] = "dead_letter" /\ s = "retry_wait"),
         status' = [status EXCEPT ![v][e] = s]
  PROVE  \A u \in Version, f \in Event : Final(u, f)
<1>1. status \in [Version -> [Event -> Statuses]]
  BY DEF Inv, RowsTyped
<1>2. status'[v][e] = s
  BY <1>1
<1>3. \A u \in Version, f \in Event : u # v \/ f # e => status'[u][f] = status[u][f]
  BY <1>1
<1>4. Final(v, e)
  BY <1>2 DEF Final, Outstanding
<1> QED
  BY <1>3, <1>4 DEF Final

LEMMA SameFinal ==
  ASSUME UNCHANGED status PROVE \A v \in Version, e \in Event : Final(v, e)
BY DEF Final

LEMMA StepFinal ==
  ASSUME Inv, [Next]_vars
  PROVE  \A v \in Version, e \in Event : Final(v, e)
<1> USE OfWorker
<1>1. CASE UNCHANGED status
  BY <1>1, SameFinal
<1>2. ASSUME NEW w \in Worker, BootTranslate(w)
      PROVE  \A v \in Version, e \in Event : Final(v, e)
  <2>1. PICK st : status' = [status EXCEPT ![VersionOf[w]] = st]
    BY <1>2, Zenon DEF BootTranslate
  <2>2. checkpoint[VersionOf[w]] # "active"
    BY <1>2 DEF BootTranslate
  <2> QED
    BY <2>1, <2>2, UntriedFinal
<1>3. ASSUME NEW w \in Worker, BootMark(w)
      PROVE  \A v \in Version, e \in Event : Final(v, e)
  <2>1. PICK st : status' = [status EXCEPT ![VersionOf[w]] = st]
    BY <1>3 DEF BootMark
  <2>2. checkpoint[VersionOf[w]] # "active"
    BY <1>3 DEF BootMark
  <2> QED
    BY <2>1, <2>2, UntriedFinal
<1>4. ASSUME NEW w \in Worker, BootCommit(w)
      PROVE  \A v \in Version, e \in Event : Final(v, e)
  <2>1. ASSUME NEW v \in Version, NEW e \in Event PROVE Final(v, e)
    <3>1. status'[v][e] = IF <<v, e>> \in OwedBy(VersionOf[w]) THEN "superseded" ELSE status[v][e]
      BY <1>4 DEF BootCommit
    <3>2. <<v, e>> \in OwedBy(VersionOf[w]) => status[v][e] \in Outstanding
      BY DEF OwedBy
    <3> QED
      BY <3>1, <3>2 DEF Final, Outstanding
  <2> QED
    BY <2>1
<1>5. ASSUME NEW v \in Version, checkpoint[v] # "active", Rollback(v)
      PROVE  \A u \in Version, e \in Event : Final(u, e)
  <2>1. PICK st : status' = [status EXCEPT ![v] = st]
    BY <1>5 DEF Rollback
  <2> QED
    BY <1>5, <2>1, UntriedFinal
<1>6. ASSUME NEW w \in Worker, BootRefused(w)
      PROVE  \A v \in Version, e \in Event : Final(v, e)
  BY <1>5, <1>6 DEF BootRefused
<1>7. ASSUME NEW w \in Worker, Crash(w)
      PROVE  \A v \in Version, e \in Event : Final(v, e)
  <2>1. CASE pc[w] = "booting"
    <3>1. checkpoint[VersionOf[w]] # "active" /\ Rollback(VersionOf[w])
      BY <1>7, <2>1 DEF Inv, CyclesFit, Booting, Crash
    <3> QED
      BY <1>5, <3>1
  <2>2. CASE pc[w] # "booting"
    BY <1>7, <2>2, SameFinal DEF Crash, rows
  <2> QED
    BY <2>1, <2>2
<1>8. ASSUME NEW w \in Worker, Discover(w)
      PROVE  \A v \in Version, e \in Event : Final(v, e)
  <2> DEFINE v == VersionOf[w]
             found == {e \in Undelivered(v) : Rank(Undelivered(v), e) <= Batch}
  <2>1. status' = [status EXCEPT ![v] = [e \in Event |->
                     IF e \in found THEN "pending" ELSE @[e]]]
    BY <1>8 DEF Discover
  <2>2. \A e \in found : status[v][e] = "none"
    BY DEF Undelivered, Rows, Inv, RestTyped
  <2> HIDE DEF found
  <2>3. ASSUME NEW u \in Version, NEW e \in Event PROVE Final(u, e)
    <3>1. status'[u][e] = status[u][e] \/ status[u][e] = "none"
      BY <2>1, <2>2 DEF Inv, RowsTyped
    <3> QED
      BY <3>1 DEF Final
  <2> QED
    BY <2>3
<1>9. ASSUME NEW w \in Worker, NEW e \in Event, ClaimNext(w, e)
      PROVE  \A v \in Version, f \in Event : Final(v, f)
  <2>1. /\ status' = [status EXCEPT ![VersionOf[w]][e] = "claimed"]
        /\ status[VersionOf[w]][e] \in Outstanding
    BY <1>9 DEF ClaimNext, Head
  <2> QED
    BY <2>1, RowFinal
<1>10. ASSUME NEW w \in Worker, NEW s, pc[w] = "handling", OwnsClaim(w), Settle(w, s)
       PROVE  \A v \in Version, f \in Event : Final(v, f)
  <2>1. /\ status' = [status EXCEPT ![VersionOf[w]][job[w]] = s]
        /\ status[VersionOf[w]][job[w]] \in Outstanding
        /\ job[w] \in Event
    BY <1>10 DEF Settle, OwnsClaim, Outstanding, Inv, CyclesFit
  <2> QED
    BY <2>1, RowFinal
<1>11. ASSUME NEW w \in Worker, NEW outcome \in Outcomes, Complete(w, outcome)
       PROVE  \A v \in Version, e \in Event : Final(v, e)
  <2>1. CASE OwnsClaim(w)
    BY <1>10, <1>11, <2>1 DEF Complete
  <2>2. CASE ~OwnsClaim(w)
    BY <1>11, <2>2, SameFinal DEF Complete, LoseClaim, rows
  <2> QED
    BY <2>1, <2>2
<1>12. ASSUME NEW w \in Worker, Fail(w)
       PROVE  \A v \in Version, e \in Event : Final(v, e)
  <2>1. CASE OwnsClaim(w)
    <3>1. pc[w] = "handling" /\ \E s : Settle(w, s)
      BY <1>12, <2>1 DEF Fail
    <3> QED
      BY <1>10, <2>1, <3>1
  <2>2. CASE ~OwnsClaim(w)
    BY <1>12, <2>2, SameFinal DEF Fail, LoseClaim, rows
  <2> QED
    BY <2>1, <2>2
<1>13. ASSUME NEW v \in Version, NEW e \in Event, Redrive(v, e)
       PROVE  \A u \in Version, f \in Event : Final(u, f)
  <2>1. status' = [status EXCEPT ![v][e] = "retry_wait"] /\ status[v][e] = "dead_letter"
    BY <1>13 DEF Redrive
  <2> QED
    BY <2>1, RowFinal
<1>14. ASSUME NEW w \in Worker, ClaimLease(w) \/ Discovered(w) \/ EndCycle(w)
       PROVE  UNCHANGED status
  BY <1>14 DEF ClaimLease, Discovered, EndCycle, rows
<1>15. ASSUME NEW v \in Version, NEW e \in Event,
              CommitEvent(e) \/ Deploy(v) \/ LeaseExpires(v) \/ ClaimExpires(v, e)
                \/ RetryFallsDue(v, e)
       PROVE  UNCHANGED status
  BY <1>15 DEF CommitEvent, Deploy, LeaseExpires, ClaimExpires, RetryFallsDue, rows
<1>16. ASSUME NEW e \in Event, CommitEvent(e) PROVE UNCHANGED status
  BY <1>16 DEF CommitEvent, rows
<1>17. ASSUME NEW v \in Version, Deploy(v) \/ LeaseExpires(v) PROVE UNCHANGED status
  BY <1>17 DEF Deploy, LeaseExpires, rows
<1>18. CASE UNCHANGED vars
  BY <1>18, SameFinal DEF vars, rows
<1> QED
  BY <1>1, <1>2, <1>3, <1>4, <1>6, <1>7, <1>8, <1>9, <1>11, <1>12, <1>13, <1>14, <1>15,
     <1>16, <1>17, <1>18 DEF Next

\* No late outcome, take-over or redrive rewrites a settled delivery; only a dead
\* letter is tried again.
THEOREM SettledStaysFinal == Spec => SettledIsFinal
<1>1. Inv /\ [Next]_vars =>
        [\A v \in Version, e \in Event :
           /\ status[v][e] \in {"succeeded", "skipped", "superseded"} =>
                status'[v][e] = status[v][e]
           /\ status[v][e] = "dead_letter" => status'[v][e] \in {"dead_letter", "retry_wait"}]_vars
  BY StepFinal DEF Final
<1> QED
  BY <1>1, DeliveriesFit, PTL DEF Spec, SettledIsFinal

---------------------------------------------------------------------------
(* Version bumps, when old code never runs after a deploy *)

\* Only the deployed version's workers run, and every open bootstrap has one.
Crew ==
  /\ \A w \in Worker : pc[w] # "idle" => VersionOf[w] = deployed
  /\ \A v \in Version : Booting(v) => \E w \in Worker : pc[w] = "booting" /\ VersionOf[w] = v

Carrying == {"pending", "retry_wait"}

DeployFits ==
  /\ Crew
  /\ \A v \in Version : checkpoint[v] # "none" => v <= deployed
  /\ \A v \in Version : Booting(v) => \A p \in Carried(v) : status[v][p[2]] \in Carrying
  /\ OldVersionsIdle
  /\ BumpDropsNothing

LEMMA BootingIsDeployed ==
  ASSUME DeployFits, NEW v \in Version, Booting(v) PROVE v = deployed
BY DEF DeployFits, Crew

LEMMA VersionsOrdered ==
  ASSUME Inv
  PROVE  deployed \in Nat /\ deployed \in Version /\ \A v \in Version : v \in Nat
BY SubscriberAssumption DEF Inv, RestTyped

\* A step, other than a deploy or the commit of a bootstrap, of the deployed version.
Steady ==
  /\ deployed' = deployed
  /\ \A u \in Version : u # deployed => checkpoint'[u] = checkpoint[u] /\ status'[u] = status[u]
  /\ checkpoint'[deployed] = "active" <=> checkpoint[deployed] = "active"
  /\ checkpoint[deployed] = "active" =>
       \A e \in Event : status'[deployed][e] = "bootstrap_skipped" =>
                          status[deployed][e] = "bootstrap_skipped"
  /\ \A e \in Event : status'[deployed][e] = "superseded" => status[deployed][e] = "superseded"
  /\ checkpoint'[deployed] \in {"translated", "marked"} =>
       \A p \in Carried(deployed) : status'[deployed][p[2]] \in Carrying

LEMMA SteadyFits ==
  ASSUME Inv, DeployFits, Steady, Crew' PROVE DeployFits'
<1>0. deployed \in Nat /\ deployed \in Version /\ \A v \in Version : v \in Nat
  BY VersionsOrdered
<1>1. ASSUME NEW v \in Version, checkpoint'[v] # "none" PROVE v <= deployed
  <2>1. CASE v = deployed
    BY <1>0, <2>1
  <2>2. CASE v # deployed
    BY <1>1, <2>2 DEF Steady, DeployFits
  <2> QED
    BY <2>1, <2>2
<1>2. ASSUME NEW v \in Version, Booting(v)' PROVE v = deployed
  <2>1. CASE v # deployed
    <3>1. Booting(v)
      BY <1>2, <2>1 DEF Steady, Booting
    <3> QED
      BY <3>1, BootingIsDeployed
  <2> QED
    BY <2>1
<1>3. ASSUME NEW v \in Version, Booting(v)', NEW p \in Carried(v)'
      PROVE  status'[v][p[2]] \in Carrying
  <2>1. v = deployed /\ checkpoint'[deployed] \in {"translated", "marked"}
    BY <1>2, <1>3 DEF Booting
  <2>2. /\ p \in Version \X Event /\ p[1] < v /\ checkpoint'[p[1]] = "active"
        /\ status'[p[1]][p[2]] \in Outstanding /\ p[2] \in Subscribed[v]
    BY <1>3 DEF Carried, OwedBy
  <2>3. p[1] \in Version /\ p[1] # deployed
    BY <1>0, <2>1, <2>2
  <2>4. checkpoint[p[1]] = "active" /\ status[p[1]][p[2]] \in Outstanding
    BY <2>2, <2>3 DEF Steady
  <2>5. p \in Carried(deployed)
    BY <2>1, <2>2, <2>4 DEF Carried, OwedBy
  <2> QED
    BY <2>1, <2>5 DEF Steady
<1>4. ASSUME NEW u \in Version, NEW v \in Version, u < v, checkpoint'[v] = "active",
             NEW e \in Event
      PROVE  status'[u][e] \in Terminal \cup {"none"}
  <2>1. checkpoint[v] = "active"
    BY <1>4 DEF Steady
  <2>2. v <= deployed
    BY <2>1 DEF DeployFits
  <2>3. u # deployed
    BY <1>0, <1>4, <2>2
  <2>4. status'[u] = status[u]
    BY <2>3 DEF Steady
  <2> QED
    BY <1>4, <2>1, <2>4 DEF DeployFits, OldVersionsIdle
<1>5. ASSUME NEW v \in Version, NEW e \in Event, status'[v][e] = "superseded"
      PROVE  \E u \in Version : /\ u > v /\ checkpoint'[u] = "active"
                                /\ e \in Subscribed[u] => status'[u][e] # "bootstrap_skipped"
  <2>1. status[v][e] = "superseded"
    BY <1>5 DEF Steady
  <2>2. PICK u \in Version : /\ u > v /\ checkpoint[u] = "active"
                             /\ e \in Subscribed[u] => status[u][e] # "bootstrap_skipped"
    BY <2>1 DEF DeployFits, BumpDropsNothing
  <2>3. checkpoint'[u] = "active"
    BY <2>2 DEF Steady
  <2>4. e \in Subscribed[u] => status'[u][e] # "bootstrap_skipped"
    BY <2>2 DEF Steady
  <2> QED
    BY <2>2, <2>3, <2>4
<1>6. deployed' = deployed
  BY DEF Steady
<1>7. OldVersionsIdle' /\ BumpDropsNothing'
  BY <1>4, <1>5 DEF OldVersionsIdle, BumpDropsNothing
<1> QED
  BY <1>1, <1>3, <1>6, <1>7 DEF DeployFits

\* No delivery and no checkpoint changes.
LEMMA SameIsSteady ==
  ASSUME Inv, DeployFits, UNCHANGED <<deployed, checkpoint, status>>
  PROVE  Steady
BY VersionsOrdered DEF Steady, DeployFits, Booting

\* One delivery of the deployed, active version moves.
LEMMA RowIsSteady ==
  ASSUME Inv, checkpoint[deployed] = "active", NEW e \in Event, NEW s,
         s \notin {"bootstrap_skipped", "superseded"},
         status' = [status EXCEPT ![deployed][e] = s],
         UNCHANGED <<deployed, checkpoint>>
  PROVE  Steady
<1>1. deployed \in Version /\ status \in [Version -> [Event -> Statuses]]
  BY VersionsOrdered DEF Inv, RowsTyped
<1>2. /\ \A u \in Version : u # deployed => status'[u] = status[u]
      /\ \A f \in Event : status'[deployed][f] = IF f = e THEN s ELSE status[deployed][f]
  BY <1>1
<1> QED
  BY <1>2 DEF Steady

\* The deployed version is rolled back.
LEMMA RollbackIsSteady ==
  ASSUME Inv, checkpoint[deployed] # "active", Rollback(deployed), UNCHANGED deployed
  PROVE  Steady
<1>1. /\ deployed \in Version /\ status \in [Version -> [Event -> Statuses]]
      /\ checkpoint \in [Version -> Checkpoints]
  BY VersionsOrdered DEF Inv, RowsTyped
<1>2. /\ \A u \in Version : u # deployed => status'[u] = status[u] /\ checkpoint'[u] = checkpoint[u]
      /\ \A e \in Event : status'[deployed][e] = "none"
      /\ checkpoint'[deployed] = "none"
  BY <1>1 DEF Rollback
<1> QED
  BY <1>2 DEF Steady

\* The crew after a step of a worker that leaves no bootstrap without a worker.
LEMMA CrewMoves ==
  ASSUME Inv, Crew, NEW w \in Worker, NEW p, pc' = [pc EXCEPT ![w] = p],
         UNCHANGED deployed, p = "idle" \/ VersionOf[w] = deployed,
         \A v \in Version : Booting(v)' => v = VersionOf[w] \/ Booting(v),
         Booting(VersionOf[w])' => p = "booting" \/ (pc[w] # "booting" /\ Booting(VersionOf[w]))
  PROVE  Crew'
<1>1. pc'[w] = p /\ \A x \in Worker : x # w => pc'[x] = pc[x]
  BY DEF Inv, RestTyped
<1>2. \A x \in Worker : pc'[x] # "idle" => VersionOf[x] = deployed'
  BY <1>1 DEF Crew
<1>3. ASSUME NEW v \in Version, Booting(v)'
      PROVE  \E x \in Worker : pc'[x] = "booting" /\ VersionOf[x] = v
  <2>1. CASE v = VersionOf[w] /\ p = "booting"
    BY <1>1, <2>1
  <2>2. CASE v # VersionOf[w]
    <3>1. PICK x \in Worker : pc[x] = "booting" /\ VersionOf[x] = v
      BY <1>3, <2>2 DEF Crew
    <3> QED
      BY <1>1, <2>2, <3>1
  <2>3. CASE v = VersionOf[w] /\ p # "booting"
    <3>1. pc[w] # "booting" /\ Booting(v)
      BY <1>3, <2>3
    <3>2. PICK x \in Worker : pc[x] = "booting" /\ VersionOf[x] = v
      BY <3>1 DEF Crew
    <3> QED
      BY <1>1, <3>1, <3>2
  <2> QED
    BY <2>1, <2>2, <2>3
<1> QED
  BY <1>2, <1>3 DEF Crew

LEMMA CrewSame ==
  ASSUME Crew, UNCHANGED <<deployed, checkpoint, pc>> PROVE Crew'
BY DEF Crew, Booting

\* A worker's step that changes no checkpoint.
LEMMA CrewSteps ==
  ASSUME Inv, Crew, NEW w \in Worker, NEW p, pc' = [pc EXCEPT ![w] = p],
         UNCHANGED <<deployed, checkpoint>>, p = "idle" \/ VersionOf[w] = deployed,
         pc[w] # "booting"
  PROVE  Crew'
<1>1. \A v \in Version : Booting(v)' => Booting(v)
  BY DEF Booting
<1>2. VersionOf[w] \in Version
  BY OfWorker
<1> QED
  BY <1>1, <1>2, CrewMoves

LEMMA RunningIsDeployed ==
  ASSUME ~Rolling, NEW v, Runs(v) PROVE v = deployed
BY DEF Runs

LEMMA CrewWorks ==
  ASSUME Crew, NEW w \in Worker, pc[w] # "idle" PROVE VersionOf[w] = deployed
BY DEF Crew

LEMMA DeployDeployFits ==
  ASSUME ~Rolling, Inv, DeployFits, NEW v \in Version, Deploy(v) PROVE DeployFits'
<1>1. /\ v > deployed /\ deployed' = v /\ UNCHANGED <<checkpoint, status, pc>>
      /\ \A w \in Worker : pc[w] = "idle"
  BY DEF Deploy, rows, cycles
<1>2. \A u \in Version : ~Booting(u)
  BY <1>1 DEF DeployFits, Crew
<1>3. Crew' /\ \A u \in Version : ~Booting(u)'
  BY <1>1, <1>2 DEF Crew, Booting
<1>4. \A u \in Version : checkpoint'[u] # "none" => u <= deployed'
  BY <1>1, VersionsOrdered DEF DeployFits
<1>5. OldVersionsIdle' /\ BumpDropsNothing'
  BY <1>1 DEF DeployFits, OldVersionsIdle, BumpDropsNothing
<1> QED
  BY <1>3, <1>4, <1>5 DEF DeployFits

LEMMA TranslateSteady ==
  ASSUME ~Rolling, Inv, DeployFits, NEW w \in Worker, BootTranslate(w)
  PROVE  Steady /\ Crew'
<1>1. VersionOf[w] = deployed /\ pc[w] = "idle" /\ checkpoint[deployed] = "none"
      /\ pc' = [pc EXCEPT ![w] = "booting"]
      /\ checkpoint' = [checkpoint EXCEPT ![deployed] = "translated"] /\ deployed' = deployed
  BY RunningIsDeployed, Zenon DEF BootTranslate
<1> DEFINE carried == {p[2] : p \in Carried(deployed)}
<1>2. PICK from :
        status' = [status EXCEPT ![deployed] = [e \in Event |->
             IF e \notin carried THEN "none"
             ELSE IF status[from[e]][e] = "retry_wait" THEN "retry_wait" ELSE "pending"]]
  <2>1. PICK from \in [{p[2] : p \in Carried(VersionOf[w])} -> Version] :
          status' = [status EXCEPT ![VersionOf[w]] = [e \in Event |->
               IF e \notin {p[2] : p \in Carried(VersionOf[w])} THEN "none"
               ELSE IF status[from[e]][e] = "retry_wait" THEN "retry_wait" ELSE "pending"]]
    BY Zenon DEF BootTranslate
  <2> QED
    BY <1>1, <2>1
<1>3. /\ deployed \in Version /\ status \in [Version -> [Event -> Statuses]]
      /\ checkpoint \in [Version -> Checkpoints]
  BY VersionsOrdered DEF Inv, RowsTyped
<1>4. /\ \A u \in Version : u # deployed => status'[u] = status[u] /\ checkpoint'[u] = checkpoint[u]
      /\ checkpoint'[deployed] = "translated"
      /\ \A e \in Event : e \in carried => status'[deployed][e] \in Carrying
      /\ \A e \in Event : status'[deployed][e] # "superseded"
  <2> HIDE DEF carried
  <2> QED
    BY <1>1, <1>2, <1>3 DEF Carrying
<1>5. \A p \in Carried(deployed) : p[2] \in carried /\ p[2] \in Event
  BY DEF Carried, OwedBy
<1>6. Steady
  <2> HIDE DEF carried
  <2> QED
    BY <1>1, <1>4, <1>5 DEF Steady
<1>7. Crew'
  <2>1. \A v \in Version : Booting(v)' => v = VersionOf[w] \/ Booting(v)
    BY <1>1, <1>4 DEF Booting
  <2> QED
    BY <1>1, <2>1, CrewMoves DEF DeployFits
<1> QED
  BY <1>6, <1>7

LEMMA MarkSteady ==
  ASSUME Inv, DeployFits, NEW w \in Worker, BootMark(w)
  PROVE  Steady /\ Crew'
<1>1. VersionOf[w] = deployed
  BY CrewWorks DEF BootMark, DeployFits
<1>2. /\ checkpoint[deployed] = "translated" /\ UNCHANGED <<deployed, pc>>
      /\ checkpoint' = [checkpoint EXCEPT ![deployed] = "marked"]
      /\ status' = [status EXCEPT ![deployed] = [e \in Event |->
           IF e \in History(deployed) THEN "bootstrap_skipped" ELSE @[e]]]
  BY <1>1 DEF BootMark, cycles
<1>3. /\ deployed \in Version /\ status \in [Version -> [Event -> Statuses]]
      /\ checkpoint \in [Version -> Checkpoints]
  BY VersionsOrdered DEF Inv, RowsTyped
<1>4. \A e \in History(deployed) : status[deployed][e] = "none"
  BY DEF History, Rows, Inv, RestTyped
<1>5. /\ \A u \in Version : u # deployed => status'[u] = status[u] /\ checkpoint'[u] = checkpoint[u]
      /\ checkpoint'[deployed] = "marked"
      /\ \A e \in Event : status'[deployed][e] = status[deployed][e]
                            \/ (status'[deployed][e] = "bootstrap_skipped"
                                  /\ status[deployed][e] = "none")
  BY <1>2, <1>3, <1>4
<1>6. \A p \in Carried(deployed) : p[2] \in Event /\ status[deployed][p[2]] \in Carrying
  <2>1. Booting(deployed)
    BY <1>2 DEF Booting
  <2> QED
    BY <1>3, <2>1 DEF DeployFits, Carried, OwedBy
<1>7. Steady
  BY <1>2, <1>5, <1>6 DEF Steady, Carrying
<1>8. Crew'
  <2>1. \A v \in Version : Booting(v)' => Booting(v)
    BY <1>2, <1>5 DEF Booting
  <2> QED
    BY <1>2, <2>1 DEF DeployFits, Crew
<1> QED
  BY <1>7, <1>8

LEMMA CommitDeployFits ==
  ASSUME Inv, DeployFits, NEW w \in Worker, BootCommit(w) PROVE DeployFits'
<1>1. VersionOf[w] = deployed /\ pc[w] = "booting"
  BY CrewWorks DEF BootCommit, DeployFits
<1>2. /\ checkpoint[deployed] = "marked" /\ deployed' = deployed
      /\ pc' = [pc EXCEPT ![w] = "idle"]
      /\ checkpoint' = [checkpoint EXCEPT ![deployed] = "active"]
      /\ status' = [u \in Version |-> [e \in Event |->
           IF <<u, e>> \in OwedBy(deployed) THEN "superseded" ELSE status[u][e]]]
  BY <1>1 DEF BootCommit
<1>3. /\ deployed \in Nat /\ deployed \in Version /\ \A v \in Version : v \in Nat
      /\ status \in [Version -> [Event -> Statuses]] /\ checkpoint \in [Version -> Checkpoints]
  BY VersionsOrdered DEF Inv, RowsTyped
<1>4. checkpoint'[deployed] = "active"
      /\ \A u \in Version : u # deployed => checkpoint'[u] = checkpoint[u] /\ ~Booting(u)
  BY <1>2, <1>3, BootingIsDeployed
<1>5. \A u \in Version : ~Booting(u)'
  BY <1>4 DEF Booting
<1>6. Crew'
  <2>1. VersionOf[w] \in Version
    BY OfWorker
  <2> QED
    BY <1>1, <1>2, <1>5, <2>1, CrewMoves DEF DeployFits
<1>7. \A v \in Version : checkpoint'[v] # "none" => v <= deployed'
  BY <1>2, <1>3, <1>4 DEF DeployFits
<1>8. \A u \in Version, e \in Event :
        /\ <<u, e>> \in OwedBy(deployed) <=>
             u < deployed /\ checkpoint[u] = "active" /\ status[u][e] \in Outstanding
        /\ status'[u][e] = IF <<u, e>> \in OwedBy(deployed) THEN "superseded" ELSE status[u][e]
  BY <1>2 DEF OwedBy
<1>9. ASSUME NEW u \in Version, NEW v \in Version, u < v, checkpoint'[v] = "active",
             NEW e \in Event
      PROVE  status'[u][e] \in Terminal \cup {"none"}
  <2>1. u < deployed
    BY <1>2, <1>3, <1>7, <1>9
  <2>2. CASE checkpoint[u] = "active"
    <3>1. status[u][e] \in Terminal \cup Outstanding \cup {"none"}
      BY <1>3 DEF Statuses
    <3>2. "superseded" \in Terminal
      BY DEF Terminal
    <3>3. <<u, e>> \in OwedBy(deployed) <=> status[u][e] \in Outstanding
      BY <1>8, <2>1, <2>2
    <3>4. status'[u][e] = IF <<u, e>> \in OwedBy(deployed) THEN "superseded" ELSE status[u][e]
      BY <1>8
    <3> QED
      BY <3>1, <3>2, <3>3, <3>4
  <2>3. CASE checkpoint[u] # "active"
    <3>1. ~Booting(u) /\ checkpoint[u] \in Checkpoints
      BY <1>3, <1>4, <2>1
    <3>2. checkpoint[u] = "none"
      BY <2>3, <3>1 DEF Booting, Checkpoints
    <3>3. status[u][e] = "none"
      BY <3>2, RowTyped DEF Inv, CheckpointFits
    <3> QED
      BY <1>8, <2>3, <3>3
  <2> QED
    BY <2>2, <2>3
<1>10. ASSUME NEW v \in Version, NEW e \in Event, status'[v][e] = "superseded"
       PROVE  \E u \in Version : /\ u > v /\ checkpoint'[u] = "active"
                                 /\ e \in Subscribed[u] => status'[u][e] # "bootstrap_skipped"
  <2>1. CASE <<v, e>> \in OwedBy(deployed)
    <3>1. v < deployed
      BY <1>8, <2>1
    <3>2. e \in Subscribed[deployed] => status[deployed][e] \in Carrying
      <4>1. ASSUME e \in Subscribed[deployed] PROVE status[deployed][e] \in Carrying
        <5>1. <<v, e>> \in Carried(deployed) /\ <<v, e>>[2] = e
          BY <2>1, <4>1 DEF Carried
        <5>2. Booting(deployed)
          BY <1>2 DEF Booting
        <5> QED
          BY <1>3, <5>1, <5>2 DEF DeployFits
      <4> QED
        BY <4>1
    <3>3. status'[deployed][e] = status[deployed][e]
      <4>1. <<deployed, e>> \notin OwedBy(deployed)
        BY <1>3, <1>8
      <4>2. status'[deployed][e] =
              IF <<deployed, e>> \in OwedBy(deployed) THEN "superseded" ELSE status[deployed][e]
        BY <1>3, <1>8
      <4> QED
        BY <4>1, <4>2
    <3> QED
      BY <1>3, <1>4, <3>1, <3>2, <3>3 DEF Carrying
  <2>2. CASE <<v, e>> \notin OwedBy(deployed)
    <3>1. status[v][e] = "superseded"
      BY <1>8, <1>10, <2>2
    <3>2. PICK u \in Version : /\ u > v /\ checkpoint[u] = "active"
                               /\ e \in Subscribed[u] => status[u][e] # "bootstrap_skipped"
      BY <3>1 DEF DeployFits, BumpDropsNothing
    <3>3. checkpoint'[u] = "active"
      BY <1>4, <3>2
    <3>4. status'[u][e] \in {"superseded", status[u][e]}
      BY <1>8
    <3> QED
      BY <3>2, <3>3, <3>4
  <2> QED
    BY <2>1, <2>2
<1>11. OldVersionsIdle' /\ BumpDropsNothing'
  BY <1>9, <1>10 DEF OldVersionsIdle, BumpDropsNothing
<1> QED
  BY <1>5, <1>6, <1>7, <1>11 DEF DeployFits

\* A worker between its idle moments is the deployed version's; its lease is active.
LEMMA LeasedIsActive ==
  ASSUME Inv, DeployFits, NEW w \in Worker, pc[w] # "idle", Leased(w)
  PROVE  VersionOf[w] = deployed /\ checkpoint[deployed] = "active"
<1>1. VersionOf[w] = deployed
  BY CrewWorks DEF DeployFits
<1> QED
  BY <1>1, OfWorker DEF Leased, Inv, CyclesFit

LEMMA BootRefusedSteady ==
  ASSUME Inv, DeployFits, NEW w \in Worker, BootRefused(w) PROVE Steady /\ Crew'
<1>1. VersionOf[w] = deployed
  BY CrewWorks DEF BootRefused, DeployFits
<1>2. /\ checkpoint[deployed] # "active" /\ Rollback(deployed) /\ UNCHANGED deployed
      /\ pc' = [pc EXCEPT ![w] = "idle"]
  BY <1>1 DEF BootRefused
<1>3. Steady
  BY <1>2, RollbackIsSteady
<1>4. checkpoint'[deployed] = "none"
      /\ \A u \in Version : u # deployed => checkpoint'[u] = checkpoint[u]
  BY <1>2, VersionsOrdered DEF Rollback, Inv, RowsTyped
<1>5. ~Booting(VersionOf[w])' /\ \A v \in Version : Booting(v)' => Booting(v)
  BY <1>1, <1>4 DEF Booting
<1>6. Crew'
  BY <1>2, <1>5, CrewMoves DEF DeployFits
<1> QED
  BY <1>3, <1>6

LEMMA CrashSteady ==
  ASSUME Inv, DeployFits, NEW w \in Worker, Crash(w) PROVE Steady /\ Crew'
<1>1. VersionOf[w] = deployed /\ pc' = [pc EXCEPT ![w] = "idle"] /\ UNCHANGED deployed
  BY CrewWorks DEF Crash, DeployFits
<1>2. CASE pc[w] = "booting"
  <2>1. checkpoint[deployed] # "active" /\ Rollback(deployed)
    BY <1>1, <1>2 DEF Crash, Inv, CyclesFit, Booting
  <2>2. Steady
    BY <1>1, <2>1, RollbackIsSteady
  <2>3. checkpoint'[deployed] = "none"
        /\ \A u \in Version : u # deployed => checkpoint'[u] = checkpoint[u]
    BY <2>1, VersionsOrdered DEF Rollback, Inv, RowsTyped
  <2>4. ~Booting(VersionOf[w])' /\ \A v \in Version : Booting(v)' => Booting(v)
    BY <1>1, <2>3 DEF Booting
  <2>5. Crew'
    BY <1>1, <2>4, CrewMoves DEF DeployFits
  <2> QED
    BY <2>2, <2>5
<1>3. CASE pc[w] # "booting"
  <2>1. UNCHANGED <<deployed, checkpoint, status>>
    BY <1>1, <1>3 DEF Crash, rows
  <2> QED
    BY <1>1, <1>3, <2>1, SameIsSteady, CrewSteps DEF DeployFits
<1> QED
  BY <1>2, <1>3

LEMMA DiscoverSteady ==
  ASSUME Inv, DeployFits, NEW w \in Worker, Discover(w) PROVE Steady /\ Crew'
<1>1. VersionOf[w] = deployed /\ checkpoint[deployed] = "active"
  BY LeasedIsActive DEF Discover
<1> DEFINE found == {e \in Undelivered(deployed) : Rank(Undelivered(deployed), e) <= Batch}
<1>2. /\ status' = [status EXCEPT ![deployed] = [e \in Event |->
                      IF e \in found THEN "pending" ELSE @[e]]]
      /\ UNCHANGED <<deployed, checkpoint, pc>>
  BY <1>1 DEF Discover, cycles
<1>3. deployed \in Version /\ status \in [Version -> [Event -> Statuses]]
  BY VersionsOrdered DEF Inv, RowsTyped
<1> HIDE DEF found
<1>4. /\ \A u \in Version : u # deployed => status'[u] = status[u]
      /\ \A e \in Event : status'[deployed][e] \in {"pending", status[deployed][e]}
  BY <1>2, <1>3
<1>5. Steady
  BY <1>1, <1>2, <1>4 DEF Steady
<1> QED
  BY <1>2, <1>5, CrewSame DEF DeployFits

LEMMA ClaimNextSteady ==
  ASSUME Inv, DeployFits, NEW w \in Worker, NEW e \in Event, ClaimNext(w, e)
  PROVE  Steady /\ Crew'
<1>1. VersionOf[w] = deployed /\ checkpoint[deployed] = "active"
  BY LeasedIsActive DEF ClaimNext
<1>2. /\ status' = [status EXCEPT ![deployed][e] = "claimed"]
      /\ UNCHANGED <<deployed, checkpoint>> /\ pc' = [pc EXCEPT ![w] = "handling"]
      /\ pc[w] # "booting"
  BY <1>1 DEF ClaimNext
<1>3. Steady
  <2>1. "claimed" \notin {"bootstrap_skipped", "superseded"}
    OBVIOUS
  <2>2. /\ checkpoint[deployed] = "active" /\ UNCHANGED <<deployed, checkpoint>>
        /\ status' = [status EXCEPT ![deployed][e] = "claimed"]
    BY <1>1, <1>2
  <2> QED
    BY <2>1, <2>2, RowIsSteady
<1> QED
  BY <1>1, <1>2, <1>3, CrewSteps DEF DeployFits

LEMMA SettleSteady ==
  ASSUME Inv, DeployFits, NEW w \in Worker, NEW s, s \notin {"bootstrap_skipped", "superseded"},
         pc[w] = "handling", OwnsClaim(w), Settle(w, s), UNCHANGED <<deployed, checkpoint>>
  PROVE  Steady
<1>1. VersionOf[w] = deployed /\ checkpoint[deployed] = "active"
  BY LeasedIsActive DEF OwnsClaim
<1>2. job[w] \in Event /\ status' = [status EXCEPT ![deployed][job[w]] = s]
  BY <1>1 DEF Settle, Inv, CyclesFit
<1> QED
  BY <1>1, <1>2, RowIsSteady

LEMMA CompleteSteady ==
  ASSUME Inv, DeployFits, NEW w \in Worker, NEW outcome \in Outcomes, Complete(w, outcome)
  PROVE  Steady /\ Crew'
<1>1. pc[w] = "handling" /\ UNCHANGED <<deployed, checkpoint>>
      /\ outcome \notin {"bootstrap_skipped", "superseded"}
  BY BoundAssumption DEF Complete
<1>2. VersionOf[w] = deployed /\ \E p : pc' = [pc EXCEPT ![w] = p]
  BY <1>1, CrewWorks DEF DeployFits, Complete, LoseClaim
<1>3. Crew'
  BY <1>1, <1>2, CrewSteps DEF DeployFits
<1>4. CASE OwnsClaim(w)
  BY <1>1, <1>3, <1>4, SettleSteady DEF Complete
<1>5. CASE ~OwnsClaim(w)
  <2>1. UNCHANGED <<deployed, checkpoint, status>>
    BY <1>1, <1>5 DEF Complete, LoseClaim, rows
  <2> QED
    BY <1>3, <2>1, SameIsSteady
<1> QED
  BY <1>4, <1>5

LEMMA FailSteady ==
  ASSUME Inv, DeployFits, NEW w \in Worker, Fail(w) PROVE Steady /\ Crew'
<1>1. pc[w] = "handling" /\ UNCHANGED <<deployed, checkpoint>>
  BY DEF Fail
<1>2. VersionOf[w] = deployed /\ \E p : pc' = [pc EXCEPT ![w] = p]
  BY <1>1, CrewWorks DEF DeployFits, Fail, LoseClaim
<1>3. Crew'
  BY <1>1, <1>2, CrewSteps DEF DeployFits
<1>4. CASE OwnsClaim(w)
  <2>1. PICK s : s \in {"dead_letter", "retry_wait"} /\ Settle(w, s)
    BY <1>4 DEF Fail
  <2> QED
    BY <1>1, <1>3, <1>4, <2>1, SettleSteady
<1>5. CASE ~OwnsClaim(w)
  <2>1. UNCHANGED <<deployed, checkpoint, status>>
    BY <1>1, <1>5 DEF Fail, LoseClaim, rows
  <2> QED
    BY <1>3, <2>1, SameIsSteady
<1> QED
  BY <1>4, <1>5

LEMMA RedriveSteady ==
  ASSUME ~Rolling, Inv, DeployFits, NEW v \in Version, NEW e \in Event, Redrive(v, e)
  PROVE  Steady /\ Crew'
<1>1. v = deployed /\ checkpoint[deployed] = "active"
  BY RunningIsDeployed DEF Redrive
<1>2. status' = [status EXCEPT ![deployed][e] = "retry_wait"]
      /\ UNCHANGED <<deployed, checkpoint, pc>>
  BY <1>1 DEF Redrive, cycles
<1>3. Steady
  <2>1. "retry_wait" \notin {"bootstrap_skipped", "superseded"}
    OBVIOUS
  <2> QED
    BY <1>1, <1>2, <2>1, RowIsSteady
<1> QED
  BY <1>2, <1>3, CrewSame DEF DeployFits

\* The other steps of a cycle.
LEMMA CycleSteady ==
  ASSUME ~Rolling, Inv, DeployFits, NEW w \in Worker, ClaimLease(w) \/ Discovered(w) \/ EndCycle(w)
  PROVE  Steady /\ Crew'
<1>1. UNCHANGED <<deployed, checkpoint, status>> /\ pc[w] # "booting"
      /\ \E p : pc' = [pc EXCEPT ![w] = p]
  BY DEF ClaimLease, Discovered, EndCycle, rows
<1>2. VersionOf[w] = deployed
  <2>1. CASE ClaimLease(w)
    BY <2>1, RunningIsDeployed DEF ClaimLease
  <2>2. CASE Discovered(w) \/ EndCycle(w)
    <3>1. pc[w] # "idle"
      BY <2>2 DEF Discovered, EndCycle
    <3> QED
      BY <3>1, CrewWorks DEF DeployFits
  <2> QED
    BY <2>1, <2>2
<1> QED
  BY <1>1, <1>2, SameIsSteady, CrewSteps DEF DeployFits

LEMMA InitDeployFits == ASSUME Init PROVE DeployFits
<1>1. \A v \in Version : checkpoint[v] = "none" /\ \A e \in Event : status[v][e] = "none"
  BY DEF Init
<1>2. Crew /\ \A v \in Version : ~Booting(v)
  BY <1>1 DEF Init, Crew, Booting
<1>3. OldVersionsIdle /\ BumpDropsNothing
  BY <1>1 DEF OldVersionsIdle, BumpDropsNothing
<1> QED
  BY <1>1, <1>2, <1>3 DEF DeployFits

LEMMA NextDeployFits ==
  ASSUME ~Rolling, Inv, DeployFits, [Next]_vars PROVE DeployFits'
<1>1. ASSUME Steady /\ Crew' PROVE DeployFits'
  BY <1>1, SteadyFits
<1>2. CASE UNCHANGED <<deployed, checkpoint, status, pc>>
  BY <1>1, <1>2, SameIsSteady, CrewSame DEF DeployFits
<1>3. CASE \E e \in Event : CommitEvent(e)
  BY <1>2, <1>3 DEF CommitEvent, rows, cycles
<1>4. CASE \E v \in Version : Deploy(v)
  BY <1>4, DeployDeployFits
<1>5. CASE \E w \in Worker : BootTranslate(w)
  BY <1>1, <1>5, TranslateSteady
<1>6. CASE \E w \in Worker : BootMark(w)
  BY <1>1, <1>6, MarkSteady
<1>7. CASE \E w \in Worker : BootCommit(w)
  BY <1>7, CommitDeployFits
<1>8. CASE \E w \in Worker : BootRefused(w)
  BY <1>1, <1>8, BootRefusedSteady
<1>9. CASE \E w \in Worker : ClaimLease(w) \/ Discovered(w) \/ EndCycle(w)
  BY <1>1, <1>9, CycleSteady
<1>10. CASE \E w \in Worker : Discover(w)
  BY <1>1, <1>10, DiscoverSteady
<1>11. CASE \E w \in Worker, e \in Event : ClaimNext(w, e)
  BY <1>1, <1>11, ClaimNextSteady
<1>12. CASE \E w \in Worker, outcome \in Outcomes : Complete(w, outcome)
  BY <1>1, <1>12, CompleteSteady
<1>13. CASE \E w \in Worker : Fail(w)
  BY <1>1, <1>13, FailSteady
<1>14. CASE \E w \in Worker : Crash(w)
  BY <1>1, <1>14, CrashSteady
<1>15. CASE \E v \in Version : LeaseExpires(v)
  BY <1>2, <1>15 DEF LeaseExpires, rows, cycles
<1>16. CASE \E v \in Version, e \in Event : ClaimExpires(v, e) \/ RetryFallsDue(v, e)
  BY <1>2, <1>16 DEF ClaimExpires, RetryFallsDue, rows, cycles
<1>17. CASE \E v \in Version, e \in Event : Redrive(v, e)
  BY <1>1, <1>17, RedriveSteady
<1>18. CASE UNCHANGED vars
  BY <1>2, <1>18 DEF vars, rows, cycles
<1> QED
  BY <1>3, <1>4, <1>5, <1>6, <1>7, <1>8, <1>9, <1>10, <1>11, <1>12, <1>13, <1>14, <1>15,
     <1>16, <1>17, <1>18 DEF Next

\* When old code stops before new code starts, the deployed version is the only one at
\* work, and every bump keeps its promises.
THEOREM DeploysFit == ASSUME ~Rolling PROVE Spec => []DeployFits
<1>1. Init => DeployFits
  BY InitDeployFits
<1>2. Inv /\ DeployFits /\ [Next]_vars => DeployFits'
  BY NextDeployFits
<1> QED
  BY <1>1, <1>2, DeliveriesFit, PTL DEF Spec

\* Once a newer version is active an older one owes nothing.
THEOREM OldVersionsStayIdle == ASSUME ~Rolling PROVE Spec => []OldVersionsIdle
<1>1. DeployFits => OldVersionsIdle
  BY DEF DeployFits
<1> QED
  BY <1>1, DeploysFit, PTL

\* What a bump takes from an older version it carries itself or does not subscribe.
THEOREM BumpsDropNothing == ASSUME ~Rolling PROVE Spec => []BumpDropsNothing
<1>1. DeployFits => BumpDropsNothing
  BY DEF DeployFits
<1> QED
  BY <1>1, DeploysFit, PTL

---------------------------------------------------------------------------
(* The numbers of a bump, when old code never runs after a deploy *)

\* Between its two reads a bootstrap has numbered what it translated without gaps.
Compact ==
  \A v \in Version, e \in Event :
    checkpoint[v] = "translated" /\ status[v][e] # "none" => seq[v][e] <= Cardinality(Rows(v))

\* Pairs that differ in their event are counted by their events.
LEMMA FirstCounts ==
  ASSUME NEW owed \in SUBSET (Version \X Event), \A p, q \in owed : p[2] = q[2] => p = q,
         NEW e \in {p[2] : p \in owed}
  PROVE  1 + Cardinality({p \in owed : p[2] < e}) <= Cardinality({p[2] : p \in owed})
<1> DEFINE carried == {p[2] : p \in owed}
           before == {p \in owed : p[2] < e}
           g == [p \in before |-> p[2]]
<1>1. carried \in SUBSET Event /\ IsFiniteSet(Event) /\ e \in Nat
  BY EventsFinite
<1>2. IsFiniteSet(carried)
  BY <1>1, FS_Subset
<1>3. IsFiniteSet(carried \ {e}) /\ Cardinality(carried \ {e}) = Cardinality(carried) - 1
  BY <1>2, FS_RemoveElement
<1>4. g \in [before -> carried \ {e}]
  BY <1>1
<1>5. g \in Injection(before, carried \ {e})
  <2>1. \A p, q \in before : g[p] = g[q] => p = q
    OBVIOUS
  <2> HIDE DEF g
  <2> QED
    BY <1>4, <2>1 DEF Injection, IsInjective
<1>6. IsFiniteSet(before) /\ Cardinality(before) <= Cardinality(carried \ {e})
  BY <1>3, <1>5, FS_Injection
<1>7. Cardinality(before) \in Nat /\ Cardinality(carried) \in Nat
  BY <1>2, <1>6, FS_CardinalityType
<1> QED
  BY <1>3, <1>6, <1>7

\* Only one older version owes anything.
LEMMA OneOwes ==
  ASSUME Inv, DeployFits, NEW v, NEW p \in Carried(v), NEW q \in Carried(v), p[2] = q[2]
  PROVE  p = q
<1>1. /\ p \in Version \X Event /\ checkpoint[p[1]] = "active"
      /\ status[p[1]][p[2]] \in Outstanding
      /\ q \in Version \X Event /\ checkpoint[q[1]] = "active"
      /\ status[q[1]][q[2]] \in Outstanding
  BY DEF Carried, OwedBy
<1>2. ~(p[1] < q[1]) /\ ~(q[1] < p[1])
  BY <1>1 DEF DeployFits, OldVersionsIdle, Outstanding, Terminal
<1>3. p[1] = q[1]
  BY <1>1, <1>2, VersionsOrdered
<1> QED
  BY <1>1, <1>3

\* No version becomes translated.
LEMMA CompactStays ==
  ASSUME Compact,
         \A v \in Version : checkpoint'[v] = "translated" =>
           checkpoint[v] = "translated" /\ status'[v] = status[v] /\ seq'[v] = seq[v]
  PROVE  Compact'
BY DEF Compact, Rows

LEMMA SameCompact ==
  ASSUME Compact, UNCHANGED <<checkpoint, status, seq>> PROVE Compact'
BY CompactStays

LEMMA VersionCompact ==
  ASSUME Inv, Compact, NEW v \in Version, NEW c, c # "translated", NEW st, NEW sq,
         checkpoint' = [checkpoint EXCEPT ![v] = c], status' = [status EXCEPT ![v] = st],
         seq' = [seq EXCEPT ![v] = sq]
  PROVE  Compact'
<1>1. \A u \in Version :
        /\ checkpoint'[u] = IF u = v THEN c ELSE checkpoint[u]
        /\ u # v => status'[u] = status[u] /\ seq'[u] = seq[u]
  BY DEF Inv, RowsTyped
<1> QED
  BY <1>1, CompactStays

LEMMA RowCompact ==
  ASSUME Inv, Compact, NEW v \in Version, checkpoint[v] = "active", NEW e \in Event, NEW s,
         status' = [status EXCEPT ![v][e] = s], UNCHANGED <<checkpoint, seq>>
  PROVE  Compact'
<1>1. \A u \in Version : u # v => status'[u] = status[u]
  BY DEF Inv, RowsTyped
<1> QED
  BY <1>1, CompactStays

LEMMA TranslateCompact ==
  ASSUME Inv, DeployFits, Compact, NEW w \in Worker, BootTranslate(w) PROVE Compact'
<1> DEFINE v == VersionOf[w]
           owed == Carried(v)
           carried == {p[2] : p \in owed}
           first(e) == 1 + Cardinality({p \in owed : p[2] < e})
<1>1. /\ v \in Version /\ checkpoint' = [checkpoint EXCEPT ![v] = "translated"]
      /\ seq' = [seq EXCEPT ![v] = [e \in Event |-> IF e \in carried THEN first(e) ELSE 0]]
  BY OfWorker, Zenon DEF BootTranslate
<1>2. PICK from \in [carried -> Version] :
        status' = [status EXCEPT ![v] = [e \in Event |->
             IF e \notin carried THEN "none"
             ELSE IF status[from[e]][e] = "retry_wait" THEN "retry_wait" ELSE "pending"]]
  BY Zenon DEF BootTranslate
<1>3. owed \in SUBSET (Version \X Event) /\ \A p, q \in owed : p[2] = q[2] => p = q
  BY OneOwes DEF Carried, OwedBy
<1> DEFINE st == [e \in Event |->
             IF e \notin carried THEN "none"
             ELSE IF status[from[e]][e] = "retry_wait" THEN "retry_wait" ELSE "pending"]
           sq == [e \in Event |-> IF e \in carried THEN first(e) ELSE 0]
<1>4. carried \in SUBSET Event /\ \A e \in Event : st[e] # "none" <=> e \in carried
  BY <1>3
<1>5. \A e \in carried : sq[e] <= Cardinality(carried)
  <2>1. ASSUME NEW e \in carried PROVE first(e) <= Cardinality(carried)
    <3> HIDE DEF owed
    <3> QED
      BY <1>3, FirstCounts
  <2> HIDE DEF first
  <2> QED
    BY <1>4, <2>1
<1>6. status' = [status EXCEPT ![v] = st] /\ seq' = [seq EXCEPT ![v] = sq]
  BY <1>1, <1>2, Zenon
<1> HIDE DEF st, sq, carried, v
<1>7. /\ status'[v] = st /\ seq'[v] = sq
      /\ \A u \in Version : u # v =>
           checkpoint'[u] = checkpoint[u] /\ status'[u] = status[u] /\ seq'[u] = seq[u]
  BY <1>1, <1>6 DEF Inv, RowsTyped
<1>8. ASSUME NEW u \in Version, NEW e \in Event, checkpoint'[u] = "translated",
             status'[u][e] # "none"
      PROVE  seq'[u][e] <= Cardinality(Rows(u)')
  <2>1. CASE u = v
    <3>1. Rows(u)' = carried
      BY <1>4, <1>7, <2>1 DEF Rows
    <3>2. e \in carried /\ seq'[u][e] = sq[e]
      BY <1>4, <1>7, <1>8, <2>1
    <3> QED
      BY <1>5, <3>1, <3>2
  <2>2. CASE u # v
    <3>1. Rows(u)' = Rows(u)
      BY <1>7, <2>2 DEF Rows
    <3>2. checkpoint[u] = "translated" /\ status[u][e] # "none" /\ seq'[u][e] = seq[u][e]
      BY <1>7, <1>8, <2>2
    <3> QED
      BY <3>1, <3>2 DEF Compact
  <2> QED
    BY <2>1, <2>2
<1> QED
  BY <1>8 DEF Compact

LEMMA CommitCompact ==
  ASSUME Inv, Compact, NEW w \in Worker, BootCommit(w) PROVE Compact'
<1>1. /\ VersionOf[w] \in Version /\ UNCHANGED seq
      /\ checkpoint' = [checkpoint EXCEPT ![VersionOf[w]] = "active"]
      /\ status' = [u \in Version |-> [e \in Event |->
           IF <<u, e>> \in OwedBy(VersionOf[w]) THEN "superseded" ELSE status[u][e]]]
  BY OfWorker DEF BootCommit
<1>2. ASSUME NEW u \in Version, checkpoint'[u] = "translated"
      PROVE  checkpoint[u] = "translated" /\ status'[u] = status[u] /\ seq'[u] = seq[u]
  <2>1. checkpoint[u] = "translated"
    BY <1>1, <1>2 DEF Inv, RowsTyped
  <2>2. \A e \in Event : <<u, e>> \notin OwedBy(VersionOf[w])
    BY <2>1 DEF OwedBy
  <2>3. status'[u] = [e \in Event |-> status[u][e]]
    BY <1>1, <2>2
  <2>4. status'[u] = status[u]
    BY <2>3 DEF Inv, RowsTyped
  <2> QED
    BY <1>1, <2>1, <2>4
<1> QED
  BY <1>2, CompactStays

LEMMA SettleCompact ==
  ASSUME Inv, Compact, NEW w \in Worker, Fail(w) \/ \E outcome \in Outcomes : Complete(w, outcome)
  PROVE  Compact'
<1>1. CASE OwnsClaim(w)
  <2>1. PICK s : Settle(w, s)
    BY <1>1 DEF Fail, Complete
  <2>2. UNCHANGED <<checkpoint, seq>> /\ pc[w] = "handling"
    BY <1>1 DEF Fail, Complete
  <2>3. VersionOf[w] \in Version /\ job[w] \in Event /\ checkpoint[VersionOf[w]] = "active"
    BY <1>1, <2>2, OfWorker DEF OwnsClaim, Leased, Inv, CyclesFit
  <2>4. status' = [status EXCEPT ![VersionOf[w]][job[w]] = s]
    BY <2>1 DEF Settle
  <2> QED
    BY <2>2, <2>3, <2>4, RowCompact
<1>2. CASE ~OwnsClaim(w)
  BY <1>2, SameCompact DEF Fail, Complete, LoseClaim, rows
<1> QED
  BY <1>1, <1>2

LEMMA RollbackCompact ==
  ASSUME Inv, Compact, NEW v \in Version, Rollback(v) PROVE Compact'
<1>1. PICK st, sq : /\ status' = [status EXCEPT ![v] = st] /\ seq' = [seq EXCEPT ![v] = sq]
                    /\ checkpoint' = [checkpoint EXCEPT ![v] = "none"]
  BY Zenon DEF Rollback
<1> QED
  BY <1>1, VersionCompact

LEMMA NextCompact == ASSUME Inv, DeployFits, Compact, [Next]_vars PROVE Compact'
<1>1. CASE (\E e \in Event : CommitEvent(e)) \/ (\E v \in Version : Deploy(v)) \/ UNCHANGED vars
  BY <1>1, SameCompact DEF CommitEvent, Deploy, rows, vars
<1>2. CASE \E w \in Worker : BootTranslate(w)
  BY <1>2, TranslateCompact
<1>3. ASSUME NEW w \in Worker, BootMark(w) PROVE Compact'
  <2>1. PICK st, sq : /\ status' = [status EXCEPT ![VersionOf[w]] = st]
                      /\ seq' = [seq EXCEPT ![VersionOf[w]] = sq]
                      /\ checkpoint' = [checkpoint EXCEPT ![VersionOf[w]] = "marked"]
    BY <1>3, Zenon DEF BootMark
  <2> QED
    BY <2>1, OfWorker, VersionCompact
<1>4. CASE \E w \in Worker : BootCommit(w)
  BY <1>4, CommitCompact
<1>5. CASE \E w \in Worker : BootRefused(w)
  BY <1>5, OfWorker, RollbackCompact DEF BootRefused
<1>6. ASSUME NEW w \in Worker, ClaimLease(w) \/ Discovered(w) \/ EndCycle(w) PROVE Compact'
  BY <1>6, SameCompact DEF ClaimLease, Discovered, EndCycle, rows
<1>7. ASSUME NEW w \in Worker, Discover(w) PROVE Compact'
  <2>1. VersionOf[w] \in Version /\ checkpoint[VersionOf[w]] = "active"
    BY <1>7, OfWorker DEF Discover, Leased, Inv, CyclesFit
  <2>2. PICK st, sq : /\ status' = [status EXCEPT ![VersionOf[w]] = st]
                      /\ seq' = [seq EXCEPT ![VersionOf[w]] = sq]
    BY <1>7, Zenon DEF Discover
  <2>3. checkpoint' = [checkpoint EXCEPT ![VersionOf[w]] = "active"]
    BY <1>7, <2>1, SameRows DEF Discover, Inv
  <2> QED
    BY <2>1, <2>2, <2>3, VersionCompact
<1>8. ASSUME NEW w \in Worker, NEW e \in Event, ClaimNext(w, e) PROVE Compact'
  <2>1. VersionOf[w] \in Version /\ checkpoint[VersionOf[w]] = "active"
    BY <1>8, OfWorker DEF ClaimNext, Leased, Inv, CyclesFit
  <2>2. status' = [status EXCEPT ![VersionOf[w]][e] = "claimed"] /\ UNCHANGED <<checkpoint, seq>>
    BY <1>8 DEF ClaimNext
  <2> QED
    BY <2>1, <2>2, RowCompact
<1>9. CASE \E w \in Worker : Fail(w) \/ \E outcome \in Outcomes : Complete(w, outcome)
  BY <1>9, SettleCompact
<1>10. ASSUME NEW w \in Worker, Crash(w) PROVE Compact'
  <2>1. CASE pc[w] = "booting"
    BY <1>10, <2>1, OfWorker, RollbackCompact DEF Crash
  <2>2. CASE pc[w] # "booting"
    BY <1>10, <2>2, SameCompact DEF Crash, rows
  <2> QED
    BY <2>1, <2>2
<1>11. ASSUME NEW v \in Version, LeaseExpires(v) PROVE Compact'
  BY <1>11, SameCompact DEF LeaseExpires, rows
<1>12. ASSUME NEW v \in Version, NEW e \in Event, ClaimExpires(v, e) \/ RetryFallsDue(v, e)
       PROVE  Compact'
  BY <1>12, SameCompact DEF ClaimExpires, RetryFallsDue, rows
<1>13. ASSUME NEW v \in Version, NEW e \in Event, Redrive(v, e) PROVE Compact'
  BY <1>13, RowCompact DEF Redrive
<1> QED
  BY <1>1, <1>2, <1>3, <1>4, <1>5, <1>6, <1>7, <1>8, <1>9, <1>10, <1>11, <1>12, <1>13 DEF Next

\* History is numbered after every translated row.
LEMMA CompactFree == ASSUME Inv, Compact PROVE BumpNeverCollides
<1> SUFFICES ASSUME NEW v \in Version, checkpoint[v] = "translated",
                    NEW e \in History(v), NEW f \in Rows(v), HistorySeq(v, e) = seq[v][f]
             PROVE  FALSE
  BY DEF BumpNeverCollides, SeqCollides
<1> DEFINE committed == visible \cap Subscribed[v]
<1>1. committed \in SUBSET Event /\ e \in committed /\ e \in Event
  BY DEF History, Inv, RestTyped
<1>2. Rank(committed, e) \in Nat /\ Rank(committed, e) > 0
  BY <1>1, RankFits
<1>3. seq[v][f] <= Cardinality(Rows(v)) /\ seq[v][f] \in Nat
  BY DEF Compact, Rows, Inv, RowsTyped
<1>4. Cardinality(Rows(v)) \in Nat
  <2>1. Rows(v) \in SUBSET Event /\ IsFiniteSet(Event)
    BY EventsFinite DEF Rows
  <2> QED
    BY <2>1, FS_Subset, FS_CardinalityType
<1>5. HistorySeq(v, e) = Cardinality(Rows(v)) + Rank(committed, e)
  BY DEF HistorySeq
<1> HIDE DEF committed
<1> QED
  BY <1>2, <1>3, <1>4, <1>5

\* When old code stops before new code starts, only one older version owes anything, so no
\* event is translated twice and no bootstrap trips over the unique index.
THEOREM BumpsNeverCollide == ASSUME ~Rolling PROVE Spec => []BumpNeverCollides
<1>1. Init => Compact
  BY DEF Init, Compact
<1>2. Inv /\ DeployFits /\ Compact /\ [Next]_vars => Compact'
  BY NextCompact
<1>3. Inv /\ Compact => BumpNeverCollides
  BY CompactFree
<1> QED
  BY <1>1, <1>2, <1>3, DeliveriesFit, DeploysFit, PTL DEF Spec

=============================================================================
