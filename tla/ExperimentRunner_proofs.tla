---------------------- MODULE ExperimentRunner_proofs ----------------------
(* The figures of a window agree, what is saved of a run covers it, every      *)
(* campaign fills the results in order, and what the analysis pairs is         *)
(* comparable, for any number of workloads, systems, networks, repetitions     *)
(* and restarts.                                                               *)
EXTENDS ExperimentRunner, FiniteSetTheorems, WellFoundedInduction, TLAPS

-----------------------------------------------------------------------------
(* Numbers and order statistics.                                              *)

LEMMA Least ==
  ASSUME NEW T \in SUBSET Nat, T # {}
  PROVE  \E n \in T : \A m \in T : n <= m
<1>1. PICK n \in T : \A m \in T : ~ (<<m, n>> \in OpToRel(<, Nat))
  BY NatLessThanWellFounded, WFMin
<1>2. \A m \in T : ~ (m < n)
  BY <1>1 DEF OpToRel
<1> QED BY <1>2

\* Some sample of a finite set is the greatest.
LEMMA Greatest ==
  ASSUME NEW I, IsFiniteSet(I), I # {}, NEW s, \A i \in I : s[i] \in Nat
  PROVE  \E j \in I : \A i \in I : s[i] <= s[j]
<1> DEFINE Up(j) == {i \in I : s[i] <= s[j]}
           Rest == {Cardinality(I) - Cardinality(Up(j)) : j \in I}
<1>1. \A j \in I : IsFiniteSet(Up(j)) /\ Cardinality(Up(j)) <= Cardinality(I)
  BY FS_Subset
<1>2. Cardinality(I) \in Nat /\ \A j \in I : Cardinality(Up(j)) \in Nat
  BY <1>1, FS_CardinalityType
<1>3. Rest \in SUBSET Nat /\ Rest # {}
  <2>1. ASSUME NEW j \in I PROVE Cardinality(I) - Cardinality(Up(j)) \in Nat
    BY <1>1, <1>2
  <2> QED BY <2>1
<1>4. PICK j \in I : \A r \in Rest : Cardinality(I) - Cardinality(Up(j)) <= r
  BY <1>3, Least
<1>5. ASSUME NEW i \in I, s[j] < s[i] PROVE FALSE
  <2>1. Up(j) \subseteq Up(i) /\ i \in Up(i) /\ i \notin Up(j)
    BY <1>5
  <2>2. Cardinality(Up(j)) <= Cardinality(Up(i)) /\ Cardinality(Up(j)) # Cardinality(Up(i))
    BY <1>1, <2>1, FS_Subset
  <2>3. Cardinality(I) - Cardinality(Up(j)) <= Cardinality(I) - Cardinality(Up(i))
    BY <1>4
  <2>4. Cardinality(I) \in Nat /\ Cardinality(Up(i)) \in Nat /\ Cardinality(Up(j)) \in Nat
    BY <1>2
  <2> HIDE DEF Up
  <2> QED BY <2>2, <2>3, <2>4
<1> QED BY <1>5

Values(s, I) == {s[i] : i \in I}
Under(s, I, v) == Cardinality({i \in I : s[i] < v})
UpTo(s, I, v) == Cardinality({i \in I : s[i] <= v})

\* A percentile exists: fewer than k samples are below it, at least k are not above.
LEMMA OrderStatistic ==
  ASSUME NEW I, IsFiniteSet(I), I # {}, NEW s, \A i \in I : s[i] \in Nat,
         NEW k \in 1..Cardinality(I)
  PROVE  \E v \in Values(s, I) : Under(s, I, v) < k /\ UpTo(s, I, v) >= k
<1> DEFINE Up(v) == {i \in I : s[i] <= v}
           High == {j \in I : Cardinality(Up(s[j])) >= k}
<1>1. \A T \in SUBSET I : IsFiniteSet(T) /\ Cardinality(T) \in Nat
  BY FS_Subset, FS_CardinalityType
<1>2. High # {}
  <2>1. PICK j \in I : \A i \in I : s[i] <= s[j]
    BY Greatest
  <2>2. Up(s[j]) = I
    BY <2>1
  <2> QED BY <2>2
<1>3. PICK j \in High : \A i \in High : s[j] <= s[i]
  <2> HIDE DEF High
  <2>1. High \subseteq I
    BY DEF High
  <2>2. {s[j] : j \in High} \in SUBSET Nat /\ {s[j] : j \in High} # {}
    BY <1>2, <2>1
  <2>3. PICK n \in {s[j] : j \in High} : \A m \in {s[j] : j \in High} : n <= m
    BY <2>2, Least
  <2> QED BY <2>3
<1> DEFINE Below == {i \in I : s[i] < s[j]}
<1>4. ASSUME Cardinality(Below) >= k PROVE FALSE
  <2>1. Below # {} /\ IsFiniteSet(Below) /\ Below \subseteq I
    BY <1>1, <1>4, FS_EmptySet
  <2>2. PICK b \in Below : \A i \in Below : s[i] <= s[b]
    BY <2>1, Greatest
  <2>3. Below \subseteq Up(s[b]) /\ Up(s[b]) \in SUBSET I
    BY <2>2
  <2>4. Cardinality(Below) <= Cardinality(Up(s[b]))
    BY <1>1, <2>3, FS_Subset
  <2>5. Cardinality(Up(s[b])) >= k
    BY <1>1, <1>4, <2>1, <2>3, <2>4
  <2> QED BY <1>3, <2>2, <2>5
<1>5. Cardinality(Below) < k
  <2>1. Cardinality(Below) \in Nat
    BY <1>1
  <2> QED BY <1>4, <2>1
<1> QED BY <1>3, <1>5 DEF Values, Under, UpTo

-----------------------------------------------------------------------------
(* The figures of a window.                                                   *)

Compliant == {i \in DOMAIN samples : samples[i] <= Slo}

\* What the open window has collected, and the windows that are closed.
WindowInv ==
  /\ clock \in Nat /\ since \in Int /\ ingested \in Nat
  /\ samples \in Seq(Latency)
  /\ counter \in [good : Nat, total : Nat]
  /\ counter.total <= Len(samples)
  /\ counter.total = Len(samples) => counter.good = Cardinality(Compliant)
  /\ snapshots \in Seq(MetricSnapshot)

FiguresInv == WindowInv /\ FiguresAgree

\* The rank is the least number of samples that is Pct per cent of them.
LEMMA RankIs ==
  ASSUME NEW n \in Nat \ {0}
  PROVE  /\ Rank(n) \in 1..n
         /\ n * Pct <= 100 * Rank(n)
         /\ 100 * (Rank(n) - 1) < n * Pct
<1>1. PICK p \in Nat : p = n * Pct /\ n <= p /\ p <= 100 * n
  <2>1. Pct \in 1..100
    BY CollectorAssumption
  <2>2. n * Pct \in Nat /\ n <= n * Pct /\ n * Pct <= 100 * n
    BY <2>1
  <2> QED BY <2>2
<1>2. PICK q \in Nat : q = (p + 99) \div 100 /\ 100 * q <= p + 99 /\ p + 99 < 100 * q + 100
  BY <1>1
<1>3. Rank(n) = Max({1, q})
  BY <1>1, <1>2 DEF Rank
<1>4. q >= 1 /\ q <= n
  BY <1>1, <1>2
<1>5. Max({1, q}) = q
  BY <1>4 DEF Max
<1> QED BY <1>1, <1>2, <1>3, <1>4, <1>5

LEMMA PercentileIs ==
  ASSUME samples \in Seq(Latency), samples # <<>>
  PROVE  LET I == {i \in DOMAIN samples : i > Len(samples) - Cap} IN
         /\ IsFiniteSet(I) /\ Cardinality(I) \in Nat \ {0}
         /\ Percentile \in Nat
         /\ Cardinality({i \in I : samples[i] < Percentile}) < Rank(Cardinality(I))
         /\ Cardinality({i \in I : samples[i] <= Percentile}) >= Rank(Cardinality(I))
<1> DEFINE I == {i \in DOMAIN samples : i > Len(samples) - Cap}
<1>1. Len(samples) \in Nat \ {0} /\ DOMAIN samples = 1..Len(samples) /\ Cap \in Nat \ {0}
  BY CollectorAssumption
<1>2. IsFiniteSet(I) /\ Len(samples) \in I
  <2>1. IsFiniteSet(1..Len(samples))
    BY <1>1, FS_Interval
  <2>2. I \in SUBSET (1..Len(samples)) /\ Len(samples) \in I
    BY <1>1
  <2> QED BY <2>1, <2>2, FS_Subset
<1>3. Cardinality(I) \in Nat \ {0}
  BY <1>2, FS_CardinalityType, FS_EmptySet
<1>4. \A i \in I : samples[i] \in Nat
  <2>1. \A i \in 1..Len(samples) : samples[i] \in Latency
    OBVIOUS
  <2> QED BY <1>1, <2>1, CollectorAssumption
<1>5. Rank(Cardinality(I)) \in 1..Cardinality(I)
  BY <1>3, RankIs
<1>6. \E v \in Values(samples, I) : /\ Under(samples, I, v) < Rank(Cardinality(I))
                                   /\ UpTo(samples, I, v) >= Rank(Cardinality(I))
  <2>1. I # {}
    BY <1>2
  <2> HIDE DEF I
  <2> QED BY <1>2, <1>4, <1>5, <2>1, OrderStatistic
<1>7. Percentile =
        CHOOSE v \in Values(samples, I) : /\ Under(samples, I, v) < Rank(Cardinality(I))
                                          /\ UpTo(samples, I, v) >= Rank(Cardinality(I))
  BY DEF Percentile, Values, Under, UpTo
<1>8. /\ Percentile \in Values(samples, I)
      /\ Under(samples, I, Percentile) < Rank(Cardinality(I))
      /\ UpTo(samples, I, Percentile) >= Rank(Cardinality(I))
  <2> HIDE DEF I
  <2> QED BY <1>6, <1>7
<1> QED BY <1>2, <1>3, <1>4, <1>8 DEF Values, Under, UpTo

\* The percentile of a window of at most Cap samples, all with an objective, against
\* its compliance.
LEMMA WindowAgrees ==
  ASSUME WindowInv, Len(samples) \in 1..Cap, counter.total = Len(samples)
  PROVE  Percentile <= Slo <=> counter.good * 100 >= Pct * counter.total
<1> DEFINE n == Len(samples)
           r == Rank(n)
           v == Percentile
<1>1. n \in Nat \ {0} /\ DOMAIN samples = 1..n /\ samples # <<>> /\ Cap \in Nat
  BY CollectorAssumption DEF WindowInv
<1>2. DOMAIN samples = {i \in DOMAIN samples : i > Len(samples) - Cap}
  BY <1>1
<1>3. Cardinality(DOMAIN samples) = n /\ IsFiniteSet(DOMAIN samples)
  BY <1>1, FS_Interval
<1>4. /\ v \in Nat
      /\ Cardinality({i \in DOMAIN samples : samples[i] < v}) < r
      /\ Cardinality({i \in DOMAIN samples : samples[i] <= v}) >= r
  <2> HIDE DEF r, n
  <2> QED BY <1>1, <1>2, <1>3, PercentileIs DEF WindowInv, r, n
<1>5. /\ r \in 1..n /\ n * Pct <= 100 * r /\ 100 * (r - 1) < n * Pct
  BY <1>1, RankIs
<1>6. \A i \in DOMAIN samples : samples[i] \in Nat
  <2>1. samples \in Seq(Latency)
    BY DEF WindowInv
  <2>2. \A i \in 1..Len(samples) : samples[i] \in Latency
    BY <2>1
  <2> QED BY <1>1, <2>2, CollectorAssumption
<1>7. PICK g \in Nat : g = counter.good /\ g = Cardinality(Compliant)
  BY DEF WindowInv
<1>8. Pct * counter.total = n * Pct /\ n * Pct \in Nat
  <2>1. Pct \in Nat
    BY CollectorAssumption
  <2> QED BY <1>1, <2>1 DEF WindowInv
<1>9. Slo \in Nat
  BY CollectorAssumption
<1>10. CASE v <= Slo
  <2>1. {i \in DOMAIN samples : samples[i] <= v} \in SUBSET Compliant /\ IsFiniteSet(Compliant)
    BY <1>3, <1>4, <1>6, <1>9, <1>10, FS_Subset DEF Compliant
  <2>2. Cardinality({i \in DOMAIN samples : samples[i] <= v}) <= g
    BY <1>7, <2>1, FS_Subset
  <2>3. Cardinality({i \in DOMAIN samples : samples[i] <= v}) \in Nat
    BY <2>1, FS_Subset, FS_CardinalityType
  <2> HIDE DEF n, r, v
  <2>4. g >= r
    BY <1>4, <1>5, <2>2, <2>3
  <2>5. g * 100 >= n * Pct
    BY <1>5, <1>8, <2>4
  <2> QED BY <1>7, <1>8, <1>10, <2>5 DEF v
<1>11. CASE ~ (v <= Slo)
  <2>1. /\ Compliant \in SUBSET {i \in DOMAIN samples : samples[i] < v}
        /\ IsFiniteSet({i \in DOMAIN samples : samples[i] < v})
    BY <1>3, <1>4, <1>6, <1>9, <1>11, FS_Subset DEF Compliant
  <2>2. g <= Cardinality({i \in DOMAIN samples : samples[i] < v})
    BY <1>7, <2>1, FS_Subset
  <2>3. Cardinality({i \in DOMAIN samples : samples[i] < v}) \in Nat
    BY <2>1, FS_CardinalityType
  <2> HIDE DEF n, r, v
  <2>4. g <= r - 1
    BY <1>4, <1>5, <2>2, <2>3
  <2>5. ~ (g * 100 >= n * Pct)
    BY <1>5, <1>8, <2>4
  <2> QED BY <1>7, <1>8, <1>11, <2>5 DEF v
<1> QED BY <1>10, <1>11

\* A window that has just been opened.
LEMMA EmptyWindow ==
  ASSUME NoWindow
  PROVE  /\ samples' \in Seq(Latency) /\ counter' \in [good : Nat, total : Nat]
         /\ counter.total' <= Len(samples') /\ counter.good' = Cardinality(Compliant')
         /\ ingested' \in Nat
<1>1. Compliant' = {}
  BY DEF NoWindow, Compliant
<1>2. Cardinality(Compliant') = 0
  BY <1>1, FS_EmptySet
<1> QED BY <1>2 DEF NoWindow

LEMMA RecordFigures ==
  ASSUME FiguresInv, NEW ms \in Latency, NEW objective \in BOOLEAN, Record(ms, objective)
  PROVE  FiguresInv'
<1> DEFINE n == Len(samples)
<1>1. /\ samples \in Seq(Latency) /\ n \in Nat /\ samples' = Append(samples, ms)
      /\ samples' \in Seq(Latency) /\ Len(samples') = n + 1
      /\ DOMAIN samples = 1..n /\ DOMAIN samples' = 1..n + 1
      /\ \A i \in 1..n : samples'[i] = samples[i]
      /\ samples'[n + 1] = ms
  BY DEF FiguresInv, WindowInv, Record
<1>2. /\ counter.good \in Nat /\ counter.total \in Nat /\ counter \in [good : Nat, total : Nat]
      /\ counter.total <= n /\ (counter.total = n => counter.good = Cardinality(Compliant))
      /\ objective => counter' = [good  |-> counter.good + (IF ms <= Slo THEN 1 ELSE 0),
                                  total |-> counter.total + 1]
      /\ ~ objective => counter' = counter
  BY DEF FiguresInv, WindowInv, Record
<1>3. Compliant' = Compliant \cup (IF ms <= Slo THEN {n + 1} ELSE {})
  <2> HIDE DEF n
  <2> QED BY <1>1 DEF Compliant
<1>4. IsFiniteSet(Compliant) /\ n + 1 \notin Compliant
  <2>1. IsFiniteSet(1..n) /\ Compliant \in SUBSET (1..n)
    BY <1>1, FS_Interval DEF Compliant
  <2>2. n + 1 \notin 1..n
    BY <1>1
  <2>3. IsFiniteSet(Compliant)
    BY <2>1, FS_Subset
  <2> QED BY <2>1, <2>2, <2>3
<1>5. Cardinality(Compliant') = Cardinality(Compliant) + (IF ms <= Slo THEN 1 ELSE 0)
  <2>1. CASE ms <= Slo
    <3>1. Compliant' = Compliant \cup {n + 1}
      BY <1>3, <2>1
    <3>2. Cardinality(Compliant \cup {n + 1}) = Cardinality(Compliant) + 1
      BY <1>4, FS_AddElement
    <3> QED BY <1>2, <2>1, <3>1, <3>2
  <2>2. CASE ~ (ms <= Slo)
    <3>1. Compliant' = Compliant /\ Cardinality(Compliant) \in Nat
      BY <1>3, <1>4, <2>2, FS_CardinalityType
    <3> QED BY <2>2, <3>1
  <2> QED BY <2>1, <2>2
<1>6. /\ counter' \in [good : Nat, total : Nat] /\ counter.total' <= Len(samples')
      /\ counter.total' = Len(samples') => counter.good' = Cardinality(Compliant')
  <2> HIDE DEF n
  <2>1. CASE objective
    BY <1>1, <1>2, <1>5, <2>1
  <2>2. CASE ~ objective
    BY <1>1, <1>2, <2>2
  <2> QED BY <2>1, <2>2
<1>7. UNCHANGED <<clock, since, snapshots>> /\ ingested' = ingested + 1
  BY DEF Record
<1> QED BY <1>1, <1>6, <1>7 DEF FiguresInv, WindowInv, FiguresAgree

LEMMA BuiltSnapshot ==
  ASSUME FiguresInv
  PROVE  /\ BuildSnapshot \in MetricSnapshot
         /\ BuildSnapshot.sampled \in 1..Cap /\ BuildSnapshot.slo.total = BuildSnapshot.sampled =>
              (BuildSnapshot.p95 <= Slo <=>
                 BuildSnapshot.slo.good * 100 >= Pct * BuildSnapshot.slo.total)
<1>1. samples # <<>> => Percentile \in Nat
  BY PercentileIs DEF FiguresInv, WindowInv
<1>2. Len(samples) \in Nat /\ (samples = <<>> => Len(samples) = 0)
  BY DEF FiguresInv, WindowInv
<1>3. BuildSnapshot \in MetricSnapshot
  BY <1>1, <1>2 DEF BuildSnapshot, MetricSnapshot, FiguresInv, WindowInv, NoFigure
<1>4. ASSUME Len(samples) \in 1..Cap, counter.total = Len(samples)
      PROVE  Percentile <= Slo <=> counter.good * 100 >= Pct * counter.total
  BY <1>4, WindowAgrees DEF FiguresInv
<1>5. /\ BuildSnapshot.sampled = Len(samples) /\ BuildSnapshot.slo = counter
      /\ samples # <<>> => BuildSnapshot.p95 = Percentile
  BY DEF BuildSnapshot
<1> QED BY <1>2, <1>3, <1>4, <1>5

LEMMA LoopFigures ==
  ASSUME FiguresInv, CollectionLoop
  PROVE  FiguresInv'
<1>1. snapshots \in Seq(MetricSnapshot) /\ clock \in Nat
  BY DEF FiguresInv, WindowInv
<1>2. PICK b : b = BuildSnapshot
  OBVIOUS
<1>3. b \in MetricSnapshot /\ (b.sampled \in 1..Cap /\ b.slo.total = b.sampled =>
         (b.p95 <= Slo <=> b.slo.good * 100 >= Pct * b.slo.total))
  BY <1>2, BuiltSnapshot
<1>4. snapshots' = Append(snapshots, b) /\ UNCHANGED clock /\ since' = clock
  BY <1>2 DEF CollectionLoop
<1>5. snapshots' \in Seq(MetricSnapshot)
  BY <1>1, <1>3, <1>4
<1>6. ASSUME NEW i \in DOMAIN snapshots' PROVE snapshots'[i] = b \/ (i \in DOMAIN snapshots /\ snapshots'[i] = snapshots[i])
  BY <1>1, <1>4
<1>7. FiguresAgree'
  BY <1>3, <1>6 DEF FiguresInv, FiguresAgree
<1>8. NoWindow
  BY DEF CollectionLoop
<1> QED BY <1>1, <1>4, <1>5, <1>7, <1>8, EmptyWindow DEF FiguresInv, WindowInv

LEMMA FreshFigures ==
  ASSUME NoWindow, clock' = 0, since' = 0, snapshots' = <<>>
  PROVE  FiguresInv'
BY EmptyWindow DEF FiguresInv, WindowInv, FiguresAgree

LEMMA SameFigures ==
  ASSUME FiguresInv, UNCHANGED <<window, snapshots>>, clock' \in Nat
  PROVE  FiguresInv'
BY DEF FiguresInv, WindowInv, FiguresAgree, window, Compliant

LEMMA FiguresStep == FiguresInv /\ [Next]_vars => FiguresInv'
<1> SUFFICES ASSUME FiguresInv, [Next]_vars PROVE FiguresInv'
  OBVIOUS
<1>0. clock \in Nat
  BY DEF FiguresInv, WindowInv
<1>1. CASE ApplyNetworkProfile
  BY <1>0, <1>1, SameFigures DEF ApplyNetworkProfile, collectorVars
<1>2. CASE StartRun
  BY <1>2, FreshFigures DEF StartRun, Start
<1>3. CASE EndRun
  BY <1>0, <1>3, SameFigures DEF EndRun, Stop
<1>4. CASE Restart
  BY <1>4, FreshFigures DEF Restart
<1>5. CASE Measure
  <2>1. CASE Tick(End)
    BY <1>0, <2>1, SameFigures DEF Tick
  <2>2. CASE CollectionLoop
    BY <2>2, LoopFigures
  <2>3. CASE \E ms \in Latency, objective \in BOOLEAN : Record(ms, objective)
    BY <2>3, RecordFigures
  <2> QED BY <1>5, <2>1, <2>2, <2>3 DEF Measure
<1>6. CASE UNCHANGED vars
  BY <1>0, <1>6, SameFigures DEF vars, collectorVars
<1>7. CASE GeneratorFails
  BY <1>0, <1>7, SameFigures DEF GeneratorFails, collectorVars
<1> QED BY <1>1, <1>2, <1>3, <1>4, <1>5, <1>6, <1>7 DEF Next

\* The two figures that _build_snapshot reports of a window, the percentile of its
\* latencies and their compliance with the objective, never contradict each other,
\* for every percentile, objective and window of at most Cap samples
\* that all came with the objective, in whatever order runs, failures and restarts come.
THEOREM FiguresNeverDisagree == Spec => []FiguresAgree
<1>1. Init => FiguresInv
  <2> SUFFICES ASSUME Init PROVE FiguresInv
    OBVIOUS
  <2>1. Compliant = {}
    BY DEF Init, CollectorInit, Compliant
  <2>2. Cardinality(Compliant) = 0
    BY <2>1, FS_EmptySet
  <2> QED BY <2>2 DEF Init, CollectorInit, FiguresInv, WindowInv, FiguresAgree
<1>2. FiguresInv => FiguresAgree
  BY DEF FiguresInv
<1> QED BY <1>1, <1>2, FiguresStep, PTL DEF Spec

-----------------------------------------------------------------------------
(* The order of the configurations.                                           *)

Size == Cardinality(Matrix)
Increasing(s) == \A i, j \in DOMAIN s : i < j => Before(s[i], s[j])

LEMMA BeforeIsOrder ==
  ASSUME NEW c \in Matrix, NEW d \in Matrix, NEW e \in Matrix
  PROVE  /\ ~ Before(c, c)
         /\ Before(c, d) /\ Before(d, e) => Before(c, e)
         /\ c = d \/ Before(c, d) \/ Before(d, c)
<1>1. \A m \in Matrix : /\ m.workload \in Nat /\ m.system \in Nat /\ m.network \in Nat
                        /\ m = [workload |-> m.workload, system |-> m.system, network |-> m.network]
  <2> SUFFICES ASSUME NEW m \in Matrix
               PROVE  /\ m.workload \in Nat /\ m.system \in Nat /\ m.network \in Nat
                      /\ m = [workload |-> m.workload, system |-> m.system, network |-> m.network]
    OBVIOUS
  <2>1. m.workload \in Workload /\ m.system \in System /\ m.network \in Network
    BY DEF Matrix
  <2>2. m = [workload |-> m.workload, system |-> m.system, network |-> m.network]
    BY DEF Matrix
  <2> QED BY <2>1, <2>2, RunnerAssumption
<1>2. ~ Before(c, c)
  BY <1>1 DEF Before
<1>3. Before(c, d) /\ Before(d, e) => Before(c, e)
  BY <1>1 DEF Before
<1>4. c = d \/ Before(c, d) \/ Before(d, c)
  <2>1. CASE c.network = d.network /\ c.workload = d.workload /\ c.system = d.system
    BY <1>1, <2>1
  <2>2. CASE ~ (c.network = d.network /\ c.workload = d.workload /\ c.system = d.system)
    BY <1>1, <2>2 DEF Before
  <2> QED BY <2>1, <2>2
<1> QED BY <1>2, <1>3, <1>4

LEMMA MatrixIsFinite == IsFiniteSet(Matrix) /\ Size \in Nat \ {0}
<1> DEFINE D == (Workload \X System) \X Network
           f == [p \in D |-> [workload |-> p[1][1], system |-> p[1][2], network |-> p[2]]]
<1>1. IsFiniteSet(D)
  BY RunnerAssumption, FS_Product
<1>2. f \in Surjection(D, Matrix)
  <2>1. f \in [D -> Matrix]
    BY DEF Matrix
  <2>2. ASSUME NEW m \in Matrix PROVE \E p \in D : f[p] = m
    <3>1. <<<<m.workload, m.system>>, m.network>> \in D
      BY DEF Matrix
    <3>2. f[<<<<m.workload, m.system>>, m.network>>] = m
      BY <3>1 DEF Matrix
    <3> QED BY <3>1, <3>2
  <2> QED BY <2>1, <2>2 DEF Surjection
<1>3. IsFiniteSet(Matrix)
  <2> HIDE DEF D, f
  <2> QED BY <1>1, <1>2, FS_Surjection
<1>4. PICK w \in Workload, y \in System, n \in Network : TRUE
  BY RunnerAssumption
<1>5. [workload |-> w, system |-> y, network |-> n] \in Matrix
  BY DEF Matrix
<1> QED BY <1>3, <1>5, FS_CardinalityType, FS_EmptySet DEF Size

\* Among some configurations one comes first: of the least network, there of the
\* least workload, and there of the least system.
LEMMA FirstConfig ==
  ASSUME NEW S \in SUBSET Matrix, S # {}
  PROVE  \E c \in S : \A d \in S : c = d \/ Before(c, d)
<1>1. \A m \in S : m.workload \in Nat /\ m.system \in Nat /\ m.network \in Nat
  BY RunnerAssumption DEF Matrix
<1> DEFINE N == {m.network : m \in S}
<1>2. PICK n \in N : \A k \in N : n <= k
  <2>1. N \in SUBSET Nat /\ N # {}
    BY <1>1
  <2> HIDE DEF N
  <2> QED BY <2>1, Least
<1> DEFINE W == {m.workload : m \in {x \in S : x.network = n}}
<1>3. PICK w \in W : \A k \in W : w <= k
  <2>1. W \in SUBSET Nat /\ W # {}
    BY <1>1, <1>2
  <2> HIDE DEF W
  <2> QED BY <2>1, Least
<1> DEFINE Y == {m.system : m \in {x \in S : x.network = n /\ x.workload = w}}
<1>4. PICK y \in Y : \A k \in Y : y <= k
  <2>1. Y \in SUBSET Nat /\ Y # {}
    BY <1>1, <1>3
  <2> HIDE DEF Y
  <2> QED BY <2>1, Least
<1>5. PICK c \in S : c.network = n /\ c.workload = w /\ c.system = y
  BY <1>4
<1>6. ASSUME NEW d \in S, c # d, ~ Before(c, d) PROVE FALSE
  <2>1. Before(d, c)
    BY <1>6, BeforeIsOrder
  <2>2. n <= d.network /\ (d.network = n => w <= d.workload)
        /\ (d.network = n /\ d.workload = w => y <= d.system)
    BY <1>2, <1>3, <1>4
  <2> HIDE DEF N, W, Y
  <2>3. d.network \in Nat /\ d.workload \in Nat /\ d.system \in Nat
        /\ n \in Nat /\ w \in Nat /\ y \in Nat
    BY <1>1, <1>5
  <2> QED BY <1>5, <2>1, <2>2, <2>3 DEF Before
<1> QED BY <1>6

\* The first n configurations in their order.
Prefix(s, n) ==
  /\ s \in [1..n -> Matrix] /\ Increasing(s)
  /\ \A c \in Matrix : (\E i \in 1..n : s[i] = c) \/ (\A i \in 1..n : Before(s[i], c))

LEMMA LongerPrefix ==
  ASSUME NEW n \in Nat, n < Size, NEW s, Prefix(s, n)
  PROVE  \E t : Prefix(t, n + 1)
<1> DEFINE R == {s[i] : i \in 1..n}
<1>1. R # Matrix
  <2>1. s \in Surjection(1..n, R)
    BY DEF Prefix, Surjection
  <2>2. IsFiniteSet(1..n) /\ Cardinality(1..n) = n
    BY FS_Interval
  <2> HIDE DEF R
  <2>3. IsFiniteSet(R) /\ Cardinality(R) <= n
    BY <2>1, <2>2, FS_Surjection
  <2>4. Cardinality(R) \in Nat
    BY <2>3, FS_CardinalityType
  <2> QED BY <2>3, <2>4, MatrixIsFinite DEF Size
<1>2. R \subseteq Matrix
  BY DEF Prefix
<1>3. PICK c \in Matrix \ R : \A d \in Matrix \ R : c = d \/ Before(c, d)
  <2> HIDE DEF R
  <2> QED BY <1>1, <1>2, FirstConfig
<1> DEFINE t == [i \in 1..n + 1 |-> IF i <= n THEN s[i] ELSE c]
<1>4. t \in [1..n + 1 -> Matrix] /\ t[n + 1] = c /\ \A i \in 1..n : t[i] = s[i] /\ s[i] \in Matrix
  BY DEF Prefix
<1>5. \A i \in 1..n : Before(s[i], c)
  BY <1>3 DEF Prefix
<1>6. Increasing(t)
  <2> SUFFICES ASSUME NEW i \in 1..n + 1, NEW j \in 1..n + 1, i < j
               PROVE  Before(t[i], t[j])
    BY DEF Increasing
  <2>1. CASE j = n + 1
    <3>1. i \in 1..n
      BY <2>1
    <3> HIDE DEF t
    <3> QED BY <1>4, <1>5, <2>1, <3>1
  <2>2. CASE j # n + 1
    <3>1. i \in 1..n /\ j \in 1..n
      BY <2>2
    <3>2. Before(s[i], s[j])
      BY <3>1 DEF Prefix, Increasing
    <3> HIDE DEF t
    <3> QED BY <1>4, <3>1, <3>2
  <2> QED BY <2>1, <2>2
<1>7. ASSUME NEW d \in Matrix
      PROVE  (\E i \in 1..n + 1 : t[i] = d) \/ (\A i \in 1..n + 1 : Before(t[i], d))
  <2> HIDE DEF t
  <2>1. \A i \in 1..n + 1 : i = n + 1 \/ i \in 1..n
    OBVIOUS
  <2>2. CASE d \in R
    BY <1>4, <2>2
  <2>3. CASE d \notin R
    <3>1. c = d \/ Before(c, d)
      BY <1>3, <2>3
    <3>2. \A i \in 1..n : Before(s[i], d)
      BY <2>3 DEF Prefix
    <3>3. n + 1 \in 1..n + 1
      OBVIOUS
    <3> HIDE DEF R
    <3> QED BY <1>4, <2>1, <3>1, <3>2, <3>3
  <2> QED BY <2>2, <2>3
<1> HIDE DEF t
<1> QED BY <1>4, <1>6, <1>7 DEF Prefix

LEMMA Prefixes == \A n \in 0..Size : \E s : Prefix(s, n)
<1> DEFINE Bad == {n \in 0..Size : ~ \E s : Prefix(s, n)}
<1>1. Size \in Nat
  BY MatrixIsFinite
<1>2. 0 \notin Bad
  <2>1. Prefix(<<>>, 0)
    BY DEF Prefix, Increasing
  <2> QED BY <2>1
<1>3. ASSUME Bad # {} PROVE FALSE
  <2>1. PICK n \in Bad : \A m \in Bad : n <= m
    <3>1. Bad \in SUBSET Nat
      BY <1>1
    <3> HIDE DEF Bad
    <3> QED BY <1>3, <3>1, Least
  <2>2. n \in Nat \ {0} /\ n - 1 \in 0..Size /\ n - 1 \notin Bad /\ n - 1 < Size
    <3>1. n \in 0..Size
      OBVIOUS
    <3> HIDE DEF Bad
    <3> QED BY <1>1, <1>2, <2>1, <3>1
  <2>3. PICK s : Prefix(s, n - 1)
    BY <2>2
  <2>4. \E t : Prefix(t, (n - 1) + 1)
    BY <2>2, <2>3, LongerPrefix
  <2>5. (n - 1) + 1 = n
    BY <2>2
  <2> QED BY <2>4, <2>5
<1> QED BY <1>3

\* run_all meets every configuration once, in the order of its key.
LEMMA SortedIs ==
  /\ SortedConfigs \in [1..Size -> Matrix] /\ Increasing(SortedConfigs)
  /\ \A c \in Matrix : \E i \in 1..Size : SortedConfigs[i] = c
<1>1. Size \in Nat /\ Size \in 0..Size
  BY MatrixIsFinite
<1>2. \E s \in [1..Size -> Matrix] : Increasing(s)
  BY <1>1, Prefixes DEF Prefix
<1>3. SortedConfigs = CHOOSE s \in [1..Size -> Matrix] : Increasing(s)
  BY DEF SortedConfigs, Increasing, Size
<1>4. SortedConfigs \in [1..Size -> Matrix] /\ Increasing(SortedConfigs)
  BY <1>2, <1>3
<1>5. \A i, j \in 1..Size : SortedConfigs[i] = SortedConfigs[j] => i = j
  <2> SUFFICES ASSUME NEW i \in 1..Size, NEW j \in 1..Size, SortedConfigs[i] = SortedConfigs[j]
               PROVE  i = j
    OBVIOUS
  <2>1. ~ Before(SortedConfigs[i], SortedConfigs[j]) /\ ~ Before(SortedConfigs[j], SortedConfigs[i])
    BY <1>4, BeforeIsOrder
  <2> QED BY <1>1, <1>4, <2>1 DEF Increasing
<1>6. SortedConfigs \in Injection(1..Size, Matrix)
  BY <1>4, <1>5 DEF Injection, IsInjective
<1>7. Cardinality(1..Size) = Size /\ IsFiniteSet(Matrix)
  BY <1>1, FS_Interval, MatrixIsFinite
<1>8. SortedConfigs \in Surjection(1..Size, Matrix)
  BY <1>6, <1>7, FS_Injection DEF Size
<1> QED BY <1>4, <1>8 DEF Surjection

-----------------------------------------------------------------------------
(* The results directory.                                                     *)

\* While a run is measured the collection loop is alive, and it is due at most one
\* interval after its last snapshot.
Alive ==
  /\ wake \in Nat /\ clock <= wake + Lag
  /\ wake = 0 \/ \E i \in DOMAIN snapshots : snapshots[i].at + Interval = wake

\* The profile that run_all believes in is on the interface, and that of the
\* configuration while it is measured.
Applied ==
  /\ step \in {"next", "measuring"} /\ current # NoProfile => net = current
  /\ step = "measuring" => SortedConfigs[config].network = current

CampaignInv ==
  /\ WindowInv
  /\ config \in 1..Size /\ rep \in 1..Reps
  /\ step = "measuring" => Alive
  /\ Applied
  /\ files \in [Item -> Network \cup {Absent, Damaged, Synthetic}]
  /\ \A i \in Item : files[i] \in {Absent, Damaged, Synthetic, i[1].network}
  /\ ResultsInOrder

LEMMA NetworkIs ==
  ASSUME NEW c \in Matrix
  PROVE  c.network \in Network /\ c.network \in Nat \ {0} /\ c.network \notin {Absent, Damaged, Synthetic, NoProfile}
<1>1. c.network \in Network
  BY DEF Matrix
<1>2. c.network \in Nat /\ c.network # 0
  BY <1>1, RunnerAssumption
<1>3. Absent = -1 /\ Damaged = -2 /\ Synthetic = -3 /\ NoProfile = 0
  BY DEF Absent, Damaged, Synthetic, NoProfile
<1>4. c.network # -1 /\ c.network # -2 /\ c.network # -3
  BY <1>2
<1> QED BY <1>1, <1>2, <1>3, <1>4

LEMMA HereIs ==
  ASSUME config \in 1..Size, rep \in 1..Reps
  PROVE  SortedConfigs[config] \in Matrix /\ Here \in Item
BY SortedIs DEF Here, Item

\* What stands before a configuration in the list comes before it by its key.
LEMMA EarlierPlace ==
  ASSUME NEW k \in 1..Size, NEW j \in 1..Size, Before(SortedConfigs[k], SortedConfigs[j])
  PROVE  k < j
<1>1. Size \in Nat /\ SortedConfigs[k] \in Matrix /\ SortedConfigs[j] \in Matrix
  BY SortedIs, MatrixIsFinite
<1>2. ASSUME j < k PROVE FALSE
  <2>1. Before(SortedConfigs[j], SortedConfigs[k])
    BY <1>2, SortedIs DEF Increasing
  <2>2. Before(SortedConfigs[k], SortedConfigs[k])
    BY <1>1, <2>1, BeforeIsOrder
  <2> QED BY <1>1, <2>2, BeforeIsOrder
<1>3. k # j
  BY <1>1, BeforeIsOrder
<1> QED BY <1>1, <1>2, <1>3

\* The first item has none before it.
LEMMA FirstItem ==
  ASSUME NEW i \in Item
  PROVE  ~ EarlierItem(i, <<SortedConfigs[1], 1>>)
<1>1. i[1] \in Matrix /\ i[2] \in Nat /\ i[2] >= 1
  BY RunnerAssumption DEF Item
<1>2. PICK k \in 1..Size : SortedConfigs[k] = i[1]
  BY <1>1, SortedIs
<1>3. ~ Before(i[1], SortedConfigs[1])
  <2>1. 1 \in 1..Size /\ Size \in Nat
    BY MatrixIsFinite
  <2> QED BY <1>2, <2>1, EarlierPlace
<1> QED BY <1>1, <1>3 DEF EarlierItem

\* Going on to the next item passes the present one and no other.
LEMMA NextItem ==
  ASSUME config \in 1..Size, rep \in 1..Reps, Advance, NEW i \in Item,
         EarlierItem(i, Here') \/ step' = "complete"
  PROVE  i = Here \/ EarlierItem(i, Here)
<1>1. i[1] \in Matrix /\ i[2] \in 1..Reps /\ i = <<i[1], i[2]>> /\ Reps \in Nat /\ Size \in Nat
  BY RunnerAssumption, MatrixIsFinite DEF Item
<1>2. PICK k \in 1..Size : SortedConfigs[k] = i[1]
  BY <1>1, SortedIs
<1>3. SortedConfigs[config] \in Matrix
  BY HereIs
<1>4. k < config => EarlierItem(i, Here)
  BY <1>2, SortedIs DEF EarlierItem, Here, Increasing
<1>5. ASSUME k = config, i[2] <= rep PROVE i = Here \/ EarlierItem(i, Here)
  BY <1>1, <1>2, <1>5 DEF EarlierItem, Here
<1>6. CASE rep < Reps
  <2>1. rep' = rep + 1 /\ config' = config /\ step' = "next"
    BY <1>1, <1>6 DEF Advance
  <2>2. Here' = <<SortedConfigs[config], rep + 1>>
    BY <2>1 DEF Here
  <2>3. Before(i[1], SortedConfigs[config]) \/ (i[1] = SortedConfigs[config] /\ i[2] < rep + 1)
    BY <2>1, <2>2 DEF EarlierItem
  <2>4. CASE Before(i[1], SortedConfigs[config])
    BY <2>4 DEF EarlierItem, Here
  <2>5. CASE i[1] = SortedConfigs[config] /\ i[2] < rep + 1
    BY <1>1, <2>5 DEF EarlierItem, Here
  <2> QED BY <2>3, <2>4, <2>5
<1>7. CASE rep = Reps /\ config # Size
  <2>1. rep' = 1 /\ config' = config + 1 /\ step' = "next" /\ config + 1 \in 1..Size
    BY <1>1, <1>7 DEF Advance, Size
  <2>2. Here' = <<SortedConfigs[config + 1], 1>>
    BY <2>1 DEF Here
  <2>3. Before(i[1], SortedConfigs[config + 1])
    BY <1>1, <2>1, <2>2 DEF EarlierItem
  <2>4. k < config + 1
    BY <1>2, <2>1, <2>3, EarlierPlace
  <2> QED BY <1>1, <1>4, <1>5, <1>7, <2>4
<1>8. CASE rep = Reps /\ config = Size
  BY <1>1, <1>4, <1>5, <1>8
<1> QED BY <1>1, <1>6, <1>7, <1>8
LEMMA CampaignInit == Init => FiguresInv /\ CampaignInv
<1> SUFFICES ASSUME Init PROVE FiguresInv /\ CampaignInv
  OBVIOUS
<1>1. Compliant = {}
  BY DEF Init, CollectorInit, Compliant
<1>2. Cardinality(Compliant) = 0
  BY <1>1, FS_EmptySet
<1>3. FiguresInv
  BY <1>2 DEF Init, CollectorInit, FiguresInv, WindowInv, FiguresAgree
<1>4. config \in 1..Size /\ rep \in 1..Reps
  BY MatrixIsFinite, RunnerAssumption DEF Init
<1>5. Here = <<SortedConfigs[1], 1>> /\ step = "next" /\ current = NoProfile
      /\ \E shipped \in {Absent, Synthetic} : files = [i \in Item |-> shipped]
  BY DEF Init, Here
<1>6. ResultsInOrder
  BY <1>5, FirstItem DEF ResultsInOrder, Untouched
<1> QED BY <1>3, <1>4, <1>5, <1>6 DEF CampaignInv, FiguresInv, Applied

\* A step that leaves the directory and the place in the campaign as they are keeps
\* the order, unless it declares the campaign complete.
LEMMA SameOrder ==
  ASSUME ResultsInOrder, UNCHANGED <<files, config, rep>>, step' # "complete"
  PROVE  ResultsInOrder'
BY DEF ResultsInOrder, Here, Sound, Untouched

\* An application that does not raise has its effect.
LEMMA ApplicationIs ==
  ASSUME NEW wanted, NEW after \in Applications(wanted)
  PROVE  /\ after.raised \in BOOLEAN /\ after.net \in {wanted, net, NoProfile}
         /\ ~ after.raised => after.net = wanted
<1>1. PICK c \in RunCmd(net, NoProfile, TRUE) : after \in RunCmd(c.net, wanted, FALSE)
  BY DEF Applications
<1>2. c.net \in {net, NoProfile}
  BY DEF RunCmd
<1>3. \/ after = [net |-> wanted, raised |-> FALSE]
      \/ after = [net |-> c.net, raised |-> TRUE]
  BY <1>1 DEF RunCmd
<1>4. CASE after = [net |-> wanted, raised |-> FALSE]
  <2>1. after.net = wanted /\ after.raised = FALSE
    BY <1>4
  <2> QED BY <2>1
<1>5. CASE after = [net |-> c.net, raised |-> TRUE]
  <2>1. after.net = c.net /\ after.raised = TRUE
    BY <1>5
  <2> QED BY <1>2, <2>1
<1> QED BY <1>3, <1>4, <1>5

LEMMA ApplyKeeps ==
  ASSUME CampaignInv, ApplyNetworkProfile, WindowInv'
  PROVE  CampaignInv'
<1>1. step' \in {"next", "failed"} /\ UNCHANGED <<config, rep, files>>
      /\ (step' = "next" => net' = current')
  BY ApplicationIs DEF ApplyNetworkProfile
<1>2. ResultsInOrder'
  BY <1>1, SameOrder DEF CampaignInv
<1> QED BY <1>1, <1>2 DEF CampaignInv, Applied

LEMMA StartRunKeeps ==
  ASSUME CampaignInv, StartRun, WindowInv'
  PROVE  CampaignInv'
<1>1. step = "next" /\ step' = "measuring" /\ UNCHANGED <<config, rep, files, net, current>>
      /\ SortedConfigs[config].network = current
  BY DEF StartRun
<1>2. ResultsInOrder'
  BY <1>1, SameOrder DEF CampaignInv
<1>3. Alive'
  BY CollectorAssumption DEF StartRun, Start, Alive
<1> QED BY <1>1, <1>2, <1>3 DEF CampaignInv, Applied

LEMMA MeasureKeeps ==
  ASSUME CampaignInv, Measure, WindowInv'
  PROVE  CampaignInv'
<1>1. step = "measuring" /\ UNCHANGED <<step, config, rep, files, net, current>>
  BY DEF Measure, runnerVars
<1>2. ResultsInOrder'
  BY <1>1, SameOrder DEF CampaignInv
<1>3. /\ Alive /\ clock \in Nat /\ wake \in Nat /\ snapshots \in Seq(MetricSnapshot)
      /\ Lag \in Nat /\ Interval \in Nat
  BY <1>1, CollectorAssumption DEF CampaignInv, WindowInv, Alive
<1>4. Alive'
  <2>1. CASE Tick(End)
    <3>1. clock < wake + Lag /\ clock' = clock + 1 /\ wake' = wake /\ snapshots' = snapshots
      BY <2>1 DEF Tick
    <3>2. clock' <= wake' + Lag
      BY <1>3, <3>1
    <3> QED BY <1>3, <3>1, <3>2 DEF Alive
  <2>2. CASE CollectionLoop
    <3>1. PICK b : b = BuildSnapshot
      OBVIOUS
    <3>2. /\ snapshots' = Append(snapshots, b) /\ b.at = clock
          /\ wake' = clock + Interval /\ clock' = clock
      BY <2>2, <3>1 DEF CollectionLoop, BuildSnapshot
    <3>3. Len(snapshots) + 1 \in DOMAIN snapshots' /\ snapshots'[Len(snapshots) + 1] = b
      BY <1>3, <3>2
    <3>4. wake' \in Nat /\ clock' <= wake' + Lag
      BY <1>3, <3>2
    <3> QED BY <3>2, <3>3, <3>4 DEF Alive
  <2>3. CASE \E ms \in Latency, objective \in BOOLEAN : Record(ms, objective)
    BY <1>3, <2>3 DEF Record, Alive
  <2> QED BY <2>1, <2>2, <2>3 DEF Measure
<1> QED BY <1>1, <1>2, <1>4 DEF CampaignInv, Applied

\* A run that reaches its end has a snapshot of its time after the warm-up: the loop
\* was due later than one interval after it (duration_s > interval and lag).
LEMMA SomeSnapshot ==
  ASSUME CampaignInv, step = "measuring", clock >= End
  PROVE  GetSnapshots # {}
<1>1. /\ clock \in Nat /\ wake \in Nat /\ clock <= wake + Lag /\ snapshots \in Seq(MetricSnapshot)
      /\ wake = 0 \/ \E i \in DOMAIN snapshots : snapshots[i].at + Interval = wake
  BY DEF CampaignInv, WindowInv, Alive
<1>2. /\ Interval \in Nat /\ Lag \in Nat /\ Warmup \in Nat /\ Duration \in Nat
      /\ Duration > Interval + Lag /\ clock >= Warmup + Duration
  BY CollectorAssumption, RunnerAssumption DEF End
<1>3. wake > Warmup + Interval
  BY <1>1, <1>2
<1>4. PICK i \in DOMAIN snapshots : snapshots[i].at + Interval = wake
  BY <1>1, <1>2, <1>3
<1>5. snapshots[i].at \in Nat
  <2>1. snapshots[i] \in MetricSnapshot
    BY <1>1
  <2> QED BY <2>1 DEF MetricSnapshot
<1>6. snapshots[i].at >= Warmup
  BY <1>1, <1>2, <1>3, <1>4, <1>5
<1> QED BY <1>6 DEF GetSnapshots

LEMMA EndRunKeeps ==
  ASSUME CampaignInv, EndRun, WindowInv'
  PROVE  CampaignInv'
<1>1. /\ step = "measuring" /\ clock >= End /\ UNCHANGED <<current, net>>
      /\ step' # "measuring"
  BY DEF EndRun, Advance
<1>2. /\ SortedConfigs[config] \in Matrix /\ Here \in Item
      /\ Here[1] = SortedConfigs[config]
  BY HereIs DEF CampaignInv, Here
<1>3. net = Here[1].network /\ net \notin {Absent, Damaged, Synthetic, NoProfile}
  <2>1. current = Here[1].network /\ current \notin {Absent, Damaged, Synthetic, NoProfile}
    BY <1>1, <1>2, NetworkIs DEF CampaignInv, Applied
  <2> QED BY <1>1, <2>1 DEF CampaignInv, Applied
<1>4. /\ files \in [Item -> Network \cup {Absent, Damaged, Synthetic}]
      /\ \A i \in Item : files[i] \in {Absent, Damaged, Synthetic, i[1].network}
  BY DEF CampaignInv
<1>5. PICK v \in {files[Here], Damaged, net} : files' = [files EXCEPT ![Here] = v]
  <2>1. \/ files' = files
        \/ files' = [files EXCEPT ![Here] = Damaged]
        \/ files' = [files EXCEPT ![Here] = net]
    BY DEF EndRun, Saved
  <2>2. CASE files' = files
    <3>1. files = [files EXCEPT ![Here] = files[Here]]
      BY <1>2, <1>4
    <3> QED BY <2>2, <3>1
  <2> QED BY <2>1, <2>2
<1>6. /\ files' \in [Item -> Network \cup {Absent, Damaged, Synthetic}] /\ files'[Here] = v
      /\ \A i \in Item : i # Here => files'[i] = files[i]
  <2>1. v \in Network \cup {Absent, Damaged, Synthetic}
    BY <1>2, <1>3, <1>4, <1>5, NetworkIs
  <2> QED BY <1>2, <1>4, <1>5, <2>1
<1>7. \A i \in Item : files'[i] \in {Absent, Damaged, Synthetic, i[1].network}
  BY <1>2, <1>3, <1>4, <1>5, <1>6
<1>8. ASSUME NEW i \in Item, NEW j \in Item, EarlierItem(i, j), Untouched(i)'
      PROVE  Untouched(j)'
  <2>1. Untouched(i)
    BY <1>2, <1>3, <1>5, <1>6, <1>8 DEF Untouched, Absent, Damaged, Synthetic
  <2>2. Untouched(j)
    BY <1>8, <2>1 DEF CampaignInv, ResultsInOrder
  <2>3. j # Here
    BY <1>8, <2>1 DEF CampaignInv, ResultsInOrder, Sound, Untouched
  <2> QED BY <1>6, <2>2, <2>3 DEF Untouched
<1>9. CASE UNCHANGED <<config, rep>> /\ step' = "failed"
  <2>1. Here' = Here
    BY <1>9 DEF Here
  <2>2. ASSUME NEW i \in Item, EarlierItem(i, Here) PROVE files'[i] \notin {Absent, Damaged, Synthetic}
    <3>1. Sound(i)
      BY <2>2 DEF CampaignInv, ResultsInOrder
    <3>2. i # Here
      <4>1. i = Here => FALSE
        <5>1. ASSUME EarlierItem(Here, Here) PROVE FALSE
          <6>1. ~ Before(Here[1], Here[1]) /\ Here[2] \in Nat
            BY <1>2, BeforeIsOrder, RunnerAssumption DEF Item
          <6> QED BY <5>1, <6>1 DEF EarlierItem
        <5> QED BY <2>2, <5>1
      <4> QED BY <4>1
    <3> QED BY <1>6, <3>1, <3>2 DEF Sound
  <2>3. ResultsInOrder'
    BY <1>8, <1>9, <2>1, <2>2 DEF ResultsInOrder, Sound
  <2> QED BY <1>1, <1>6, <1>7, <1>9, <2>3 DEF CampaignInv, Applied
<1>10. CASE files' = Saved(GetSnapshots) /\ Advance
  <2>1. v = net /\ v \notin {Absent, Damaged, Synthetic}
    <3>1. files' = [files EXCEPT ![Here] = net]
      BY <1>1, <1>10, SomeSnapshot DEF Saved
    <3> QED BY <1>2, <1>3, <1>4, <1>6, <3>1
  <2>2. config' \in 1..Size /\ rep' \in 1..Reps
    <3>1. config \in 1..Size /\ rep \in 1..Reps /\ Size \in Nat /\ Reps \in Nat \ {0}
      BY MatrixIsFinite, RunnerAssumption DEF CampaignInv
    <3> QED BY <1>10, <3>1 DEF Advance, Size
  <2>3. ASSUME NEW i \in Item, EarlierItem(i, Here') \/ step' = "complete"
        PROVE  files'[i] \notin {Absent, Damaged, Synthetic}
    <3>1. i = Here \/ EarlierItem(i, Here)
      BY <1>10, <2>3, NextItem DEF CampaignInv
    <3>2. CASE i = Here
      BY <1>6, <2>1, <3>2
    <3>3. CASE i # Here
      BY <1>6, <3>1, <3>3 DEF CampaignInv, ResultsInOrder, Sound
    <3> QED BY <3>2, <3>3
  <2>4. ResultsInOrder'
    BY <1>8, <2>3 DEF ResultsInOrder, Sound
  <2>5. step' \in {"next", "complete"} /\ net' = current'
    BY <1>1, <1>2, <1>3, <1>10 DEF Advance, CampaignInv, Applied
  <2> QED BY <1>6, <1>7, <2>2, <2>4, <2>5 DEF CampaignInv, Applied
<1> QED BY <1>9, <1>10 DEF EndRun

LEMMA RestartKeeps ==
  ASSUME CampaignInv, Restart, WindowInv'
  PROVE  CampaignInv'
<1>1. /\ step' = "next" /\ config' = 1 /\ rep' = 1 /\ current' = NoProfile /\ files' = files
      /\ Here' = <<SortedConfigs[1], 1>>
  BY DEF Restart, Here
<1>2. ResultsInOrder'
  BY <1>1, FirstItem DEF CampaignInv, ResultsInOrder, Sound, Untouched
<1>3. 1 \in 1..Size /\ 1 \in 1..Reps
  BY MatrixIsFinite, RunnerAssumption
<1> QED BY <1>1, <1>2, <1>3 DEF CampaignInv, Applied

LEMMA GeneratorKeeps ==
  ASSUME CampaignInv, GeneratorFails, WindowInv'
  PROVE  CampaignInv'
<1>1. UNCHANGED <<step, config, rep, current, net, files, clock, wake, snapshots>>
  BY DEF GeneratorFails, collectorVars
<1> QED BY <1>1 DEF CampaignInv, Applied, Alive, ResultsInOrder, Here, Sound, Untouched

LEMMA CampaignStep == FiguresInv /\ CampaignInv /\ [Next]_vars => CampaignInv'
<1> SUFFICES ASSUME FiguresInv, CampaignInv, [Next]_vars PROVE CampaignInv'
  OBVIOUS
<1>1. WindowInv'
  BY FiguresStep DEF FiguresInv
<1>2. CASE UNCHANGED vars
  <2>1. UNCHANGED <<step, config, rep, current, net, files, clock, wake, snapshots>>
    BY <1>2 DEF vars, collectorVars, runnerVars
  <2> QED BY <1>1, <2>1 DEF CampaignInv, Applied, Alive, ResultsInOrder, Here, Sound, Untouched
<1> QED BY <1>1, <1>2, ApplyKeeps, StartRunKeeps, GeneratorKeeps, MeasureKeeps, EndRunKeeps,
           RestartKeeps DEF Next

LEMMA TypeStep == FiguresInv /\ CampaignInv /\ TypeOK /\ [Next]_vars => TypeOK'
<1> SUFFICES ASSUME FiguresInv, CampaignInv, TypeOK, [Next]_vars PROVE TypeOK'
  OBVIOUS
<1>1. FiguresInv' /\ CampaignInv'
  BY FiguresStep, CampaignStep
<1>2. config' \in 1..Cardinality(Matrix) /\ rep' \in 1..Reps
      /\ files' \in [Item -> Network \cup {Absent, Damaged, Synthetic}]
  BY <1>1 DEF CampaignInv, Size
<1>3. /\ clock' \in Nat /\ samples' \in Seq(Latency) /\ counter' \in [good : Nat, total : Nat]
      /\ ingested' \in Nat /\ snapshots' \in Seq(MetricSnapshot)
  BY <1>1 DEF FiguresInv, WindowInv
<1>4. /\ clock \in Nat /\ wake \in Nat \cup {Never} /\ since \in Nat /\ arrivals \in Seq(Nat)
      /\ Interval \in Nat /\ snapshots \in Seq(MetricSnapshot)
  BY CollectorAssumption DEF TypeOK, CollectorTypeOK
<1>5. wake' \in Nat \cup {Never} /\ since' \in Nat /\ arrivals' \in Seq(Nat)
  <2>1. CASE ApplyNetworkProfile
    BY <1>4, <2>1 DEF ApplyNetworkProfile, collectorVars, window
  <2>2. CASE StartRun
    BY <2>2 DEF StartRun, Start
  <2>3. CASE EndRun
    BY <1>4, <2>3 DEF EndRun, Stop, window
  <2>4. CASE Restart
    BY <2>4 DEF Restart
  <2>5. CASE Tick(End)
    BY <1>4, <2>5 DEF Tick, window
  <2>6. CASE CollectionLoop
    BY <1>4, <2>6 DEF CollectionLoop
  <2>7. CASE \E ms \in Latency, objective \in BOOLEAN : Record(ms, objective)
    BY <1>4, <2>7 DEF Record
  <2>8. CASE UNCHANGED vars
    BY <1>4, <2>8 DEF vars, collectorVars, window
  <2>9. CASE GeneratorFails
    BY <1>4, <2>9 DEF GeneratorFails, collectorVars, window
  <2> QED BY <2>1, <2>2, <2>3, <2>4, <2>5, <2>6, <2>7, <2>8, <2>9 DEF Next, Measure
<1>6. /\ step' \in {"next", "measuring", "failed", "complete"}
      /\ {current', net'} \subseteq Network \cup {NoProfile}
      /\ rows' \subseteq MetricSnapshot /\ restarts' \in 0..MaxRestarts
      /\ feeding' \in BOOLEAN /\ (feeding' => step' = "measuring")
  <2>0. /\ step \in {"next", "measuring", "failed", "complete"}
        /\ {current, net} \subseteq Network \cup {NoProfile}
        /\ rows \subseteq MetricSnapshot /\ restarts \in 0..MaxRestarts /\ MaxRestarts \in Nat
        /\ feeding \in BOOLEAN /\ (feeding => step = "measuring")
    BY RunnerAssumption DEF TypeOK
  <2>1. CASE ApplyNetworkProfile
    <3>1. SortedConfigs[config].network \in Network
      BY HereIs, NetworkIs DEF CampaignInv
    <3>2. /\ net' \in {SortedConfigs[config].network, net, NoProfile}
          /\ current' \in {SortedConfigs[config].network, current}
          /\ step = "next" /\ step' \in {"failed", step} /\ UNCHANGED <<rows, restarts, feeding>>
      BY <2>1, ApplicationIs DEF ApplyNetworkProfile
    <3> QED BY <2>0, <3>1, <3>2
  <2>2. CASE StartRun
    BY <2>0, <2>2 DEF StartRun
  <2>3. CASE EndRun
    <3>1. GetSnapshots \subseteq MetricSnapshot
      BY <1>4 DEF GetSnapshots
    <3>2. /\ rows' \in {rows, GetSnapshots} /\ step' \in {"next", "failed", "complete"}
          /\ feeding' = FALSE /\ UNCHANGED <<current, net, restarts>>
      BY <2>3 DEF EndRun, Advance
    <3> QED BY <2>0, <3>1, <3>2
  <2>4. CASE Restart
    <3>1. step' = "next" /\ current' = NoProfile /\ net' \in {net, NoProfile} /\ rows' = {}
      BY <2>4 DEF Restart
    <3>2. restarts' \in 0..MaxRestarts
      BY <2>0, <2>4 DEF Restart
    <3>3. feeding' = FALSE
      BY <2>4 DEF Restart
    <3> QED BY <2>0, <3>1, <3>2, <3>3
  <2>5. CASE Measure
    BY <2>0, <2>5 DEF Measure, runnerVars
  <2>6. CASE UNCHANGED vars
    BY <2>0, <2>6 DEF vars, runnerVars
  <2>7. CASE GeneratorFails
    BY <2>0, <2>7 DEF GeneratorFails
  <2> QED BY <2>1, <2>2, <2>3, <2>4, <2>5, <2>6, <2>7 DEF Next
<1> QED BY <1>2, <1>3, <1>5, <1>6 DEF TypeOK, CollectorTypeOK

\* The state of a campaign and of its collector is well typed.
THEOREM CampaignTypeCorrect == Spec => []TypeOK
<1>1. Init => TypeOK
  <2> SUFFICES ASSUME Init PROVE TypeOK
    OBVIOUS
  <2>1. config \in 1..Cardinality(Matrix) /\ rep \in 1..Reps
    BY CampaignInit DEF CampaignInv, Size
  <2>2. files \in [Item -> Network \cup {Absent, Damaged, Synthetic}]
    BY DEF Init
  <2>3. feeding \in BOOLEAN /\ (feeding => step = "measuring")
    BY DEF Init
  <2>4. CollectorTypeOK
    BY DEF Init, CollectorInit, CollectorTypeOK
  <2>5. /\ step \in {"next", "measuring", "failed", "complete"} /\ rows \subseteq MetricSnapshot
        /\ {current, net} \subseteq Network \cup {NoProfile} /\ restarts \in 0..MaxRestarts
    BY RunnerAssumption DEF Init
  <2> QED BY <2>1, <2>2, <2>3, <2>4, <2>5 DEF TypeOK
<1> QED BY <1>1, CampaignInit, FiguresStep, CampaignStep, TypeStep, PTL DEF Spec

\* Whatever fails in whatever campaigns, the results of the configurations that
\* run_all has passed are there, and a campaign that ends has filled the directory.
THEOREM ResultsAreInOrder == Spec => []ResultsInOrder
<1>1. CampaignInv => ResultsInOrder
  BY DEF CampaignInv
<1> QED BY <1>1, CampaignInit, FiguresStep, CampaignStep, PTL DEF Spec

\* An item of the comparisons of a workload and network.
LEMMA FileIs ==
  ASSUME CampaignInv, NEW w \in Workload, NEW n \in Network, NEW s \in System, NEW r \in 1..Reps
  PROVE  /\ <<[workload |-> w, system |-> s, network |-> n], r>> \in Item
         /\ File(w, s, n, r) \in {Absent, Damaged, Synthetic, n}
<1> DEFINE c == [workload |-> w, system |-> s, network |-> n]
<1>1. <<c, r>> \in Item /\ c.network = n
  BY DEF Item, Matrix
<1>2. files[<<c, r>>] \in {Absent, Damaged, Synthetic, c.network}
  <2>1. <<c, r>>[1].network = c.network
    OBVIOUS
  <2> HIDE DEF c
  <2> QED BY <1>1, <2>1 DEF CampaignInv
<1> QED BY <1>1, <1>2 DEF File

LEMMA ComparedIs ==
  ASSUME CampaignInv, NEW w \in Workload, NEW n \in Network, Compared(w, n),
         NEW s \in System, NEW r \in 1..Reps
  PROVE  File(w, s, n, r) \in {n, Synthetic}
<1>1. RepsOf(w, n, s) = 1..Reps
  <2>1. IsFiniteSet(1..Reps) /\ Cardinality(1..Reps) = Reps
    BY RunnerAssumption, FS_Interval
  <2>2. RepsOf(w, n, s) \in SUBSET (1..Reps) /\ Cardinality(RepsOf(w, n, s)) = Reps
    BY DEF RepsOf, Compared
  <2> QED BY <2>1, <2>2, FS_Subset
<1>2. Loaded(File(w, s, n, r)) # {}
  BY <1>1 DEF RepsOf
<1>3. File(w, s, n, r) \notin {Absent, Damaged}
  BY <1>2 DEF Loaded
<1> QED BY <1>3, FileIs

\* Of two workloads and networks whose comparisons mix measured figures with shipped
\* ones neither comes before the other.
LEMMA MixedOnce ==
  ASSUME CampaignInv, NEW v \in Workload, NEW m \in Network, NEW w \in Workload, NEW n \in Network,
         Mixed(v, m), Mixed(w, n), m < n \/ (m = n /\ v < w)
  PROVE  FALSE
<1>1. PICK s \in System, q \in 1..Reps : File(v, s, m, q) = Synthetic
  BY DEF Mixed
<1>2. PICK t \in System, r \in 1..Reps : File(w, t, n, r) # Synthetic
  BY DEF Mixed
<1> DEFINE i == <<[workload |-> v, system |-> s, network |-> m], q>>
           j == <<[workload |-> w, system |-> t, network |-> n], r>>
<1>3. i \in Item /\ j \in Item
  BY FileIs
<1>4. EarlierItem(i, j)
  BY DEF EarlierItem, Before
<1>5. files[i] = Synthetic
  BY <1>1 DEF File
<1>6. Untouched(j)
  <2> HIDE DEF i, j
  <2> QED BY <1>3, <1>4, <1>5 DEF Untouched, CampaignInv, ResultsInOrder
<1>7. File(w, t, n, r) = n
  BY <1>2, ComparedIs DEF Mixed
<1>8. n \notin {Absent, Synthetic}
  BY RunnerAssumption DEF Absent, Synthetic
<1> QED BY <1>6, <1>7, <1>8 DEF Untouched, File

\* For any number of workloads, systems, networks, repetitions and campaigns, over a
\* shipped or an emptied directory, the analysis pairs no figures of a run that was
\* measured under another network profile than its configuration's, and sets measured
\* figures against shipped ones in the comparisons of one workload and network at most.
THEOREM ComparisonsAreMatched == Spec => []ComparisonsMatched
<1>1. ASSUME CampaignInv PROVE ComparisonsMatched
  <2>1. \A w \in Workload, n \in Network :
          Compared(w, n) => \A s \in System, r \in 1..Reps : File(w, s, n, r) \in {n, Synthetic}
    BY <1>1, ComparedIs
  <2>2. ASSUME NEW v \in Workload, NEW w \in Workload, NEW m \in Network, NEW n \in Network,
               Mixed(v, m), Mixed(w, n)
        PROVE  v = w /\ m = n
    <3>1. ~ (m < n \/ (m = n /\ v < w)) /\ ~ (n < m \/ (n = m /\ w < v))
      BY <1>1, <2>2, MixedOnce
    <3>2. v \in Nat /\ w \in Nat /\ m \in Nat /\ n \in Nat
      BY RunnerAssumption
    <3> QED BY <3>1, <3>2
  <2> QED BY <2>1, <2>2 DEF ComparisonsMatched
<1> QED BY <1>1, CampaignInit, FiguresStep, CampaignStep, PTL DEF Spec

-----------------------------------------------------------------------------
(* What is saved of a run.  Every event of a measurement belongs to the window *)
(* that counts it: the events of several windows are those that belong to one  *)
(* of them.                                                                    *)

EventsOf(R) == MapThenSumSet(LAMBDA r : r.events, R)

\* A sum over rows is the number of events in the rows' blocks, if these are disjoint.
LEMMA SumIsUnion ==
  ASSUME NEW R, IsFiniteSet(R), NEW B, IsFiniteSet(B), NEW block \in [R -> SUBSET B],
         \A r \in R : Cardinality(block[r]) = r.events,
         \A q, r \in R : q # r => block[q] \cap block[r] = {}
  PROVE  EventsOf(R) = Cardinality(UNION {block[r] : r \in R})
<1> DEFINE x(S) == CHOOSE y \in S : TRUE
           U(S) == UNION {block[r] : r \in S}
           u == [S \in SUBSET R |-> Cardinality(U(S))]
           Rule(s) == s = [S \in SUBSET R |-> IF S = {} THEN 0 ELSE x(S).events + s[S \ {x(S)}]]
<1>1. EventsOf(R) = (CHOOSE s : Rule(s))[R]
  BY DEF EventsOf, MapThenSumSet, MapThenFoldSet
<1>2. ASSUME NEW S \in SUBSET R
      PROVE  /\ IsFiniteSet(S) /\ IsFiniteSet(U(S)) /\ Cardinality(U(S)) \in Nat
             /\ S # {} => /\ x(S) \in S
                          /\ Cardinality(S) = Cardinality(S \ {x(S)}) + 1
                          /\ Cardinality(S \ {x(S)}) \in Nat
  <2>1. U(S) \in SUBSET B
    OBVIOUS
  <2>2. IsFiniteSet(S) /\ IsFiniteSet(U(S)) /\ Cardinality(U(S)) \in Nat
    BY <2>1, FS_Subset, FS_CardinalityType
  <2>3. ASSUME S # {}
        PROVE  /\ x(S) \in S /\ Cardinality(S \ {x(S)}) \in Nat
               /\ Cardinality(S) = Cardinality(S \ {x(S)}) + 1
    <3>1. x(S) \in S
      BY <2>3
    <3>2. PICK y \in S : y = x(S)
      BY <3>1
    <3>3. IsFiniteSet(S \ {y}) /\ Cardinality(S \ {y}) = Cardinality(S) - 1
      BY <2>2, FS_RemoveElement
    <3>4. Cardinality(S) \in Nat /\ Cardinality(S \ {y}) \in Nat
      BY <2>2, <3>3, FS_CardinalityType
    <3> QED BY <3>1, <3>2, <3>3, <3>4
  <2> QED BY <2>2, <2>3
<1>3. ASSUME NEW S \in SUBSET R, S # {}
      PROVE  Cardinality(U(S)) = x(S).events + Cardinality(U(S \ {x(S)}))
  <2>1. PICK y \in S : y = x(S)
    BY <1>2, <1>3
  <2>2. U(S) = block[y] \cup U(S \ {y}) /\ block[y] \cap U(S \ {y}) = {}
    OBVIOUS
  <2>3. block[y] \in SUBSET B /\ IsFiniteSet(block[y]) /\ Cardinality(block[y]) \in Nat
    BY FS_Subset, FS_CardinalityType
  <2>4. IsFiniteSet(U(S \ {y})) /\ Cardinality(U(S \ {y})) \in Nat
    BY <1>2
  <2>5. Cardinality(block[y]) = y.events
    OBVIOUS
  <2> HIDE DEF U
  <2>6. Cardinality(U(S)) = Cardinality(block[y]) + Cardinality(U(S \ {y})) - Cardinality({})
    <3>1. PICK p, q : p = block[y] /\ q = U(S \ {y})
      OBVIOUS
    <3>2. IsFiniteSet(p) /\ IsFiniteSet(q) /\ U(S) = p \cup q /\ p \cap q = {}
      BY <2>2, <2>3, <2>4, <3>1
    <3>3. Cardinality(p \cup q) = Cardinality(p) + Cardinality(q) - Cardinality(p \cap q)
      BY <3>2, FS_Union
    <3> QED BY <3>1, <3>2, <3>3
  <2>7. Cardinality({}) = 0
    BY FS_EmptySet
  <2> QED BY <2>1, <2>3, <2>4, <2>5, <2>6, <2>7
<1>4. Rule(u)
  <2>1. U({}) = {}
    OBVIOUS
  <2>2. ASSUME NEW S \in SUBSET R
        PROVE  Cardinality(U(S)) = IF S = {} THEN 0 ELSE x(S).events + u[S \ {x(S)}]
    <3>1. CASE S = {}
      BY <2>1, <3>1, FS_EmptySet
    <3>2. CASE S # {}
      <4>1. S \ {x(S)} \in SUBSET R
        OBVIOUS
      <4>2. u[S \ {x(S)}] = Cardinality(U(S \ {x(S)}))
        BY <4>1
      <4> HIDE DEF U, u, x
      <4> QED BY <1>3, <3>2, <4>2
    <3> QED BY <3>1, <3>2
  <2> HIDE DEF U, x
  <2> QED BY <2>2
<1>5. ASSUME NEW s, Rule(s) PROVE s[R] = u[R]
  <2> DEFINE D == {S \in SUBSET R : s[S] # u[S]}
             T == {Cardinality(S) : S \in D}
  <2>1. D = {}
    <3> SUFFICES ASSUME D # {} PROVE FALSE
      OBVIOUS
    <3>1. T \in SUBSET Nat /\ T # {}
      <4>1. \A S \in D : Cardinality(S) \in Nat
        BY <1>2, FS_CardinalityType
      <4> HIDE DEF D
      <4> QED BY <4>1
    <3>2. PICK n \in T : \A m \in T : n <= m
      BY <3>1, Least
    <3>3. PICK S \in D : n = Cardinality(S)
      BY <3>2
    <3>4. S # {}
      <4>1. s[{}] = 0 /\ u[{}] = 0
        BY <1>4, <1>5
      <4> QED BY <4>1
    <3>5. PICK y \in S : y = x(S)
      BY <1>2, <3>4
    <3>6. S \ {y} \in SUBSET R /\ n = Cardinality(S \ {y}) + 1 /\ Cardinality(S \ {y}) \in Nat
      BY <1>2, <3>3, <3>4, <3>5
    <3>7. S \ {y} \notin D
      <4>1. ~ (n <= Cardinality(S \ {y}))
        BY <3>6
      <4>2. S \ {y} \in D => Cardinality(S \ {y}) \in T
        OBVIOUS
      <4> HIDE DEF T, D
      <4> QED BY <3>2, <4>1, <4>2
    <3>8. s[S \ {y}] = u[S \ {y}]
      BY <3>6, <3>7
    <3>9. s[S] = y.events + s[S \ {y}]
      BY <1>5, <3>4, <3>5
    <3>10. u[S] = y.events + u[S \ {y}]
      BY <1>4, <3>4, <3>5
    <3> QED BY <3>3, <3>8, <3>9, <3>10
  <2> QED BY <2>1
<1>6. (CHOOSE s : Rule(s))[R] = u[R]
  <2>1. Rule(CHOOSE s : Rule(s))
    <3> HIDE DEF Rule
    <3> QED BY <1>4
  <2> HIDE DEF Rule, u
  <2> QED BY <1>5, <2>1
<1>7. u[R] = Cardinality(U(R))
  OBVIOUS
<1> QED BY <1>1, <1>6, <1>7

-----------------------------------------------------------------------------
(* The ledger of a measurement.                                              *)

N == Len(snapshots)

\* Where window i ends and the next one begins.
Cut(i) == IF i = 0 THEN 0 ELSE snapshots[i].at

\* The windows: no gap between them, and none is longer than a late interval.
Cutting ==
  /\ since = Cut(N) /\ wake = IF N = 0 THEN 0 ELSE Cut(N) + Interval
  /\ Cut(N) <= clock
  /\ \A i \in 1..N : /\ snapshots[i].window = Cut(i) - Cut(i - 1)
                     /\ Cut(i) <= Cut(i - 1) + Interval + Lag
  /\ \A i, j \in 1..N : i < j => Cut(i) < Cut(j)

\* Which window counts which event; that of the events not counted yet is open.
Mine(owner, i) == {j \in DOMAIN arrivals : owner[j] = i}
Owned(owner) ==
  /\ \A j \in DOMAIN arrivals : /\ owner[j] \in 1..N + 1
                                /\ Cut(owner[j] - 1) <= arrivals[j] /\ arrivals[j] <= clock
                                /\ owner[j] <= N => arrivals[j] <= Cut(owner[j])
  /\ \A i \in 1..N : snapshots[i].events = Cardinality(Mine(owner, i))
  /\ ingested = Cardinality(Mine(owner, N + 1))

Ledger == rows = {} /\ Cutting /\ \E owner : Owned(owner)

LEMMA CutsAreNat ==
  ASSUME snapshots \in Seq(MetricSnapshot)
  PROVE  N \in Nat /\ DOMAIN snapshots = 1..N /\ \A i \in 0..N : Cut(i) \in Nat
<1>1. \A i \in 1..N : snapshots[i].at \in Nat
  <2>1. \A i \in 1..N : snapshots[i] \in MetricSnapshot
    BY DEF N
  <2> QED BY <2>1 DEF MetricSnapshot
<1> QED BY <1>1 DEF N, Cut

LEMMA LedgerOpens ==
  ASSUME StartRun
  PROVE  Ledger'
<1>1. /\ rows' = {} /\ clock' = 0 /\ wake' = 0 /\ since' = 0 /\ ingested' = 0
      /\ snapshots' = <<>> /\ arrivals' = <<>>
  BY DEF StartRun, Start, NoWindow
<1>2. N' = 0 /\ DOMAIN arrivals' = {}
  BY <1>1 DEF N
<1>3. Cut(0)' = 0 /\ Cut(N)' = 0
  BY <1>2 DEF Cut
<1>4. Cutting'
  BY <1>1, <1>2, <1>3 DEF Cutting
<1>5. Owned(<<>>)'
  <2>1. Mine(<<>>, 1)' = {}
    BY <1>2 DEF Mine
  <2> QED BY <1>1, <1>2, <2>1, FS_EmptySet DEF Owned
<1> QED BY <1>1, <1>4, <1>5 DEF Ledger

LEMMA TickKeepsLedger ==
  ASSUME Ledger, TypeOK, Tick(End), rows' = rows
  PROVE  Ledger'
<1>1. /\ clock' = clock + 1 /\ clock \in Nat /\ arrivals \in Seq(Nat)
      /\ UNCHANGED <<wake, since, ingested, snapshots, arrivals>>
  BY DEF Tick, window, TypeOK, CollectorTypeOK
<1>2. N' = N /\ \A i : Cut(i)' = Cut(i)
  BY <1>1 DEF N, Cut
<1>3. Cut(N) \in Nat
  BY CutsAreNat DEF TypeOK, CollectorTypeOK
<1>4. Cutting'
  BY <1>1, <1>2, <1>3 DEF Cutting, Ledger
<1>5. PICK owner : Owned(owner)
  BY DEF Ledger
<1>6. \A j \in DOMAIN arrivals : arrivals[j] <= clock => arrivals[j] <= clock'
  BY <1>1
<1>7. Owned(owner)'
  BY <1>1, <1>2, <1>5, <1>6 DEF Owned, Mine
<1> QED BY <1>4, <1>7 DEF Ledger

LEMMA RecordKeepsLedger ==
  ASSUME Ledger, TypeOK, NEW ms \in Latency, NEW objective \in BOOLEAN, Record(ms, objective),
         rows' = rows
  PROVE  Ledger'
<1>1. PICK m \in Nat : m = Len(arrivals)
  BY DEF TypeOK, CollectorTypeOK
<1>2. /\ ingested' = ingested + 1 /\ arrivals' = Append(arrivals, clock)
      /\ UNCHANGED <<clock, wake, since, snapshots>>
      /\ arrivals \in Seq(Nat) /\ clock \in Nat /\ ingested \in Nat
  BY DEF Record, TypeOK, CollectorTypeOK
<1>3. N' = N /\ \A i : Cut(i)' = Cut(i)
  BY <1>2 DEF N, Cut
<1>4. N \in Nat /\ Cut(N) \in Nat
  BY CutsAreNat DEF TypeOK, CollectorTypeOK
<1>5. Cutting'
  BY <1>2, <1>3 DEF Cutting, Ledger
<1>6. PICK owner : Owned(owner)
  BY DEF Ledger
<1>7. /\ DOMAIN arrivals = 1..m /\ DOMAIN arrivals' = 1..m + 1
      /\ arrivals'[m + 1] = clock /\ \A j \in 1..m : arrivals'[j] = arrivals[j]
  BY <1>1, <1>2
<1>8. PICK next : next[m + 1] = N + 1 /\ \A j \in 1..m : next[j] = owner[j]
  <2> DEFINE f == [j \in 1..m + 1 |-> IF j = m + 1 THEN N + 1 ELSE owner[j]]
  <2>1. f[m + 1] = N + 1 /\ \A j \in 1..m : f[j] = owner[j]
    BY <1>1
  <2> QED BY <2>1
<1>9. Mine(next, N + 1)' = Mine(owner, N + 1) \cup {m + 1} /\ m + 1 \notin Mine(owner, N + 1)
  <2>1. m + 1 \notin 1..m /\ 1..m + 1 = 1..m \cup {m + 1}
    BY <1>1
  <2> QED BY <1>3, <1>7, <1>8, <2>1 DEF Mine
<1>10. \A i \in 1..N : Mine(next, i)' = Mine(owner, i)
  <2> SUFFICES ASSUME NEW i \in 1..N PROVE Mine(next, i)' = Mine(owner, i)
    OBVIOUS
  <2>1. i # N + 1 /\ m + 1 \notin 1..m /\ 1..m + 1 = 1..m \cup {m + 1}
    BY <1>1, <1>4
  <2> QED BY <1>7, <1>8, <2>1 DEF Mine
<1>11. Cardinality(Mine(next, N + 1)') = ingested + 1
  <2>1. IsFiniteSet(1..m) /\ Mine(owner, N + 1) \in SUBSET (1..m)
    BY <1>1, <1>7, FS_Interval DEF Mine
  <2>2. IsFiniteSet(Mine(owner, N + 1))
    BY <2>1, FS_Subset
  <2>3. Cardinality(Mine(owner, N + 1)) = ingested
    BY <1>6 DEF Owned
  <2> QED BY <1>9, <2>2, <2>3, FS_AddElement
<1>12. ASSUME NEW j \in 1..m + 1
       PROVE  /\ next[j] \in 1..N + 1
              /\ Cut(next[j] - 1) <= arrivals'[j] /\ arrivals'[j] <= clock
              /\ next[j] <= N => arrivals'[j] <= Cut(next[j])
  <2>1. CASE j \in 1..m
    BY <1>6, <1>7, <1>8, <2>1 DEF Owned
  <2>2. CASE j = m + 1
    <3>1. next[j] = N + 1 /\ arrivals'[j] = clock /\ (N + 1) - 1 = N /\ ~ (N + 1 <= N)
          /\ N + 1 \in 1..N + 1
      BY <1>4, <1>7, <1>8, <2>2
    <3>2. Cut(N) <= clock
      BY DEF Ledger, Cutting
    <3> QED BY <1>2, <3>1, <3>2
  <2> QED BY <1>1, <2>1, <2>2
<1>13. Owned(next)'
  <2>1. \A i \in 1..N : snapshots'[i].events = Cardinality(Mine(next, i)')
    BY <1>2, <1>6, <1>10 DEF Owned
  <2> QED BY <1>2, <1>3, <1>7, <1>11, <1>12, <2>1 DEF Owned
<1> QED BY <1>5, <1>13 DEF Ledger

LEMMA LoopKeepsLedger ==
  ASSUME Ledger, TypeOK, Alive, CollectionLoop, rows' = rows
  PROVE  Ledger'
<1>1. PICK b : b = BuildSnapshot
  OBVIOUS
<1>2. b.at = clock /\ b.window = clock - since /\ b.events = ingested
  BY <1>1 DEF BuildSnapshot
<1>3. /\ snapshots' = Append(snapshots, b) /\ wake <= clock /\ ingested' = 0
      /\ since' = clock /\ wake' = clock + Interval /\ UNCHANGED <<clock, arrivals>>
      /\ snapshots \in Seq(MetricSnapshot) /\ clock \in Nat /\ arrivals \in Seq(Nat)
  BY <1>1 DEF CollectionLoop, NoWindow, TypeOK, CollectorTypeOK
<1>4. PICK n \in Nat : n = N
  BY CutsAreNat DEF TypeOK, CollectorTypeOK
<1>5. /\ N' = n + 1 /\ snapshots'[n + 1] = b
      /\ \A i \in 1..n : snapshots'[i] = snapshots[i]
  BY <1>3, <1>4 DEF N
<1>6. /\ Cut(n + 1)' = clock
      /\ \A i \in 0..n : Cut(i)' = Cut(i)
      /\ \A i \in 0..n : Cut(i) \in Nat
  <2>1. \A i \in 0..n : Cut(i) \in Nat
    BY <1>4, CutsAreNat DEF TypeOK, CollectorTypeOK
  <2> QED BY <1>2, <1>4, <1>5, <2>1 DEF Cut
<1>7. /\ Interval \in Nat \ {0} /\ Lag \in Nat
      /\ since = Cut(n) /\ wake = (IF n = 0 THEN 0 ELSE Cut(n) + Interval) /\ Cut(n) <= clock
      /\ clock <= wake + Lag /\ Cut(n) \in Nat
  BY <1>4, <1>6, CollectorAssumption DEF Ledger, Cutting, Alive
<1>8. clock <= Cut(n) + Interval + Lag /\ (n # 0 => Cut(n) < clock)
  <2>1. CASE n = 0
    <3>1. Cut(n) = 0
      BY <2>1 DEF Cut
    <3> QED BY <1>3, <1>7, <2>1, <3>1
  <2>2. CASE n # 0
    BY <1>3, <1>7, <2>2
  <2> QED BY <2>1, <2>2
<1>9. Cutting'
  <2>1. ASSUME NEW i \in 1..n + 1
        PROVE  /\ snapshots'[i].window = Cut(i)' - Cut(i - 1)'
               /\ Cut(i)' <= Cut(i - 1)' + Interval + Lag
    <3>1. CASE i = n + 1
      <4>1. i - 1 = n /\ n \in 0..n
        BY <3>1
      <4>2. Cut(i)' = clock /\ Cut(i - 1)' = Cut(n)
        BY <1>6, <3>1, <4>1
      <4> QED BY <1>2, <1>5, <1>7, <1>8, <3>1, <4>2
    <3>2. CASE i \in 1..n
      <4>1. i \in 0..n /\ i - 1 \in 0..n
        BY <3>2
      <4> QED BY <1>4, <1>5, <1>6, <3>2, <4>1 DEF Ledger, Cutting
    <3> QED BY <3>1, <3>2
  <2>2. ASSUME NEW i \in 1..n + 1, NEW j \in 1..n + 1, i < j PROVE Cut(i)' < Cut(j)'
    <3>1. CASE j = n + 1
      <4>1. i \in 1..n /\ n \in 1..n /\ i \in 0..n /\ (i = n \/ i < n) /\ n # 0
        BY <2>2, <3>1
      <4>2. Cut(i) = Cut(n) \/ Cut(i) < Cut(n)
        BY <1>4, <4>1 DEF Ledger, Cutting
      <4> QED BY <1>3, <1>6, <1>7, <1>8, <3>1, <4>1, <4>2
    <3>2. CASE j \in 1..n
      <4>1. i \in 1..n /\ i \in 0..n /\ j \in 0..n
        BY <2>2, <3>2
      <4> QED BY <1>4, <1>6, <2>2, <3>2, <4>1 DEF Ledger, Cutting
    <3> QED BY <3>1, <3>2
  <2>3. n + 1 # 0 /\ clock <= clock
    BY <1>3, <1>4
  <2> QED BY <1>3, <1>5, <1>6, <2>1, <2>2, <2>3 DEF Cutting
<1>10. PICK owner : Owned(owner)
  BY DEF Ledger
<1>11. \A j \in DOMAIN arrivals :
         /\ owner[j] \in 1..n + 1 /\ Cut(owner[j] - 1) <= arrivals[j] /\ arrivals[j] <= clock
         /\ owner[j] <= n => arrivals[j] <= Cut(owner[j])
  BY <1>4, <1>10 DEF Owned
<1>12. ASSUME NEW j \in DOMAIN arrivals
       PROVE  /\ owner[j] \in 1..(n + 1) + 1
              /\ Cut(owner[j] - 1)' <= arrivals[j]
              /\ owner[j] <= n + 1 => arrivals[j] <= Cut(owner[j])'
  <2>1. PICK i \in 1..n + 1 : i = owner[j]
    BY <1>11
  <2>2. i \in 1..(n + 1) + 1 /\ i - 1 \in 0..n
    OBVIOUS
  <2>3. CASE i \in 1..n
    <3>1. i \in 0..n /\ i <= n
      BY <2>3
    <3> QED BY <1>6, <1>11, <2>1, <2>2, <3>1
  <2>4. CASE i = n + 1
    BY <1>6, <1>11, <2>1, <2>2, <2>4
  <2> QED BY <2>3, <2>4
<1>13. \A i : Mine(owner, i)' = Mine(owner, i)
  BY <1>3 DEF Mine
<1>14. Mine(owner, (n + 1) + 1) = {}
  <2>1. \A i \in 1..n + 1 : i # (n + 1) + 1
    OBVIOUS
  <2> QED BY <1>11, <2>1 DEF Mine
<1>15. \A i \in 1..n + 1 : snapshots'[i].events = Cardinality(Mine(owner, i))
  <2> SUFFICES ASSUME NEW i \in 1..n + 1 PROVE snapshots'[i].events = Cardinality(Mine(owner, i))
    OBVIOUS
  <2>1. CASE i = n + 1
    BY <1>2, <1>4, <1>5, <1>10, <2>1 DEF Owned
  <2>2. CASE i \in 1..n
    BY <1>4, <1>5, <1>10, <2>2 DEF Owned
  <2> QED BY <2>1, <2>2
<1>16. Owned(owner)'
  <2>1. ingested' = Cardinality(Mine(owner, (n + 1) + 1)')
    BY <1>3, <1>13, <1>14, FS_EmptySet
  <2>2. \A j \in DOMAIN arrivals' : owner[j] \in 1..N' + 1 /\ Cut(owner[j] - 1)' <= arrivals'[j]
                                    /\ arrivals'[j] <= clock'
                                    /\ (owner[j] <= N' => arrivals'[j] <= Cut(owner[j])')
    BY <1>3, <1>5, <1>11, <1>12
  <2> QED BY <1>5, <1>13, <1>15, <2>1, <2>2 DEF Owned
<1> QED BY <1>9, <1>16 DEF Ledger

\* SavedWindows, of a set of rows.
Lo(R) == Min({From(r) : r \in R})
Hi(R) == Max({r.at : r \in R})
Inside(R) == {j \in DOMAIN arrivals : arrivals[j] \in (Lo(R) + 1)..(Hi(R) - 1)}
AtEdges(R) == {j \in DOMAIN arrivals : arrivals[j] \in {Lo(R), Hi(R)}}
Covers(R) ==
  /\ \A q, r \in R : q # r => From(q) # From(r)
  /\ \A r \in R : From(r) = Lo(R) \/ \E q \in R : q.at = From(r)
  /\ Lo(R) < Warmup /\ Warmup <= Lo(R) + Interval + Lag
  /\ End <= Hi(R) + Interval + Lag
  /\ EventsOf(R) - Cardinality(Inside(R)) \in 0..Cardinality(AtEdges(R))

LEMMA CoversNext == Covers(rows)' => SavedWindows'
BY DEF SavedWindows, Covers, Lo, Hi, Inside, AtEdges, EventsOf, MapThenSumSet, MapThenFoldSet

\* The windows that are saved are the last ones, from the first that ends after the
\* warm-up on.
LEMMA KeptIs ==
  ASSUME CampaignInv, TypeOK, Ledger, step = "measuring", clock >= End
  PROVE  /\ N \in Nat \ {0}
         /\ \E k \in 1..N : /\ Cut(k - 1) < Warmup /\ Warmup <= Cut(k)
                            /\ GetSnapshots = {snapshots[i] : i \in k..N}
                            /\ \A i \in k..N : Warmup <= Cut(i)
<1>1. /\ DOMAIN snapshots = 1..N /\ N \in Nat /\ \A i \in 0..N : Cut(i) \in Nat
      /\ \A i \in 1..N : Cut(i) = snapshots[i].at
  BY CutsAreNat DEF TypeOK, CollectorTypeOK, Cut
<1>2. Warmup \in Nat \ {0}
  BY CollectorAssumption
<1> DEFINE K == {i \in 1..N : snapshots[i].at >= Warmup}
<1>3. K # {}
  BY <1>1, SomeSnapshot DEF GetSnapshots
<1>4. PICK k \in K : \A i \in K : k <= i
  <2>1. K \in SUBSET Nat
    BY <1>1
  <2> HIDE DEF K
  <2> QED BY <1>3, <2>1, Least
<1>5. k \in 1..N /\ N \in Nat \ {0} /\ Warmup <= Cut(k)
  BY <1>1, <1>2
<1>6. Cut(k - 1) < Warmup
  <2>1. CASE k = 1
    BY <1>2, <2>1 DEF Cut
  <2>2. CASE k # 1
    <3>1. k - 1 \in 1..N /\ k - 1 \in 0..N /\ ~ (k <= k - 1)
      BY <1>1, <1>5, <2>2
    <3>2. ~ (snapshots[k - 1].at >= Warmup)
      BY <1>4, <3>1
    <3> QED BY <1>1, <1>2, <3>1, <3>2
  <2> QED BY <2>1, <2>2
<1>7. \A i \in k..N : i \in 1..N /\ Warmup <= Cut(i)
  <2> SUFFICES ASSUME NEW i \in k..N PROVE i \in 1..N /\ Warmup <= Cut(i)
    OBVIOUS
  <2>1. i \in 1..N /\ (i = k \/ k < i)
    BY <1>1, <1>5
  <2>2. Cut(i) = Cut(k) \/ Cut(k) < Cut(i)
    BY <1>5, <2>1 DEF Ledger, Cutting
  <2>3. Cut(i) \in Nat /\ Cut(k) \in Nat
    BY <1>1, <1>5, <2>1
  <2> QED BY <1>2, <1>5, <2>1, <2>2, <2>3
<1>8. K = k..N
  <2>1. \A i \in k..N : i \in K
    BY <1>1, <1>2, <1>7
  <2>2. \A i \in K : i \in k..N
    BY <1>1, <1>4, <1>5
  <2> HIDE DEF K
  <2> QED BY <2>1, <2>2
<1>9. GetSnapshots = {snapshots[i] : i \in k..N}
  <2>1. GetSnapshots = {snapshots[i] : i \in K}
    BY <1>1 DEF GetSnapshots
  <2> HIDE DEF K
  <2> QED BY <1>8, <2>1
<1> QED BY <1>5, <1>6, <1>7, <1>9

LEMMA SavedCovers ==
  ASSUME CampaignInv, TypeOK, Ledger, step = "measuring", clock >= End
  PROVE  Covers(GetSnapshots)
<1>1. /\ N \in Nat \ {0} /\ \A i \in 0..N : Cut(i) \in Nat
      /\ snapshots \in Seq(MetricSnapshot) /\ arrivals \in Seq(Nat)
  BY CutsAreNat, KeptIs DEF TypeOK, CollectorTypeOK
<1>2. PICK n \in Nat \ {0} : n = N
  BY <1>1
<1>3. PICK k \in 1..n : /\ Cut(k - 1) < Warmup /\ Warmup <= Cut(k)
                        /\ GetSnapshots = {snapshots[i] : i \in k..n}
                        /\ \A i \in k..n : Warmup <= Cut(i)
  BY <1>2, KeptIs
<1>4. PICK R : R = GetSnapshots
  OBVIOUS
<1>5. PICK at, from : /\ at = [i \in 0..n |-> Cut(i)]
                      /\ from = [i \in 1..n |-> at[i - 1]]
  OBVIOUS
<1>6. /\ at \in [0..n -> Nat] /\ \A i \in 1..n : from[i] = at[i - 1]
      /\ at[0] = 0 /\ \A i, j \in 1..n : i < j => at[i] < at[j]
      /\ at[k - 1] < Warmup /\ Warmup <= at[k] /\ \A i \in k..n : Warmup <= at[i]
      /\ \A i \in 1..n : at[i] <= at[i - 1] + Interval + Lag
  <2>1. at \in [0..n -> Nat]
    BY <1>1, <1>2, <1>5
  <2>2. at[0] = 0
    BY <1>5 DEF Cut
  <2>3. \A i \in 1..n : i \in 0..n /\ i - 1 \in 0..n
    OBVIOUS
  <2>4. \A i \in 0..n : at[i] = Cut(i)
    BY <1>5
  <2>5. \A i \in k..n : i \in 0..n
    OBVIOUS
  <2>6. \A i, j \in 1..n : i < j => at[i] < at[j]
    BY <1>2, <2>3, <2>4 DEF Ledger, Cutting
  <2>7. \A i \in 1..n : at[i] <= at[i - 1] + Interval + Lag
    BY <1>2, <2>3, <2>4 DEF Ledger, Cutting
  <2> QED BY <1>3, <1>5, <2>1, <2>2, <2>3, <2>4, <2>5, <2>6, <2>7
<1>7. \A i \in 1..n : snapshots[i].at = at[i] /\ From(snapshots[i]) = from[i]
  <2> SUFFICES ASSUME NEW i \in 1..n PROVE snapshots[i].at = at[i] /\ From(snapshots[i]) = from[i]
    OBVIOUS
  <2>1. i \in 0..n /\ i - 1 \in 0..n /\ i # 0
    OBVIOUS
  <2>2. snapshots[i].at = Cut(i) /\ snapshots[i].window = Cut(i) - Cut(i - 1)
    BY <1>2, <2>1 DEF Cut, Ledger, Cutting
  <2>3. at[i] = Cut(i) /\ from[i] = Cut(i - 1) /\ Cut(i) \in Nat /\ Cut(i - 1) \in Nat
    BY <1>1, <1>2, <1>5, <2>1
  <2>4. Cut(i) - (Cut(i) - Cut(i - 1)) = Cut(i - 1)
    BY <2>3
  <2> QED BY <2>2, <2>3, <2>4 DEF From
<1>8. /\ Warmup \in Nat \ {0} /\ Interval \in Nat /\ Lag \in Nat
  BY CollectorAssumption
\* Windows end, and begin, in their order.
<1>9. \A i, j \in k..n : i <= j => at[i] <= at[j] /\ from[i] <= from[j] /\ from[i] <= at[j]
  <2> SUFFICES ASSUME NEW i \in k..n, NEW j \in k..n, i <= j
               PROVE  at[i] <= at[j] /\ from[i] <= from[j] /\ from[i] <= at[j]
    OBVIOUS
  <2>0. i \in 1..n /\ j \in 1..n /\ i - 1 \in 0..n /\ j - 1 \in 0..n /\ i \in 0..n /\ j \in 0..n
    OBVIOUS
  <2>1. at[i] <= at[j]
    BY <1>6, <2>0
  <2>2. from[i] <= from[j]
    <3>1. CASE i - 1 = 0
      BY <1>6, <2>0, <3>1
    <3>2. CASE i - 1 # 0
      <4>1. i - 1 \in 1..n /\ j - 1 \in 1..n /\ (i = j \/ i - 1 < j - 1)
        BY <3>2
      <4>2. i = j \/ at[i - 1] < at[j - 1]
        BY <1>6, <4>1
      <4>3. at[i - 1] \in Nat /\ at[j - 1] \in Nat /\ from[i] = at[i - 1] /\ from[j] = at[j - 1]
        BY <1>6, <2>0
      <4> QED BY <4>2, <4>3
    <3> QED BY <3>1, <3>2
  <2>3. from[j] <= at[j]
    <3>1. CASE j - 1 = 0
      BY <1>6, <2>0, <3>1
    <3>2. CASE j - 1 # 0
      <4>1. j - 1 \in 1..n /\ j - 1 < j
        BY <3>2
      <4> QED BY <1>6, <2>0, <4>1
    <3> QED BY <3>1, <3>2
  <2> QED BY <1>6, <2>0, <2>1, <2>2, <2>3
<1>10. \A i, j \in k..n : i < j => from[i] < from[j]
  <2> SUFFICES ASSUME NEW i \in k..n, NEW j \in k..n, i < j PROVE from[i] < from[j]
    OBVIOUS
  <2>0. i \in 1..n /\ j \in 1..n /\ i - 1 \in 0..n /\ j - 1 \in 0..n /\ j - 1 \in k..n
    OBVIOUS
  <2>1. CASE i - 1 = 0
    <3>1. Warmup <= at[j - 1]
      BY <1>6, <2>0
    <3> QED BY <1>6, <1>8, <2>0, <2>1, <3>1
  <2>2. CASE i - 1 # 0
    <3>1. i - 1 \in 1..n /\ j - 1 \in 1..n /\ i - 1 < j - 1
      BY <2>2
    <3> QED BY <1>6, <2>0, <3>1
  <2> QED BY <2>1, <2>2
<1>11. /\ \A r \in R : \E i \in k..n : r = snapshots[i]
       /\ \A i \in k..n : i \in 1..n /\ snapshots[i] \in R
       /\ k \in k..n /\ n \in k..n
  BY <1>3, <1>4
<1>12. Lo(R) = from[k]
  <2> DEFINE F == {From(r) : r \in R}
  <2>1. \A x \in F : \E i \in k..n : x = from[i]
    BY <1>7, <1>11
  <2>2. from[k] \in F /\ from[k] \in Nat
    <3>1. From(snapshots[k]) = from[k] /\ snapshots[k] \in R
      BY <1>7, <1>11
    <3> QED BY <1>6, <3>1
  <2>3. \A x \in F : from[k] <= x /\ x \in Nat
    <3> SUFFICES ASSUME NEW x \in F PROVE from[k] <= x /\ x \in Nat
      OBVIOUS
    <3>1. PICK i \in k..n : x = from[i]
      BY <2>1
    <3>2. i \in 1..n /\ i - 1 \in 0..n /\ k <= i
      OBVIOUS
    <3> QED BY <1>6, <1>9, <1>11, <3>1, <3>2
  <2> HIDE DEF F
  <2>4. Min(F) = from[k]
    <3>1. Min(F) \in F /\ \A y \in F : Min(F) <= y
      BY <2>2, <2>3 DEF Min
    <3> QED BY <2>2, <2>3, <3>1
  <2> QED BY <2>4 DEF Lo, F
<1>13. Hi(R) = at[n]
  <2> DEFINE F == {r.at : r \in R}
  <2>1. \A x \in F : \E i \in k..n : x = at[i]
    BY <1>7, <1>11
  <2>2. at[n] \in F /\ at[n] \in Nat
    <3>1. snapshots[n].at = at[n] /\ snapshots[n] \in R /\ n \in 0..n
      BY <1>7, <1>11
    <3> QED BY <1>6, <3>1
  <2>3. \A x \in F : x <= at[n] /\ x \in Nat
    <3> SUFFICES ASSUME NEW x \in F PROVE x <= at[n] /\ x \in Nat
      OBVIOUS
    <3>1. PICK i \in k..n : x = at[i]
      BY <2>1
    <3>2. i \in 0..n /\ i <= n
      OBVIOUS
    <3> QED BY <1>6, <1>9, <1>11, <3>1, <3>2
  <2> HIDE DEF F
  <2>4. Max(F) = at[n]
    <3>1. Max(F) \in F /\ \A y \in F : Max(F) >= y
      BY <2>2, <2>3 DEF Max
    <3> QED BY <2>2, <2>3, <3>1
  <2> QED BY <2>4 DEF Hi, F
<1>14. \A q, r \in R : q # r => From(q) # From(r)
  <2> SUFFICES ASSUME NEW q \in R, NEW r \in R, q # r PROVE From(q) # From(r)
    OBVIOUS
  <2>1. PICK i \in k..n, j \in k..n : q = snapshots[i] /\ r = snapshots[j]
    BY <1>11
  <2>2. i < j \/ j < i
    BY <2>1
  <2>3. from[i] \in Nat /\ from[j] \in Nat
    <3>1. i \in 1..n /\ j \in 1..n /\ i - 1 \in 0..n /\ j - 1 \in 0..n
      OBVIOUS
    <3> QED BY <1>6, <3>1
  <2>4. from[i] # from[j]
    BY <1>10, <2>2, <2>3
  <2> QED BY <1>7, <1>11, <2>1, <2>4
<1>15. \A r \in R : From(r) = Lo(R) \/ \E q \in R : q.at = From(r)
  <2> SUFFICES ASSUME NEW r \in R PROVE From(r) = Lo(R) \/ \E q \in R : q.at = From(r)
    OBVIOUS
  <2>1. PICK i \in k..n : r = snapshots[i]
    BY <1>11
  <2>2. CASE i = k
    BY <1>7, <1>11, <1>12, <2>1, <2>2
  <2>3. CASE i # k
    <3>1. i - 1 \in k..n /\ i \in 1..n
      BY <2>3
    <3>2. snapshots[i - 1].at = at[i - 1] /\ snapshots[i - 1] \in R
      BY <1>7, <1>11, <3>1
    <3>3. From(r) = at[i - 1]
      BY <1>6, <1>7, <2>1, <3>1
    <3> QED BY <3>2, <3>3
  <2> QED BY <2>2, <2>3
<1>16. Lo(R) < Warmup /\ Warmup <= Lo(R) + Interval + Lag
  <2>1. k \in 0..n /\ k - 1 \in 0..n
    OBVIOUS
  <2>2. at[k] <= at[k - 1] + Interval + Lag /\ from[k] = at[k - 1] /\ at[k] \in Nat /\ at[k - 1] \in Nat
    BY <1>6, <2>1
  <2> QED BY <1>6, <1>8, <1>12, <2>2
<1>17. End <= Hi(R) + Interval + Lag
  <2>1. clock <= wake + Lag /\ wake = Cut(n) + Interval /\ at[n] = Cut(n) /\ Cut(n) \in Nat
    <3>1. n \in 0..n /\ n # 0
      OBVIOUS
    <3> QED BY <1>1, <1>2, <1>5, <3>1 DEF Ledger, Cutting, CampaignInv, Alive
  <2>2. End \in Nat /\ clock \in Nat
    BY <1>8, RunnerAssumption DEF End, TypeOK, CollectorTypeOK
  <2> QED BY <1>8, <1>13, <2>1, <2>2
\* The events of the saved windows.
<1>18. PICK owner : Owned(owner)
  BY DEF Ledger
<1> DEFINE A == DOMAIN arrivals
           U == {j \in A : owner[j] \in k..n}
<1>19. /\ IsFiniteSet(A)
       /\ \A j \in A : arrivals[j] \in Nat /\ owner[j] \in 1..n + 1
       /\ \A j \in A : at[owner[j] - 1] <= arrivals[j]
       /\ \A j \in A : owner[j] <= n => arrivals[j] <= at[owner[j]]
  <2>1. Len(arrivals) \in Nat /\ A = 1..Len(arrivals) /\ \A j \in A : arrivals[j] \in Nat
    BY <1>1
  <2>2. IsFiniteSet(A)
    BY <2>1, FS_Interval
  <2>3. ASSUME NEW j \in A
        PROVE  /\ owner[j] \in 1..n + 1 /\ at[owner[j] - 1] <= arrivals[j]
               /\ owner[j] <= n => arrivals[j] <= at[owner[j]]
    <3>1. PICK i \in 1..n + 1 : i = owner[j]
      BY <1>2, <1>18 DEF Owned
    <3>2. i - 1 \in 0..n /\ (i <= n => i \in 0..n)
      OBVIOUS
    <3>3. Cut(i - 1) <= arrivals[j] /\ (i <= n => arrivals[j] <= Cut(i))
      BY <1>2, <1>18, <3>1 DEF Owned
    <3>4. at[i - 1] = Cut(i - 1) /\ (i <= n => at[i] = Cut(i))
      BY <1>5, <3>2
    <3> QED BY <3>1, <3>3, <3>4
  <2> HIDE DEF A
  <2> QED BY <2>1, <2>2, <2>3
<1>20. EventsOf(R) = Cardinality(U)
  <2>1. PICK place \in [R -> k..n] : \A r \in R : r = snapshots[place[r]]
    <3> DEFINE p == [r \in R |-> CHOOSE i \in k..n : r = snapshots[i]]
    <3>1. p \in [R -> k..n] /\ \A r \in R : r = snapshots[p[r]]
      BY <1>11
    <3> HIDE DEF p
    <3> QED BY <3>1
  <2>2. \A i \in k..n : place[snapshots[i]] = i
    <3> SUFFICES ASSUME NEW i \in k..n PROVE place[snapshots[i]] = i
      OBVIOUS
    <3>1. PICK j \in k..n : j = place[snapshots[i]] /\ snapshots[j] = snapshots[i]
      BY <1>11, <2>1
    <3>2. at[i] = at[j]
      BY <1>7, <1>11, <3>1
    <3>3. i \in 1..n /\ j \in 1..n /\ at[i] \in Nat /\ at[j] \in Nat
      BY <1>6
    <3>4. ~ (i < j) /\ ~ (j < i)
      BY <1>6, <3>2, <3>3
    <3> QED BY <3>1, <3>4
  <2> DEFINE block == [r \in R |-> Mine(owner, place[r])]
  <2>3. block \in [R -> SUBSET A]
    BY DEF Mine
  <2>4. \A r \in R : Cardinality(block[r]) = r.events
    <3> SUFFICES ASSUME NEW r \in R PROVE Cardinality(block[r]) = r.events
      OBVIOUS
    <3>1. PICK i \in 1..n : i = place[r] /\ r = snapshots[i]
      BY <1>11, <2>1
    <3> QED BY <1>2, <1>18, <3>1 DEF Owned
  <2>5. \A q, r \in R : q # r => block[q] \cap block[r] = {}
    <3> SUFFICES ASSUME NEW q \in R, NEW r \in R, q # r PROVE block[q] \cap block[r] = {}
      OBVIOUS
    <3>1. place[q] # place[r]
      BY <2>1
    <3> QED BY <3>1 DEF Mine
  <2>6. IsFiniteSet(R)
    <3>1. IsFiniteSet(k..n)
      BY FS_Interval
    <3>2. place \in Injection(R, k..n)
      BY <2>1 DEF Injection, IsInjective
    <3> QED BY <3>1, <3>2, FS_Injection
  <2>7. UNION {block[r] : r \in R} = U
    <3>1. \A r \in R : block[r] \subseteq U
      BY <2>1 DEF Mine
    <3>2. ASSUME NEW j \in U PROVE \E r \in R : j \in block[r]
      <4>1. PICK i \in k..n : i = owner[j]
        OBVIOUS
      <4>2. snapshots[i] \in R /\ block[snapshots[i]] = Mine(owner, i)
        BY <1>11, <2>2
      <4>3. j \in Mine(owner, i)
        BY <4>1 DEF Mine
      <4> QED BY <4>2, <4>3
    <3> HIDE DEF block, U
    <3> QED BY <3>1, <3>2
  <2> HIDE DEF block, U, A
  <2>8. EventsOf(R) = Cardinality(UNION {block[r] : r \in R})
    BY <1>19, <2>3, <2>4, <2>5, <2>6, SumIsUnion
  <2> QED BY <2>7, <2>8
<1>21. \A j \in A : j \in U => arrivals[j] \in Lo(R)..Hi(R)
  <2> SUFFICES ASSUME NEW j \in A, owner[j] \in k..n PROVE arrivals[j] \in Lo(R)..Hi(R)
    OBVIOUS
  <2>1. PICK i \in k..n : i = owner[j]
    OBVIOUS
  <2>2. /\ i \in 1..n /\ i <= n /\ k <= i /\ i \in 0..n /\ i - 1 \in 0..n /\ k - 1 \in 0..n
        /\ n \in 0..n /\ k \in 1..n
    OBVIOUS
  <2>3. at[i - 1] <= arrivals[j] /\ arrivals[j] <= at[i] /\ arrivals[j] \in Nat
    BY <1>19, <2>1, <2>2
  <2>4. from[k] <= from[i] /\ at[i] <= at[n] /\ from[i] = at[i - 1] /\ from[k] = at[k - 1]
    BY <1>6, <1>9, <1>11, <2>2
  <2>5. at[i - 1] \in Nat /\ at[i] \in Nat /\ at[n] \in Nat /\ at[k - 1] \in Nat
    BY <1>6, <2>2
  <2> QED BY <1>12, <1>13, <2>3, <2>4, <2>5
<1>22. \A j \in A : arrivals[j] \in (Lo(R) + 1)..(Hi(R) - 1) => j \in U
  <2> SUFFICES ASSUME NEW j \in A, arrivals[j] \in (Lo(R) + 1)..(Hi(R) - 1) PROVE owner[j] \in k..n
    OBVIOUS
  <2>1. PICK i \in 1..n + 1 : i = owner[j]
    BY <1>19
  <2>2. k - 1 \in 0..n /\ n \in 0..n /\ k \in 1..n /\ at[k - 1] \in Nat /\ at[n] \in Nat
    BY <1>6
  <2>3. arrivals[j] \in Nat /\ at[k - 1] < arrivals[j] /\ arrivals[j] < at[n]
    <3>1. Lo(R) = at[k - 1] /\ Hi(R) = at[n]
      BY <1>6, <1>12, <1>13, <2>2
    <3> QED BY <1>19, <2>2, <3>1
  <2>4. ASSUME i = n + 1 PROVE FALSE
    <3>1. at[n] <= arrivals[j]
      <4>1. i - 1 = n
        BY <2>4
      <4> QED BY <1>19, <2>1, <4>1
    <3> QED BY <2>2, <2>3, <3>1
  <2>5. ASSUME i < k PROVE FALSE
    <3>1. i \in 1..n /\ i <= n /\ i \in 0..n /\ k - 1 \in 1..n /\ (i = k - 1 \/ i < k - 1)
      BY <2>5
    <3>2. arrivals[j] <= at[i] /\ at[i] \in Nat
      BY <1>6, <1>19, <2>1, <3>1
    <3>3. at[i] = at[k - 1] \/ at[i] < at[k - 1]
      BY <1>6, <3>1
    <3> QED BY <2>2, <2>3, <3>2, <3>3
  <2>6. i \in k..n
    BY <2>4, <2>5
  <2> QED BY <2>1, <2>6
<1>23. EventsOf(R) - Cardinality(Inside(R)) \in 0..Cardinality(AtEdges(R))
  <2>1. Inside(R) \in SUBSET U /\ U \in SUBSET (Inside(R) \cup AtEdges(R))
    <3>1. Inside(R) \in SUBSET U
      <4> HIDE DEF U
      <4> QED BY <1>22 DEF Inside
    <3>2. ASSUME NEW j \in U PROVE j \in Inside(R) \cup AtEdges(R)
      <4>1. j \in A /\ arrivals[j] \in Lo(R)..Hi(R)
        BY <1>21
      <4>2. Lo(R) \in Nat /\ Hi(R) \in Nat
        <5>1. k - 1 \in 0..n /\ n \in 0..n /\ k \in 1..n
          OBVIOUS
        <5> QED BY <1>6, <1>12, <1>13, <5>1
      <4>3. arrivals[j] \in (Lo(R) + 1)..(Hi(R) - 1) \/ arrivals[j] \in {Lo(R), Hi(R)}
        BY <4>1, <4>2
      <4> QED BY <4>1, <4>3 DEF Inside, AtEdges
    <3> QED BY <3>1, <3>2
  <2>2. Inside(R) \cap AtEdges(R) = {}
    <3>1. ASSUME NEW j \in Inside(R), j \in AtEdges(R) PROVE FALSE
      <4>1. arrivals[j] \in (Lo(R) + 1)..(Hi(R) - 1) /\ arrivals[j] \in {Lo(R), Hi(R)}
        BY <3>1 DEF Inside, AtEdges
      <4>2. Lo(R) \in Nat /\ Hi(R) \in Nat
        <5>1. k - 1 \in 0..n /\ n \in 0..n /\ k \in 1..n
          OBVIOUS
        <5> QED BY <1>6, <1>12, <1>13, <5>1
      <4> QED BY <4>1, <4>2
    <3> QED BY <3>1
  <2>3. Inside(R) \in SUBSET A /\ AtEdges(R) \in SUBSET A /\ U \in SUBSET A
    BY DEF Inside, AtEdges
  <2>4. PICK I, E, V : I = Inside(R) /\ E = AtEdges(R) /\ V = U
    OBVIOUS
  <2>5. IsFiniteSet(I) /\ IsFiniteSet(E) /\ IsFiniteSet(V) /\ IsFiniteSet(I \cup E)
        /\ Cardinality(I \cup E) = Cardinality(I) + Cardinality(E) - Cardinality(I \cap E)
    <3>1. IsFiniteSet(I) /\ IsFiniteSet(E) /\ IsFiniteSet(V)
      BY <1>19, <2>3, <2>4, FS_Subset
    <3> QED BY <3>1, FS_Union
  <2>6. Cardinality(I) <= Cardinality(V) /\ Cardinality(V) <= Cardinality(I \cup E)
    BY <2>1, <2>4, <2>5, FS_Subset
  <2>7. Cardinality(I \cap E) = 0
    BY <2>2, <2>4, FS_EmptySet
  <2>8. Cardinality(I) \in Nat /\ Cardinality(E) \in Nat /\ Cardinality(V) \in Nat
    BY <2>5, FS_CardinalityType
  <2>9. Cardinality(V) - Cardinality(I) \in 0..Cardinality(E)
    BY <2>5, <2>6, <2>7, <2>8
  <2> QED BY <1>20, <2>4, <2>9
<1> QED BY <1>4, <1>14, <1>15, <1>16, <1>17, <1>23 DEF Covers

-----------------------------------------------------------------------------
SavedInv == (step = "measuring" => Ledger) /\ SavedWindows

LEMMA NothingSaved == ASSUME rows' = {} PROVE SavedWindows'
BY DEF SavedWindows

LEMMA SameSaved == ASSUME SavedWindows, UNCHANGED <<rows, arrivals>> PROVE SavedWindows'
BY DEF SavedWindows, From, MapThenSumSet, MapThenFoldSet

LEMMA SavedStep ==
  FiguresInv /\ CampaignInv /\ TypeOK /\ SavedInv /\ [Next]_vars => SavedInv'
<1> SUFFICES ASSUME FiguresInv, CampaignInv, TypeOK, SavedInv, [Next]_vars PROVE SavedInv'
  OBVIOUS
<1>1. CASE ApplyNetworkProfile
  <2>1. step' # "measuring" /\ UNCHANGED <<rows, arrivals>>
    BY <1>1 DEF ApplyNetworkProfile, collectorVars
  <2> QED BY <2>1, SameSaved DEF SavedInv
<1>2. CASE StartRun
  <2>1. Ledger'
    BY <1>2, LedgerOpens
  <2>2. SavedWindows'
    BY <2>1, NothingSaved DEF Ledger
  <2> QED BY <2>1, <2>2 DEF SavedInv
<1>3. CASE Measure
  <2>1. step = "measuring" /\ rows' = rows /\ Ledger /\ Alive
    BY <1>3 DEF Measure, runnerVars, SavedInv, CampaignInv
  <2>2. Ledger'
    BY <1>3, <2>1, TickKeepsLedger, LoopKeepsLedger, RecordKeepsLedger DEF Measure
  <2>3. SavedWindows'
    BY <2>2, NothingSaved DEF Ledger
  <2> QED BY <2>2, <2>3 DEF SavedInv
<1>4. CASE EndRun
  <2>1. step = "measuring" /\ clock >= End /\ step' # "measuring" /\ UNCHANGED <<snapshots, arrivals>>
    BY <1>4 DEF EndRun, Advance, Stop
  <2>2. Ledger
    BY <2>1 DEF SavedInv
  <2>3. Covers(GetSnapshots)
    BY <2>1, <2>2, SavedCovers
  <2>4. CASE rows' = rows
    BY <2>1, <2>4, SameSaved DEF SavedInv
  <2>5. CASE rows' = GetSnapshots
    <3>1. Covers(rows)'
      BY <2>1, <2>3, <2>5 DEF Covers, Lo, Hi, Inside, AtEdges, EventsOf, From, MapThenSumSet, MapThenFoldSet
    <3>2. SavedWindows'
      BY <3>1, CoversNext
    <3> QED BY <2>1, <3>2 DEF SavedInv
  <2> QED BY <1>4, <2>4, <2>5 DEF EndRun
<1>5. CASE Restart
  <2>1. step' = "next" /\ rows' = {}
    BY <1>5 DEF Restart
  <2>2. SavedWindows'
    BY <2>1, NothingSaved
  <2> QED BY <2>1, <2>2 DEF SavedInv
<1>6. CASE UNCHANGED vars \/ GeneratorFails
  <2>1. /\ UNCHANGED <<step, rows, arrivals, snapshots, clock, wake, since, ingested>>
    BY <1>6 DEF vars, GeneratorFails, collectorVars, runnerVars, window
  <2>2. Ledger => Ledger'
    BY <2>1 DEF Ledger, Cutting, Owned, Mine, Cut, N
  <2> QED BY <2>1, <2>2, SameSaved DEF SavedInv
<1> QED BY <1>1, <1>2, <1>3, <1>4, <1>5, <1>6 DEF Next

\* What a run saves covers its time after the warm-up without a gap, and counts every
\* event of that time once, however the collection loop and the run are delayed and
\* however many events arrive (get_snapshots, _build_snapshot).
THEOREM WindowsAreSaved == Spec => []SavedWindows
<1>1. Init => SavedInv
  <2> SUFFICES ASSUME Init PROVE SavedInv
    OBVIOUS
  <2>1. step = "next" /\ rows = {}
    BY DEF Init
  <2> QED BY <2>1 DEF SavedInv, SavedWindows
<1>2. SavedInv => SavedWindows
  BY DEF SavedInv
<1> QED BY <1>1, <1>2, SavedStep, CampaignInit, FiguresStep, CampaignStep, CampaignTypeCorrect, PTL DEF Spec
=============================================================================
