-------------------------- MODULE Recalibration_proofs --------------------------
(* Proofs about Recalibration: scores are numbers whatever the telemetry says, *)
(* every operator gets a turn, the assignment fits, and moves pay off.         *)
EXTENDS Recalibration, FiniteSetTheorems, WellFoundedInduction, TLAPS

-----------------------------------------------------------------------------
(* Scores are numbers.                                                      *)

LEMMA Product == ASSUME NEW a \in Nat, NEW b \in Nat PROVE a * b \in Nat
OBVIOUS

LEMMA Quotient == ASSUME NEW a \in Nat, NEW b \in Nat \ {0} PROVE a \div b \in Nat
OBVIOUS

LEMMA MaxIs ==
  ASSUME NEW a \in Int, NEW b \in Int
  PROVE  Max({a, b}) = IF a >= b THEN a ELSE b
<1>1. PICK m \in {a, b} : m = IF a >= b THEN a ELSE b
  OBVIOUS
<1>2. \A y \in {a, b} : m >= y
  BY <1>1
<1>3. \A x \in {a, b} : (\A y \in {a, b} : x >= y) => x = m
  BY <1>1
<1> QED BY <1>1, <1>2, <1>3 DEF Max

LEMMA MinIs ==
  ASSUME NEW a \in Int, NEW b \in Int
  PROVE  Min({a, b}) = IF a <= b THEN a ELSE b
<1>1. PICK m \in {a, b} : m = IF a <= b THEN a ELSE b
  OBVIOUS
<1>2. \A y \in {a, b} : m <= y
  BY <1>1
<1>3. \A x \in {a, b} : (\A y \in {a, b} : x <= y) => x = m
  BY <1>1
<1> QED BY <1>1, <1>2, <1>3 DEF Min

LEMMA PhiResIsNat ==
  ASSUME NEW table \in Table, NEW t \in Tier
  PROVE  PhiRes(table, t) \in Nat
<1>1. Utilization(table, t) \in 0 .. 100
  <2>1. CASE Answered(table, t)
    <3>1. t \in Node /\ table[t] \in Report
      BY <2>1 DEF Answered, Table, Down
    <3>2. table[t].cpu \in 0 .. 100 /\ table[t].mem \in 0 .. 100
      BY <3>1, TelemetryAssumption
    <3>3. PICK c \in 0 .. 100, m \in 0 .. 100 : c = table[t].cpu /\ m = table[t].mem
      BY <3>2
    <3>4. Max({c, m}) = IF c >= m THEN c ELSE m
      BY MaxIs
    <3> QED BY <2>1, <3>3, <3>4 DEF Utilization
  <2> QED BY <2>1 DEF Utilization
<1>2. PICK u \in 0 .. 100 : u = Utilization(table, t)
  BY <1>1
<1>3. PICK rho \in 0 .. 99 : rho = Min({u, 99})
  <2>1. Min({u, 99}) = IF u <= 99 THEN u ELSE 99
    BY MinIs
  <2> QED BY <2>1
<1>4. Kappa * rho \in Nat
  BY Product, ScoringAssumption
<1>5. 100 - rho \in Nat \ {0}
  OBVIOUS
<1>6. (Kappa * rho) \div (100 - rho) \in Nat
  BY <1>4, <1>5, Quotient
<1> QED BY <1>2, <1>3, <1>6 DEF PhiRes

LEMMA PhiNetIsNat ==
  ASSUME NEW table \in Table, NEW t \in Tier
  PROVE  PhiNet(table, t) \in Nat
<1>1. CASE Answered(table, t)
  <2>1. table[t] \in Report
    BY <1>1 DEF Answered, Table, Down
  <2>2. table[t].rtt \in Nat
    BY <2>1, TelemetryAssumption
  <2> QED BY <1>1, <2>2 DEF PhiNet
<1> QED BY <1>1 DEF PhiNet

LEMMA TablesOfOperators ==
  ASSUME NEW o \in Op
  PROVE  LambdaMap[o] \in Nat /\ SloMap[o] \in Nat \ {0}
<1>1. o \in DOMAIN SloMap
  BY ScoringAssumption DEF Op
<1> QED BY <1>1 DEF SloMap, LambdaMap, NoSlo, Critical, Standard, Batch

LEMMA PhiLatIsNat ==
  ASSUME NEW o \in Op, NEW lat \in Nat
  PROVE  PhiLat(o, lat) \in Nat
<1>1. LambdaMap[o] * lat \in Nat
  BY TablesOfOperators, Product
<1> QED BY <1>1, Quotient DEF PhiLat

LEMMA PhiSloIsNat ==
  ASSUME NEW o \in Op, NEW lat \in Nat
  PROVE  PhiSlo(o, lat) \in Nat
<1>1. PICK s \in Nat \ {0} : s = SloMap[o]
  BY TablesOfOperators
<1>2. CASE lat <= s
  BY <1>1, <1>2 DEF PhiSlo
<1>3. CASE ~ (lat <= s)
  <2>1. PICK d \in Nat : d = lat - s
    BY <1>3
  <2>2. SloPenalty * d \in Nat
    BY Product, ScoringAssumption
  <2>3. (SloPenalty * d) \div s \in Nat
    BY <2>2, Quotient
  <2> QED BY <1>1, <1>3, <2>1, <2>3 DEF PhiSlo
<1> QED BY <1>2, <1>3

LEMMA Weights ==
  ASSUME NEW name \in DOMAIN WEIGHT_PRESETS
  PROVE  WEIGHT_PRESETS[name] \in [lat : Nat, res : Nat, net : Nat, slo : Nat]
BY DEF WEIGHT_PRESETS, WeightPreset

\* What a tier costs whoever runs there, and what an operator costs wherever it runs.
CostOf(table, name, t) ==
  WEIGHT_PRESETS[name].res * PhiRes(table, t) + WEIGHT_PRESETS[name].net * PhiNet(table, t)
OwnOf(name, o, lat) ==
  WEIGHT_PRESETS[name].lat * PhiLat(o, lat) + WEIGHT_PRESETS[name].slo * PhiSlo(o, lat)

LEMMA CostsAreNat ==
  ASSUME NEW table \in Table, NEW name \in DOMAIN WEIGHT_PRESETS, NEW t \in Tier
  PROVE  CostOf(table, name, t) \in Nat
<1>1. PICK w \in [lat : Nat, res : Nat, net : Nat, slo : Nat] : w = WEIGHT_PRESETS[name]
  BY Weights
<1>2. w.res * PhiRes(table, t) \in Nat /\ w.net * PhiNet(table, t) \in Nat
  BY Product, PhiResIsNat, PhiNetIsNat
<1> QED BY <1>1, <1>2 DEF CostOf

LEMMA OwnSharesAreNat ==
  ASSUME NEW name \in DOMAIN WEIGHT_PRESETS, NEW o \in Op, NEW lat \in Nat
  PROVE  OwnOf(name, o, lat) \in Nat
<1>1. PICK w \in [lat : Nat, res : Nat, net : Nat, slo : Nat] : w = WEIGHT_PRESETS[name]
  BY Weights
<1>2. w.lat * PhiLat(o, lat) \in Nat /\ w.slo * PhiSlo(o, lat) \in Nat
  BY Product, PhiLatIsNat, PhiSloIsNat
<1> QED BY <1>1, <1>2 DEF OwnOf

\* A score is the sum of the two.
LEMMA ScoreSplits ==
  ASSUME NEW table \in Table, NEW latency \in [Op -> Nat], NEW name \in DOMAIN WEIGHT_PRESETS,
         NEW o \in Op, NEW t \in Tier
  PROVE  ComputeScores(table, latency, WEIGHT_PRESETS[name])[o][t]
           = OwnOf(name, o, latency[o]) + CostOf(table, name, t)
<1>1. PICK w \in [lat : Nat, res : Nat, net : Nat, slo : Nat] : w = WEIGHT_PRESETS[name]
  BY Weights
<1>2. PICK l \in Nat : l = latency[o]
  OBVIOUS
<1>3. PICK a \in Nat, b \in Nat, c \in Nat, d \in Nat :
        /\ a = w.lat * PhiLat(o, l) /\ b = w.res * PhiRes(table, t)
        /\ c = w.net * PhiNet(table, t) /\ d = w.slo * PhiSlo(o, l)
  BY Product, PhiLatIsNat, PhiResIsNat, PhiNetIsNat, PhiSloIsNat
<1>4. ComputeScores(table, latency, w)[o][t] = a + b + c + d
  BY <1>2, <1>3 DEF ComputeScores
<1>5. OwnOf(name, o, l) = a + d /\ CostOf(table, name, t) = b + c
  BY <1>1, <1>3 DEF OwnOf, CostOf
<1>6. a + b + c + d = (a + d) + (b + c)
  OBVIOUS
<1> QED BY <1>1, <1>2, <1>4, <1>5, <1>6

Score == [Op -> [Tier -> Nat]]

LEMMA ScoresAreNat ==
  ASSUME NEW table \in Table, NEW latency \in [Op -> Nat], NEW name \in DOMAIN WEIGHT_PRESETS
  PROVE  ComputeScores(table, latency, WEIGHT_PRESETS[name]) \in Score
<1>1. PICK score : score = ComputeScores(table, latency, WEIGHT_PRESETS[name])
  OBVIOUS
<1>2. score = [o \in Op |-> [t \in Tier |-> score[o][t]]]
  BY <1>1 DEF ComputeScores
<1>3. ASSUME NEW o \in Op, NEW t \in Tier PROVE score[o][t] \in Nat
  <2>1. PICK own \in Nat, cost \in Nat :
          own = OwnOf(name, o, latency[o]) /\ cost = CostOf(table, name, t)
    BY CostsAreNat, OwnSharesAreNat
  <2> QED BY <1>1, <2>1, ScoreSplits
<1> QED BY <1>1, <1>2, <1>3 DEF Score

-----------------------------------------------------------------------------
(* Everybody gets a turn.  The order in which the operators choose is strict  *)
(* and total, so that an operator's turn is told by how many come before it.  *)

LEMMA LeastNumber ==
  ASSUME NEW T \in SUBSET Nat, T # {}
  PROVE  \E n \in T : \A m \in T : n <= m
<1>1. PICK n \in T : \A m \in T : ~ (<<m, n>> \in OpToRel(<, Nat))
  BY NatLessThanWellFounded, WFMin
<1>2. \A m \in T : ~ (m < n)
  BY <1>1 DEF OpToRel
<1> QED BY <1>2

LEMMA OpPlaces ==
  /\ Len(Ops) \in Nat
  /\ \A o \in Op : Place(o, Ops) \in 1 .. Len(Ops) /\ Ops[Place(o, Ops)] = o
BY ScoringAssumption DEF Place, Op

LEMMA TierPlaces ==
  /\ Len(Tiers) \in Nat
  /\ \A t \in Tier : Place(t, Tiers) \in 1 .. Len(Tiers) /\ Tiers[Place(t, Tiers)] = t
BY ScoringAssumption DEF Place, Tier

LEMMA OpsAreFinite == IsFiniteSet(Op) /\ Cardinality(Op) = Len(Ops)
<1>1. PICK n \in Nat : n = Len(Ops)
  BY OpPlaces
<1> DEFINE f == [i \in 1 .. n |-> Ops[i]]
<1>2. f \in Surjection(1 .. n, Op)
  BY <1>1 DEF Op, Surjection
<1>3. f \in Injection(1 .. n, Op)
  BY <1>1, <1>2, ScoringAssumption DEF Op, Injection, Surjection, IsInjective
<1>4. IsFiniteSet(1 .. n) /\ Cardinality(1 .. n) = n
  BY FS_Interval
<1> QED BY <1>1, <1>2, <1>3, <1>4, FS_Surjection

LEMMA LeastScoreIs ==
  ASSUME NEW score \in Score, NEW o \in Op
  PROVE  LeastScore(score, o) \in Nat
<1> DEFINE T == {score[o][t] : t \in Tier}
<1>1. T \in SUBSET Nat /\ T # {}
  BY ScoringAssumption DEF Score
<1>2. \E n \in T : \A m \in T : n <= m
  BY <1>1, LeastNumber
<1> HIDE DEF T
<1>3. Min(T) \in T
  BY <1>2 DEF Min
<1> QED BY <1>1, <1>3 DEF LeastScore, T

Ahead(score, o) == {p \in Op : Before(score, p, o)}

LEMMA OrderIsStrict ==
  ASSUME NEW score \in Score
  PROVE  /\ \A o \in Op : ~ Before(score, o, o)
         /\ \A o, p \in Op : o = p \/ Before(score, o, p) \/ Before(score, p, o)
         /\ \A o, p, q \in Op : Before(score, o, p) /\ Before(score, p, q) => Before(score, o, q)
<1> DEFINE least == [o \in Op |-> LeastScore(score, o)]
           place == [o \in Op |-> Place(o, Ops)]
<1>1. \A o \in Op : least[o] \in Nat /\ place[o] \in Int
  BY LeastScoreIs, OpPlaces
<1>2. \A o, p \in Op : place[o] = place[p] => o = p
  <2> SUFFICES ASSUME NEW o \in Op, NEW p \in Op, place[o] = place[p] PROVE o = p
    OBVIOUS
  <2>1. Ops[Place(o, Ops)] = o /\ Ops[Place(p, Ops)] = p
    BY OpPlaces
  <2> QED BY <2>1
<1>3. \A o, p \in Op :
        Before(score, o, p) <=> \/ least[o] > least[p]
                                \/ least[o] = least[p] /\ place[o] < place[p]
  BY DEF Before
<1> HIDE DEF least, place
<1>4. \A o \in Op : ~ Before(score, o, o)
  BY <1>1, <1>3
<1>5. \A o, p \in Op : o = p \/ Before(score, o, p) \/ Before(score, p, o)
  BY <1>1, <1>2, <1>3
<1>6. \A o, p, q \in Op : Before(score, o, p) /\ Before(score, p, q) => Before(score, o, q)
  BY <1>1, <1>3
<1> QED BY <1>4, <1>5, <1>6

LEMMA AheadIs ==
  ASSUME NEW score \in Score, NEW o \in Op
  PROVE  /\ IsFiniteSet(Ahead(score, o))
         /\ Cardinality(Ahead(score, o)) \in 0 .. Len(Ops) - 1
<1>1. Ahead(score, o) \in SUBSET Op /\ o \notin Ahead(score, o)
  BY OrderIsStrict DEF Ahead
<1>2. PICK n \in Nat, c \in Nat : n = Len(Ops) /\ c = Cardinality(Ahead(score, o))
  BY <1>1, OpPlaces, OpsAreFinite, FS_Subset, FS_CardinalityType
<1>3. IsFiniteSet(Ahead(score, o)) /\ c <= n /\ c # n
  BY <1>1, <1>2, OpsAreFinite, FS_Subset
<1>4. c \in 0 .. n - 1
  BY <1>3
<1> QED BY <1>2, <1>3, <1>4

\* Whoever comes earlier has fewer before it.
LEMMA EarlierHasFewer ==
  ASSUME NEW score \in Score, NEW o \in Op, NEW p \in Op, Before(score, p, o)
  PROVE  Cardinality(Ahead(score, p)) < Cardinality(Ahead(score, o))
<1>1. Ahead(score, p) \in SUBSET Ahead(score, o)
  BY OrderIsStrict DEF Ahead
<1>2. p \in Ahead(score, o) /\ p \notin Ahead(score, p)
  BY OrderIsStrict DEF Ahead
<1>3. PICK c \in Nat, d \in Nat : c = Cardinality(Ahead(score, p)) /\ d = Cardinality(Ahead(score, o))
  BY AheadIs, FS_CardinalityType
<1>4. c <= d /\ c # d
  BY <1>1, <1>2, <1>3, AheadIs, FS_Subset
<1> QED BY <1>3, <1>4

\* So every number of predecessors below the number of operators occurs, once.
LEMMA TurnIs ==
  ASSUME NEW score \in Score, NEW k \in 1 .. Len(Ops)
  PROVE  /\ Turn(score, k) \in Op
         /\ Cardinality(Ahead(score, Turn(score, k))) = k - 1
<1>1. PICK n \in Nat : n = Len(Ops)
  BY OpPlaces
<1> DEFINE rank == [o \in Op |-> Cardinality(Ahead(score, o))]
           R    == 0 .. n - 1
<1>2. rank \in [Op -> R]
  BY <1>1, AheadIs
<1>3. \A o, p \in Op : rank[o] = rank[p] => o = p
  <2> SUFFICES ASSUME NEW o \in Op, NEW p \in Op, rank[o] = rank[p], o # p PROVE FALSE
    OBVIOUS
  <2>1. rank[o] \in R /\ rank[p] \in R
    BY <1>2
  <2>2. Before(score, o, p) \/ Before(score, p, o)
    BY OrderIsStrict
  <2>3. rank[o] < rank[p] \/ rank[p] < rank[o]
    BY <2>2, EarlierHasFewer
  <2> HIDE DEF rank
  <2> QED BY <2>1, <2>3
<1>4. rank \in Injection(Op, R)
  BY <1>2, <1>3 DEF Injection, IsInjective
<1>5. IsFiniteSet(R) /\ Cardinality(R) = n
  BY FS_Interval
<1>6. rank \in Surjection(Op, R)
  BY <1>1, <1>4, <1>5, OpsAreFinite, FS_Injection
<1>7. PICK o \in Op : rank[o] = k - 1
  <2>1. k - 1 \in R
    BY <1>1
  <2> QED BY <1>6, <2>1 DEF Surjection
<1>8. \E q \in Op : Cardinality({p \in Op : Before(score, p, q)}) = k - 1
  BY <1>7 DEF Ahead
<1> QED BY <1>8 DEF Turn, Ahead

-----------------------------------------------------------------------------
(* One turn.                                                                *)

LEMMA CheapestIsFree ==
  ASSUME NEW score \in Score, NEW o \in Op, NEW free \in SUBSET Tier, free # {}
  PROVE  /\ Cheapest(score, o, free) \in free
         /\ \A t \in free : score[o][Cheapest(score, o, free)] <= score[o][t]
<1> DEFINE S == {score[o][t] : t \in free}
           cost == [t \in free |-> score[o][t]]
           place == [t \in free |-> Place(t, Tiers)]
<1>1. \A t \in free : cost[t] \in Nat /\ place[t] \in Nat
  BY TierPlaces DEF Score
<1>2. \A t, u \in free : place[t] = place[u] => t = u
  <2> SUFFICES ASSUME NEW t \in free, NEW u \in free, place[t] = place[u] PROVE t = u
    OBVIOUS
  <2>1. Tiers[Place(t, Tiers)] = t /\ Tiers[Place(u, Tiers)] = u
    BY TierPlaces
  <2> QED BY <2>1
<1>3. S \in SUBSET Nat /\ S # {}
  BY <1>1
<1>4. PICK c \in S : \A d \in S : c <= d
  BY <1>3, LeastNumber
<1> DEFINE P == {place[t] : t \in {u \in free : cost[u] = c}}
<1>5. P \in SUBSET Nat /\ P # {}
  BY <1>1, <1>4
<1>6. PICK q \in P : \A r \in P : q <= r
  BY <1>5, LeastNumber
<1>7. PICK t \in free : cost[t] = c /\ place[t] = q
  BY <1>6
<1>8. ASSUME NEW u \in free \ {t}
      PROVE  cost[t] < cost[u] \/ (cost[t] = cost[u] /\ place[t] < place[u])
  <2>1. c <= cost[u] /\ c \in Nat
    BY <1>3, <1>4
  <2>2. CASE cost[u] = c
    <3>1. q <= place[u] /\ q # place[u] /\ q \in Nat
      BY <1>2, <1>5, <1>6, <1>7, <1>8, <2>2
    <3> QED BY <1>1, <1>7, <2>2, <3>1
  <2>3. CASE cost[u] # c
    BY <1>1, <1>7, <2>1, <2>3
  <2> QED BY <2>2, <2>3
<1>9. \E x \in free : \A u \in free \ {x} :
        \/ score[o][x] < score[o][u]
        \/ score[o][x] = score[o][u] /\ Place(x, Tiers) < Place(u, Tiers)
  BY <1>8
<1>10. PICK x \in free :
         /\ x = Cheapest(score, o, free)
         /\ \A u \in free \ {x} :
              \/ score[o][x] < score[o][u]
              \/ score[o][x] = score[o][u] /\ Place(x, Tiers) < Place(u, Tiers)
  BY <1>9 DEF Cheapest
<1>11. \A u \in free : cost[x] <= cost[u]
  <2> SUFFICES ASSUME NEW u \in free PROVE cost[x] <= cost[u]
    OBVIOUS
  <2>1. cost[x] < cost[u] \/ cost[x] = cost[u]
    BY <1>10
  <2> QED BY <1>1, <2>1
<1> QED BY <1>10, <1>11

\* Within the capacities, or with the cloud beyond its own and all others full.
Kept(p) ==
  \/ Fits(p)
  \/ \A t \in Tier : /\ t # Cloud => Load(p, t) = Capacity[t]
                     /\ t = Cloud => Load(p, t) > Capacity[t]

LEMMA LoadIsNat ==
  ASSUME NEW D \in SUBSET Op, NEW placed \in [D -> Tier], NEW t \in Tier
  PROVE  IsFiniteSet({o \in D : placed[o] = t}) /\ Load(placed, t) \in Nat
<1>1. {o \in D : placed[o] = t} \in SUBSET Op
  OBVIOUS
<1>2. {o \in D : placed[o] = t} = {o \in DOMAIN placed : placed[o] = t}
  OBVIOUS
<1> QED BY <1>1, <1>2, OpsAreFinite, FS_Subset, FS_CardinalityType DEF Load

LEMMA ChoiceIs ==
  ASSUME NEW score \in Score, NEW o \in Op, NEW D \in SUBSET Op, NEW placed \in [D -> Tier]
  PROVE  /\ Choice(score, placed, o) \in Tier
         /\ Free(placed) # {} => Choice(score, placed, o) \in Free(placed)
         /\ Free(placed) = {} => Choice(score, placed, o) = Cloud
<1>1. Free(placed) \in SUBSET Tier
  BY DEF Free
<1>2. CASE Free(placed) = {}
  BY <1>2, ScoringAssumption DEF Choice
<1>3. CASE Free(placed) # {}
  BY <1>1, <1>3, CheapestIsFree DEF Choice
<1> QED BY <1>2, <1>3

LEMMA LoadGrows ==
  ASSUME NEW score \in Score, NEW D \in SUBSET Op, NEW o \in Op \ D, NEW placed \in [D -> Tier],
         NEW t \in Tier
  PROVE  Load(Choose(score, placed, o), t)
           = IF t = Choice(score, placed, o) THEN Load(placed, t) + 1 ELSE Load(placed, t)
<1> DEFINE next == Choose(score, placed, o)
           c    == Choice(score, placed, o)
           old  == {p \in D : placed[p] = t}
<1>1. next = [p \in D \union {o} |-> IF p = o THEN c ELSE placed[p]]
  BY DEF Choose
<1>2. {p \in DOMAIN next : next[p] = t} = IF t = c THEN old \union {o} ELSE old
  BY <1>1
<1>3. IsFiniteSet(old) /\ o \notin old /\ old = {p \in DOMAIN placed : placed[p] = t}
  BY LoadIsNat
<1>4. Cardinality(old \union {o}) = Cardinality(old) + 1
  BY <1>3, FS_AddElement
<1> HIDE DEF next, c, old
<1> QED BY <1>2, <1>3, <1>4 DEF Load, next, c

LEMMA TurnKeeps ==
  ASSUME NEW score \in Score, NEW D \in SUBSET Op, NEW o \in Op \ D, NEW placed \in [D -> Tier],
         Kept(placed)
  PROVE  /\ Choose(score, placed, o) \in [D \union {o} -> Tier]
         /\ Kept(Choose(score, placed, o))
<1> DEFINE next == Choose(score, placed, o)
           c    == Choice(score, placed, o)
           old  == [t \in Tier |-> Load(placed, t)]
           new  == [t \in Tier |-> Load(next, t)]
<1>1. next \in [D \union {o} -> Tier]
  BY ChoiceIs DEF Choose
<1>2. /\ \A t \in Tier : old[t] \in Nat /\ new[t] = IF t = c THEN old[t] + 1 ELSE old[t]
      /\ \A t \in Tier : Capacity[t] \in Nat
      /\ c \in Tier /\ Cloud \in Tier
  <2>1. c \in Tier
    BY ChoiceIs
  <2>2. \A t \in Tier : Load(placed, t) \in Nat
    BY LoadIsNat
  <2>3. \A t \in Tier : Load(next, t) = IF t = c THEN Load(placed, t) + 1 ELSE Load(placed, t)
    BY LoadGrows
  <2> HIDE DEF next, c
  <2> QED BY <2>1, <2>2, <2>3, ScoringAssumption
<1>3. Kept(placed) <=> \/ \A t \in Tier : old[t] <= Capacity[t]
                       \/ \A t \in Tier : /\ t # Cloud => old[t] = Capacity[t]
                                          /\ t = Cloud => old[t] > Capacity[t]
  BY DEF Kept, Fits
<1>4. Kept(next) <=> \/ \A t \in Tier : new[t] <= Capacity[t]
                     \/ \A t \in Tier : /\ t # Cloud => new[t] = Capacity[t]
                                        /\ t = Cloud => new[t] > Capacity[t]
  BY DEF Kept, Fits
<1>5. \/ old[c] < Capacity[c]
      \/ c = Cloud /\ \A t \in Tier : old[t] >= Capacity[t]
  <2>1. CASE Free(placed) = {}
    <3>1. c = Cloud
      BY <2>1, ChoiceIs
    <3>2. \A t \in Tier : ~ (Load(placed, t) < Capacity[t])
      BY <2>1 DEF Free
    <3> QED BY <1>2, <3>1, <3>2
  <2>2. CASE Free(placed) # {}
    BY <2>2, ChoiceIs DEF Free
  <2> QED BY <2>1, <2>2
<1> HIDE DEF next, c, old, new
<1>6. CASE old[c] < Capacity[c]
  <2>1. \A t \in Tier : old[t] <= Capacity[t]
    BY <1>2, <1>3, <1>6
  <2>2. \A t \in Tier : new[t] <= Capacity[t]
    BY <1>2, <1>6, <2>1
  <2> QED BY <1>1, <1>4, <2>2 DEF next
<1>7. CASE c = Cloud /\ \A t \in Tier : old[t] >= Capacity[t]
  <2>1. \A t \in Tier : t # Cloud => old[t] = Capacity[t]
    BY <1>2, <1>3, <1>7
  <2>2. \A t \in Tier : /\ t # Cloud => new[t] = Capacity[t]
                        /\ t = Cloud => new[t] > Capacity[t]
    BY <1>2, <1>7, <2>1
  <2> QED BY <1>1, <1>4, <2>2 DEF next
<1> QED BY <1>5, <1>6, <1>7

-----------------------------------------------------------------------------
(* All turns.  The recursive function exists: its prefixes do, one turn after *)
(* the other.                                                               *)

IsPrefix(f, score, m) ==
  f = [k \in 0 .. m |-> IF k = 0 THEN <<>> ELSE Choose(score, f[k - 1], Turn(score, k))]

LEMMA PrefixGrows ==
  ASSUME NEW score, NEW m \in Nat, NEW f, IsPrefix(f, score, m)
  PROVE  \E g : IsPrefix(g, score, m + 1)
<1> DEFINE step(p, k) == Choose(score, p, Turn(score, k))
           g == [k \in 0 .. m + 1 |-> IF k = m + 1 THEN step(f[m], m + 1) ELSE f[k]]
<1> HIDE DEF step
<1>1. \A k \in 0 .. m : f[k] = IF k = 0 THEN <<>> ELSE step(f[k - 1], k)
  BY DEF IsPrefix, step
<1>2. \A k \in 0 .. m : g[k] = f[k]
  OBVIOUS
<1>3. ASSUME NEW k \in 0 .. m + 1
      PROVE  g[k] = IF k = 0 THEN <<>> ELSE step(g[k - 1], k)
  <2>1. CASE k = m + 1
    <3>1. g[k] = step(f[m], m + 1) /\ k - 1 = m /\ k # 0
      BY <2>1
    <3>2. g[m] = f[m]
      BY <1>2
    <3> QED BY <2>1, <3>1, <3>2
  <2>2. CASE k \in 1 .. m
    <3>1. g[k] = f[k] /\ f[k] = step(f[k - 1], k) /\ k # 0
      BY <1>1, <1>2, <2>2
    <3>2. k - 1 \in 0 .. m /\ g[k - 1] = f[k - 1]
      BY <1>2, <2>2
    <3> QED BY <3>1, <3>2
  <2>3. CASE k = 0
    BY <1>1, <1>2, <2>3
  <2> QED BY <2>1, <2>2, <2>3
<1>4. g = [k \in 0 .. m + 1 |-> g[k]]
  OBVIOUS
<1> HIDE DEF g
<1>5. g = [k \in 0 .. m + 1 |-> IF k = 0 THEN <<>> ELSE step(g[k - 1], k)]
  BY <1>3, <1>4
<1>6. IsPrefix(g, score, m + 1)
  BY <1>5 DEF IsPrefix, step
<1> QED BY <1>6

LEMMA PrefixExists ==
  ASSUME NEW score, NEW n \in Nat
  PROVE  \E f : IsPrefix(f, score, n)
<1> DEFINE T == {m \in Nat : ~ \E f : IsPrefix(f, score, m)}
<1> SUFFICES T = {}
  OBVIOUS
<1> SUFFICES ASSUME T # {} PROVE FALSE
  OBVIOUS
<1>1. PICK m \in T : \A l \in T : m <= l
  BY LeastNumber
<1>2. CASE m = 0
  <2>1. IsPrefix([k \in 0 .. 0 |-> <<>>], score, 0)
    BY DEF IsPrefix
  <2> QED BY <1>1, <1>2, <2>1
<1>3. CASE m # 0
  <2>1. PICK l \in Nat : m = l + 1
    <3>1. m - 1 \in Nat /\ m = (m - 1) + 1
      BY <1>1, <1>3
    <3> QED BY <3>1
  <2>2. l \notin T
    BY <1>1, <2>1
  <2>3. PICK f : IsPrefix(f, score, l)
    BY <2>2
  <2>4. \E g : IsPrefix(g, score, l + 1)
    BY <2>3, PrefixGrows
  <2> QED BY <1>1, <2>1, <2>4
<1> QED BY <1>2, <1>3

LEMMA TurnsAre ==
  ASSUME NEW score
  PROVE  /\ Turns(score)[0] = <<>>
         /\ \A k \in 1 .. Len(Ops) :
              Turns(score)[k] = Choose(score, Turns(score)[k - 1], Turn(score, k))
<1>1. PICK n \in Nat : n = Len(Ops)
  BY OpPlaces
<1>2. \E f : IsPrefix(f, score, n)
  BY PrefixExists
<1>3. Turns(score) = CHOOSE f : IsPrefix(f, score, n)
  BY <1>1 DEF Turns, IsPrefix
<1>4. IsPrefix(Turns(score), score, n)
  BY <1>2, <1>3
<1> QED BY <1>1, <1>4 DEF IsPrefix

\* Those that have had their turn after k turns.
Served(score, k) == {o \in Op : Cardinality(Ahead(score, o)) < k}

LEMMA ServedGrows ==
  ASSUME NEW score \in Score, NEW k \in 1 .. Len(Ops)
  PROVE  /\ Turn(score, k) \in Op \ Served(score, k - 1)
         /\ Served(score, k) = Served(score, k - 1) \union {Turn(score, k)}
<1>1. PICK n \in Nat : n = Len(Ops)
  BY OpPlaces
<1> DEFINE rank == [o \in Op |-> Cardinality(Ahead(score, o))]
<1>2. \A o \in Op : rank[o] \in 0 .. n - 1
  BY <1>1, AheadIs
<1>3. PICK t \in Op : t = Turn(score, k) /\ rank[t] = k - 1
  BY TurnIs
<1>4. \A o \in Op : o = t \/ rank[o] < rank[t] \/ rank[t] < rank[o]
  BY OrderIsStrict, EarlierHasFewer
<1>5. \A j \in {k - 1, k} : Served(score, j) = {o \in Op : rank[o] < j}
  BY DEF Served
<1> HIDE DEF rank
<1>6. t \notin Served(score, k - 1)
  BY <1>1, <1>3, <1>5
<1>7. \A o \in Op : rank[o] < k <=> rank[o] < k - 1 \/ o = t
  BY <1>1, <1>2, <1>3, <1>4
<1>8. {o \in Op : rank[o] < k} = {o \in Op : rank[o] < k - 1} \union {t}
  BY <1>7
<1> QED BY <1>3, <1>5, <1>6, <1>8

LEMMA TurnsKeep ==
  ASSUME NEW score \in Score, NEW n \in 0 .. Len(Ops)
  PROVE  /\ Turns(score)[n] \in [Served(score, n) -> Tier]
         /\ Kept(Turns(score)[n])
<1>1. PICK N \in Nat : N = Len(Ops)
  BY OpPlaces
<1> DEFINE Good(k) == Turns(score)[k] \in [Served(score, k) -> Tier] /\ Kept(Turns(score)[k])
           T == {k \in 0 .. N : ~ Good(k)}
<1>2. Good(0)
  <2>1. Served(score, 0) = {}
    <3>1. \A o \in Op : ~ (Cardinality(Ahead(score, o)) < 0)
      BY AheadIs, OpPlaces
    <3> QED BY <3>1 DEF Served
  <2>2. Turns(score)[0] = <<>> /\ DOMAIN <<>> = {}
    BY TurnsAre
  <2>3. Turns(score)[0] \in [{} -> Tier]
    BY <2>2
  <2>4. \A t \in Tier : Load(<<>>, t) = 0
    BY <2>2, FS_EmptySet DEF Load
  <2>5. Kept(<<>>)
    BY <2>4, ScoringAssumption DEF Kept, Fits
  <2> QED BY <2>1, <2>2, <2>3, <2>5
<1>3. ASSUME NEW k \in 1 .. N, Good(k - 1) PROVE Good(k)
  <2>1. PICK o \in Op \ Served(score, k - 1) :
          o = Turn(score, k) /\ Served(score, k) = Served(score, k - 1) \union {o}
    BY <1>1, ServedGrows
  <2>2. Turns(score)[k] = Choose(score, Turns(score)[k - 1], o)
    BY <1>1, <2>1, TurnsAre
  <2>3. PICK D \in SUBSET Op : D = Served(score, k - 1)
    BY DEF Served
  <2>4. PICK placed \in [D -> Tier] : placed = Turns(score)[k - 1] /\ Kept(placed)
    BY <1>3, <2>3
  <2>5. Choose(score, placed, o) \in [D \union {o} -> Tier] /\ Kept(Choose(score, placed, o))
    BY <2>1, <2>3, <2>4, TurnKeeps
  <2> QED BY <2>1, <2>2, <2>3, <2>4, <2>5
<1> HIDE DEF Good
<1>4. T = {}
  <2> SUFFICES ASSUME T # {} PROVE FALSE
    OBVIOUS
  <2>1. T \in SUBSET Nat
    OBVIOUS
  <2>2. PICK k \in T : \A l \in T : k <= l
    BY <2>1, LeastNumber
  <2>3. k \in 1 .. N
    BY <1>2, <2>2
  <2>4. k - 1 \in 0 .. N /\ ~ (k <= k - 1)
    BY <2>3
  <2>5. Good(k - 1)
    BY <2>2, <2>4
  <2> QED BY <1>3, <2>2, <2>3, <2>5
<1>5. Good(n)
  BY <1>1, <1>4
<1> QED BY <1>5 DEF Good

\* The greedy assignment gives every operator a tier, and respects the
\* capacities whatever the scores are (find_optimal_placement).
THEOREM GreedyFits ==
  \A score \in Score :
    FindOptimalPlacement(score) \in [Op -> Tier] /\ Kept(FindOptimalPlacement(score))
<1> TAKE score \in Score
<1>1. PICK N \in Nat : N = Len(Ops)
  BY OpPlaces
<1>2. Served(score, N) = Op
  <2>1. \A o \in Op : Cardinality(Ahead(score, o)) < N
    BY <1>1, AheadIs
  <2> QED BY <2>1 DEF Served
<1> QED BY <1>1, <1>2, TurnsKeep DEF FindOptimalPlacement

-----------------------------------------------------------------------------
(* Sums over sets of operators.  FiniteSetsExt defines them by a recursive    *)
(* function that takes any element first; it exists, and the order does not  *)
(* matter.                                                                  *)

Element(S) == CHOOSE x \in S : TRUE
Step(s, f, S) == IF S = {} THEN 0 ELSE f[Element(S)] + s[S \ {Element(S)}]
Sums(f) == CHOOSE s : s = [S \in SUBSET Op |-> Step(s, f, S)]
Sum(f, S) == Sums(f)[S]

LEMMA Sizes ==
  ASSUME NEW S \in SUBSET Op
  PROVE  /\ IsFiniteSet(S) /\ Cardinality(S) \in Nat
         /\ \A x \in S : Cardinality(S) = Cardinality(S \ {x}) + 1
         /\ S # {} => Element(S) \in S
<1>1. IsFiniteSet(S)
  BY OpsAreFinite, FS_Subset
<1>2. PICK c \in Nat : c = Cardinality(S)
  BY <1>1, FS_CardinalityType
<1>3. ASSUME NEW x \in S PROVE c = Cardinality(S \ {x}) + 1
  <2>1. Cardinality(S \ {x}) = c - 1
    BY <1>1, <1>2, FS_RemoveElement
  <2> QED BY <2>1
<1> QED BY <1>1, <1>2, <1>3 DEF Element

LEMMA SmallestSet ==
  ASSUME NEW B \in SUBSET (SUBSET Op), B # {}
  PROVE  \E S \in B : \A R \in B : Cardinality(S) <= Cardinality(R)
<1> DEFINE T == {Cardinality(S) : S \in B}
<1>1. T \in SUBSET Nat /\ T # {}
  BY Sizes
<1>2. PICK n \in T : \A m \in T : n <= m
  BY <1>1, LeastNumber
<1> QED BY <1>2

UpTo(m) == {S \in SUBSET Op : Cardinality(S) <= m}

LEMMA SumsUpTo ==
  ASSUME NEW f, NEW n \in Nat
  PROVE  \E s : s = [S \in UpTo(n) |-> Step(s, f, S)]
<1> DEFINE Good(m) == \E s : s = [S \in UpTo(m) |-> Step(s, f, S)]
           T == {m \in Nat : ~ Good(m)}
<1>1. Good(0)
  <2>1. UpTo(0) = {{}}
    <3>1. \A S \in SUBSET Op : Cardinality(S) <= 0 <=> S = {}
      BY Sizes, FS_EmptySet
    <3> QED BY <3>1 DEF UpTo
  <2>2. [S \in UpTo(0) |-> 0] = [S \in UpTo(0) |-> Step([R \in UpTo(0) |-> 0], f, S)]
    BY <2>1 DEF Step
  <2> QED BY <2>2
<1>2. ASSUME NEW m \in Nat, Good(m) PROVE Good(m + 1)
  <2>1. PICK s : s = [S \in UpTo(m) |-> Step(s, f, S)]
    BY <1>2
  <2> DEFINE g == [S \in UpTo(m + 1) |-> Step(s, f, S)]
  <2>2. \A S \in UpTo(m) : S \in UpTo(m + 1) /\ g[S] = s[S]
    <3> SUFFICES ASSUME NEW S \in UpTo(m) PROVE S \in UpTo(m + 1) /\ g[S] = s[S]
      OBVIOUS
    <3>1. S \in UpTo(m + 1)
      BY Sizes DEF UpTo
    <3> QED BY <2>1, <3>1
  <2>3. \A S \in UpTo(m + 1) : S # {} => S \ {Element(S)} \in UpTo(m)
    <3> SUFFICES ASSUME NEW S \in UpTo(m + 1), S # {} PROVE S \ {Element(S)} \in UpTo(m)
      OBVIOUS
    <3>1. PICK x \in S : x = Element(S)
      BY Sizes DEF UpTo
    <3>2. PICK c \in Nat, d \in Nat : c = Cardinality(S) /\ d = Cardinality(S \ {x})
      BY Sizes DEF UpTo
    <3>3. c = d + 1 /\ c <= m + 1
      BY <3>2, Sizes DEF UpTo
    <3>4. d <= m
      BY <3>3
    <3> QED BY <3>1, <3>2, <3>4 DEF UpTo
  <2> HIDE DEF g
  <2>4. \A S \in UpTo(m + 1) : Step(s, f, S) = Step(g, f, S)
    BY <2>2, <2>3 DEF Step
  <2>5. g = [S \in UpTo(m + 1) |-> Step(g, f, S)]
    BY <2>4 DEF g
  <2> QED BY <2>5
<1> HIDE DEF Good
<1>3. T = {}
  <2> SUFFICES ASSUME T # {} PROVE FALSE
    OBVIOUS
  <2>1. PICK m \in T : \A l \in T : m <= l
    BY LeastNumber
  <2>2. CASE m = 0
    BY <1>1, <2>1, <2>2
  <2>3. CASE m # 0
    <3>1. m - 1 \in Nat /\ ~ (m <= m - 1) /\ (m - 1) + 1 = m
      BY <2>1, <2>3
    <3>2. Good(m - 1)
      BY <2>1, <3>1
    <3>3. Good((m - 1) + 1)
      BY <1>2, <3>1, <3>2
    <3> QED BY <2>1, <3>1, <3>3
  <2> QED BY <2>2, <2>3
<1>4. Good(n)
  BY <1>3
<1> QED BY <1>4 DEF Good

LEMMA SumIs ==
  ASSUME NEW f
  PROVE  /\ Sum(f, {}) = 0
         /\ \A S \in SUBSET Op :
              S # {} => Sum(f, S) = f[Element(S)] + Sum(f, S \ {Element(S)})
<1>1. PICK n \in Nat : n = Cardinality(Op)
  BY Sizes
<1>2. UpTo(n) = SUBSET Op
  <2>1. \A S \in SUBSET Op : Cardinality(S) <= n
    BY <1>1, OpsAreFinite, FS_Subset
  <2> QED BY <2>1 DEF UpTo
<1>3. \E s : s = [S \in SUBSET Op |-> Step(s, f, S)]
  <2>1. \E s : s = [S \in UpTo(n) |-> Step(s, f, S)]
    BY SumsUpTo
  <2> QED BY <1>2, <2>1
<1>4. Sums(f) = [S \in SUBSET Op |-> Step(Sums(f), f, S)]
  BY <1>3 DEF Sums
<1>5. \A S \in SUBSET Op : Sum(f, S) = Step(Sums(f), f, S)
  BY <1>4 DEF Sum
<1> QED BY <1>5 DEF Step, Sum

LEMMA SumIsInt ==
  ASSUME NEW f \in [Op -> Int], NEW S \in SUBSET Op
  PROVE  Sum(f, S) \in Int
<1> DEFINE B == {R \in SUBSET Op : Sum(f, R) \notin Int}
<1>1. B = {}
  <2> SUFFICES ASSUME B # {} PROVE FALSE
    OBVIOUS
  <2>1. PICK R \in B : \A Q \in B : Cardinality(R) <= Cardinality(Q)
    BY SmallestSet
  <2>2. R # {}
    BY <2>1, SumIs
  <2>3. PICK x \in R : x = Element(R)
    BY <2>2, Sizes
  <2>4. Cardinality(R) = Cardinality(R \ {x}) + 1 /\ Cardinality(R \ {x}) \in Nat
    BY Sizes
  <2>5. R \ {x} \notin B
    BY <2>1, <2>4
  <2>6. Sum(f, R \ {x}) \in Int
    BY <2>5
  <2>7. Sum(f, R) = f[x] + Sum(f, R \ {x})
    BY <2>2, <2>3, SumIs
  <2> QED BY <2>1, <2>6, <2>7
<1> QED BY <1>1

\* Any element may be taken first.
LEMMA SumTakes ==
  ASSUME NEW f \in [Op -> Int], NEW S \in SUBSET Op, NEW x \in S
  PROVE  Sum(f, S) = f[x] + Sum(f, S \ {x})
<1> DEFINE B == {R \in SUBSET Op : \E y \in R : Sum(f, R) # f[y] + Sum(f, R \ {y})}
<1>1. B = {}
  <2> SUFFICES ASSUME B # {} PROVE FALSE
    OBVIOUS
  <2>1. PICK R \in B : \A Q \in B : Cardinality(R) <= Cardinality(Q)
    BY SmallestSet
  <2>2. PICK y \in R : Sum(f, R) # f[y] + Sum(f, R \ {y})
    OBVIOUS
  <2>3. PICK z \in R : z = Element(R)
    BY Sizes
  <2>4. Sum(f, R) = f[z] + Sum(f, R \ {z})
    BY <2>3, SumIs
  <2>5. y # z
    BY <2>2, <2>4
  <2>6. \A u \in R : R \ {u} \notin B
    <3> SUFFICES ASSUME NEW u \in R PROVE R \ {u} \notin B
      OBVIOUS
    <3>1. PICK c \in Nat, d \in Nat : c = Cardinality(R) /\ d = Cardinality(R \ {u}) /\ c = d + 1
      BY Sizes
    <3>2. ~ (c <= d)
      BY <3>1
    <3> HIDE DEF B
    <3> QED BY <2>1, <3>1, <3>2
  <2>7. PICK Q \in SUBSET Op : Q = (R \ {y}) \ {z} /\ Q = (R \ {z}) \ {y}
    OBVIOUS
  <2>8. Sum(f, R \ {z}) = f[y] + Sum(f, Q)
    BY <2>5, <2>6, <2>7
  <2>9. Sum(f, R \ {y}) = f[z] + Sum(f, Q)
    BY <2>5, <2>6, <2>7
  <2>10. PICK a \in Int, b \in Int, c \in Int : a = f[y] /\ b = f[z] /\ c = Sum(f, Q)
    BY SumIsInt
  <2>11. b + (a + c) = a + (b + c)
    BY <2>10
  <2> QED BY <2>2, <2>4, <2>8, <2>9, <2>10, <2>11
<1> QED BY <1>1

LEMMA SumDifference ==
  ASSUME NEW f \in [Op -> Int], NEW g \in [Op -> Int], NEW h \in [Op -> Int],
         \A o \in Op : h[o] = f[o] - g[o]
  PROVE  Sum(h, Op) = Sum(f, Op) - Sum(g, Op)
<1> DEFINE B == {R \in SUBSET Op : Sum(h, R) # Sum(f, R) - Sum(g, R)}
<1>1. B = {}
  <2> SUFFICES ASSUME B # {} PROVE FALSE
    OBVIOUS
  <2>1. PICK R \in B : \A Q \in B : Cardinality(R) <= Cardinality(Q)
    BY SmallestSet
  <2>2. R # {}
    <3>1. Sum(f, {}) = 0 /\ Sum(g, {}) = 0 /\ Sum(h, {}) = 0
      BY SumIs
    <3> QED BY <2>1, <3>1
  <2>3. PICK x \in R : TRUE
    BY <2>2
  <2>4. PICK Q \in SUBSET Op : Q = R \ {x}
    OBVIOUS
  <2>5. PICK c \in Nat, d \in Nat : c = Cardinality(R) /\ d = Cardinality(Q) /\ c = d + 1
    BY <2>4, Sizes
  <2>6. Q \notin B
    <3>1. ~ (c <= d)
      BY <2>5
    <3> HIDE DEF B
    <3> QED BY <2>1, <2>5, <3>1
  <2>7. PICK a \in Int, b \in Int, c1 \in Int :
          a = Sum(f, Q) /\ b = Sum(g, Q) /\ c1 = Sum(h, Q)
    BY SumIsInt
  <2>8. c1 = a - b
    BY <2>6, <2>7
  <2>9. Sum(f, R) = f[x] + a /\ Sum(g, R) = g[x] + b /\ Sum(h, R) = h[x] + c1
    BY <2>4, <2>7, SumTakes
  <2>10. x \in Op /\ f[x] \in Int /\ g[x] \in Int /\ h[x] = f[x] - g[x]
    OBVIOUS
  <2>11. h[x] + c1 = (f[x] + a) - (g[x] + b)
    BY <2>7, <2>8, <2>10
  <2> QED BY <2>9, <2>11
<1> QED BY <1>1

LEMMA SumMonotone ==
  ASSUME NEW f \in [Op -> Int], NEW g \in [Op -> Int], \A o \in Op : f[o] <= g[o]
  PROVE  Sum(f, Op) <= Sum(g, Op)
<1> DEFINE B == {R \in SUBSET Op : ~ (Sum(f, R) <= Sum(g, R))}
<1>1. B = {}
  <2> SUFFICES ASSUME B # {} PROVE FALSE
    OBVIOUS
  <2>1. PICK R \in B : \A Q \in B : Cardinality(R) <= Cardinality(Q)
    BY SmallestSet
  <2>2. R # {}
    BY <2>1, SumIs
  <2>3. PICK x \in R : TRUE
    BY <2>2
  <2>4. PICK Q \in SUBSET Op : Q = R \ {x}
    OBVIOUS
  <2>5. PICK c \in Nat, d \in Nat : c = Cardinality(R) /\ d = Cardinality(Q) /\ c = d + 1
    BY <2>4, Sizes
  <2>6. Q \notin B
    <3>1. ~ (c <= d)
      BY <2>5
    <3> HIDE DEF B
    <3> QED BY <2>1, <2>5, <3>1
  <2>7. PICK a \in Int, b \in Int : a = Sum(f, Q) /\ b = Sum(g, Q)
    BY SumIsInt
  <2>8. a <= b
    BY <2>6, <2>7
  <2>9. Sum(f, R) = f[x] + a /\ Sum(g, R) = g[x] + b
    BY <2>4, <2>7, SumTakes
  <2>10. x \in Op /\ f[x] \in Int /\ g[x] \in Int /\ f[x] <= g[x]
    OBVIOUS
  <2>11. f[x] + a <= g[x] + b
    BY <2>7, <2>8, <2>10
  <2> QED BY <2>9, <2>11
<1> QED BY <1>1

LEMMA OneMore == ASSUME NEW v \in Int, NEW n \in Nat PROVE v * (n + 1) = v + v * n /\ v * n \in Int
OBVIOUS

\* Elements of one value, added to a sum.
LEMMA SumBlock ==
  ASSUME NEW f \in [Op -> Int], NEW S \in SUBSET Op, NEW A \in SUBSET Op, S \cap A = {},
         NEW v \in Int, \A o \in A : f[o] = v
  PROVE  Sum(f, S \union A) = Sum(f, S) + v * Cardinality(A)
<1> DEFINE B == {R \in SUBSET A : Sum(f, S \union R) # Sum(f, S) + v * Cardinality(R)}
<1>0. PICK s \in Int : s = Sum(f, S)
  BY SumIsInt
<1>1. B = {}
  <2> SUFFICES ASSUME B # {} PROVE FALSE
    OBVIOUS
  <2>0. B \in SUBSET (SUBSET Op)
    OBVIOUS
  <2>1. PICK R \in B : \A Q \in B : Cardinality(R) <= Cardinality(Q)
    BY <2>0, SmallestSet
  <2>2. R # {}
    <3> SUFFICES ASSUME R = {} PROVE FALSE
      OBVIOUS
    <3>1. Cardinality(R) = 0 /\ S \union R = S
      BY FS_EmptySet
    <3>2. s = s + v * 0
      OBVIOUS
    <3> QED BY <1>0, <3>1, <3>2
  <2>3. PICK x \in R : TRUE
    BY <2>2
  <2>4. PICK Q \in SUBSET Op : Q = R \ {x} /\ Q \in SUBSET A
    OBVIOUS
  <2>5. PICK c \in Nat, d \in Nat : c = Cardinality(R) /\ d = Cardinality(Q) /\ c = d + 1
    BY <2>4, Sizes
  <2>6. Q \notin B
    <3>1. ~ (c <= d)
      BY <2>5
    <3> HIDE DEF B
    <3> QED BY <2>1, <2>5, <3>1
  <2>7. Sum(f, S \union Q) = s + v * d
    BY <1>0, <2>4, <2>5, <2>6
  <2>8. /\ S \union R \in SUBSET Op /\ x \in S \union R
        /\ (S \union R) \ {x} = S \union Q /\ f[x] = v
    BY <2>4
  <2>9. Sum(f, S \union R) = v + (s + v * d)
    BY <2>7, <2>8, SumTakes
  <2>10. v * c = v + v * d /\ v * d \in Int
    BY <2>5, OneMore
  <2>11. Sum(f, S \union R) = s + v * c
    BY <2>9, <2>10
  <2> QED BY <1>0, <2>5, <2>11
<1>2. A \notin B
  BY <1>1
<1> QED BY <1>2

LEMMA FullerIsCheaper ==
  ASSUME NEW w \in Int, w <= 0, NEW m \in Nat, NEW n \in Nat, w = 0 \/ m <= n
  PROVE  w * n <= w * m
OBVIOUS

\* Summed tier by tier: of two placements that which has more operators on the
\* tiers below a price is the cheaper one, up to the price.
LEMMA SumByTier ==
  ASSUME NEW w \in [Tier -> Int], \A t \in Tier : w[t] <= 0,
         NEW p \in [Op -> Tier], NEW g \in [Op -> Tier],
         \A t \in Tier : w[t] = 0 \/ Load(p, t) <= Load(g, t)
  PROVE  Sum([o \in Op |-> w[g[o]]], Op) <= Sum([o \in Op |-> w[p[o]]], Op)
<1>1. PICK n \in Nat : n = Len(Tiers)
  BY TierPlaces
<1> DEFINE Upto(q, j) == {o \in Op : Place(q[o], Tiers) <= j}
           W(q) == [o \in Op |-> w[q[o]]]
           T == {j \in 0 .. n : ~ (Sum(W(g), Upto(g, j)) <= Sum(W(p), Upto(p, j)))}
<1>2. \A q \in {p, g} : q \in [Op -> Tier] /\ W(q) \in [Op -> Int]
  OBVIOUS
<1>3. \A q \in {p, g}, o \in Op : Place(q[o], Tiers) \in 1 .. n /\ Tiers[Place(q[o], Tiers)] = q[o]
  BY <1>1, TierPlaces
<1>4. ASSUME NEW q \in {p, g}, NEW j \in 1 .. n
      PROVE  Sum(W(q), Upto(q, j))
               = Sum(W(q), Upto(q, j - 1)) + w[Tiers[j]] * Load(q, Tiers[j])
  <2> DEFINE A == {o \in Op : q[o] = Tiers[j]}
  <2>1. PICK t \in Tier : t = Tiers[j]
    BY <1>1 DEF Tier
  <2>2. Place(t, Tiers) = j
    BY <1>1, <2>1, ScoringAssumption DEF Place
  <2>3. A = {o \in Op : Place(q[o], Tiers) = j}
    BY <1>3, <2>1, <2>2
  <2>4. Upto(q, j) = Upto(q, j - 1) \union A /\ Upto(q, j - 1) \cap A = {}
    BY <1>3, <2>3
  <2>5. Load(q, t) = Cardinality(A)
    BY <1>2, <2>1 DEF Load
  <2>6. \A o \in A : W(q)[o] = w[t]
    BY <2>1
  <2>7. A \in SUBSET Op /\ Upto(q, j - 1) \in SUBSET Op /\ w[t] \in Int
    OBVIOUS
  <2> HIDE DEF A, Upto, W
  <2> QED BY <1>2, <2>1, <2>4, <2>5, <2>6, <2>7, SumBlock
<1>5. T = {}
  <2> SUFFICES ASSUME T # {} PROVE FALSE
    OBVIOUS
  <2>1. PICK j \in T : \A i \in T : j <= i
    <3>1. T \in SUBSET Nat
      BY <1>1
    <3> QED BY <3>1, LeastNumber
  <2>2. j # 0
    <3> SUFFICES ASSUME j = 0 PROVE FALSE
      OBVIOUS
    <3>1. Upto(p, 0) = {} /\ Upto(g, 0) = {}
      BY <1>3
    <3>2. Sum(W(g), {}) = 0 /\ Sum(W(p), {}) = 0
      BY SumIs
    <3> QED BY <3>1, <3>2
  <2>3. j \in 1 .. n /\ j - 1 \in 0 .. n /\ ~ (j <= j - 1)
    BY <1>1, <2>2
  <2>4. PICK a \in Int, b \in Int :
          a = Sum(W(g), Upto(g, j - 1)) /\ b = Sum(W(p), Upto(p, j - 1))
    BY <1>2, SumIsInt
  <2>5. a <= b
    BY <2>1, <2>3, <2>4
  <2>6. PICK t \in Tier : t = Tiers[j]
    BY <1>1, <2>3 DEF Tier
  <2>7. PICK l \in Nat, m \in Nat : l = Load(p, t) /\ m = Load(g, t)
    BY LoadIsNat
  <2>8. w[t] * m <= w[t] * l
    BY <2>7, FullerIsCheaper
  <2>9. PICK x \in Int, y \in Int : x = w[t] * m /\ y = w[t] * l
    BY <2>7
  <2>10. a + x <= b + y
    BY <2>5, <2>8, <2>9
  <2>11. Sum(W(g), Upto(g, j)) = a + x /\ Sum(W(p), Upto(p, j)) = b + y
    BY <1>4, <2>3, <2>4, <2>6, <2>7, <2>9
  <2> QED BY <2>10, <2>11
<1>6. Upto(p, n) = Op /\ Upto(g, n) = Op
  BY <1>3
<1>7. n \notin T /\ n \in 0 .. n
  <2>1. n \in 0 .. n
    BY <1>1
  <2> HIDE DEF T
  <2> QED BY <1>5, <2>1
<1> QED BY <1>6, <1>7

-----------------------------------------------------------------------------
(* The price.  As long as the choices fit, there is a price that nobody pays  *)
(* more than, and the tiers below it are full.                              *)

Price == [Tier -> Nat]

\* The tiers of score differ by these prices for every operator.
Priced(score, price) ==
  \A o \in Op, t, u \in Tier : score[o][t] - score[o][u] = price[t] - price[u]

Tight(placed, price, limit) ==
  /\ \A o \in DOMAIN placed : price[placed[o]] <= limit
  /\ \A t \in Tier : price[t] < limit => Load(placed, t) >= Capacity[t]

LEMMA TurnTight ==
  ASSUME NEW score \in Score, NEW price \in Price, Priced(score, price),
         NEW D \in SUBSET Op, NEW o \in Op \ D, NEW placed \in [D -> Tier],
         Fits(Choose(score, placed, o))
  PROVE  /\ Fits(placed)
         /\ \A limit \in Nat : Tight(placed, price, limit) =>
              \E l \in Nat : Tight(Choose(score, placed, o), price, l)
<1> DEFINE next == Choose(score, placed, o)
           c    == Choice(score, placed, o)
           old  == [t \in Tier |-> Load(placed, t)]
           new  == [t \in Tier |-> Load(next, t)]
<1>1. next = [p \in D \union {o} |-> IF p = o THEN c ELSE placed[p]]
  BY DEF Choose
<1>2. c \in Tier /\ Cloud \in Tier /\ \A t \in Tier : Capacity[t] \in Nat
  BY ChoiceIs, ScoringAssumption
<1>3. \A t \in Tier : old[t] \in Nat /\ new[t] = IF t = c THEN old[t] + 1 ELSE old[t]
  <2>1. \A t \in Tier : Load(placed, t) \in Nat
    BY LoadIsNat
  <2>2. \A t \in Tier : Load(next, t) = IF t = c THEN Load(placed, t) + 1 ELSE Load(placed, t)
    BY LoadGrows
  <2> HIDE DEF next, c
  <2> QED BY <2>1, <2>2
<1>4. \A t \in Tier : new[t] <= Capacity[t]
  BY DEF Fits
<1>5. Fits(placed)
  <2>1. \A t \in Tier : old[t] <= Capacity[t]
    <3> HIDE DEF old, new, next, c
    <3> QED BY <1>2, <1>3, <1>4
  <2> QED BY <2>1 DEF Fits
<1>6. old[c] < Capacity[c]
  <2> HIDE DEF old, new, next, c
  <2> QED BY <1>2, <1>3, <1>4
<1>7. Free(placed) # {}
  BY <1>2, <1>6 DEF Free
<1>8. \A t \in Tier : old[t] < Capacity[t] => price[c] <= price[t]
  <2> SUFFICES ASSUME NEW t \in Tier, old[t] < Capacity[t] PROVE price[c] <= price[t]
    OBVIOUS
  <2>1. t \in Free(placed) /\ Free(placed) \in SUBSET Tier
    BY DEF Free
  <2>2. c = Cheapest(score, o, Free(placed))
    BY <1>7 DEF Choice
  <2>3. score[o][c] <= score[o][t]
    BY <1>7, <2>1, <2>2, CheapestIsFree
  <2>4. PICK a \in Nat, b \in Nat, x \in Nat, y \in Nat :
          a = score[o][c] /\ b = score[o][t] /\ x = price[c] /\ y = price[t]
    BY <1>2 DEF Score, Price
  <2>5. a - b = x - y
    BY <1>2, <2>4 DEF Priced
  <2> QED BY <2>3, <2>4, <2>5
<1>9. ASSUME NEW limit \in Nat, Tight(placed, price, limit)
      PROVE  Tight(next, price, price[c]) /\ price[c] \in Nat
  <2>1. \A t \in Tier : price[t] \in Nat
    BY DEF Price
  <2>2. limit <= price[c]
    <3>1. price[c] < limit => old[c] >= Capacity[c]
      BY <1>2, <1>9 DEF Tight
    <3> HIDE DEF old, new, next, c
    <3> QED BY <1>2, <1>3, <1>6, <2>1, <3>1
  <2>3. \A p \in D : price[placed[p]] <= limit /\ placed[p] \in Tier
    BY <1>9 DEF Tight
  <2>4. \A p \in D : price[placed[p]] <= price[c]
    <3> HIDE DEF c
    <3> QED BY <1>2, <2>1, <2>2, <2>3
  <2>5. \A p \in DOMAIN next : price[next[p]] <= price[c]
    <3>1. price[c] <= price[c]
      <4> HIDE DEF c
      <4> QED BY <1>2, <2>1
    <3> HIDE DEF c, next
    <3> QED BY <1>1, <2>4, <3>1
  <2>6. \A t \in Tier : price[t] < price[c] => new[t] >= Capacity[t]
    <3> HIDE DEF old, new, next, c
    <3> QED BY <1>2, <1>3, <1>8, <2>1
  <2> QED BY <1>2, <2>1, <2>5, <2>6 DEF Tight
<1> QED BY <1>5, <1>9

LEMMA TurnsAreTight ==
  ASSUME NEW score \in Score, NEW price \in Price, Priced(score, price),
         NEW n \in 0 .. Len(Ops), Fits(Turns(score)[n])
  PROVE  \E limit \in Nat : Tight(Turns(score)[n], price, limit)
<1>1. PICK N \in Nat : N = Len(Ops)
  BY OpPlaces
<1> DEFINE Good(k) == Fits(Turns(score)[k]) =>
                        \E limit \in Nat : Tight(Turns(score)[k], price, limit)
           T == {k \in 0 .. N : ~ Good(k)}
<1>2. Good(0)
  <2>1. Turns(score)[0] = <<>> /\ DOMAIN <<>> = {}
    BY TurnsAre
  <2>2. \A t \in Tier : ~ (price[t] < 0)
    BY DEF Price
  <2>3. Tight(<<>>, price, 0)
    BY <2>1, <2>2 DEF Tight
  <2> QED BY <2>1, <2>3
<1>3. ASSUME NEW k \in 1 .. N, Good(k - 1) PROVE Good(k)
  <2> SUFFICES ASSUME Fits(Turns(score)[k])
               PROVE  \E limit \in Nat : Tight(Turns(score)[k], price, limit)
    OBVIOUS
  <2>1. PICK o \in Op \ Served(score, k - 1) : o = Turn(score, k)
    BY <1>1, ServedGrows
  <2>2. Turns(score)[k] = Choose(score, Turns(score)[k - 1], o)
    BY <1>1, <2>1, TurnsAre
  <2>3. PICK D \in SUBSET Op : D = Served(score, k - 1)
    BY DEF Served
  <2>4. k - 1 \in 0 .. Len(Ops)
    BY <1>1
  <2>5. PICK placed \in [D -> Tier] : placed = Turns(score)[k - 1]
    BY <2>3, <2>4, TurnsKeep
  <2>6. Fits(Choose(score, placed, o))
    BY <2>2, <2>5
  <2>7. Fits(placed)
    BY <2>1, <2>3, <2>6, TurnTight
  <2>8. PICK limit \in Nat : Tight(placed, price, limit)
    BY <1>3, <2>5, <2>7
  <2>9. \E l \in Nat : Tight(Choose(score, placed, o), price, l)
    BY <2>1, <2>3, <2>6, <2>8, TurnTight
  <2> QED BY <2>2, <2>5, <2>9
<1> HIDE DEF Good
<1>4. T = {}
  <2> SUFFICES ASSUME T # {} PROVE FALSE
    OBVIOUS
  <2>1. T \in SUBSET Nat
    OBVIOUS
  <2>2. PICK k \in T : \A l \in T : k <= l
    BY <2>1, LeastNumber
  <2>3. k \in 1 .. N
    BY <1>2, <2>2
  <2>4. k - 1 \in 0 .. N /\ ~ (k <= k - 1)
    BY <2>3
  <2>5. Good(k - 1)
    BY <2>2, <2>4
  <2> QED BY <1>3, <2>2, <2>3, <2>5
<1>5. Good(n)
  BY <1>1, <1>4
<1> QED BY <1>5 DEF Good

\* What a tier costs above the limit does not count, what it saves below it does.
LEMMA TightIsCheapest ==
  ASSUME NEW price \in Price, NEW limit \in Nat,
         NEW g \in [Op -> Tier], Fits(g), Tight(g, price, limit),
         NEW p \in [Op -> Tier], Fits(p),
         NEW e \in [Op -> Int], \A o \in Op : e[o] = price[p[o]] - price[g[o]]
  PROVE  0 <= Sum(e, Op)
<1> DEFINE w == [t \in Tier |-> IF price[t] <= limit THEN price[t] - limit ELSE 0]
           a == [o \in Op |-> price[g[o]] - limit]
           b == [o \in Op |-> price[p[o]] - limit]
           wg == [o \in Op |-> w[g[o]]]
           wp == [o \in Op |-> w[p[o]]]
<1>1. \A t \in Tier : price[t] \in Nat
  BY DEF Price
<1>2. w \in [Tier -> Int] /\ \A t \in Tier : w[t] <= 0 /\ w[t] <= price[t] - limit
  BY <1>1
<1>3. \A t \in Tier : w[t] = 0 \/ Load(p, t) <= Load(g, t)
  <2> SUFFICES ASSUME NEW t \in Tier, w[t] # 0 PROVE Load(p, t) <= Load(g, t)
    OBVIOUS
  <2>1. price[t] < limit
    BY <1>1
  <2>2. PICK m \in Nat, n \in Nat, cap \in Nat :
          m = Load(p, t) /\ n = Load(g, t) /\ cap = Capacity[t]
    BY LoadIsNat, ScoringAssumption
  <2>3. m <= cap /\ n >= cap
    BY <2>1, <2>2 DEF Fits, Tight
  <2> QED BY <2>2, <2>3
<1>4. a \in [Op -> Int] /\ b \in [Op -> Int] /\ wg \in [Op -> Int] /\ wp \in [Op -> Int]
  BY <1>1, <1>2
<1>5. \A o \in Op : a[o] <= wg[o]
  <2> SUFFICES ASSUME NEW o \in Op PROVE a[o] <= wg[o]
    OBVIOUS
  <2>1. PICK t \in Tier : t = g[o] /\ price[t] <= limit
    BY DEF Tight
  <2>2. w[t] = price[t] - limit
    BY <2>1
  <2> QED BY <1>1, <2>1, <2>2
<1>6. \A o \in Op : wp[o] <= b[o]
  BY <1>2
<1>7. \A o \in Op : e[o] = b[o] - a[o]
  <2> SUFFICES ASSUME NEW o \in Op PROVE e[o] = b[o] - a[o]
    OBVIOUS
  <2>1. PICK t \in Tier, u \in Tier : t = p[o] /\ u = g[o]
    OBVIOUS
  <2>2. price[t] - price[u] = (price[t] - limit) - (price[u] - limit)
    BY <1>1
  <2> QED BY <2>1, <2>2
<1> HIDE DEF a, b
<1>8. Sum(wg, Op) <= Sum(wp, Op)
  <2> HIDE DEF w
  <2> QED BY <1>2, <1>3, SumByTier
<1> HIDE DEF wg, wp, w
<1>9. Sum(a, Op) <= Sum(wg, Op)
  BY <1>4, <1>5, SumMonotone
<1>10. Sum(wp, Op) <= Sum(b, Op)
  BY <1>4, <1>6, SumMonotone
<1>11. Sum(e, Op) = Sum(b, Op) - Sum(a, Op)
  BY <1>4, <1>7, SumDifference
<1>12. Sum(a, Op) \in Int /\ Sum(b, Op) \in Int /\ Sum(wg, Op) \in Int /\ Sum(wp, Op) \in Int
  BY <1>4, SumIsInt
<1> QED BY <1>8, <1>9, <1>10, <1>11, <1>12

LEMMA TotalIsSum ==
  ASSUME NEW score, NEW p
  PROVE  Total(score, p) = Sum([o \in Op |-> score[o][p[o]]], Op)
<1> DEFINE f == [o \in Op |-> score[o][p[o]]]
           x(S) == Element(S)
           Rule(s) == s = [S \in SUBSET Op |->
                             IF S = {} THEN 0 ELSE score[x(S)][p[x(S)]] + s[S \ {x(S)}]]
<1>1. Total(score, p) = (CHOOSE s : Rule(s))[Op]
  BY DEF Total, MapThenSumSet, MapThenFoldSet, Element
<1>2. \A s : [S \in SUBSET Op |->
                IF S = {} THEN 0 ELSE score[x(S)][p[x(S)]] + s[S \ {x(S)}]]
               = [S \in SUBSET Op |-> Step(s, f, S)]
  <2> TAKE s
  <2>1. ASSUME NEW S \in SUBSET Op
        PROVE  (IF S = {} THEN 0 ELSE score[x(S)][p[x(S)]] + s[S \ {x(S)}]) = Step(s, f, S)
    <3>1. S # {} => x(S) \in Op
      BY Sizes
    <3>2. S # {} => f[x(S)] = score[x(S)][p[x(S)]]
      BY <3>1
    <3> HIDE DEF f
    <3> QED BY <3>2 DEF Step
  <2> HIDE DEF x, f
  <2> QED BY <2>1
<1>3. \A s : Rule(s) <=> s = [S \in SUBSET Op |-> Step(s, f, S)]
  BY <1>2
<1> HIDE DEF Rule, f
<1>4. (CHOOSE s : Rule(s)) = Sums(f)
  BY <1>3 DEF Sums
<1> QED BY <1>1, <1>4 DEF Sum, f

\* The greedy assignment is as cheap as any that fits, whatever the scores are,
\* as long as tiers differ by the same amount for every operator
\* (find_optimal_placement).
THEOREM GreedyIsCheapest ==
  \A score \in Score, price \in Price :
    (Priced(score, price) /\ Fits(FindOptimalPlacement(score))) =>
      \A p \in [Op -> Tier] : Fits(p) =>
        Total(score, FindOptimalPlacement(score)) <= Total(score, p)
<1> SUFFICES ASSUME NEW score \in Score, NEW price \in Price, Priced(score, price),
                    Fits(FindOptimalPlacement(score)),
                    NEW p \in [Op -> Tier], Fits(p)
             PROVE  Total(score, FindOptimalPlacement(score)) <= Total(score, p)
  OBVIOUS
<1>1. PICK g \in [Op -> Tier] : g = FindOptimalPlacement(score) /\ Fits(g)
  BY GreedyFits
<1>2. PICK limit \in Nat : Tight(g, price, limit)
  <2>1. Len(Ops) \in 0 .. Len(Ops) /\ g = Turns(score)[Len(Ops)]
    BY <1>1, OpPlaces DEF FindOptimalPlacement
  <2> QED BY <1>1, <2>1, TurnsAreTight
<1> DEFINE c == [o \in Op |-> score[o][g[o]]]
           d == [o \in Op |-> score[o][p[o]]]
           e == [o \in Op |-> d[o] - c[o]]
<1>3. c \in [Op -> Int] /\ d \in [Op -> Int]
  BY DEF Score
<1>4. e \in [Op -> Int]
  <2> HIDE DEF c, d
  <2> QED BY <1>3
<1>5. \A o \in Op : e[o] = price[p[o]] - price[g[o]]
  <2> SUFFICES ASSUME NEW o \in Op PROVE e[o] = price[p[o]] - price[g[o]]
    OBVIOUS
  <2>1. PICK t \in Tier, u \in Tier : t = p[o] /\ u = g[o]
    OBVIOUS
  <2>2. score[o][t] - score[o][u] = price[t] - price[u]
    BY DEF Priced
  <2> QED BY <2>1, <2>2
<1> HIDE DEF e
<1>6. 0 <= Sum(e, Op)
  BY <1>1, <1>2, <1>4, <1>5, TightIsCheapest
<1>7. Sum(e, Op) = Sum(d, Op) - Sum(c, Op)
  <2> HIDE DEF c, d
  <2>1. \A o \in Op : e[o] = d[o] - c[o]
    BY DEF e
  <2> QED BY <1>3, <1>4, <2>1, SumDifference
<1>8. Total(score, g) = Sum(c, Op) /\ Total(score, p) = Sum(d, Op)
  BY TotalIsSum
<1>9. Sum(c, Op) \in Int /\ Sum(d, Op) \in Int
  <2> HIDE DEF c, d
  <2> QED BY <1>3, SumIsInt
<1> HIDE DEF c, d
<1> QED BY <1>1, <1>6, <1>7, <1>8, <1>9

-----------------------------------------------------------------------------
(* The control loop.                                                        *)

LEMMA PlansAre ==
  ASSUME NEW plan \in Plans
  PROVE  /\ plan.optimal \in [Op -> Tier] /\ Kept(plan.optimal)
         /\ plan.optimal = FindOptimalPlacement(plan.score) /\ plan.score \in Score
         /\ \A o \in Op, t, u \in Tier :
              plan.score[o][t] - plan.score[o][u]
                = CostOf(plan.table, plan.preset, t) - CostOf(plan.table, plan.preset, u)
<1> DEFINE Scores(table, latency, name) == ComputeScores(table, latency, WEIGHT_PRESETS[name])
<1>0. PICK table \in Table, latency \in Latencies, name \in DOMAIN WEIGHT_PRESETS :
        plan = [table |-> table, preset |-> name,
                score |-> Scores(table, latency, name),
                optimal |-> FindOptimalPlacement(Scores(table, latency, name))]
  BY DEF Plans
<1>1. PICK score :
        /\ score = ComputeScores(table, latency, WEIGHT_PRESETS[name])
        /\ plan = [table |-> table, preset |-> name,
                   score |-> score, optimal |-> FindOptimalPlacement(score)]
  BY <1>0
<1>2. latency \in [Op -> Nat]
  BY RecalibrationAssumption
<1>3. score \in Score
  BY <1>1, <1>2, ScoresAreNat
<1>4. ASSUME NEW o \in Op, NEW t \in Tier, NEW u \in Tier
      PROVE  score[o][t] - score[o][u] = CostOf(table, name, t) - CostOf(table, name, u)
  <2>1. PICK own \in Nat, a \in Nat, b \in Nat :
          /\ own = OwnOf(name, o, latency[o])
          /\ a = CostOf(table, name, t) /\ b = CostOf(table, name, u)
    BY <1>2, CostsAreNat, OwnSharesAreNat
  <2>2. score[o][t] = own + a /\ score[o][u] = own + b
    BY <1>1, <1>2, <2>1, ScoreSplits
  <2>3. (own + a) - (own + b) = a - b
    OBVIOUS
  <2> QED BY <2>1, <2>2, <2>3
<1> QED BY <1>1, <1>3, <1>4, GreedyFits

\* A run writes tiers that are cheaper by delta_h for whoever runs there.
LEMMA RunPaysOff ==
  ASSUME TypeOK, NEW heard, Run(heard)
  PROVE  /\ placement' \in [Op -> Tier]
         /\ \A o \in Op : placement'[o] # placement[o] =>
              TierCost(placement[o]) - TierCost(placement'[o]) >= DeltaH
<1>1. PICK plan \in Plans, refused \in SUBSET Op :
        /\ Found(plan)
        /\ placement' = [o \in Op |->
             IF o \in Candidates(placement, plan.optimal, plan.score) \ refused
             THEN plan.optimal[o] ELSE placement[o]]
  BY DEF Run, Candidates
<1>2. plan.optimal \in [Op -> Tier] /\ placement \in [Op -> Tier]
  BY PlansAre DEF TypeOK
<1>3. placement' \in [Op -> Tier]
  BY <1>1, <1>2
<1>4. \A t \in Tier : CostOf(plan.table, plan.preset, t) = TierCost(t)
  BY <1>1 DEF Found, CostOf, TierCost
<1>5. ASSUME NEW o \in Op, placement'[o] # placement[o]
      PROVE  TierCost(placement[o]) - TierCost(placement'[o]) >= DeltaH
  <2>1. /\ o \in Candidates(placement, plan.optimal, plan.score)
        /\ placement'[o] = plan.optimal[o]
    BY <1>1, <1>5
  <2>2. PICK t \in Tier, u \in Tier : t = placement[o] /\ u = plan.optimal[o]
    BY <1>2
  <2>3. plan.score[o][t] - plan.score[o][u] >= DeltaH
    BY <2>1, <2>2 DEF Candidates
  <2>4. TierCost(t) - TierCost(u) >= DeltaH
    BY <1>4, <2>3, PlansAre
  <2> QED BY <2>1, <2>2, <2>4
<1> QED BY <1>3, <1>5

LEMMA TelemetryNextKeeps ==
  ASSUME TelemetryTypeOK, TelemetryNext
  PROVE  TelemetryTypeOK'
<1>1. \A l \in Loop, r \in Report \union {Down, Pending} :
        [answer EXCEPT ![l] = r] \in [Loop -> Report \union {Down, Pending}]
  BY DEF TelemetryTypeOK
<1>2. ASSUME NEW n \in Node, Change(n) PROVE TelemetryTypeOK'
  BY <1>2 DEF Change, TelemetryTypeOK, Table
<1>3. ASSUME NEW l \in Loop, StartSweep(l) PROVE TelemetryTypeOK'
  <2>1. Len(Nodes) \in Nat /\ Len(Nodes) >= 1
    BY TelemetryAssumption
  <2>2. turn' \in [Loop -> 0 .. Len(Nodes)]
    BY <1>3, <2>1 DEF StartSweep, TelemetryTypeOK
  <2> QED BY <1>3, <2>2 DEF StartSweep, TelemetryTypeOK
<1>4. ASSUME NEW l \in Loop, Answer(l) PROVE TelemetryTypeOK'
  <2>1. PICK k \in 1 .. Len(Nodes) : k = turn[l]
    BY <1>4, TelemetryAssumption DEF Answer, TelemetryTypeOK
  <2>2. world[Nodes[k]] \in Report \union {Down}
    BY <2>1 DEF TelemetryTypeOK, Table, Node
  <2> QED BY <1>1, <1>4, <2>1, <2>2 DEF Answer, TelemetryTypeOK
<1>5. ASSUME NEW l \in Loop, Store(l) PROVE TelemetryTypeOK'
  <2>1. answer[l] \in Report \union {Down}
    BY <1>5 DEF Store, TelemetryTypeOK
  <2>2. sample' \in Table
    BY <1>5, <2>1 DEF Store, TelemetryTypeOK, Table
  <2>3. PICK n \in Nat : n = Len(Nodes)
    BY TelemetryAssumption
  <2>4. PICK k \in 0 .. n : k = turn[l]
    BY <2>3 DEF TelemetryTypeOK
  <2>5. (IF k = n THEN 0 ELSE k + 1) \in 0 .. n
    BY <2>3
  <2>6. turn' \in [Loop -> 0 .. n]
    BY <1>5, <2>3, <2>4, <2>5 DEF Store, TelemetryTypeOK
  <2> QED BY <1>1, <1>5, <2>2, <2>3, <2>6 DEF Store, TelemetryTypeOK
<1> QED BY <1>2, <1>3, <1>4, <1>5 DEF TelemetryNext

LEMMA TypeInit == Init => TypeOK
<1> SUFFICES ASSUME Init PROVE TypeOK
  OBVIOUS
<1>1. 0 \in 0 .. Len(Nodes)
  BY TelemetryAssumption
<1>2. sample \in Table
  BY DEF Init, TelemetryInit, Table
<1> QED BY <1>1, <1>2 DEF Init, TelemetryInit, TypeOK, TelemetryTypeOK

LEMMA TypeNext == TypeOK /\ [Next]_vars => TypeOK'
<1> SUFFICES ASSUME TypeOK, [Next]_vars PROVE TypeOK'
  OBVIOUS
<1>1. CASE TelemetryNext /\ UNCHANGED <<placement, preset>>
  BY <1>1, TelemetryNextKeeps DEF TypeOK
<1>2. CASE Run({})
  <2>1. UNCHANGED <<tvars, preset>>
    BY <1>2 DEF Run
  <2>2. placement' \in [Op -> Tier]
    BY <1>2, RunPaysOff
  <2> QED BY <2>1, <2>2 DEF TypeOK, TelemetryTypeOK, tvars
<1>3. ASSUME NEW name \in Requests, UpdateWeights(name) PROVE TypeOK'
  BY <1>3 DEF UpdateWeights, TypeOK, TelemetryTypeOK, tvars
<1>4. CASE UNCHANGED vars
  BY <1>4 DEF vars, TypeOK, TelemetryTypeOK
<1> QED BY <1>1, <1>2, <1>3, <1>4 DEF Next

\* Type correctness of the loop: every run writes a tier for every operator,
\* whatever table a sweep has left half filled in (find_optimal_placement never
\* leaves an operator without a tier, update_operator_placement).
THEOREM RecalibrationTypeCorrect == Spec => []TypeOK
BY TypeInit, TypeNext, PTL DEF Spec

\* AssignmentFits for any number of operators, tiers and presets, any capacities
\* and any telemetry (find_optimal_placement).
THEOREM AssignmentsFit == Spec => []AssignmentFits
<1>1. AssignmentFits
  BY PlansAre DEF AssignmentFits, Kept
<1> QED BY <1>1, PTL

\* AssignmentIsCheapest for any number of operators, tiers and presets, any
\* capacities and any telemetry: an operator's own share of its scores is the same
\* on every tier (compute_scores, find_optimal_placement).
THEOREM AssignmentsAreCheapest == Spec => []AssignmentIsCheapest
<1>1. ASSUME NEW plan \in Plans, Fits(plan.optimal), NEW p \in [Op -> Tier], Fits(p)
      PROVE  Total(plan.score, plan.optimal) <= Total(plan.score, p)
  <2> DEFINE price == [t \in Tier |-> CostOf(plan.table, plan.preset, t)]
  <2>1. plan.table \in Table /\ plan.preset \in DOMAIN WEIGHT_PRESETS
    BY DEF Plans
  <2>2. price \in Price
    BY <2>1, CostsAreNat DEF Price
  <2>3. Priced(plan.score, price)
    BY PlansAre DEF Priced
  <2> HIDE DEF price
  <2> QED BY <1>1, <2>2, <2>3, PlansAre, GreedyIsCheapest
<1>2. AssignmentIsCheapest
  BY <1>1 DEF AssignmentIsCheapest
<1> QED BY <1>2, PTL

\* Every move of every run goes to a tier that is cheaper by delta_h, whichever
\* moves were refused (_identify_migration_candidates).
THEOREM EveryMovePaysOff == Spec => MovesPayOff
<1>1. ASSUME TypeOK, [Next]_vars
      PROVE  [\A o \in Op : placement'[o] # placement[o] =>
                TierCost(placement[o]) - TierCost(placement'[o]) >= DeltaH]_vars
  <2>1. CASE Run({})
    BY <1>1, <2>1, RunPaysOff
  <2>2. CASE UNCHANGED placement
    BY <2>2
  <2> QED BY <1>1, <2>1, <2>2 DEF Next, UpdateWeights, vars
<1> QED BY <1>1, RecalibrationTypeCorrect, PTL DEF Spec, MovesPayOff

=============================================================================
