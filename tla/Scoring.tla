------------------------------- MODULE Scoring -------------------------------
(***************************************************************************)
(* The scores (aode/scoring/algorithm.py), the greedy assignment and the    *)
(* hysteresis filter of the optimizer, as functions of the telemetry table  *)
(* and of the observed latencies.  Weights and utilisations are in percent, *)
(* so that scores are in hundredths; lower is better.                       *)
(***************************************************************************)
EXTENDS Integers, Sequences, FiniteSetsExt, TLC

CONSTANTS
  Ops, Tiers,              (* sequences: the order of the dictionaries       *)
  Cloud, Capacity,
  Kappa, SloPenalty, DeltaH

Op   == {Ops[i] : i \in 1 .. Len(Ops)}
Tier == {Tiers[i] : i \in 1 .. Len(Tiers)}

-----------------------------------------------------------------------------
(* The tables.                                                              *)

WeightPreset(lat, res, net, slo) == [lat |-> lat, res |-> res, net |-> net, slo |-> slo]

WEIGHT_PRESETS ==
  [name \in {"latency-first", "balanced", "resource-efficient"} |->
     CASE name = "latency-first"      -> WeightPreset(55, 10, 20, 15)
       [] name = "balanced"           -> WeightPreset(30, 30, 20, 20)
       [] name = "resource-efficient" -> WeightPreset(20, 50, 20, 10)]

\* get_slo_map, in ms.  An operator without an SLO is given an hour.
NoSlo == 3600000
SloMap ==
  [VehicleDetector  |-> 2000,  ZoneAggregator  |-> NoSlo, PatternDetector    |-> NoSlo,
   RiskCheck        |-> 1,     AnomalyDetector |-> 5,     StatAggregator     |-> NoSlo,
   ComplianceLogger |-> NoSlo, FeatureAggWindow |-> 5,    NormalizerOperator |-> 5,
   MultiStreamJoin  |-> 5,     BinaryClassifier |-> 5]

\* get_lambda_map, as the factors of _compute_phi_lat in tenths.
Critical == 30
Standard == 10
Batch    == 1
LambdaMap ==
  [VehicleDetector  |-> Standard, ZoneAggregator   |-> Batch,    PatternDetector    |-> Standard,
   RiskCheck        |-> Critical, AnomalyDetector  |-> Critical, StatAggregator     |-> Batch,
   ComplianceLogger |-> Batch,    FeatureAggWindow |-> Standard, NormalizerOperator |-> Standard,
   MultiStreamJoin  |-> Standard, BinaryClassifier |-> Critical]

ASSUME ScoringAssumption ==
  /\ Ops \in Seq(DOMAIN SloMap) /\ \A i, j \in 1 .. Len(Ops) : Ops[i] = Ops[j] => i = j
  /\ Tiers \in Seq(Tier) /\ Cloud \in Tier
  /\ Capacity \in [Tier -> Nat]
  /\ {Kappa, SloPenalty, DeltaH} \subseteq Nat

\* WeightPreset.__post_init__.
ASSUME WeightsSumToOne ==
  \A p \in DOMAIN WEIGHT_PRESETS :
    LET w == WEIGHT_PRESETS[p] IN w.lat + w.res + w.net + w.slo \in 99 .. 101

-----------------------------------------------------------------------------
(* compute_scores.  The definitions named ..._Bug are not part of the model: *)
(* each is a plausible mistake in the definition that follows it.            *)

Answered(table, t) == t \in DOMAIN table /\ table[t].reachable

\* get_tier_utilization: a tier without a telemetry record counts as busy.
Utilization(table, t) ==
  IF Answered(table, t) THEN Max({table[t].cpu, table[t].mem}) ELSE 90

PhiRes(table, t) ==
  LET rho == Min({Utilization(table, t), 99}) IN (Kappa * rho) \div (100 - rho)

PhiNet_Bug(table, t) ==   \* a node that does not answer costs nothing
  IF Answered(table, t) THEN table[t].rtt ELSE 0

PhiNet(table, t) ==
  IF t = Cloud THEN 0 ELSE IF Answered(table, t) THEN table[t].rtt ELSE 1000

\* What an operator contributes, given its observed latency in ms.
PhiLat(o, lat) == (LambdaMap[o] * lat) \div 10
PhiSlo(o, lat) ==
  IF lat <= SloMap[o] THEN 0 ELSE (SloPenalty * (lat - SloMap[o])) \div SloMap[o]

ComputeScores(table, latency, weights) ==
  [o \in Op |-> [t \in Tier |->
     weights.lat * PhiLat(o, latency[o]) + weights.res * PhiRes(table, t)
       + weights.net * PhiNet(table, t) + weights.slo * PhiSlo(o, latency[o])]]

-----------------------------------------------------------------------------
(* find_optimal_placement.                                                  *)

\* Position in a sequence without repetitions.
Place(x, s) == CHOOSE i \in 1 .. Len(s) : s[i] = x

\* Both sorts are stable: the order of the dictionaries decides between equals.
LeastScore(score, o) == Min({score[o][t] : t \in Tier})
Before(score, o, p) ==
  \/ LeastScore(score, o) > LeastScore(score, p)
  \/ LeastScore(score, o) = LeastScore(score, p) /\ Place(o, Ops) < Place(p, Ops)

Cheapest_Bug(score, o, free) ==   \* the sort is reversed
  CHOOSE t \in free : \A u \in free : score[o][t] >= score[o][u]

Cheapest(score, o, free) ==
  CHOOSE t \in free : \A u \in free \ {t} :
    \/ score[o][t] < score[o][u]
    \/ score[o][t] = score[o][u] /\ Place(t, Tiers) < Place(u, Tiers)

Load(placed, t) == Cardinality({o \in DOMAIN placed : placed[o] = t})

Free_Bug(placed) == {t \in Tier : Load(placed, t) <= Capacity[t]}   \* off by one

\* Tiers with room beside the operators already placed.  (Those that the cloud
\* took beyond its capacity do not matter: nothing is free any more.)
Free(placed) == {t \in Tier : Load(placed, t) < Capacity[t]}

\* The operator that chooses as the k-th, the one with the greatest least score
\* first.
Turn(score, k) ==
  CHOOSE o \in Op : Cardinality({p \in Op : Before(score, p, o)}) = k - 1

\* When nothing is free the cloud takes the operator beyond its capacity.
Choice(score, placed, o) ==
  IF Free(placed) = {} THEN Cloud ELSE Cheapest(score, o, Free(placed))

Choose(score, placed, o) ==
  [p \in DOMAIN placed \union {o} |-> IF p = o THEN Choice(score, placed, o) ELSE placed[p]]

\* The placement after each turn.
Turns(score) ==
  LET placed[k \in 0 .. Len(Ops)] ==
        IF k = 0 THEN <<>> ELSE Choose(score, placed[k - 1], Turn(score, k))
  IN  placed

FindOptimalPlacement(score) == Turns(score)[Len(Ops)]

-----------------------------------------------------------------------------
Candidates_Bug(current, optimal, score) ==   \* no hysteresis
  {o \in Op : current[o] # optimal[o]}

\* _identify_migration_candidates.
Candidates(current, optimal, score) ==
  {o \in Op : /\ current[o] # optimal[o]
              /\ score[o][current[o]] - score[o][optimal[o]] >= DeltaH}
=============================================================================
