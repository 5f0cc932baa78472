----------------------------- MODULE FlinkOperators ----------------------------
(***************************************************************************)
(* The operators as the Flink connector implements them                    *)
(* (operator/OperatorFactory.java), with the state of a MigratedOperator:  *)
(* a map from names to values that starts empty or as a given state.       *)
(* Every operator reads its fields with a default, so a missing state is   *)
(* not an error.  Numbers are those of WorkloadOperators.                  *)
(***************************************************************************)
EXTENDS WorkloadOperators

CONSTANTS
  FlinkWindow,      (* the default of window_size, 100                       *)
  FlinkThreshold    (* the default of threshold, 0.5                         *)

\* The names under which the operators keep their state and its configuration.
StateNames == {"std", "mean", "window", "window_size", "join_buffer", "threshold",
               "zone_counts", "pattern", "risk_limit", "ewma_mean", "ewma_std",
               "count", "sum", "m2", "logged_count"}

\* getDouble, getInt, getLong: null counts as missing.
Value(map, f, d) == IF Field(map, f, None) = None THEN d ELSE map[f]

\* The standard deviation is kept, not its square.
FlinkNormalizer(st, r) ==
  LET std == Value(st, "std", One)
  IN  [state |-> st,
       out   |-> <<[normalized_value |->
                      <<IF std > 0 THEN Value(r, "value", 0) - Value(st, "mean", 0) ELSE 0,
                        Square(std)>>]>>]

FlinkAggregator_Bug(st, r) ==   \* cut before the value is added
  LET w   == Push(Field(st, "window", <<>>), Value(r, "value", 0), Value(st, "window_size", FlinkWindow) + 1)
      all == ToSet(w)
  IN  [state |-> Put(st, "window", w),
       out   |-> <<[sum |-> SeqSum(w), min |-> Min(all), max |-> Max(all), count |-> Len(w)]>>]

FlinkAggregator(st, r) ==
  LET w   == Push(Field(st, "window", <<>>), Value(r, "value", 0), Value(st, "window_size", FlinkWindow))
      all == ToSet(w)
  IN  [state |-> Put(st, "window", w),
       out   |-> <<[sum |-> SeqSum(w), min |-> Min(all), max |-> Max(all), count |-> Len(w)]>>]

\* Emits at once, and the buffer is never emptied.
FlinkJoin(st, r) ==
  LET buffer == Put(Field(st, "join_buffer", <<>>), Field(r, "join_key", "unknown"), r)
  IN  [state |-> Put(st, "join_buffer", buffer),
       out   |-> <<[joined_records |-> Cardinality(DOMAIN buffer)]>>]

FlinkClassifier(st, r) ==
  LET score == Value(r, "score", 0)
      hit   == score >= Value(st, "threshold", FlinkThreshold)
  IN  [state |-> st,
       out   |-> <<[label |-> IF hit THEN 1 ELSE 0,
                    confidence |-> IF hit THEN score ELSE One - score]>>]

FlinkDetector(st, r) ==
  [state |-> st,
   out   |-> <<[vehicle_detected |-> /\ 10 * Value(r, "occupancy", 0) > One
                                     /\ Value(r, "speed", 0) > 0]>>]

FlinkZone(st, r) ==
  LET z      == Field(r, "zone_id", "unknown")
      old    == Field(st, "zone_counts", <<>>)
      counts == IF Field(r, "vehicle_detected", FALSE) THEN Put(old, z, Field(old, z, 0) + 1) ELSE old
  IN  [state |-> Put(st, "zone_counts", counts),
       out   |-> <<[zone_id |-> z, vehicle_count |-> Field(counts, z, 0)]>>]

\* Three detections in a row among the last ten records.
FlinkPattern(st, r) ==
  LET p == Push(Field(st, "pattern", <<>>), Field(r, "vehicle_detected", FALSE), 10)
  IN  [state |-> Put(st, "pattern", p),
       out   |-> <<[pattern_detected |-> \E i \in 1 .. Len(p) - 2 : p[i] /\ p[i + 1] /\ p[i + 2]]>>]

FlinkRisk(st, r) ==
  [state |-> st,
   out   |-> <<[risk_exceeded |-> Value(r, "exposure", 0) > Value(st, "risk_limit", DefaultLimit)]>>]

FlinkAnomaly(st, r) ==
  LET x    == Value(r, "value", 0)
      mean == Value(st, "ewma_mean", 0)
      std  == Value(st, "ewma_std", One)
      next == Ewma(mean, x)
  IN  [state |-> Over([ewma_mean |-> next, ewma_std |-> Ewma(std, MaxOf(x - next, next - x))], st),
       out   |-> <<[is_anomaly |-> std > 0 /\ MaxOf(x - mean, mean - x) > 3 * std]>>]

FlinkStat_Bug(st, r) ==   \* both deviations from the new mean
  LET x     == Value(r, "value", 0)
      n     == Value(st, "count", 0) + 1
      sum   == Value(st, "sum", 0) + x
      delta == x - sum \div n
      m2    == Value(st, "m2", 0) + delta * delta
  IN  [state |-> Over([count |-> n, sum |-> sum, m2 |-> m2], st),
       out   |-> <<[count |-> n, mean |-> sum \div n,
                    variance |-> IF n > 1 THEN m2 \div (n - 1) ELSE 0]>>]

\* The mean from before the record is taken from the sum.
FlinkStat(st, r) ==
  LET x     == Value(r, "value", 0)
      n     == Value(st, "count", 0) + 1
      sum   == Value(st, "sum", 0) + x
      delta == x - (sum - x) \div MaxOf(1, n - 1)
      m2    == Value(st, "m2", 0) + delta * (x - sum \div n)
  IN  [state |-> Over([count |-> n, sum |-> sum, m2 |-> m2], st),
       out   |-> <<[count |-> n, mean |-> sum \div n,
                    variance |-> IF n > 1 THEN m2 \div (n - 1) ELSE 0]>>]

FlinkLogger(st, r) ==
  LET n == Value(st, "logged_count", 0) + 1
  IN  [state |-> Put(st, "logged_count", n), out |-> <<[log_sequence |-> n]>>]

\* OperatorFactory.create: the logic of a type; an unknown one passes through.
FlinkLogic(k, st, r) ==
  CASE k = "NormalizerOperator" -> FlinkNormalizer(st, r)
    [] k = "FeatureAggWindow"   -> FlinkAggregator(st, r)
    [] k = "MultiStreamJoin"    -> FlinkJoin(st, r)
    [] k = "BinaryClassifier"   -> FlinkClassifier(st, r)
    [] k = "VehicleDetector"    -> FlinkDetector(st, r)
    [] k = "ZoneAggregator"     -> FlinkZone(st, r)
    [] k = "PatternDetector"    -> FlinkPattern(st, r)
    [] k = "RiskCheck"          -> FlinkRisk(st, r)
    [] k = "AnomalyDetector"    -> FlinkAnomaly(st, r)
    [] k = "StatAggregator"     -> FlinkStat(st, r)
    [] k = "ComplianceLogger"   -> FlinkLogger(st, r)
    [] OTHER                    -> [state |-> st, out |-> <<r>>]

\* The state of a job is <<>> while it is null, else <<map>>.

\* MigratedOperator.open: a restored state seeds the state of the job unless it
\* is empty; without one the state is null until the first record.
Open(restored) == IF DOMAIN restored = {} THEN <<>> ELSE <<restored>>

\* MigratedOperator.flatMap
FlatMap(k, st, r) ==
  LET p == FlinkLogic(k, IF st = <<>> THEN <<>> ELSE st[1], r)
  IN  [state |-> <<p.state>>, out |-> p.out]
================================================================================
