--------------------------- MODULE WorkloadOperators ---------------------------
(***************************************************************************)
(* The eleven operators of the workloads (workloads/w1, w2, w3), each as a *)
(* function from its state and a record to its next state and the records  *)
(* it emits, and the state that get_state and restore_state carry.         *)
(*                                                                         *)
(* A float is a fixed-point integer in units of One, and a square one in   *)
(* units of One * One, so no root is taken: a quotient by a standard       *)
(* deviation is the pair of its dividend and the variance.  Configuration  *)
(* that an instance never changes (alpha, names, thresholds) is a constant *)
(* and left out of the states, with the exception of the risk limit, whose *)
(* default on restoration is not the configured one.                       *)
(***************************************************************************)
EXTENDS Integers, SequencesExt

CONSTANTS
  One,            (* the integer that stands for 1.0                         *)
  WindowSize,     (* window_size of a FeatureAggWindow                       *)
  EmitEvery,      (* its _emit_every                                         *)
  Pct,            (* the percentile of agg_p95, 95 in the code               *)
  NZones,         (* how many zones complete a join                          *)
  JoinTimeout,    (* window_timeout                                          *)
  Threshold,      (* threshold of the classifier                             *)
  MaxTimes,       (* maxlen of _detection_times and _recent_zscores          *)
  Sensors,        (* sensors of a zone                                       *)
  EmitInterval,   (* _emit_interval of a ZoneAggregator                      *)
  Congestion,     (* congestion_threshold                                    *)
  MaxHistory,     (* maxlen of a zone's history                              *)
  Limit,          (* the limit of the checked risk category                  *)
  StatEvery,      (* records between two outputs of a StatAggregator         *)
  None            (* Python's None, Java's null                              *)

Kinds == {"NormalizerOperator", "FeatureAggWindow", "MultiStreamJoin", "BinaryClassifier",
          "VehicleDetector", "ZoneAggregator", "PatternDetector",
          "RiskCheck", "AnomalyDetector", "StatAggregator", "ComplianceLogger"}

\* dict.get(f, d)
Field(r, f, d) == IF f \in DOMAIN r THEN r[f] ELSE d

\* TLC's f @@ g, which the provers do not know.
Over(f, g) == [x \in DOMAIN f \union DOMAIN g |-> IF x \in DOMAIN f THEN f[x] ELSE g[x]]

\* map[x] = v
Put(map, x, v) == [y \in DOMAIN map \union {x} |-> IF y = x THEN v ELSE map[y]]

MaxOf(a, b) == IF a >= b THEN a ELSE b
MinOf(a, b) == IF a <= b THEN a ELSE b

\* collections.deque(maxlen = m).append(x)
Push(q, x, m) == LET p == Append(q, x) IN SubSeq(p, MaxOf(1, Len(p) - m + 1), Len(p))

SeqSum(q) == FoldSeq(LAMBDA x, y : x + y, 0, q)
Square(x) == x * x

\* (1 - alpha) * old + alpha * x with alpha = 0.2
Ewma(old, x) == (4 * old + x) \div 5

-----------------------------------------------------------------------------
(* The definitions named ..._Bug are not part of the model: each is a       *)
(* plausible mistake in the definition that follows it.                     *)
(* For each operator, ...State are the fields that get_state saves, with    *)
(* what restore_state takes for one that is missing, and New... is what the *)
(* constructor sets.                                                        *)

(* Workload 1: sensors.                                                     *)

NormalizerState == [mean |-> 0, variance |-> One * One, count |-> 0]
NewNormalizer == NormalizerState

Normalizer_Bug(s, r) ==   \* the variance is weighted with the new count
  LET x    == Field(r, "sensor_value", 0)
      n    == s.count + 1
      d    == x - s.mean
      mean == s.mean + d \div n
      var  == (n * s.variance + d * (x - mean)) \div n
  IN  [state |-> [mean |-> mean, variance |-> var, count |-> n],
       out   |-> <<[normalized_value |-> <<x - mean, var>>]>>]

\* Welford's running mean and variance; the output is normalized with both.
Normalizer(s, r) ==
  LET x    == Field(r, "sensor_value", 0)
      n    == s.count + 1
      d    == x - s.mean
      mean == s.mean + d \div n
      var  == ((n - 1) * s.variance + d * (x - mean)) \div n
  IN  [state |-> [mean |-> mean, variance |-> var, count |-> n],
       out   |-> <<[normalized_value |-> <<x - mean, var>>]>>]

AggregatorState == [window |-> <<>>]
NewAggregator == Over([since |-> 0], AggregatorState)

\* Position, from 1, of the percentile in a sorted sequence of length n:
\* min(n - 1, max(0, ceil(0.95 n) - 1)) counted from 0.
PctIndex_Bug(n) == MinOf(n, MaxOf(1, (Pct * n) \div 100))   \* floor, not ceil
PctIndex(n) == MinOf(n, MaxOf(1, (Pct * n + 99) \div 100))

\* The value at position k of sorted(q).
AtPosition(q, k) ==
  CHOOSE v \in ToSet(q) : /\ Cardinality({i \in DOMAIN q : q[i] < v}) < k
                          /\ Cardinality({i \in DOMAIN q : q[i] <= v}) >= k

Percentile(q) == AtPosition(q, PctIndex(Len(q)))

\* A window that emits its figures after every EmitEvery-th record.
Aggregator(s, r) ==
  LET w     == Push(s.window, Field(r, "normalized_value", 0), WindowSize)
      n     == s.since + 1
      all   == ToSet(w)
      stats == [sum |-> SeqSum(w), min |-> Min(all), max |-> Max(all),
                p95 |-> Percentile(w), count |-> Len(w)]
  IN  IF n < EmitEvery
      THEN [state |-> [window |-> w, since |-> n], out |-> <<>>]
      ELSE [state |-> [window |-> w, since |-> 0], out |-> <<stats>>]

JoinState == [window |-> <<>>]
NewJoin(now) == Over([start |-> now], JoinState)

\* One aggregate per zone, the newest; emitted when every zone is present or
\* the window has been open for too long.
Join(s, r, now) ==
  LET w == Put(s.window, Field(r, "zone_id", "unknown"), Field(r, "agg_max", 0))
  IN  IF Cardinality(DOMAIN w) >= NZones \/ now - s.start > JoinTimeout
      THEN [state |-> [window |-> <<>>, start |-> now],
            out   |-> <<[zones_present |-> DOMAIN w, max |-> w]>>]
      ELSE [state |-> [s EXCEPT !.window = w], out |-> <<>>]

\* The four counters of the classifier are saved and restored but never
\* changed, like its threshold.
ClassifierState == [tp |-> 0, fp |-> 0, tn |-> 0, fn |-> 0]
NewClassifier == ClassifierState

Classifier(s, r) ==
  LET maxes == Field(r, "zone_max", <<>>)
      score == IF maxes = <<>> THEN 0 ELSE SeqSum(maxes) \div Len(maxes)
      hit   == score >= Threshold
  IN  [state |-> s,
       out   |-> <<[label |-> IF hit THEN 1 ELSE 0,
                    confidence |-> IF hit THEN score ELSE One - score]>>]

-----------------------------------------------------------------------------
(* Workload 2: traffic.                                                     *)

DetectorState == [occ |-> 0, speed |-> 0, count |-> 0, last |-> None, times |-> <<>>]
NewDetector == DetectorState

\* The mean of the intervals between the kept detections; a mean of zero is
\* reported as if there were none.
Headway(times) ==
  LET n == Len(times)
  IN  IF n < 2 \/ times[n] = times[1] THEN None
      ELSE (times[n] - times[1]) \div (n - 1)

\* Both averages must exceed their threshold: 0.15 and 2.0 km/h.
Detector(s, r) ==
  LET occ   == Ewma(s.occ, Field(r, "occupancy", 0))
      speed == Ewma(s.speed, Field(r, "speed_kmh", 0))
      seen  == 20 * occ > 3 * One /\ speed > 2 * One
      times == IF seen THEN Push(s.times, r.timestamp, MaxTimes) ELSE s.times
      count == IF seen THEN s.count + 1 ELSE s.count
  IN  [state |-> [occ |-> occ, speed |-> speed, count |-> count, times |-> times,
                  last |-> IF seen THEN r.timestamp ELSE s.last],
       out   |-> <<[vehicle_detected |-> seen, detection_count |-> count,
                    mean_headway |-> Headway(times)]>>]

ZoneState == [counts |-> <<>>, total |-> 0]
NewZone(now) == Over([emitted |-> now], ZoneState)

Zone_Bug(s, r, now) ==   \* detections count when they are emitted only
  LET hit    == Field(r, "vehicle_detected", FALSE)
      id     == Field(r, "sensor_id", "unknown")
      due    == now - s.emitted >= EmitInterval
      counts == IF hit /\ due THEN Put(s.counts, id, Field(s.counts, id, 0) + 1) ELSE s.counts
      total  == IF hit THEN s.total + 1 ELSE s.total
  IN  [state |-> [counts |-> counts, total |-> total, emitted |-> IF due THEN now ELSE s.emitted],
       out   |-> IF due THEN <<[total_detections |-> total,
                                active_sensors |-> Cardinality(DOMAIN counts)]>>
                 ELSE <<>>]

\* Detections per sensor and in total, reported at most once per interval.
Zone(s, r, now) ==
  LET hit    == Field(r, "vehicle_detected", FALSE)
      id     == Field(r, "sensor_id", "unknown")
      due    == now - s.emitted >= EmitInterval
      counts == IF hit THEN Put(s.counts, id, Field(s.counts, id, 0) + 1) ELSE s.counts
      total  == IF hit THEN s.total + 1 ELSE s.total
  IN  [state |-> [counts |-> counts, total |-> total, emitted |-> IF due THEN now ELSE s.emitted],
       out   |-> IF due THEN <<[total_detections |-> total,
                                active_sensors |-> Cardinality(DOMAIN counts)]>>
                 ELSE <<>>]

PatternState == [history |-> <<>>, incidents |-> 0]
NewPattern == PatternState

\* A congestion wave: at least three zones whose newest density is too high.
Pattern(s, r) ==
  LET z    == Field(r, "zone_id", "unknown")
      hist == Put(s.history, z, Push(Field(s.history, z, <<>>), Field(r, "density", 0), MaxHistory))
      jam  == {y \in DOMAIN hist : Last(hist[y]) > Congestion}
  IN  IF Cardinality(jam) >= 3
      THEN [state |-> [history |-> hist, incidents |-> s.incidents + 1],
            out   |-> <<[congested_zones |-> jam, incident_count |-> s.incidents + 1]>>]
      ELSE [state |-> [s EXCEPT !.history = hist], out |-> <<>>]

-----------------------------------------------------------------------------
(* Workload 3: finance.                                                     *)

\* restore_state falls back on 1,000,000.0 whatever the category.
DefaultLimit == 1000
RiskState == [limit |-> DefaultLimit, breaches |-> 0, checked |-> 0]
NewRisk == [RiskState EXCEPT !.limit = Limit]

Risk(s, r) ==
  LET exposure == MaxOf(0, Field(r, "exposure", 0))
      exceeded == exposure > s.limit
      breaches == IF exceeded THEN s.breaches + 1 ELSE s.breaches
  IN  [state |-> [limit |-> s.limit, breaches |-> breaches, checked |-> s.checked + 1],
       out   |-> <<[risk_exceeded |-> exceeded, breach_count |-> breaches]>>]

AnomalyState == [mean |-> 0, m2 |-> One * One, count |-> 0, recent |-> <<>>]
NewAnomaly == AnomalyState

IsAnomaly_Bug(m2, d) == Square(d) > 9 * m2   \* with the m2 from before the update

\* |value - mean| / sqrt(m2) > 3 with the mean from before the update and the
\* m2 from after it, 0.8 * m2 + 0.2 * d^2, squared and before it is rounded.  The
\* kept z-scores are pairs.
IsAnomaly(m2, d) == 5 * Square(d) > 9 * (4 * m2 + Square(d))

Anomaly(s, r) ==
  LET x   == Field(r, "value", 0)
      d   == x - s.mean
      m2  == Ewma(s.m2, Square(d))
      odd == IsAnomaly(s.m2, d)
      n   == IF odd THEN s.count + 1 ELSE s.count
  IN  [state |-> [mean |-> Ewma(s.mean, x), m2 |-> m2, count |-> n,
                  recent |-> Push(s.recent, <<Square(d), m2>>, MaxTimes)],
       out   |-> <<[is_anomaly |-> odd, anomaly_count |-> n]>>]

\* min and max are infinite at first, which is saved as None and read back.
StatState == [count |-> 0, mean |-> 0, m2 |-> 0, min |-> None, max |-> None]
NewStat == StatState

Stat(s, r) ==
  LET x    == Field(r, "value", 0)
      n    == s.count + 1
      d    == x - s.mean
      mean == s.mean + d \div n
      next == [count |-> n, mean |-> mean, m2 |-> s.m2 + d * (x - mean),
               min |-> IF s.min = None THEN x ELSE Min({s.min, x}),
               max |-> IF s.max = None THEN x ELSE Max({s.max, x})]
  IN  [state |-> next,
       out   |-> IF n % StatEvery = 0
                 THEN <<[count |-> n, mean |-> mean, min |-> next.min, max |-> next.max,
                         variance |-> IF n > 1 THEN next.m2 \div (n - 1) ELSE 0]>>
                 ELSE <<>>]

LoggerState == [seq |-> 0, counts |-> <<>>, first |-> None, last |-> None]
NewLogger == LoggerState

Logger(s, r) ==
  LET e == Field(r, "event_type", "unknown")
  IN  [state |-> [seq    |-> s.seq + 1,
                  counts |-> Put(s.counts, e, Field(s.counts, e, 0) + 1),
                  first  |-> IF s.first = None THEN r.timestamp ELSE s.first,
                  last   |-> r.timestamp],
       out   |-> <<[log_sequence |-> s.seq + 1]>>]

-----------------------------------------------------------------------------
\* The fields that get_state returns, with the value restore_state gives to one
\* that is missing.
Saved(k) ==
  CASE k = "NormalizerOperator" -> NormalizerState
    [] k = "FeatureAggWindow"   -> AggregatorState
    [] k = "MultiStreamJoin"    -> JoinState
    [] k = "BinaryClassifier"   -> ClassifierState
    [] k = "VehicleDetector"    -> DetectorState
    [] k = "ZoneAggregator"     -> ZoneState
    [] k = "PatternDetector"    -> PatternState
    [] k = "RiskCheck"          -> RiskState
    [] k = "AnomalyDetector"    -> AnomalyState
    [] k = "StatAggregator"     -> StatState
    [] k = "ComplianceLogger"   -> LoggerState

\* What restore_state sets to the present.
Reset(k, now) ==
  CASE k = "FeatureAggWindow" -> [since |-> 0]
    [] k = "MultiStreamJoin"  -> [start |-> now]
    [] k = "ZoneAggregator"   -> [emitted |-> now]
    [] OTHER                  -> <<>>

\* A new instance.
Fresh(k, now) ==
  CASE k = "NormalizerOperator" -> NewNormalizer
    [] k = "FeatureAggWindow"   -> NewAggregator
    [] k = "MultiStreamJoin"    -> NewJoin(now)
    [] k = "BinaryClassifier"   -> NewClassifier
    [] k = "VehicleDetector"    -> NewDetector
    [] k = "ZoneAggregator"     -> NewZone(now)
    [] k = "PatternDetector"    -> NewPattern
    [] k = "RiskCheck"          -> NewRisk
    [] k = "AnomalyDetector"    -> NewAnomaly
    [] k = "StatAggregator"     -> NewStat
    [] k = "ComplianceLogger"   -> NewLogger

GetState(k, s) == Restrict(s, DOMAIN Saved(k))

RestoreState_Bug(k, d, now) ==   \* counters are not read back
  Over(Reset(k, now), [f \in DOMAIN Saved(k) |-> IF f \in {"count", "counts", "seq"} THEN Saved(k)[f]
                                                  ELSE Field(d, f, Saved(k)[f])])

RestoreState(k, d, now) ==
  Over(Reset(k, now), [f \in DOMAIN Saved(k) |-> Field(d, f, Saved(k)[f])])

\* process
Process(k, s, r, now) ==
  CASE k = "NormalizerOperator" -> Normalizer(s, r)
    [] k = "FeatureAggWindow"   -> Aggregator(s, r)
    [] k = "MultiStreamJoin"    -> Join(s, r, now)
    [] k = "BinaryClassifier"   -> Classifier(s, r)
    [] k = "VehicleDetector"    -> Detector(s, r)
    [] k = "ZoneAggregator"     -> Zone(s, r, now)
    [] k = "PatternDetector"    -> Pattern(s, r)
    [] k = "RiskCheck"          -> Risk(s, r)
    [] k = "AnomalyDetector"    -> Anomaly(s, r)
    [] k = "StatAggregator"     -> Stat(s, r)
    [] k = "ComplianceLogger"   -> Logger(s, r)
================================================================================
