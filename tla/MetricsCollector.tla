-------------------------- MODULE MetricsCollector --------------------------
(* experiments/metrics/collector.py: what one experiment run measures.      *)
(*                                                                          *)
(* Events arrive while the collection loop cuts time into windows, one each *)
(* Interval, or up to Lag later when the event loop is busy. One operator   *)
(* type stands for the keys of the dictionaries; pauses, overheads and      *)
(* utilisations (M4 to M6) are collected and cleared like the samples.      *)
(* clock is the time since start(), in whole units.                         *)
EXTENDS Integers, Sequences, FiniteSets, FiniteSetsExt

CONSTANTS Interval,  \* the sleep of the collection loop (5 s)
          Lag,       \* how late a sleeper may wake
          Warmup,    \* warmup_s
          Pct,       \* the percentile of M1, in per cent (95)
          Cap,       \* how many of the last samples M1 looks at (1000)
          Slo,       \* slo_ms of the operator type, when it is given
          Latency,   \* the latencies that are recorded
          MaxEvents  \* bounds the run: events of one measurement

ASSUME CollectorAssumption ==
  /\ Interval \in Nat \ {0} /\ Lag \in Nat /\ Warmup \in Nat \ {0} /\ MaxEvents \in Nat
  /\ Pct \in 1..100 /\ Cap \in Nat \ {0} /\ Slo \in Nat /\ Latency \subseteq Nat

\* A MetricSnapshot, with its window, the numbers that its rates are made of, and
\* the parts of M2 as a pair.
MetricSnapshot ==
  [at : Nat, window : Int, events : Nat, sampled : Nat, p95 : Int,
   slo : [good : Nat, total : Nat]]

Never == -1   \* wake while no collection loop runs
NoFigure == -1

VARIABLES clock,
          wake,       \* when the collection loop is due
          samples,    \* _latency_samples
          counter,    \* _slo_counters: compliant events and all of them
          ingested,   \* _ingest_count
          since,      \* _ingest_window_start
          snapshots,  \* _snapshots
          arrivals    \* history: when each event of this measurement arrived

window == <<samples, counter, ingested, since>>
collectorVars == <<clock, wake, window, snapshots, arrivals>>

CollectorTypeOK ==
  /\ clock \in Nat /\ wake \in Nat \cup {Never} /\ since \in Nat
  /\ samples \in Seq(Latency) /\ counter \in [good : Nat, total : Nat] /\ ingested \in Nat
  /\ snapshots \in Seq(MetricSnapshot) /\ arrivals \in Seq(Nat)

NoWindow == samples' = <<>> /\ counter' = [good |-> 0, total |-> 0] /\ ingested' = 0

CollectorInit ==
  /\ clock = 0 /\ wake = Never /\ since = 0
  /\ samples = <<>> /\ counter = [good |-> 0, total |-> 0] /\ ingested = 0
  /\ snapshots = <<>> /\ arrivals = <<>>

\* A new collector is made for each run and started.
Start ==
  /\ clock' = 0 /\ wake' = 0 /\ since' = 0
  /\ NoWindow /\ snapshots' = <<>> /\ arrivals' = <<>>

Stop == wake' = Never /\ UNCHANGED <<clock, window, snapshots, arrivals>>

\* record_latency, with or without an objective, and record_ingest of one event.
Record(ms, objective) ==
  /\ wake # Never /\ Len(arrivals) < MaxEvents
  /\ samples' = Append(samples, ms)
  /\ counter' = IF objective
                THEN [good  |-> counter.good + (IF ms <= Slo THEN 1 ELSE 0),
                      total |-> counter.total + 1]
                ELSE counter
  /\ ingested' = ingested + 1
  /\ arrivals' = Append(arrivals, clock)
  /\ UNCHANGED <<clock, wake, since, snapshots>>

Rank_Bug(n) == Max({1, (n * Pct) \div 100})   \* rounds down

\* The place of the percentile among n sorted samples, counted from 1.
Rank(n) == Max({1, (n * Pct + 99) \div 100})

\* sorted(samples[-Cap:])[Rank - 1]
Percentile ==
  LET last == {i \in DOMAIN samples : i > Len(samples) - Cap}
      rank == Rank(Cardinality(last))
  IN  CHOOSE v \in {samples[i] : i \in last} :
        /\ Cardinality({i \in last : samples[i] < v}) < rank
        /\ Cardinality({i \in last : samples[i] <= v}) >= rank

BuildSnapshot ==
  [at |-> clock, window |-> clock - since, events |-> ingested, sampled |-> Len(samples),
   p95 |-> IF samples = <<>> THEN NoFigure ELSE Percentile, slo |-> counter]

CollectionLoop_Bug ==   \* the ingest count is not reset
  /\ wake # Never /\ wake <= clock
  /\ snapshots' = Append(snapshots, BuildSnapshot)
  /\ samples' = <<>> /\ counter' = [good |-> 0, total |-> 0] /\ ingested' = ingested
  /\ since' = clock
  /\ wake' = clock + Interval
  /\ UNCHANGED <<clock, arrivals>>
CollectionLoop ==
  /\ wake # Never /\ wake <= clock
  /\ snapshots' = Append(snapshots, BuildSnapshot)
  /\ NoWindow /\ since' = clock
  /\ wake' = clock + Interval
  /\ UNCHANGED <<clock, arrivals>>

\* No sleeper wakes more than Lag late: neither the loop nor one due at other.
Tick(other) ==
  /\ wake # Never
  /\ clock < wake + Lag /\ clock < other + Lag
  /\ clock' = clock + 1
  /\ UNCHANGED <<wake, window, snapshots, arrivals>>

\* get_snapshots(post_warmup_only=True), as a set: no two are of one moment.
GetSnapshots == {snapshots[i] : i \in {j \in DOMAIN snapshots : snapshots[j].at >= Warmup}}

\* M1 and M2 say the same of a window: the percentile meets the objective exactly
\* if at least Pct per cent of the events do. They may part in two ways alone: in a
\* window of more than Cap events, of which M1 sees the last ones, and by an event
\* without an objective, which M1 sees and M2 does not (_build_snapshot,
\* record_latency). Neither can be told from what is saved.
FiguresAgree ==
  \A i \in DOMAIN snapshots :
    LET s == snapshots[i]
    IN  s.sampled \in 1..Cap /\ s.slo.total = s.sampled =>
          (s.p95 <= Slo <=> s.slo.good * 100 >= Pct * s.slo.total)
=============================================================================
