----------------------------- MODULE StateTransfer -----------------------------
(***************************************************************************)
(* What becomes of an operator's state when the operator is moved.  Three  *)
(* instances of one operator read the same records: one that is never      *)
(* moved (live), one that is handed over between agents by get_state and   *)
(* restore_state whenever that likes to happen (edge), and one of the      *)
(* connector's implementation (job).  A migration snapshot of live is      *)
(* stored, may be damaged in the object store, and is read by both sides.  *)
(*                                                                         *)
(* Nothing in the connector takes the step from a snapshot to a running    *)
(* job: restoreOperator (FlinkConnectorServiceImpl.java:73-86) refuses     *)
(* every snapshot as long as no schema file is loaded, and submitFlinkJob  *)
(* hands its operator to nobody.  So the job is modelled as its class is   *)
(* offered and tested: made by OperatorFactory.create from a given state,  *)
(* opened, and given records from any one on.                              *)
(***************************************************************************)
EXTENDS FlinkOperators

CONSTANTS
  Inputs,       (* the records of each kind, without their timestamps        *)
  Moved,        (* the kinds under test                                      *)
  LocalSchemas, EtcdSchemas, ConnectorFiles,
  Restored,     (* the states that jobs are created with                     *)
  Garbage, Error,
  MaxRecords,   (* bound: records                                            *)
  MaxClock,     (* bound: time                                               *)
  MaxMoves      (* bound: hand-overs between agents                          *)

INSTANCE SnapshotCodec WITH Missing <- None

ASSUME TransferAssumption ==
  /\ Moved \subseteq Kinds /\ None \notin Kinds
  /\ One \in Nat /\ WindowSize \in Nat \ {0} /\ Pct \in 0 .. 100
  /\ MaxRecords \in Nat /\ Limit \in Int

\* Numbers are numbers, and nothing else is None.
Numbers == {<<"AnomalyDetector", "value">>, <<"FeatureAggWindow", "normalized_value">>,
            <<"NormalizerOperator", "sensor_value">>, <<"StatAggregator", "value">>,
            <<"RiskCheck", "exposure">>}
ASSUME NumbersAssumption ==
  /\ None \notin Int
  /\ \A c \in Numbers : c[1] \in Moved => \A r \in Inputs[c[1]] : Field(r, c[2], 0) \in Int

\* There are schemas of version 1 only (schema-registry/schemas/v1).
ASSUME SchemasAssumption ==
  \A c \in DOMAIN LocalSchemas \union DOMAIN EtcdSchemas : c[2] = 1

\* The schemas list nothing that the connector's operators keep, so neither
\* does a state that was translated from a snapshot.
ASSUME RestoredAssumption == \A map \in Restored : DOMAIN map \cap StateNames = {}

VARIABLES
  kind,     (* the operator class                                            *)
  seen,     (* the records so far                                            *)
  clock,    (* time.monotonic()                                              *)
  live,     (* the instance that stays                                       *)
  edge,     (* the instance that is handed over                              *)
  moves,    (* its hand-overs                                                *)
  said,     (* what live and edge emitted for the newest record              *)
  object,   (* the snapshot in the object store                              *)
  saved,    (* history: what get_state returned for it                       *)
  drained,  (* history: how many records had been processed then             *)
  job       (* the MigratedOperator, and where in the topic it is            *)

vars == <<kind, seen, clock, live, edge, moves, said, object, saved, drained, job>>

\* from is a history: the records before the job's first.
NoJob == [up |-> FALSE, state |-> <<>>, from |-> 0, next |-> 0, out |-> <<>>]

Init ==
  /\ kind \in Moved
  /\ seen = <<>> /\ clock = 0
  /\ live = Fresh(kind, 0) /\ edge = Fresh(kind, 0)
  /\ moves = 0
  /\ said = [live |-> <<>>, edge |-> <<>>]
  /\ object = None /\ saved = None /\ drained = 0
  /\ job = NoJob

\* A record arrives; it carries the time.
Arrive ==
  /\ Len(seen) < MaxRecords
  /\ \E input \in Inputs[kind] :
       LET r == Over(input, [timestamp |-> clock])
           l == Process(kind, live, r, clock)
           e == Process(kind, edge, r, clock)
       IN  /\ seen' = Append(seen, r)
           /\ live' = l.state /\ edge' = e.state
           /\ said' = [live |-> l.out, edge |-> e.out]
  /\ UNCHANGED <<kind, clock, moves, object, saved, drained, job>>

\* (Bound: time stands still for the classes that do not look at it.)
Tick ==
  /\ clock < MaxClock
  /\ kind \in {"MultiStreamJoin", "VehicleDetector", "ZoneAggregator", "ComplianceLogger"}
  /\ clock' = clock + 1
  /\ UNCHANGED <<kind, seen, live, edge, moves, said, object, saved, drained, job>>

\* A new instance takes over: restore_state(get_state()).
HandOver ==
  /\ moves < MaxMoves
  /\ moves' = moves + 1
  /\ edge' = RestoreState(kind, GetState(kind, edge), clock)
  /\ UNCHANGED <<kind, seen, clock, live, said, object, saved, drained, job>>

\* The offsets of the last records that the operator consumed, by partition; the
\* orchestrator sends them as a JSON text (pctr.py:77, server.py:82).
DrainMap(n) == AsTexts(IF n = 0 THEN <<>> ELSE [partition \in {<<"int", 0>>} |-> n - 1])

\* What create_migration_snapshot stores of a state.
Stored(k, state, n) == Serialize(k, Put(state, "kafka_offset_map", DrainMap(n)))

\* create_migration_snapshot
TakeSnapshot ==
  /\ object = None
  /\ saved' = GetState(kind, live)
  /\ drained' = Len(seen)
  /\ object' = Stored(kind, saved', Len(seen))
  /\ UNCHANGED <<kind, seen, clock, live, edge, moves, said, job>>

\* Some part of the object is lost or overwritten.  (Bound: once, after the last
\* record, and without a job.)
Damage ==
  /\ Len(seen) = MaxRecords /\ ~ job.up /\ object \notin {None, Error}
  /\ object = Stored(kind, saved, drained)
  /\ \/ object' = [object EXCEPT !.size = "short"]
     \/ object' = [object EXCEPT !.size = "header"]
     \/ object' = [object EXCEPT !.magic = FALSE]
     \/ \E v \in {0, 2} : object' = [object EXCEPT !.version = v]
     \/ object' = [object EXCEPT !.payload = Garbage]
  /\ UNCHANGED <<kind, seen, clock, live, edge, moves, said, saved, drained, job>>

\* OperatorFactory.create, and open where the operator was created or, when Flink
\* has shipped it to another process, where the transient state is gone (<<>>).
\* With which record it begins is left open: no code of the connector says.
OpenJob ==
  /\ ~ job.up
  /\ \E map \in Restored \union {<<>>}, n \in 0 .. Len(seen) :
       job' = [up |-> TRUE, state |-> Open(map), from |-> n, next |-> n, out |-> <<>>]
  /\ UNCHANGED <<kind, seen, clock, live, edge, moves, said, object, saved, drained>>

\* The job is given the next record of the topic.
FlinkStep ==
  /\ job.up /\ job.next < Len(seen)
  /\ LET p == FlatMap(kind, job.state, seen[job.next + 1])
     IN  job' = [job EXCEPT !.state = p.state, !.out = p.out, !.next = @ + 1]
  /\ UNCHANGED <<kind, seen, clock, live, edge, moves, said, object, saved, drained>>

Next == Arrive \/ Tick \/ HandOver \/ TakeSnapshot \/ Damage \/ OpenJob \/ FlinkStep

Spec == Init /\ [][Next]_vars

-----------------------------------------------------------------------------
(* Properties.                                                              *)

Lossy == {"FeatureAggWindow", "MultiStreamJoin", "ZoneAggregator"}

\* Handing an operator over between agents, however often and at whatever
\* moment, does not change what it knows or says, for the eight classes whose
\* get_state returns all that process uses.
Continuity == kind \notin Lossy => edge = live /\ said.edge = said.live

\* The values of field f in the records so far.
Values(f) == [i \in 1 .. Len(seen) |-> Field(seen[i], f, 0)]
Newest(q, n) == SubSeq(q, MaxOf(1, Len(q) - n + 1), Len(q))
WindowKept == edge.window = Newest(Values("normalized_value"), WindowSize)

OfZone(z) == {i \in DOMAIN seen : Field(seen[i], "zone_id", "unknown") = z}
ZonesKept ==
  \A z \in DOMAIN edge.window : \E i \in OfZone(z) :
    /\ edge.window[z] = Field(seen[i], "agg_max", 0)
    /\ \A j \in OfZone(z) : j <= i

Detections   == {i \in DOMAIN seen : Field(seen[i], "vehicle_detected", FALSE)}
OfSensor(id) == {i \in DOMAIN seen : Field(seen[i], "sensor_id", "unknown") = id}
DetectionsKept ==
  /\ edge.total = Cardinality(Detections)
  /\ \A id \in Sensors : Field(edge.counts, id, 0) = Cardinality(Detections \cap OfSensor(id))

\* The other three keep what they have collected across hand-overs, though not
\* the moment of their next output: the window of the aggregator is the end of
\* its input, a join holds the newest record of a zone and nothing older, and
\* the detections of a zone are all there, in total and per sensor.
CollectedSurvives ==
  /\ kind = "FeatureAggWindow" => WindowKept
  /\ kind = "MultiStreamJoin" => ZonesKept
  /\ kind = "ZoneAggregator" => DetectionsKept

\* The unit of the numbers is fine enough for the means of up to MaxRecords values
\* to be numbers too, so that no division is rounded.
NoRemainder ==
  \A c \in {<<"NormalizerOperator", "sensor_value">>, <<"StatAggregator", "value">>} :
    c[1] \in Moved => \A r \in Inputs[c[1]], n \in 1 .. MaxRecords :
      n * (Field(r, c[2], 0) \div n) = Field(r, c[2], 0)

\* The running statistics are those of the whole input by their definitions:
\* mean, sum of squared deviations (of which the normalizer keeps the mean),
\* minimum and maximum.
StatisticsExact ==
  LET n == Len(seen)
      Deviations(q, mean) == SeqSum([i \in 1 .. n |-> Square(q[i] - mean)])
  IN  /\ (kind = "StatAggregator" /\ n > 0) =>
           LET q == Values("value")
           IN  /\ edge.count = n /\ n * edge.mean = SeqSum(q)
               /\ edge.m2 = Deviations(q, edge.mean)
               /\ edge.min = Min(ToSet(q)) /\ edge.max = Max(ToSet(q))
      /\ (kind = "NormalizerOperator" /\ n > 0) =>
           LET q == Values("sensor_value")
           IN  /\ edge.count = n /\ n * edge.mean = SeqSum(q)
               /\ n * edge.variance = Deviations(q, edge.mean)

\* The emitted percentile is the least value of the window with at least the
\* wanted share of the window at or below it.
PercentileRank ==
  (kind = "FeatureAggWindow" /\ said.edge # <<>>) =>
    LET w    == edge.window
        p    == said.edge[1].p95
        AtMost(v) == 100 * Cardinality({i \in DOMAIN w : w[i] <= v})
    IN  /\ AtMost(p) >= Pct * Len(w)
        /\ \A v \in ToSet(w) : v < p => AtMost(v) < Pct * Len(w)

\* A snapshot that was damaged is refused as a whole and never half restored: by
\* an agent whatever was damaged, by the connector unless it is the version, of
\* which it may know another one.
DamageRefused ==
  (object \notin {None, Error} /\ object # Stored(kind, saved, drained)) =>
    /\ Deserialize(object) = Error
    /\ object.version = 1 => JavaRestore(object, kind) = Error

\* What a job says is what a new Python operator says that begins with the same
\* record, in the figures that the two implementations share: nothing of what a
\* job was created with reaches its output.
Replay(q) == FoldLeft(LAMBDA s, r : Process(kind, s, r, 0).state, Fresh(kind, 0), q)
FlinkStartsOver ==
  (job.up /\ job.out # <<>>) =>
    LET q  == SubSeq(seen, job.from + 1, job.next)
        py == Process(kind, Replay(Front(q)), Last(q), 0).out
        fl == job.out[1]
    IN  /\ q # <<>>
        /\ kind = "ComplianceLogger" => fl.log_sequence = py[1].log_sequence
        /\ kind = "StatAggregator" => /\ fl.count = Len(q)
                                      /\ py # <<>> => /\ fl.mean = py[1].mean
                                                      /\ fl.variance = py[1].variance
        /\ kind = "RiskCheck" /\ Limit <= DefaultLimit => (fl.risk_exceeded => py[1].risk_exceeded)

\* The figures of the jobs that collect are those of all the records they were
\* given: of the last window of them (FeatureAggWindow), of their different keys
\* (MultiStreamJoin), of the detections in the zone (ZoneAggregator), and whether
\* three detections in a row are among the last ten (PatternDetector).
FlinkFigures ==
  (job.up /\ job.out # <<>>) =>
    LET q  == SubSeq(seen, job.from + 1, job.next)
        fl == job.out[1]
        w  == Newest([i \in DOMAIN q |-> Field(q[i], "value", 0)], FlinkWindow)
        Hit(i)  == Field(q[i], "vehicle_detected", FALSE)
        At(i)   == Field(q[i], "zone_id", "unknown")
        Keys    == {Field(q[i], "join_key", "unknown") : i \in DOMAIN q}
    IN  CASE kind = "FeatureAggWindow" ->
               fl = [sum |-> SeqSum(w), min |-> Min(ToSet(w)), max |-> Max(ToSet(w)), count |-> Len(w)]
          [] kind = "MultiStreamJoin" -> fl.joined_records = Cardinality(Keys)
          [] kind = "ZoneAggregator"  ->
               fl.vehicle_count = Cardinality({i \in DOMAIN q : Hit(i) /\ At(i) = fl.zone_id})
          [] kind = "PatternDetector" ->
               fl.pattern_detected <=>
                 \E i \in MaxOf(1, Len(q) - 9) .. Len(q) - 2 : \A j \in i .. i + 2 : Hit(j)
          [] OTHER -> TRUE

\* However far a value is from the mean, the detector of the workload never
\* reports it (workloads/w3/anomaly.py, "EWMA-based anomaly detector using 3-sigma
\* rule"): the deviation of the value is already a fifth of the variance that it
\* is measured against, so its z-score stays below the square root of five.
DetectorIsSilent ==
  kind = "AnomalyDetector" => live.count = 0 /\ edge.count = 0

\* A snapshot that was not damaged restores the state it was taken of
\* (hea/tests/test_snapshot.py, test_state_lossless_roundtrip).
SnapshotLossless ==
  (object # None /\ object = Stored(kind, saved, drained)) =>
    GetState(kind, RestoreState(kind, Deserialize(object), clock)) = saved
================================================================================
