---------------------------- MODULE MCStateTransfer ----------------------------
(* Instance of StateTransfer for TLC: windows of two or three, all eleven      *)
(* classes, and the schemas of schema-registry/schemas/v1 as far as they have  *)
(* names in common with anything (each also lists fields of its own, for which *)
(* own_field stands).  The records have the fields that the operators of both  *)
(* implementations read.                                                       *)
EXTENDS StateTransfer

MCZones   == {"zone_1", "zone_2", "zone_3"}
MCSensors == {"s1", "s2"}

MCInputs == [
  NormalizerOperator |-> [sensor_value : {0, 60, 240}],
  FeatureAggWindow   |-> {[normalized_value |-> v, value |-> v] : v \in {-3, 0, 5}},
  MultiStreamJoin    |-> {[zone_id |-> v[1], join_key |-> v[1], agg_max |-> v[2]] :
                            v \in {<<"zone_1", 1>>, <<"zone_1", 2>>, <<"zone_2", 1>>}},
  BinaryClassifier   |-> [zone_max : {<<>>, <<3, 5>>, <<9, 9>>}],
  VehicleDetector    |-> [occupancy : {0, 10}, speed_kmh : {150}],
  ZoneAggregator     |-> [sensor_id : MCSensors, vehicle_detected : {TRUE}] \union [sensor_id : {"s1"}, vehicle_detected : {FALSE}],
  PatternDetector    |-> [zone_id : MCZones, density : {10}, vehicle_detected : {TRUE}]
                           \union [zone_id : {"zone_1"}, density : {0}, vehicle_detected : {FALSE}],
  RiskCheck          |-> [exposure : {-5, 700, 1500}],
  AnomalyDetector    |-> [value : {0, 10, 200}],
  StatAggregator     |-> [value : {-60, 0, 180}],
  ComplianceLogger   |-> [event_type : {"trade", "cancel"}]]

MCFields        == {"own_field", "watermark_ms", "kafka_offset_map"}
MCLocalSchemas  == [x \in (Kinds \ {"RiskCheck"}) \X {1} |-> MCFields]
MCEtcdSchemas   == [x \in {"RiskCheck"} \X {1} |-> MCFields]
\* The image of the connector has the directory of v1 in /app/schemas and no
\* file beside it (flink-connector/Dockerfile:26), and SchemaRegistry.java:36
\* lists the files beside it.  (A connector that is pointed at v1 does not start:
\* the files have operator_class and a list of fields, and it wants operator_type
\* and a map.)
MCConnectorFiles == {}

\* A state with the names of the schemas.
MCRestored == {[own_field |-> None, watermark_ms |-> None]}

\* Bound: hand-overs, the snapshot and the job read the records and share nothing
\* else, so no two of them are explored together.
Apart == Cardinality({x \in 1 .. 3 : <<moves > 0, object # None, job.up>>[x]}) <= 1

\* The values are multiples of 60, so no mean of up to four of them is rounded.
ASSUME ExactMeans == NoRemainder
================================================================================
