----------------------------- MODULE SnapshotCodec -----------------------------
(***************************************************************************)
(* Migration snapshots as the agents write and read them                   *)
(* (hybridstream-common snapshot.py, schema_registry.py) and as the Flink  *)
(* connector reads them (SnapshotDeserializer.java, SchemaRegistry.java).  *)
(*                                                                         *)
(* A snapshot is a record: how much of it there is ("short" of the header, *)
(* the bare "header", or "full"), whether the magic bytes are right, the   *)
(* version in the header, and the unpacked payload, a map from names to    *)
(* values, or Garbage.                                                     *)
(***************************************************************************)
EXTENDS Integers, Sequences, TLC

CONSTANTS
  LocalSchemas,    (* schema files of the agents: <<class, version>> to fields *)
  EtcdSchemas,     (* schemas in etcd, likewise                              *)
  ConnectorFiles,  (* the schema files of the connector                      *)
  Garbage,         (* a payload that is not MessagePack                      *)
  Missing,         (* the value of an absent or null field                   *)
  Error            (* an exception                                           *)

\* SchemaRegistry.get_schema: the local file, else etcd, else KeyError.
GetSchema(class, version) ==
  LET key == <<class, version>>
  IN  IF key \in DOMAIN LocalSchemas THEN LocalSchemas[key]
      ELSE IF key \in DOMAIN EtcdSchemas THEN EtcdSchemas[key]
      ELSE Error

Get(map, f) == IF f \in DOMAIN map THEN map[f] ELSE Missing

\* serialize: only the fields of the schema are copied, missing ones as None.
Serialize(class, state) ==
  LET fields == GetSchema(class, 1)
  IN  IF fields = Error THEN Error
      ELSE [size |-> "full", magic |-> TRUE, version |-> 1,
            payload |-> [f \in fields \union {"operator_class", "schema_version"} |->
                           CASE f = "operator_class" -> class
                             [] f = "schema_version" -> 1
                             [] OTHER                -> Get(state, f)]]

Deserialize_Bug(b) ==   \* a truncated payload is an empty one
  IF b = Error \/ b.size = "short" \/ ~ b.magic \/ b.payload = Garbage THEN Error
  ELSE LET class  == Get(b.payload, "operator_class")
           fields == GetSchema(class, b.version)
       IN  IF class = Missing \/ fields = Error THEN Error
           ELSE [f \in fields |-> Get(b.payload, f)]

\* deserialize: every check that raises, then the fields of the schema that the
\* header and the payload name.
Deserialize(b) ==
  IF b = Error \/ b.size # "full" \/ ~ b.magic \/ b.payload = Garbage THEN Error
  ELSE LET class  == Get(b.payload, "operator_class")
           fields == GetSchema(class, b.version)
       IN  IF class = Missing \/ fields = Error THEN Error
           ELSE [f \in fields |-> Get(b.payload, f)]

-----------------------------------------------------------------------------
(* The connector.  One of its schema files is a record with operator_type,  *)
(* schema_version and fields, each possibly Missing.                        *)

LoadSchema(file) ==
  IF file.operator_type = Missing \/ file.fields = Missing THEN Error
  ELSE IF file.schema_version = Missing \/ file.schema_version <= 0 THEN Error
  ELSE file

\* loadFromDirectory: one bad file and the connector does not start.  Only the
\* files directly in the directory are listed; there may be none.
Loaded == IF \E f \in ConnectorFiles : LoadSchema(f) = Error THEN {} ELSE ConnectorFiles

IsVersionSupported(type, version) ==
  version > 0 /\ \E f \in Loaded : f.operator_type = type /\ f.schema_version = version

\* getSchema: versions are not told apart.
TypeFields(type) ==
  IF \E f \in Loaded : f.operator_type = type
  THEN (CHOOSE f \in Loaded : f.operator_type = type).fields ELSE Error

\* SnapshotDeserializer.deserialize raises: the version is checked for the type
\* that was asked for; the class in the payload is not looked at.  An empty
\* payload fails when it is unpacked.
Unreadable(b, type) ==
  \/ b = Error \/ b.size = "short" \/ ~ b.magic
  \/ ~ IsVersionSupported(type, b.version)
  \/ b.size = "header" \/ b.payload = Garbage

\* The key of a map is a pair of its type and its value.
AsTexts(map) ==
  [k \in {<<"text", p[2]>> : p \in DOMAIN map} |-> map[CHOOSE p \in DOMAIN map : p[2] = k[2]]]

\* A value as Jackson reads it: the keys of a map become texts, whatever they
\* were.  Of the fields of a schema only the offsets have keys that are not.
Jackson(f, value) ==
  IF f = "kafka_offset_map" /\ value # Missing THEN AsTexts(value) ELSE value

\* translateToFlinkState: the fields of the schema; null stays null, and the
\* conversions of numbers and texts keep the value.
Translate(raw, type) == [f \in DOMAIN raw \cap TypeFields(type) |-> Jackson(f, raw[f])]

JavaRestore(b, type) ==
  IF Unreadable(b, type) \/ TypeFields(type) = Error THEN Error
  ELSE Translate(b.payload, type)
================================================================================
