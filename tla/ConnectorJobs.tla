----------------------------- MODULE ConnectorJobs -----------------------------
(***************************************************************************)
(* The job table of the Flink connector (FlinkConnectorServiceImpl.java):  *)
(* operatorJobIds maps an operator to the Flink job that runs it.  Every   *)
(* RPC has a thread of its own, the map is concurrent, and a handler takes *)
(* several steps: a restore submits a job and then names it in the table,  *)
(* a termination takes the name out of the table and then cancels the job. *)
(*                                                                         *)
(* The Flink cluster is external.  submitFlinkJob and cancelFlinkJob only  *)
(* log so far; as their contracts say, one makes a job run and the other   *)
(* stops it or raises.  A job id is the operator and the wall clock.       *)
(***************************************************************************)
EXTENDS Naturals

CONSTANTS
  Op,      (* operators                                                     *)
  Call,    (* bound: RPCs that are under way at once                        *)
  Time,    (* bound: the values of System.currentTimeMillis                 *)
  NoJob    (* null                                                          *)

Id == Op \X Time

ASSUME ConnectorAssumption == NoJob \notin Id

VARIABLES
  jobId,      (* operatorJobIds, NoJob where the map has no entry           *)
  step,       (* what a call does next                                      *)
  target,     (* the operator of a call                                     *)
  job,        (* the local jobId of a call                                  *)
  clock,      (* the wall clock                                             *)
  running,    (* Flink: the jobs that run                                   *)
  submitted,  (* history: the ids given to jobs                             *)
  reused,     (* history: the ids given to a job more than once             *)
  escaped     (* history: jobs whose entry a later restore overwrote, whose
                 cancellation raised, or that ran when the connector was
                 restarted                                                  *)

calls   == <<step, target, job>>
history == <<reused, escaped>>
vars    == <<jobId, calls, clock, running, submitted, history>>

TypeOK ==
  /\ jobId \in [Op -> Id \union {NoJob}]
  /\ step \in [Call -> {"idle", "load", "submit", "put", "remove", "cancel"}]
  /\ target \in [Call -> Op]
  /\ job \in [Call -> Id \union {NoJob}]
  /\ \A c \in Call : step[c] \in {"put", "cancel"} => job[c] \in Id
  /\ clock \in Time
  /\ reused \subseteq submitted /\ running \subseteq submitted /\ submitted \subseteq Id
  /\ escaped \subseteq Id

Init ==
  /\ jobId = [o \in Op |-> NoJob]
  /\ step = [c \in Call |-> "idle"] /\ target \in [Call -> Op]
  /\ job = [c \in Call |-> NoJob]
  /\ clock \in Time
  /\ running = {} /\ submitted = {}
  /\ reused = {} /\ escaped = {}

-----------------------------------------------------------------------------
(* The definitions named ..._Bug are not part of the model: each is a       *)
(* plausible mistake in the definition that follows it.                     *)

\* A call arrives: RestoreOperator or TerminateOperator of an operator.
Receive(c, o) ==
  /\ step[c] = "idle"
  /\ step' \in {[step EXCEPT ![c] = s] : s \in {"load", "remove"}}
  /\ target' = [target EXCEPT ![c] = o]
  /\ job' = [job EXCEPT ![c] = NoJob]
  /\ UNCHANGED <<jobId, clock, running, submitted, history>>

\* downloadSnapshot, deserialize, translateToFlinkState and the factory: one of
\* them raises, and the call answers success=false, or the operator is ready.
Load(c) ==
  /\ step[c] = "load"
  /\ step' \in {[step EXCEPT ![c] = s] : s \in {"idle", "submit"}}
  /\ UNCHANGED <<jobId, target, job, clock, running, submitted, history>>

\* submitFlinkJob: the id is made of the operator and the time.
Submit(c) ==
  LET id == <<target[c], clock>> IN
  /\ step[c] = "submit"
  /\ step' = [step EXCEPT ![c] = "put"]
  /\ job' = [job EXCEPT ![c] = id]
  /\ running' = running \union {id}
  /\ submitted' = submitted \union {id}
  /\ reused' = reused \union (submitted \intersect {id})
  /\ UNCHANGED <<jobId, target, clock, escaped>>

Put_Bug(c) ==   \* putIfAbsent
  /\ step[c] = "put"
  /\ step' = [step EXCEPT ![c] = "idle"]
  /\ jobId' = IF jobId[target[c]] = NoJob THEN [jobId EXCEPT ![target[c]] = job[c]] ELSE jobId
  /\ UNCHANGED <<target, job, clock, running, submitted, history>>

\* The table names the job, whatever it named before, and the call answers
\* success=true.
Put(c) ==
  LET old == jobId[target[c]] IN
  /\ step[c] = "put"
  /\ step' = [step EXCEPT ![c] = "idle"]
  /\ jobId' = [jobId EXCEPT ![target[c]] = job[c]]
  /\ escaped' = IF old = NoJob THEN escaped ELSE escaped \union {old}
  /\ UNCHANGED <<target, job, clock, running, submitted, reused>>

Remove_Bug(c) ==   \* get instead of remove
  /\ step[c] = "remove"
  /\ job' = [job EXCEPT ![c] = jobId[target[c]]]
  /\ step' = [step EXCEPT ![c] = IF jobId[target[c]] = NoJob THEN "idle" ELSE "cancel"]
  /\ UNCHANGED <<jobId, target, clock, running, submitted, history>>

\* The entry is removed; without one the call answers success=false.
Remove(c) ==
  /\ step[c] = "remove"
  /\ job' = [job EXCEPT ![c] = jobId[target[c]]]
  /\ jobId' = [jobId EXCEPT ![target[c]] = NoJob]
  /\ step' = [step EXCEPT ![c] = IF jobId[target[c]] = NoJob THEN "idle" ELSE "cancel"]
  /\ UNCHANGED <<target, clock, running, submitted, history>>

\* cancelFlinkJob stops the job, or raises: the call then answers success=false,
\* and the entry is not put back.
Cancel(c) ==
  /\ step[c] = "cancel"
  /\ step' = [step EXCEPT ![c] = "idle"]
  /\ \/ running' = running \ {job[c]} /\ UNCHANGED escaped
     \/ escaped' = escaped \union {job[c]} /\ UNCHANGED running
  /\ UNCHANGED <<jobId, target, job, clock, submitted, reused>>

\* getJobStatus: a reverse lookup in the table; Flink is not asked.
JobStatus(id) == IF \E o \in Op : jobId[o] = id THEN "RUNNING" ELSE "NOT_FOUND"

\* The connector is restarted with an empty table; Flink's jobs run on.
Restart ==
  /\ jobId' = [o \in Op |-> NoJob]
  /\ step' = [c \in Call |-> "idle"]
  /\ escaped' = escaped \union running
  /\ UNCHANGED <<target, job, clock, running, submitted, reused>>

\* The wall clock, which may be set back.
Tick ==
  /\ clock' \in Time \ {clock}
  /\ UNCHANGED <<jobId, calls, running, submitted, history>>

Next ==
  \/ \E c \in Call : \/ \E o \in Op : Receive(c, o)
                     \/ Load(c) \/ Submit(c) \/ Put(c) \/ Remove(c) \/ Cancel(c)
  \/ Restart \/ Tick

Spec == Init /\ [][Next]_vars

-----------------------------------------------------------------------------
(* Properties.                                                              *)

Holds(c, id) == step[c] \in {"put", "cancel"} /\ job[c] = id

\* No job runs unseen: a running job is named by the table, or a handler is
\* about to name it or to cancel it, or it escaped in one of three ways: its
\* entry was overwritten by a second restore of the operator, its cancellation
\* raised after its entry was gone, or the connector was restarted.
JobsAccounted ==
  \A id \in running :
    \/ \E o \in Op : jobId[o] = id
    \/ \E c \in Call : Holds(c, id)
    \/ id \in escaped

\* getJobStatus answers RUNNING, from the table alone, only for a job that runs,
\* however restores and terminations overlap; unless two restores of an operator
\* in the same millisecond gave two jobs one id.
StatusTruthful ==
  \A id \in Id : JobStatus(id) = "RUNNING" => id \in running \union reused
=============================================================================
