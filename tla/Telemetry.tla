------------------------------ MODULE Telemetry ------------------------------
(***************************************************************************)
(* The telemetry collector of AODE (aode/telemetry/collector.py): sweeps    *)
(* over the edge nodes, one awaited call after the other, into a table that *)
(* the scores are computed from.  telemetry.start and main.py start a sweep *)
(* loop each, and the loops write the same table.                           *)
(*                                                                         *)
(* A report is what the collector keeps of an answer: the utilisation in    *)
(* percent and the duration of the call in milliseconds.                    *)
(***************************************************************************)
EXTENDS Integers, Sequences

CONSTANTS
  Nodes,    (* the registered nodes, in the order of the table               *)
  Loop,     (* the collection loops                                          *)
  Report    (* what a node that answers may report                           *)

Node    == {Nodes[i] : i \in 1 .. Len(Nodes)}
Down    == [reachable |-> FALSE, cpu |-> 0, mem |-> 0, rtt |-> 1000]
Pending == [reachable |-> FALSE, cpu |-> 0, mem |-> 0, rtt |-> 0]

ASSUME TelemetryAssumption ==
  /\ Report \subseteq [reachable : {TRUE}, cpu : 0 .. 100, mem : 0 .. 100, rtt : Nat]
  /\ Nodes \in Seq(Node) /\ Nodes # <<>>

Table == [Node -> Report \union {Down}]

VARIABLES
  world,    (* what a call would find now: a report, or no answer            *)
  sample,   (* _last_telemetry                                               *)
  turn,     (* the node that a loop has called, 0: the loop sleeps           *)
  answer    (* the outcome of that call                                      *)

tvars == <<world, sample, turn, answer>>

TelemetryTypeOK ==
  /\ world \in Table
  /\ sample \in Table
  /\ turn \in [Loop -> 0 .. Len(Nodes)]
  /\ answer \in [Loop -> Report \union {Down, Pending}]

\* Every node is registered with a record that says it is unreachable.
TelemetryInit ==
  /\ world \in Table
  /\ sample = [n \in Node |-> Down]
  /\ turn = [l \in Loop |-> 0]
  /\ answer = [l \in Loop |-> Pending]

-----------------------------------------------------------------------------
(* The definitions named ..._Bug are not part of the model: each is a       *)
(* plausible mistake in the definition that follows it.                     *)

\* The nodes, and the way to them, change by themselves.
Change(n) ==
  /\ \E r \in Report \union {Down} : world' = [world EXCEPT ![n] = r]
  /\ UNCHANGED <<sample, turn, answer>>

StartSweep(l) ==
  /\ turn[l] = 0
  /\ turn' = [turn EXCEPT ![l] = 1]
  /\ UNCHANGED <<world, sample, answer>>

\* The call returns what the node reports, or raises: then the record is Down.
Answer(l) ==
  /\ turn[l] # 0 /\ answer[l] = Pending
  /\ answer' = [answer EXCEPT ![l] = world[Nodes[turn[l]]]]
  /\ UNCHANGED <<world, sample, turn>>

Store_Bug(l) ==   \* a call that raises leaves the old record
  /\ answer[l] # Pending
  /\ sample' = IF answer[l] = Down THEN sample
               ELSE [sample EXCEPT ![Nodes[turn[l]]] = answer[l]]
  /\ turn' = [turn EXCEPT ![l] = IF @ = Len(Nodes) THEN 0 ELSE @ + 1]
  /\ answer' = [answer EXCEPT ![l] = Pending]
  /\ UNCHANGED world

\* The outcome replaces whatever the table has, and the next node is called.
Store(l) ==
  /\ answer[l] # Pending
  /\ sample' = [sample EXCEPT ![Nodes[turn[l]]] = answer[l]]
  /\ turn' = [turn EXCEPT ![l] = IF @ = Len(Nodes) THEN 0 ELSE @ + 1]
  /\ answer' = [answer EXCEPT ![l] = Pending]
  /\ UNCHANGED world

TelemetryNext ==
  \/ \E n \in Node : Change(n)
  \/ \E l \in Loop : StartSweep(l) \/ Answer(l) \/ Store(l)

\* Sleeps end, and every call returns or raises within its deadline of 5 s
\* (HEAClient.get_telemetry, wired in by main.py).
TelemetryFairness ==
  \A l \in Loop : WF_tvars(StartSweep(l)) /\ WF_tvars(Answer(l)) /\ WF_tvars(Store(l))

-----------------------------------------------------------------------------
\* Once the nodes no longer change, the table comes to agree with them and stays
\* so: an answer that was on its way in the other loop is overwritten again
\* (_collect_one turns every failure into a record, and both loops go on).
TelemetryConverges == <>[][FALSE]_world => <>[](sample = world)
=============================================================================
