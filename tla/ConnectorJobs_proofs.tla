------------------------- MODULE ConnectorJobs_proofs -------------------------
(* Proofs about ConnectorJobs, for every number of operators, of concurrent   *)
(* calls and of clock values, and a clock that may be set back.               *)
EXTENDS ConnectorJobs, TLAPS

LEMMA TypeInit == Init => TypeOK
BY DEF Init, TypeOK

LEMMA TypeNext ==
  ASSUME TypeOK, [Next]_vars
  PROVE  TypeOK'
<1> USE DEF TypeOK
<1>1. ASSUME NEW c \in Call, NEW o \in Op, Receive(c, o) PROVE TypeOK'
  <2>1. step' \in [Call -> {"idle", "load", "submit", "put", "remove", "cancel"}]
    BY <1>1 DEF Receive
  <2>2. \A d \in Call : step'[d] \in {"put", "cancel"} => job'[d] \in Id
    BY <1>1 DEF Receive
  <2> QED BY <1>1, <2>1, <2>2 DEF Receive, history
<1>2. ASSUME NEW c \in Call, Load(c) PROVE TypeOK'
  BY <1>2 DEF Load, history
<1>3. ASSUME NEW c \in Call, Submit(c) PROVE TypeOK'
  <2>1. <<target[c], clock>> \in Id
    BY DEF Id
  <2> QED BY <1>3, <2>1 DEF Submit
<1>4. ASSUME NEW c \in Call, Put(c) PROVE TypeOK'
  BY <1>4 DEF Put
<1>5. ASSUME NEW c \in Call, Remove(c) PROVE TypeOK'
  BY <1>5 DEF Remove, history
<1>6. ASSUME NEW c \in Call, Cancel(c) PROVE TypeOK'
  BY <1>6 DEF Cancel
<1>7. CASE Restart
  BY <1>7 DEF Restart
<1>8. CASE Tick
  BY <1>8 DEF Tick, calls, history
<1>9. CASE UNCHANGED vars
  BY <1>9 DEF vars, calls, history
<1> QED BY <1>1, <1>2, <1>3, <1>4, <1>5, <1>6, <1>7, <1>8, <1>9 DEF Next

\* The table, the calls under way and the histories keep their types
\* (FlinkConnectorServiceImpl.java, all handlers); above all no call cancels null.
THEOREM WellTyped == Spec => []TypeOK
BY TypeInit, TypeNext, PTL DEF Spec
-----------------------------------------------------------------------------
LEMMA AccountedInit == Init => JobsAccounted
BY DEF Init, JobsAccounted

\* Whoever takes a job's name out of the table holds it, and whoever lets go of a
\* job has named it, has stopped it, or is one of the three ways to escape.
LEMMA AccountedNext ==
  ASSUME TypeOK, JobsAccounted, [Next]_vars
  PROVE  JobsAccounted'
<1>2. ASSUME NEW c \in Call, NEW o \in Op, Receive(c, o) PROVE JobsAccounted'
  BY <1>2 DEF Receive, TypeOK, JobsAccounted, Holds, history
<1>3. ASSUME NEW c \in Call, Load(c) PROVE JobsAccounted'
  BY <1>3 DEF Load, TypeOK, JobsAccounted, Holds, history
<1>4. ASSUME NEW c \in Call, Submit(c) PROVE JobsAccounted'
  <2>1. Holds(c, <<target[c], clock>>)'
    BY <1>4 DEF Submit, TypeOK, Holds
  <2>2. \A d \in Call, i \in Id : Holds(d, i) => Holds(d, i)'
    BY <1>4 DEF Submit, TypeOK, Holds
  <2> QED BY <1>4, <2>1, <2>2 DEF Submit, TypeOK, JobsAccounted
<1>5. ASSUME NEW c \in Call, Put(c) PROVE JobsAccounted'
  <2>1. jobId'[target[c]] = job[c] /\ jobId[target[c]] \in escaped' \union {NoJob}
    BY <1>5 DEF Put, TypeOK
  <2>2. \A o \in Op : o # target[c] => jobId'[o] = jobId[o]
    BY <1>5 DEF Put, TypeOK
  <2>3. \A d \in Call, i \in Id : Holds(d, i) => Holds(d, i)' \/ (d = c /\ i = job[c])
    BY <1>5 DEF Put, TypeOK, Holds
  <2>4. escaped \subseteq escaped' /\ running' = running /\ target[c] \in Op /\ running \subseteq Id
    BY <1>5 DEF Put, TypeOK
  <2> QED BY <2>1, <2>2, <2>3, <2>4, ConnectorAssumption DEF JobsAccounted
<1>6. ASSUME NEW c \in Call, Remove(c) PROVE JobsAccounted'
  <2>1. \A o \in Op : jobId'[o] = jobId[o] \/ o = target[c]
    BY <1>6 DEF Remove, TypeOK
  <2>2. \A i \in Id : i = jobId[target[c]] => Holds(c, i)'
    BY <1>6, ConnectorAssumption DEF Remove, TypeOK, Holds
  <2>3. \A d \in Call, i \in Id : Holds(d, i) => Holds(d, i)'
    BY <1>6 DEF Remove, TypeOK, Holds
  <2>4. escaped' = escaped /\ running' = running /\ running \subseteq Id
    BY <1>6 DEF Remove, TypeOK, history
  <2> QED BY <2>1, <2>2, <2>3, <2>4 DEF JobsAccounted
<1>7. ASSUME NEW c \in Call, Cancel(c) PROVE JobsAccounted'
  <2>1. \A d \in Call, i \in Id : Holds(d, i) => Holds(d, i)' \/ (d = c /\ i = job[c])
    BY <1>7 DEF Cancel, TypeOK, Holds
  <2>2. jobId' = jobId /\ escaped \subseteq escaped' /\ running' \subseteq running /\ running \subseteq Id
    BY <1>7 DEF Cancel, TypeOK
  <2>3. job[c] \notin running' \/ job[c] \in escaped'
    BY <1>7 DEF Cancel, TypeOK
  <2> QED BY <2>1, <2>2, <2>3 DEF JobsAccounted
<1>8. CASE Restart
  BY <1>8 DEF Restart, JobsAccounted
<1>9. CASE Tick
  BY <1>9 DEF Tick, JobsAccounted, Holds, calls, history
<1>10. CASE UNCHANGED vars
  BY <1>10 DEF vars, JobsAccounted, Holds, calls, history
<1> QED BY <1>2, <1>3, <1>4, <1>5, <1>6, <1>7, <1>8, <1>9, <1>10 DEF Next, JobsAccounted

\* No job runs unseen (restoreOperator, terminateOperator): one that runs is named
\* by the table or held by a handler, or escaped in one of the three ways.
THEOREM NoHiddenJob == Spec => []JobsAccounted
<1>1. TypeOK /\ JobsAccounted /\ [Next]_vars => TypeOK' /\ JobsAccounted'
  BY TypeNext, AccountedNext
<1> QED BY TypeInit, AccountedInit, <1>1, PTL DEF Spec
-----------------------------------------------------------------------------
(* The status.  A job whose id is its own is in one place only: named once in *)
(* the table or held by one handler.  So when it is cancelled, nothing names  *)
(* it any more.                                                               *)

Own(id) == id \in submitted \ reused

Known == /\ \A o \in Op : jobId[o] \in submitted \union {NoJob}
         /\ \A c \in Call : step[c] \in {"put", "cancel"} => job[c] \in submitted

OnePlace ==
  /\ \A o, p \in Op : jobId[o] = jobId[p] /\ Own(jobId[o]) => o = p
  /\ \A o \in Op, c \in Call : Own(jobId[o]) => ~ Holds(c, jobId[o])
  /\ \A c, d \in Call : step[c] \in {"put", "cancel"} /\ Holds(d, job[c]) /\ Own(job[c]) => c = d

Alive == /\ \A o \in Op : Own(jobId[o]) => jobId[o] \in running
         /\ \A c \in Call : step[c] \in {"put", "cancel"} /\ Own(job[c]) => job[c] \in running

SInv == TypeOK /\ Known /\ OnePlace /\ Alive

LEMMA SInvInit == Init => SInv
BY TypeInit DEF Init, SInv, Known, OnePlace, Alive, Own, Holds

LEMMA SInvStatus == SInv => StatusTruthful
<1> SUFFICES ASSUME SInv, NEW id \in Id, JobStatus(id) = "RUNNING"
             PROVE  id \in running \union reused
  BY DEF StatusTruthful
<1>1. PICK o \in Op : jobId[o] = id
  BY DEF JobStatus
<1>2. id \in submitted
  BY <1>1, ConnectorAssumption DEF SInv, Known
<1> QED BY <1>1, <1>2 DEF SInv, Alive, Own

\* A new id is nobody else's, or it is reused from now on.
LEMMA SubmitKeeps ==
  ASSUME SInv, NEW c \in Call, Submit(c), TypeOK'
  PROVE  SInv'
<1> DEFINE id == <<target[c], clock>>
<1> USE DEF SInv
<1>1. /\ step[c] = "submit" /\ step'[c] = "put" /\ job'[c] = id /\ jobId' = jobId
      /\ \A d \in Call : d # c => step'[d] = step[d] /\ job'[d] = job[d]
      /\ running' = running \union {id} /\ submitted' = submitted \union {id}
      /\ reused' = reused \union (submitted \intersect {id})
  BY DEF Submit, TypeOK
<1>2. \A i : Own(i)' => Own(i) \/ (i = id /\ id \notin submitted)
  BY <1>1 DEF Own
<1>3. \A i : Own(i)' /\ i \in submitted => i # id
  BY <1>1 DEF Own
<1> HIDE DEF id
<1>4. Known'
  BY <1>1 DEF Known
<1>5. Alive'
  BY <1>1, <1>2 DEF Known, Alive, Own
<1>6. ASSUME NEW o \in Op, Own(jobId[o])' PROVE jobId[o] \in submitted /\ jobId[o] # id /\ Own(jobId[o])
  <2>1. jobId[o] # NoJob
    BY <1>1, <1>6, ConnectorAssumption DEF TypeOK, Own
  <2> QED BY <1>1, <1>2, <1>3, <1>6, <2>1 DEF Known
<1>7. OnePlace'
  <2>1. ASSUME NEW o \in Op, NEW p \in Op, jobId'[o] = jobId'[p], Own(jobId[o])' PROVE o = p
    BY <2>1, <1>1, <1>6 DEF OnePlace
  <2>2. ASSUME NEW o \in Op, NEW d \in Call, Own(jobId[o])', Holds(d, jobId[o])' PROVE FALSE
    BY <2>2, <1>1, <1>6 DEF OnePlace, Holds
  <2>3. ASSUME NEW d \in Call, NEW e \in Call, step'[d] \in {"put", "cancel"},
               Holds(e, job[d])', job'[d] = job'[e], step'[e] \in {"put", "cancel"}, Own(job[d])'
        PROVE  d = e
    <3>1. CASE d # c /\ e # c
      BY <3>1, <2>3, <1>1, <1>2, <1>3 DEF OnePlace, Holds, Known
    <3>2. CASE d = c \/ e = c
      BY <3>2, <2>3, <1>1, <1>3 DEF Known
    <3> QED BY <3>1, <3>2
  <2> QED BY <1>1, <2>1, <2>2, <2>3 DEF OnePlace, Holds
<1> QED BY <1>4, <1>5, <1>7

LEMMA PutKeeps ==
  ASSUME SInv, NEW c \in Call, Put(c), TypeOK'
  PROVE  SInv'
<1> USE DEF SInv
<1>1. /\ step[c] = "put" /\ step'[c] = "idle" /\ job' = job
      /\ \A d \in Call : d # c => step'[d] = step[d]
      /\ jobId'[target[c]] = job[c] /\ target[c] \in Op
      /\ \A o \in Op : o # target[c] => jobId'[o] = jobId[o]
      /\ UNCHANGED <<running, submitted, reused>>
  BY DEF Put, TypeOK
<1>2. Known'
  BY <1>1 DEF Known
<1>3. Alive'
  BY <1>1 DEF Alive, Own
<1>4. OnePlace'
  BY <1>1 DEF OnePlace, Own, Holds
<1> QED BY <1>2, <1>3, <1>4

LEMMA RemoveKeeps ==
  ASSUME SInv, NEW c \in Call, Remove(c), TypeOK'
  PROVE  SInv'
<1> USE DEF SInv
<1>1. /\ step[c] = "remove" /\ job'[c] = jobId[target[c]] /\ target[c] \in Op
      /\ step'[c] = "cancel" => jobId[target[c]] # NoJob
      /\ step'[c] \in {"idle", "cancel"}
      /\ \A d \in Call : d # c => step'[d] = step[d] /\ job'[d] = job[d]
      /\ jobId'[target[c]] = NoJob
      /\ \A o \in Op : o # target[c] => jobId'[o] = jobId[o]
      /\ UNCHANGED <<running, submitted, reused>>
  BY DEF Remove, TypeOK, history
<1>2. NoJob \notin submitted
  BY ConnectorAssumption DEF TypeOK
<1>3. Known'
  BY <1>1 DEF Known
<1>4. Alive'
  BY <1>1, <1>2 DEF Alive, Own
<1>5. OnePlace'
  BY <1>1, <1>2 DEF OnePlace, Own, Holds
<1> QED BY <1>3, <1>4, <1>5

LEMMA CancelKeeps ==
  ASSUME SInv, NEW c \in Call, Cancel(c), TypeOK'
  PROVE  SInv'
<1> USE DEF SInv
<1>1. /\ step[c] = "cancel" /\ step'[c] = "idle"
      /\ \A d \in Call : d # c => step'[d] = step[d]
      /\ running \ {job[c]} \subseteq running'
      /\ UNCHANGED <<jobId, job, submitted, reused>>
  BY DEF Cancel, TypeOK
<1>2. Known' /\ OnePlace'
  BY <1>1 DEF Known, OnePlace, Own, Holds
<1>3. Alive'
  BY <1>1 DEF Alive, OnePlace, Own, Holds
<1> QED BY <1>2, <1>3

LEMMA SInvNext ==
  ASSUME SInv, [Next]_vars
  PROVE  SInv'
<1>1. TypeOK'
  BY TypeNext DEF SInv
<1>2. ASSUME NEW c \in Call, NEW o \in Op, Receive(c, o) PROVE SInv'
  BY <1>1, <1>2 DEF Receive, TypeOK, SInv, Known, OnePlace, Alive, Own, Holds, history
<1>3. ASSUME NEW c \in Call, Load(c) PROVE SInv'
  BY <1>1, <1>3 DEF Load, TypeOK, SInv, Known, OnePlace, Alive, Own, Holds, history
<1>4. ASSUME NEW c \in Call, Submit(c) \/ Put(c) \/ Remove(c) \/ Cancel(c) PROVE SInv'
  BY <1>1, <1>4, SubmitKeeps, PutKeeps, RemoveKeeps, CancelKeeps
<1>5. CASE Restart
  BY <1>1, <1>5, ConnectorAssumption DEF Restart, TypeOK, SInv, Known, OnePlace, Alive, Own, Holds
<1>6. CASE Tick
  BY <1>1, <1>6 DEF Tick, SInv, Known, OnePlace, Alive, Own, Holds, calls, history
<1>7. CASE UNCHANGED vars
  BY <1>1, <1>7 DEF vars, SInv, Known, OnePlace, Alive, Own, Holds, calls, history
<1> QED BY <1>2, <1>3, <1>4, <1>5, <1>6, <1>7 DEF Next

\* getJobStatus, which asks only the table, is right about a job that it calls
\* RUNNING, as long as the id is not that of two jobs.
THEOREM StatusIsTruthful == Spec => []StatusTruthful
BY SInvInit, SInvNext, SInvStatus, PTL DEF Spec
=============================================================================
