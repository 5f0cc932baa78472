----------------------------- MODULE PCTR_proofs -----------------------------
(* The migration protocol and make-before-break, which it implements, for   *)
(* any operators, tiers, clients, replies, stragglers and bounds.           *)
EXTENDS PCTRRefinement, TLAPS

\* What every migration that exists has: a number handed out before, a job.
Known ==
  /\ \A m \in Mig : pc[m] # "none" => m <= started /\ job[m] \in Job
  /\ \A r \in late : pc[r.mig] # "none"

TypeInv == TypeOK /\ Known

\* The table holds every live task under its operator.
TableInv == \A m \in Mig : pc[m] \in Live => active[job[m].op] = m

LEMMA InitTypeInv == Init => TypeInv
<1> SUFFICES ASSUME Init PROVE TypeInv
  OBVIOUS
<1>1. TypeOK
  BY PCTRAssumption DEF Init, TypeOK, Mig, Time, Live, Calls, Ended, NoMig
<1>2. Known
  BY DEF Init, Known
<1> QED
  BY <1>1, <1>2 DEF TypeInv

\* A job that has been handed out has its operator and tiers in the constants.
LEMMA JobTypes ==
  ASSUME TypeInv, NEW m \in Mig, pc[m] # "none"
  PROVE  /\ job[m] \in Job
         /\ job[m].op \in Op /\ job[m].src \in Tier /\ job[m].dst \in Tier
         /\ Key(m) \in Op \X (Time \union {0})
<1>1. job[m] \in Job
  BY DEF TypeInv, Known
<1>2. job[m].op \in Op /\ job[m].src \in Tier /\ job[m].dst \in Tier
  BY <1>1 DEF Job
<1>3. seq[m] \in Time \union {0}
  BY DEF TypeInv, TypeOK
<1> QED
  BY <1>1, <1>2, <1>3 DEF Key

\* Ending a migration keeps the table and the phases in their types.
LEMMA EndTypes ==
  ASSUME TypeInv, NEW m \in Mig, pc[m] # "none",
         NEW how \in Ended, End(m, how)
  PROVE  /\ active' \in [Op -> Mig \union {NoMig}]
         /\ pc' \in [Mig -> {"none"} \union Live \union Ended]
         /\ reply' \in [Mig -> {"none", "ok", "error", "empty"}]
         /\ \A n \in Mig : pc'[n] # "none" <=> pc[n] # "none"
  BY DEF End, TypeInv, TypeOK, Ended

\* So does issuing the next call.
LEMMA IssueTypes ==
  ASSUME TypeInv, NEW m \in Mig, pc[m] # "none",
         NEW c \in Calls, Issue(m, c)
  PROVE  /\ active' \in [Op -> Mig \union {NoMig}]
         /\ pc' \in [Mig -> {"none"} \union Live \union Ended]
         /\ reply' \in [Mig -> {"none", "ok", "error", "empty"}]
         /\ \A n \in Mig : pc'[n] # "none" <=> pc[n] # "none"
<1>1. CASE End(m, "failed")
  BY <1>1, EndTypes DEF Ended
<1>2. CASE pc' = [pc EXCEPT ![m] = c] /\ reply' = [reply EXCEPT ![m] = "none"] /\ UNCHANGED active
  BY <1>2 DEF TypeInv, TypeOK, Calls, Live
<1> QED
  BY <1>1, <1>2 DEF Issue

\* The servers' effects keep the object store and the tiers in their types.
LEMMA EffectTypes ==
  ASSUME TypeInv, NEW m \in Mig, pc[m] # "none",
         Upload(m) \/ Restore(m) \/ Deregister(m) \/ UNCHANGED world
  PROVE  /\ store' \in [Op \X (Time \union {0}) -> Mig \union {NoMig}]
         /\ origin' \in [Mig -> Mig \union {NoMig}]
         /\ running' \in [Op -> SUBSET Tier]
<1> USE JobTypes DEF TypeInv, TypeOK
<1>1. CASE Upload(m)
  BY <1>1 DEF Upload
<1>2. CASE Restore(m)
  BY <1>2 DEF Restore
<1>3. CASE Deregister(m)
  BY <1>3 DEF Deregister
<1>4. CASE UNCHANGED world
  BY <1>4 DEF world
<1> QED
  BY <1>1, <1>2, <1>3, <1>4

\* Requests become stragglers only as requests of existing migrations.
LEMMA AbandonTypes ==
  ASSUME TypeInv, NEW m \in Mig, Abandon(m)
  PROVE  /\ late' \subseteq Requests
         /\ \A r \in late' : pc[r.mig] # "none"
  BY DEF Abandon, Pending, Request, Requests, TypeInv, TypeOK, Known, Calls

LEMMA ServeTypes ==
  ASSUME TypeInv, NEW m \in Mig, Serve(m)
  PROVE  TypeInv'
<1>1. pc[m] # "none" /\ pc[m] \in Calls
  BY DEF Serve, ServeDrain, ServeSnapshot, ServeRestore, ServeTerminate, Calls
<1>2. Upload(m) \/ Restore(m) \/ Deregister(m) \/ UNCHANGED world
  BY DEF Serve, ServeDrain, ServeSnapshot, ServeRestore, ServeTerminate
<1>3. reply' \in [Mig -> {"none", "ok", "error", "empty"}]
  BY PCTRAssumption
  DEF Serve, ServeDrain, ServeSnapshot, ServeRestore, ServeTerminate, Answer, TypeInv, TypeOK
<1>4. late' = late \/ late' = late \union {Request(m)}
  BY DEF Serve, ServeDrain, ServeSnapshot, ServeRestore, ServeTerminate
<1>5. Request(m) \in Requests /\ Request(m).mig = m
  BY <1>1 DEF Request, Requests
<1>6. UNCHANGED <<active, started, job, pc, seq, keyless, clock, history>>
  BY DEF Serve
<1> QED
  BY <1>1, <1>2, <1>3, <1>4, <1>5, <1>6, EffectTypes DEF history, Requests, TypeInv, TypeOK, Known

LEMMA NextTypeInv == TypeInv /\ [Next]_vars => TypeInv'
<1> SUFFICES ASSUME TypeInv, [Next]_vars PROVE TypeInv'
  OBVIOUS
<1>1. ASSUME NEW o \in Op, NEW s \in Tier, NEW d \in Tier, MigrateOperator(o, s, d)
      PROVE  TypeInv'
  <2>1. started + 1 \in Mig /\ started' \in 0 .. MaxMigrations /\ started' = started + 1
    BY <1>1, PCTRAssumption DEF MigrateOperator, TypeInv, TypeOK, Mig
  <2>2. [op |-> o, src |-> s, dst |-> d] \in Job
    BY DEF Job
  <2>3. TypeOK'
    BY <1>1, <2>1, <2>2 DEF MigrateOperator, TypeInv, TypeOK, Live, world, history
  <2>4. Known'
    BY <1>1, <2>1, <2>2, PCTRAssumption
    DEF MigrateOperator, TypeInv, TypeOK, Known, Mig
  <2> QED
    BY <2>3, <2>4 DEF TypeInv
<1>2. ASSUME NEW m \in Mig, Execute(m) PROVE TypeInv'
  BY <1>2, IssueTypes DEF Execute, Calls, world, history, Requests, TypeInv, TypeOK, Known
<1>3. ASSUME NEW m \in Mig, DrainReturns(m) PROVE TypeInv'
  BY <1>3, IssueTypes DEF DrainReturns, Calls, world, history, Requests, TypeInv, TypeOK, Known
<1>4. ASSUME NEW m \in Mig, SnapshotReturns(m) PROVE TypeInv'
  BY <1>4, IssueTypes, EndTypes DEF SnapshotReturns, Calls, Ended, world, history, Requests, TypeInv, TypeOK, Known
<1>5. ASSUME NEW m \in Mig, RestoreReturns(m) PROVE TypeInv'
  BY <1>5, IssueTypes DEF RestoreReturns, Calls, world, history, Requests, TypeInv, TypeOK, Known
<1>6. ASSUME NEW m \in Mig, TerminateReturns(m) PROVE TypeInv'
  BY <1>6, EndTypes DEF TerminateReturns, Ended, world, history, Requests, TypeInv, TypeOK, Known
<1>7. ASSUME NEW m \in Mig, CallRaises(m) \/ TimeOut(m) PROVE TypeInv'
  <2>1. pc[m] # "none" /\ Abandon(m) /\ \E how \in Ended : End(m, how)
    BY <1>7 DEF CallRaises, TimeOut, Calls, Ended
  <2>2. UNCHANGED <<started, job, seq, keyless, clock, world, history>>
    BY <1>7 DEF CallRaises, TimeOut
  <2> QED
    BY <2>1, <2>2, EndTypes, AbandonTypes DEF world, history, Requests, TypeInv, TypeOK, Known
<1>8. ASSUME NEW m \in Mig, Serve(m) PROVE TypeInv'
  BY <1>8, ServeTypes
<1>9. CASE Crash
  <2>1. PICK S \in SUBSET {m \in Stragglers : Pending(m)} :
          late' = late \union {Request(m) : m \in S}
    BY <1>9 DEF Crash
  <2>2. /\ \A m \in S : m \in Mig /\ pc[m] \in Calls
        /\ \A m \in S : Request(m) \in Requests /\ pc[Request(m).mig] # "none"
    BY PCTRAssumption DEF Pending, Request, Requests, Calls
  <2>3. \A m \in Mig : pc'[m] # "none" <=> pc[m] # "none"
    BY <1>9 DEF Crash, Live, Calls, TypeInv, TypeOK
  <2> QED
    BY <1>9, <2>1, <2>2, <2>3 DEF Crash, world, history, Requests, TypeInv, TypeOK, Known, Ended
<1>10. CASE Tick
  BY <1>10, PCTRAssumption DEF Tick, aode, world, history, Requests, TypeInv, TypeOK, Known, Time
<1>11. ASSUME NEW r \in late, ServeLate(r) PROVE TypeInv'
  <2>1. r.mig \in Mig /\ pc[r.mig] # "none"
    BY DEF Requests, TypeInv, TypeOK, Known
  <2>2. Upload(r.mig) \/ Restore(r.mig) \/ Deregister(r.mig) \/ UNCHANGED world
    BY <1>11 DEF ServeLate
  <2>3. blamed' \subseteq blamed \union {r.mig} /\ overdue' \subseteq overdue \union {r}
    BY <1>11 DEF ServeLate
  <2> QED
    BY <1>11, <2>1, <2>2, <2>3, EffectTypes DEF ServeLate, aode, history, Requests, TypeInv, TypeOK, Known
<1>12. CASE UNCHANGED vars
  BY <1>12 DEF vars, aode, world, history, Requests, TypeInv, TypeOK, Known
<1> QED
  BY <1>1, <1>2, <1>3, <1>4, <1>5, <1>6, <1>7, <1>8, <1>9, <1>10, <1>11, <1>12
  DEF Next, Step, Environment

\* Type correctness of the orchestrator, the requests in flight and the tiers.
THEOREM TypeCorrect == Spec => []TypeOK
<1>1. Spec => []TypeInv
  BY InitTypeInv, NextTypeInv, PTL DEF Spec
<1>2. TypeInv => TypeOK
  BY DEF TypeInv
<1> QED
  BY <1>1, <1>2, PTL

-----------------------------------------------------------------------------
(* At most one live migration per operator.                                *)

\* End and Issue touch the table only at the operator of their migration.
LEMMA EndTable ==
  ASSUME TypeInv, TableInv, NEW m \in Mig, pc[m] \in Live, NEW how \in Ended,
         End(m, how), UNCHANGED job
  PROVE  TableInv'
<1> SUFFICES ASSUME NEW n \in Mig, pc'[n] \in Live PROVE active'[job[n].op] = n
  BY DEF TableInv
<1>1. how \notin Live
  BY DEF Ended, Live, Calls
<1>2. n # m /\ pc[n] \in Live
  BY <1>1 DEF End, TypeInv, TypeOK
<1>3. active[job[n].op] = n /\ active[job[m].op] = m
  BY <1>2 DEF TableInv
<1>4. job[n].op \in Op
  BY <1>2, JobTypes DEF Live, Calls
<1> QED
  BY <1>2, <1>3, <1>4 DEF End, TypeInv, TypeOK

LEMMA IssueTable ==
  ASSUME TypeInv, TableInv, NEW m \in Mig, pc[m] \in Live, NEW c \in Calls,
         Issue(m, c), UNCHANGED job
  PROVE  TableInv'
<1>1. CASE End(m, "failed")
  BY <1>1, EndTable DEF Ended
<1>2. CASE pc' = [pc EXCEPT ![m] = c] /\ UNCHANGED active
  BY <1>2 DEF TableInv, TypeInv, TypeOK, Live
<1> QED
  BY <1>1, <1>2 DEF Issue

LEMMA NextTableInv == TypeInv /\ TableInv /\ [Next]_vars => TableInv'
<1> SUFFICES ASSUME TypeInv, TableInv, [Next]_vars PROVE TableInv'
  OBVIOUS
<1>1. ASSUME NEW o \in Op, NEW s \in Tier, NEW d \in Tier, MigrateOperator(o, s, d)
      PROVE  TableInv'
  <2> SUFFICES ASSUME NEW n \in Mig, pc'[n] \in Live PROVE active'[job'[n].op] = n
    BY DEF TableInv
  <2>1. started + 1 \in Mig
    BY <1>1, PCTRAssumption DEF MigrateOperator, TypeInv, TypeOK, Mig
  <2>2. CASE n = started + 1
    BY <1>1, <2>1, <2>2 DEF MigrateOperator, TypeInv, TypeOK
  <2>3. CASE n # started + 1
    <3>1. pc[n] \in Live /\ job'[n] = job[n]
      BY <1>1, <2>3 DEF MigrateOperator, TypeInv, TypeOK
    <3>2. active[job[n].op] = n /\ job[n].op \in Op
      BY <3>1, JobTypes DEF TableInv, Live, Calls
    <3>3. n # NoMig
      BY PCTRAssumption DEF Mig, NoMig
    <3> QED
      BY <1>1, <3>1, <3>2, <3>3 DEF MigrateOperator, TypeInv, TypeOK
  <2> QED
    BY <2>2, <2>3
<1>2. ASSUME NEW m \in Mig, Execute(m) PROVE TableInv'
  BY <1>2, IssueTable DEF Execute, Calls, Live
<1>3. ASSUME NEW m \in Mig, DrainReturns(m) PROVE TableInv'
  BY <1>3, IssueTable DEF DrainReturns, Calls, Live
<1>4. ASSUME NEW m \in Mig, SnapshotReturns(m) PROVE TableInv'
  BY <1>4, IssueTable, EndTable DEF SnapshotReturns, Calls, Live, Ended
<1>5. ASSUME NEW m \in Mig, RestoreReturns(m) PROVE TableInv'
  BY <1>5, IssueTable DEF RestoreReturns, Calls, Live
<1>6. ASSUME NEW m \in Mig, TerminateReturns(m) PROVE TableInv'
  BY <1>6, EndTable DEF TerminateReturns, Calls, Live, Ended
<1>7. ASSUME NEW m \in Mig, CallRaises(m) \/ TimeOut(m) PROVE TableInv'
  BY <1>7, EndTable DEF CallRaises, TimeOut, Live, Ended
<1>8. ASSUME NEW m \in Mig, Serve(m) PROVE TableInv'
  BY <1>8 DEF Serve, TableInv
<1>9. CASE Crash
  BY <1>9 DEF Crash, TableInv, Live, Calls, TypeInv, TypeOK
<1>10. CASE Tick
  BY <1>10 DEF Tick, aode, TableInv
<1>11. ASSUME NEW r \in late, ServeLate(r) PROVE TableInv'
  BY <1>11 DEF ServeLate, aode, TableInv
<1>12. CASE UNCHANGED vars
  BY <1>12 DEF vars, aode, TableInv
<1> QED
  BY <1>1, <1>2, <1>3, <1>4, <1>5, <1>6, <1>7, <1>8, <1>9, <1>10, <1>11, <1>12
  DEF Next, Step, Environment

LEMMA TableCorrect == Spec => [](TypeInv /\ TableInv)
<1>1. Init => TypeInv /\ TableInv
  BY InitTypeInv DEF Init, TableInv, Live, Calls
<1>2. TypeInv /\ TableInv /\ [Next]_vars => (TypeInv /\ TableInv)'
  BY NextTypeInv, NextTableInv
<1> QED
  BY <1>1, <1>2, PTL DEF Spec

\* The table of active migrations serialises the migrations of an operator: it
\* can only ever name one of two live migrations.
LEMMA TableExcludes == TypeInv /\ TableInv => OneMigrationPerOperator
  BY DEF TableInv, OneMigrationPerOperator

\* No schedule of calls, failures, timeouts, late executions and restarts of
\* AODE has two executing migrations move the same operator.
THEOREM MigrationsExclude == Spec => []OneMigrationPerOperator
  BY TableCorrect, TableExcludes, PTL

-----------------------------------------------------------------------------
(* The handover, with targets that tell the truth and no stragglers.       *)

Honest == RestoreReplies \subseteq {"ok"} /\ Stragglers = {}

\* What the coroutine knows about the world in each phase.
Restored(m) == pc[m] = "terminate" \/ (pc[m] = "restore" /\ reply[m] # "none")
Stopped(m)  == pc[m] = "terminate" /\ reply[m] = "ok"

HandInv ==
  /\ late = {}
  /\ \A m \in Mig : pc[m] # "none" => job[m].src # job[m].dst
  /\ \A m \in Mig : Restored(m) => job[m].dst \in running[job[m].op]
  /\ \A m \in Mig : Stopped(m) => job[m].src \notin running[job[m].op]
  /\ NeverLost

IInv == TypeInv /\ TableInv /\ HandInv

\* In a step the coroutine of n learns nothing: it keeps or forgets.
LearnsNothing(n) ==
  /\ Restored(n)' => Restored(n)
  /\ Stopped(n)' => Stopped(n)
  /\ pc'[n] # "none" => pc[n] # "none"

\* Steps of the orchestrator change neither the tiers nor the object store; it
\* is enough that they reach a phase only with that phase's knowledge.
LEMMA OrchestratorHandInv ==
  ASSUME IInv, UNCHANGED <<world, job>>, late' = late,
         \A n \in Mig : LearnsNothing(n)
  PROVE  HandInv'
  BY DEF IInv, HandInv, LearnsNothing, world, NeverLost

LEMMA EndLearnsNothing ==
  ASSUME IInv, NEW m \in Mig, pc[m] \in Live, NEW how \in Ended, End(m, how),
         NEW n \in Mig
  PROVE  LearnsNothing(n)
<1>1. CASE n = m
  BY <1>1 DEF LearnsNothing, End, Ended, Live, Calls, Restored, Stopped, IInv, TypeInv, TypeOK
<1>2. CASE n # m
  BY <1>2 DEF LearnsNothing, End, Restored, Stopped, IInv, TypeInv, TypeOK
<1> QED
  BY <1>1, <1>2

\* A call is issued with the knowledge its phase stands for.
LEMMA IssueLearnsNothing ==
  ASSUME IInv, NEW m \in Mig, pc[m] \in Live, NEW c \in Calls, Issue(m, c),
         c = "terminate" => Restored(m),
         NEW n \in Mig
  PROVE  LearnsNothing(n)
<1>1. CASE n = m
  <2>1. CASE End(m, "failed")
    BY <1>1, <2>1 DEF LearnsNothing, End, Live, Calls, Restored, Stopped, IInv, TypeInv, TypeOK
  <2>2. CASE pc' = [pc EXCEPT ![m] = c] /\ reply' = [reply EXCEPT ![m] = "none"]
    BY <1>1, <2>2 DEF LearnsNothing, Calls, Live, Restored, Stopped, IInv, TypeInv, TypeOK
  <2> QED
    BY <2>1, <2>2 DEF Issue
<1>2. CASE n # m
  BY <1>2 DEF LearnsNothing, Issue, End, Restored, Stopped, IInv, TypeInv, TypeOK
<1> QED
  BY <1>1, <1>2

\* A server acts for the one live migration m of its operator: it reaches no
\* other migration's operator.
LEMMA OtherOperators ==
  ASSUME IInv, NEW m \in Mig, pc[m] \in Live, NEW n \in Mig, pc[n] \in Live, n # m
  PROVE  job[n].op # job[m].op
  BY DEF IInv, TableInv

LEMMA ServeHandInv ==
  ASSUME IInv, Honest, NEW m \in Mig, Serve(m)
  PROVE  HandInv'
<1> DEFINE o == job[m].op
<1>1. pc[m] \in Calls /\ pc[m] \in Live /\ pc[m] # "none" /\ reply[m] = "none"
  BY DEF Serve, ServeDrain, ServeSnapshot, ServeRestore, ServeTerminate, Calls, Live
<1>2. TypeInv' /\ o \in Op
  BY <1>1, ServeTypes, JobTypes DEF IInv
<1>3. late' = {}
  BY DEF Serve, ServeDrain, ServeSnapshot, ServeRestore, ServeTerminate, Honest, IInv, HandInv
<1>4. UNCHANGED <<pc, job>> /\ \A n \in Mig : n # m => reply'[n] = reply[n]
  BY DEF Serve, ServeDrain, ServeSnapshot, ServeRestore, ServeTerminate, Answer, IInv, TypeInv, TypeOK
<1>5. \A n \in Mig : n # m /\ (Restored(n)' \/ Stopped(n)') =>
        /\ job[n].op # o /\ job[n].op \in Op
        /\ Restored(n)' = Restored(n) /\ Stopped(n)' = Stopped(n)
  BY <1>1, <1>4, OtherOperators, JobTypes DEF IInv, Restored, Stopped, Live, Calls
<1>6. CASE ServeDrain(m) \/ ServeSnapshot(m)
  <2>1. UNCHANGED running /\ ~Restored(m)' /\ ~Stopped(m)'
    BY <1>4, <1>6 DEF ServeDrain, ServeSnapshot, Upload, world, Restored, Stopped
  <2> QED
    BY <2>1, <1>3, <1>4, <1>5 DEF IInv, HandInv, NeverLost
<1>7. CASE ServeRestore(m)
  <2>1. Restore(m)
    BY <1>7 DEF ServeRestore, Honest
  <2>2. ~Stopped(m)'
    BY <1>4, <1>7 DEF ServeRestore, Stopped
  <2>3. running' = [running EXCEPT ![o] = @ \union {job[m].dst}]
    BY <2>1 DEF Restore
  <2>4. \A n \in Mig : Restored(n)' => job'[n].dst \in running'[job'[n].op]
    BY <1>2, <1>4, <1>5, <2>3 DEF IInv, HandInv, TypeInv, TypeOK
  <2>5. \A n \in Mig : Stopped(n)' => job'[n].src \notin running'[job'[n].op]
    BY <1>2, <1>4, <1>5, <2>2, <2>3 DEF IInv, HandInv, TypeInv, TypeOK
  <2>6. NeverLost'
    BY <1>2, <2>3 DEF NeverLost, IInv, HandInv, TypeInv, TypeOK
  <2> QED
    BY <1>3, <1>4, <2>4, <2>5, <2>6 DEF IInv, HandInv
<1>8. CASE ServeTerminate(m)
  <2>1. Restored(m)
    BY <1>8 DEF ServeTerminate, Restored
  <2>2. running' = running \/ running' = [running EXCEPT ![o] = @ \ {job[m].src}]
    BY <1>8 DEF ServeTerminate, Deregister, world
  <2>3. Stopped(m)' => running' = [running EXCEPT ![o] = @ \ {job[m].src}]
    BY <1>4, <1>8 DEF ServeTerminate, Deregister, Answer, Stopped, IInv, TypeInv, TypeOK
  <2>4. job[m].dst \in running[o] /\ job[m].dst # job[m].src
    BY <1>1, <2>1 DEF IInv, HandInv
  <2>5. ASSUME NEW n \in Mig, Restored(n)' PROVE job'[n].dst \in running'[job'[n].op]
    <3>1. CASE n = m
      BY <1>2, <1>4, <2>2, <2>4, <3>1 DEF IInv, TypeInv, TypeOK
    <3>2. CASE n # m
      <4>1. Restored(n) /\ job[n].op # o /\ job[n].op \in Op
        BY <1>5, <2>5, <3>2
      <4> QED
        BY <1>4, <2>2, <4>1 DEF IInv, HandInv, TypeInv, TypeOK
    <3> QED
      BY <3>1, <3>2
  <2>6. ASSUME NEW n \in Mig, Stopped(n)' PROVE job'[n].src \notin running'[job'[n].op]
    <3>1. CASE n = m
      BY <1>2, <1>4, <2>3, <2>6, <3>1 DEF IInv, TypeInv, TypeOK
    <3>2. CASE n # m
      <4>1. Stopped(n) /\ job[n].op # o /\ job[n].op \in Op
        BY <1>5, <2>6, <3>2
      <4> QED
        BY <1>4, <2>2, <4>1 DEF IInv, HandInv, TypeInv, TypeOK
    <3> QED
      BY <3>1, <3>2
  <2>7. NeverLost'
    BY <1>2, <2>2, <2>4 DEF NeverLost, IInv, HandInv, TypeInv, TypeOK
  <2> QED
    BY <1>3, <1>4, <2>5, <2>6, <2>7 DEF IInv, HandInv
<1> QED
  BY <1>6, <1>7, <1>8 DEF Serve

LEMMA NextHandInv == Honest /\ IInv /\ [Next]_vars => HandInv'
<1> SUFFICES ASSUME Honest, IInv, [Next]_vars PROVE HandInv'
  OBVIOUS
<1> USE DEF Calls, Live, Ended
<1>1. ASSUME NEW o \in Op, NEW s \in Tier, NEW d \in Tier, MigrateOperator(o, s, d)
      PROVE  HandInv'
  <2>1. started + 1 \in Mig /\ pc[started + 1] = "none"
    BY <1>1, PCTRAssumption DEF MigrateOperator, IInv, TypeInv, TypeOK, Known, Mig
  <2>2. \A n \in Mig : n # started + 1 => pc'[n] = pc[n] /\ job'[n] = job[n]
    BY <1>1 DEF MigrateOperator, IInv, TypeInv, TypeOK
  <2>3. pc'[started + 1] = "created" /\ job'[started + 1].src # job'[started + 1].dst
    BY <1>1, <2>1 DEF MigrateOperator, IInv, TypeInv, TypeOK
  <2>4. UNCHANGED <<reply, world, late>>
    BY <1>1 DEF MigrateOperator
  <2> QED
    BY <2>2, <2>3, <2>4 DEF world, IInv, HandInv, Restored, Stopped, NeverLost
<1>2. ASSUME NEW m \in Mig, Execute(m) PROVE HandInv'
  BY <1>2, IssueLearnsNothing, OrchestratorHandInv DEF Execute
<1>3. ASSUME NEW m \in Mig, DrainReturns(m) PROVE HandInv'
  BY <1>3, IssueLearnsNothing, OrchestratorHandInv DEF DrainReturns
<1>4. ASSUME NEW m \in Mig, SnapshotReturns(m) PROVE HandInv'
  BY <1>4, IssueLearnsNothing, EndLearnsNothing, OrchestratorHandInv DEF SnapshotReturns
<1>5. ASSUME NEW m \in Mig, RestoreReturns(m) PROVE HandInv'
  <2>1. Restored(m)
    BY <1>5 DEF RestoreReturns, Restored
  <2> QED
    BY <1>5, <2>1, IssueLearnsNothing, OrchestratorHandInv DEF RestoreReturns
<1>6. ASSUME NEW m \in Mig, TerminateReturns(m) PROVE HandInv'
  BY <1>6, EndLearnsNothing, OrchestratorHandInv DEF TerminateReturns
<1>7. ASSUME NEW m \in Mig, CallRaises(m) \/ TimeOut(m) PROVE HandInv'
  BY <1>7, EndLearnsNothing, OrchestratorHandInv DEF CallRaises, TimeOut, Abandon, Honest
<1>8. ASSUME NEW m \in Mig, Serve(m) PROVE HandInv'
  BY <1>8, ServeHandInv
<1>9. CASE Crash
  <2>1. late' = late
    BY <1>9 DEF Crash, Honest
  <2>2. \A n \in Mig : LearnsNothing(n)
    BY <1>9 DEF Crash, LearnsNothing, Restored, Stopped, IInv, TypeInv, TypeOK
  <2> QED
    BY <1>9, <2>1, <2>2, OrchestratorHandInv DEF Crash
<1>10. CASE Tick
  BY <1>10, OrchestratorHandInv DEF Tick, aode, LearnsNothing, Restored, Stopped
<1>11. ASSUME NEW r \in late, ServeLate(r) PROVE HandInv'
  BY <1>11 DEF IInv, HandInv
<1>12. CASE UNCHANGED vars
  BY <1>12, OrchestratorHandInv DEF vars, aode, world, LearnsNothing, Restored, Stopped
<1> QED
  BY <1>1, <1>2, <1>3, <1>4, <1>5, <1>6, <1>7, <1>8, <1>9, <1>10, <1>11, <1>12
  DEF Next, Step, Environment

LEMMA HandoverCorrect == Honest /\ Spec => []IInv
<1>1. Init => HandInv
  BY DEF Init, HandInv, Restored, Stopped, NeverLost
<1>2. Init => IInv
  BY <1>1, InitTypeInv DEF IInv, Init, TableInv, Live, Calls
<1>3. Honest /\ IInv /\ [Next]_vars => IInv'
  BY NextTypeInv, NextTableInv, NextHandInv DEF IInv
<1>4. Honest => Honest'
  BY DEF Honest
<1> QED
  BY <1>2, <1>3, <1>4, PTL DEF Spec

\* Make before break, as an invariant: with honest targets and no stragglers no
\* operator is ever without an instance.
THEOREM OperatorsSurvive == Honest /\ Spec => []NeverLost
<1>1. IInv => NeverLost
  BY DEF IInv, HandInv
<1> QED
  BY <1>1, HandoverCorrect, PTL

\* Phase 4 starts only when the target runs the operator.
THEOREM TargetReady == Honest /\ Spec => []DstReadyAfterPhase3
<1>1. IInv => DstReadyAfterPhase3
  BY DEF IInv, HandInv, Restored, DstReadyAfterPhase3
<1> QED
  BY <1>1, HandoverCorrect, PTL

\* A migration reports completed only with the operator moved.
THEOREM CompletionIsTrue == Honest /\ Spec => CompletedMeansMoved
<1> DEFINE A == \A m \in Mig : (pc[m] \in Live /\ pc'[m] = "completed") =>
                  /\ job[m].dst \in running[job[m].op]
                  /\ job[m].src \notin running[job[m].op]
<1>1. IInv /\ [Next]_vars => [A]_vars
  <2> SUFFICES ASSUME IInv, Next, NEW m \in Mig, pc[m] \in Live, pc'[m] = "completed"
               PROVE  /\ job[m].dst \in running[job[m].op]
                      /\ job[m].src \notin running[job[m].op]
    BY DEF vars
  <2>1. pc[m] # "completed"
    BY DEF Live, Calls
  <2>2. TerminateReturns(m) /\ reply[m] = "ok"
    BY <2>1 DEF Next, Step, Environment, MigrateOperator, Execute, DrainReturns, SnapshotReturns,
      RestoreReturns, TerminateReturns, CallRaises, TimeOut, Serve, Crash, Tick, ServeLate,
      aode, Issue, End, IInv, TypeInv, TypeOK
  <2>3. Stopped(m) /\ Restored(m)
    BY <2>2 DEF TerminateReturns, Stopped, Restored
  <2> QED
    BY <2>3 DEF IInv, HandInv
<1> QED
  BY <1>1, HandoverCorrect, PTL DEF CompletedMeansMoved, Spec

-----------------------------------------------------------------------------
(* Losses, with targets that refuse and servers that execute late.          *)

\* A migration of o has ignored a refused restore, or terminated late.
Excused(o) == \E m \in blamed : job[m].op = o

\* The target of m runs the operator, or its loss is explained.
Backed(m) == job[m].dst \in running[job[m].op] \/ Excused(job[m].op)

Answered(m) == pc[m] = "terminate" \/ (pc[m] = "restore" /\ reply[m] = "ok")

LossInv ==
  /\ \A m \in blamed : pc[m] # "none"
  /\ \A m \in Mig : pc[m] # "none" => job[m].src # job[m].dst
  /\ \A m \in Mig : Answered(m) => Backed(m)
  /\ LossExplained

\* Steps of the orchestrator leave the tiers alone, and the excuses only grow.
LEMMA OrchestratorLossInv ==
  ASSUME TypeInv, LossInv, UNCHANGED <<running, job>>, blamed \subseteq blamed',
         \A m \in blamed' : pc'[m] # "none",
         \A n \in Mig : pc'[n] # "none" => pc[n] # "none",
         \A n \in Mig : Answered(n)' => Answered(n) \/ n \in blamed'
  PROVE  LossInv'
<1>1. \A o : Excused(o) => Excused(o)'
  BY DEF Excused
<1>2. \A n \in Mig : n \in blamed' => Backed(n)'
  BY DEF Backed, Excused
<1>3. \A n \in Mig : Backed(n) => Backed(n)'
  BY <1>1 DEF Backed
<1>4. LossExplained'
  BY <1>1 DEF LossInv, LossExplained, Excused
<1> QED BY <1>2, <1>3, <1>4 DEF LossInv

\* A call is issued, or the migration ends, with the knowledge it has.
LEMMA IssueAnswered ==
  ASSUME TypeInv, NEW m \in Mig, pc[m] # "none",
         NEW c \in Calls, Issue(m, c),
         NEW n \in Mig, Answered(n)'
  PROVE  Answered(n) \/ (n = m /\ c = "terminate")
BY DEF Issue, End, Answered, TypeInv, TypeOK

LEMMA EndAnswered ==
  ASSUME TypeInv, NEW m \in Mig, NEW how \in Ended, End(m, how),
         NEW n \in Mig, Answered(n)'
  PROVE  Answered(n)
BY DEF End, Ended, Answered, TypeInv, TypeOK

\* A termination that is served for its caller leaves the operator on the target,
\* and no other migration of the operator is live to count on the source.
LEMMA ServeLossInv ==
  ASSUME TypeInv, TableInv, LossInv, NEW m \in Mig, Serve(m)
  PROVE  LossInv'
<1> DEFINE o == job[m].op
<1>1. pc[m] \in Calls /\ pc[m] \in Live /\ pc[m] # "none" /\ reply[m] = "none"
  BY DEF Serve, ServeDrain, ServeSnapshot, ServeRestore, ServeTerminate, Calls, Live
<1>2. o \in Op /\ running \in [Op -> SUBSET Tier]
  BY <1>1, JobTypes DEF TypeInv, TypeOK
<1>3. UNCHANGED <<pc, job, blamed>> /\ \A n \in Mig : n # m => reply'[n] = reply[n]
  BY DEF Serve, ServeDrain, ServeSnapshot, ServeRestore, ServeTerminate, Answer, history, TypeInv, TypeOK
<1>4. \A p : Excused(p)' <=> Excused(p)
  BY <1>3 DEF Excused
<1>5. \A n \in Mig : n # m /\ Answered(n)' => Answered(n) /\ job[n].op # o /\ job[n].op \in Op
  <2> TAKE n \in Mig
  <2> HAVE n # m /\ Answered(n)'
  <2>1. Answered(n) /\ pc[n] \in Live /\ pc[n] # "none"
    BY <1>3 DEF Answered, Live, Calls
  <2> QED BY <2>1, <1>1, JobTypes DEF TableInv
<1>6. CASE ServeDrain(m) \/ ServeSnapshot(m) \/ (ServeRestore(m) /\ reply'[m] # "ok")
  <2>1. running' = running
    BY <1>6, <1>2, <1>1 DEF ServeDrain, ServeSnapshot, ServeRestore, Upload, Answer, world, TypeInv, TypeOK
  <2>2. ~ Answered(m)'
    BY <1>3, <1>6 DEF ServeDrain, ServeSnapshot, ServeRestore, Answered
  <2> QED BY <2>1, <2>2, <1>3, <1>4, <1>5 DEF LossInv, LossExplained, Backed, Excused
<1>7. CASE ServeRestore(m) /\ reply'[m] = "ok"
  <2>1. running' = [running EXCEPT ![o] = @ \union {job[m].dst}]
    BY <1>7 DEF ServeRestore, Restore, Answer, TypeInv, TypeOK
  <2>2. Backed(m)'
    BY <2>1, <1>2, <1>3 DEF Backed
  <2>3. \A p \in Op : running[p] \subseteq running'[p]
    BY <2>1, <1>2
  <2> QED BY <2>2, <2>3, <1>3, <1>4, <1>5 DEF LossInv, LossExplained, Backed, Excused
<1>8. CASE ServeTerminate(m)
  <2>1. running' = running \/ running' = [running EXCEPT ![o] = @ \ {job[m].src}]
    BY <1>8 DEF ServeTerminate, Deregister, world
  <2>2. Backed(m) /\ job[m].src # job[m].dst
    BY <1>1, <1>8 DEF ServeTerminate, LossInv, Answered
  <2>3. Backed(m)'
    BY <2>1, <2>2, <1>2, <1>3, <1>4 DEF Backed
  <2>4. \A p \in Op : p # o => running'[p] = running[p]
    BY <2>1, <1>2
  <2>5. LossExplained'
    BY <2>3, <2>4, <1>3, <1>4 DEF LossInv, LossExplained, Backed, Excused
  <2>6. \A n \in Mig : Answered(n)' => Backed(n)'
    BY <2>3, <2>4, <1>3, <1>4, <1>5 DEF LossInv, Backed
  <2> QED BY <2>5, <2>6, <1>3 DEF LossInv
<1> QED BY <1>6, <1>7, <1>8 DEF Serve

LEMMA NextLossInv ==
  ASSUME TypeInv, TableInv, LossInv, [Next]_vars
  PROVE  LossInv'
<1> USE DEF Calls
<1>0. \A m \in blamed : m \in Mig /\ pc[m] # "none"
  BY DEF TypeInv, TypeOK, LossInv
<1>1. ASSUME NEW o \in Op, NEW s \in Tier, NEW d \in Tier, MigrateOperator(o, s, d)
      PROVE  LossInv'
  <2> DEFINE new == started + 1
  <2>1. new \in Mig /\ pc[new] = "none"
    BY <1>1, PCTRAssumption DEF MigrateOperator, TypeInv, TypeOK, Known, Mig
  <2>2. \A n \in Mig : n # new => pc'[n] = pc[n] /\ job'[n] = job[n]
    BY <1>1 DEF MigrateOperator, TypeInv, TypeOK
  <2>3. pc'[new] = "created" /\ job'[new].src # job'[new].dst
    BY <1>1, <2>1 DEF MigrateOperator, TypeInv, TypeOK
  <2>4. UNCHANGED <<reply, running, blamed>>
    BY <1>1 DEF MigrateOperator, world, history
  <2>5. new \notin blamed
    BY <1>0, <2>1
  <2> HIDE DEF new
  <2>6. \A p : Excused(p)' <=> Excused(p)
    BY <1>0, <2>2, <2>4, <2>5 DEF Excused
  <2>7. \A n \in Mig : Answered(n)' => n # new /\ Answered(n)
    BY <2>2, <2>3, <2>4 DEF Answered
  <2>8. \A n \in Mig : Answered(n)' => Backed(n)'
    BY <2>2, <2>4, <2>6, <2>7 DEF Backed, LossInv
  <2>9. LossExplained'
    BY <2>4, <2>6 DEF LossInv, LossExplained, Excused
  <2> QED BY <1>0, <2>2, <2>3, <2>4, <2>5, <2>8, <2>9 DEF LossInv
<1>2. ASSUME NEW m \in Mig, Execute(m) \/ DrainReturns(m) \/ SnapshotReturns(m) PROVE LossInv'
  <2>1. /\ pc[m] # "none" /\ UNCHANGED <<running, job, blamed>>
        /\ (\E c \in Calls \ {"terminate"} : Issue(m, c)) \/ End(m, "failed")
    BY <1>2 DEF Execute, DrainReturns, SnapshotReturns, world, history
  <2>2. \A n \in Mig : Answered(n)' => Answered(n)
    BY <2>1, IssueAnswered, EndAnswered DEF Ended
  <2>3. \A n \in Mig : pc'[n] # "none" <=> pc[n] # "none"
    BY <2>1, IssueTypes, EndTypes DEF Ended
  <2> QED BY <1>0, <2>1, <2>2, <2>3, OrchestratorLossInv
<1>3. ASSUME NEW m \in Mig, RestoreReturns(m) PROVE LossInv'
  <2>1. /\ pc[m] = "restore" /\ Issue(m, "terminate") /\ UNCHANGED <<running, job>>
        /\ reply[m] = "ok" \/ m \in blamed'
        /\ blamed \subseteq blamed' /\ blamed' \subseteq blamed \union {m}
    BY <1>3 DEF RestoreReturns, world, TypeInv, TypeOK
  <2>2. \A n \in Mig : Answered(n)' => Answered(n) \/ n \in blamed'
    BY <2>1, IssueAnswered DEF Answered
  <2>3. \A n \in Mig : pc'[n] # "none" <=> pc[n] # "none"
    BY <2>1, IssueTypes
  <2> QED BY <1>0, <2>1, <2>2, <2>3, OrchestratorLossInv
<1>4. ASSUME NEW m \in Mig, TerminateReturns(m) \/ CallRaises(m) \/ TimeOut(m) PROVE LossInv'
  <2>1. /\ pc[m] # "none" /\ UNCHANGED <<running, job, blamed>>
        /\ \E how \in Ended : End(m, how)
    BY <1>4 DEF TerminateReturns, CallRaises, TimeOut, world, history, Ended
  <2>2. \A n \in Mig : Answered(n)' => Answered(n)
    BY <2>1, EndAnswered
  <2>3. \A n \in Mig : pc'[n] # "none" <=> pc[n] # "none"
    BY <2>1, EndTypes
  <2> QED BY <1>0, <2>1, <2>2, <2>3, OrchestratorLossInv
<1>5. ASSUME NEW m \in Mig, Serve(m) PROVE LossInv'
  BY <1>5, ServeLossInv
<1>6. CASE Crash
  <2>1. UNCHANGED <<running, job, blamed>>
    BY <1>6 DEF Crash, world, history
  <2>2. \A n \in Mig : (Answered(n)' => Answered(n)) /\ (pc'[n] # "none" <=> pc[n] # "none")
    BY <1>6 DEF Crash, Answered, Live, TypeInv, TypeOK
  <2> QED BY <1>0, <2>1, <2>2, OrchestratorLossInv
<1>7. CASE Tick \/ UNCHANGED vars
  <2>1. UNCHANGED <<running, job, blamed, pc, reply>>
    BY <1>7 DEF Tick, vars, aode, world, history
  <2> QED BY <1>0, <2>1, OrchestratorLossInv DEF Answered
<1>8. ASSUME NEW r \in late, ServeLate(r) PROVE LossInv'
  <2> DEFINE m == r.mig
             o == job[m].op
  <2>1. m \in Mig /\ pc[m] # "none" /\ UNCHANGED <<pc, reply, job>>
    BY <1>8 DEF ServeLate, aode, Requests, TypeInv, TypeOK, Known
  <2>2. o \in Op /\ running \in [Op -> SUBSET Tier]
    BY <2>1, JobTypes DEF TypeInv, TypeOK
  <2>3. \A n \in Mig : Answered(n)' => Answered(n) /\ job[n].op \in Op
    BY <2>1, JobTypes DEF Answered
  <2>4. CASE (Upload(m) \/ UNCHANGED world) /\ UNCHANGED blamed
    BY <1>0, <2>1, <2>3, <2>4 DEF Upload, world, LossInv, LossExplained, Backed, Excused
  <2>5. CASE Restore(m) /\ UNCHANGED blamed
    <3>1. \A p \in Op : running[p] \subseteq running'[p]
      BY <2>2, <2>5 DEF Restore
    <3> QED BY <1>0, <2>1, <2>3, <2>5, <3>1 DEF LossInv, LossExplained, Backed, Excused
  <2>6. CASE Deregister(m) /\ blamed' = blamed \union {m}
    <3>1. \A p \in Op : p # o => running'[p] = running[p]
      BY <2>2, <2>6 DEF Deregister
    <3>2. Excused(o)' /\ \A p : Excused(p) => Excused(p)'
      BY <2>1, <2>6 DEF Excused
    <3>3. \A n \in Mig : Answered(n)' => Backed(n)'
      BY <2>1, <2>3, <3>1, <3>2 DEF LossInv, Backed
    <3>4. LossExplained'
      <4> SUFFICES ASSUME NEW p \in Op, running'[p] = {} PROVE Excused(p)'
        BY DEF LossExplained, Excused
      <4>1. running[p] = {} => Excused(p)
        BY DEF LossInv, LossExplained, Excused
      <4>2. CASE p = o
        BY <2>1, <3>2, <4>2
      <4>3. CASE p # o
        BY <3>1, <3>2, <4>1, <4>3
      <4> QED BY <4>2, <4>3
    <3> QED BY <1>0, <2>1, <2>6, <3>3, <3>4 DEF LossInv
  <2> QED BY <1>8, <2>4, <2>5, <2>6 DEF ServeLate
<1> QED
  BY <1>1, <1>2, <1>3, <1>4, <1>5, <1>6, <1>7, <1>8 DEF Next, Step, Environment

\* Without any assumption on targets and servers: an operator disappears only by a
\* refused restore that was ignored or by a terminate executed late
\* (_phase_3_restore, and the wait_for of _execute_migration).
THEOREM LossesExplained == Spec => []LossExplained
<1>1. Init => LossInv
  BY DEF Init, LossInv, Answered, LossExplained
<1>2. TypeInv /\ TableInv /\ LossInv /\ [Next]_vars => LossInv'
  BY NextLossInv
<1>3. LossInv => LossExplained
  BY DEF LossInv
<1> QED
  BY <1>1, <1>2, <1>3, TableCorrect, PTL DEF Spec

-----------------------------------------------------------------------------
(* Whose snapshot a restore installs, whatever servers do.                  *)

\* Phase 2 has numbered the snapshot of m: its key stays as it is.
Keyed(m) == pc[m] \notin {"none", "created", "drain"}

\* m knows a key under which its own snapshot was uploaded.
Taken(m) ==
  \/ pc[m] = "restore" /\ m \notin keyless
  \/ pc[m] = "snapshot" /\ reply[m] = "ok"

\* m reads its own snapshot, unless one under the same key came late.
Own(m, n) == n = m \/ [mig |-> n, call |-> "snapshot"] \in overdue

OwnInv ==
  /\ \A k \in Op \X (Time \union {0}) :
       store[k] # NoMig => Keyed(store[k]) /\ Key(store[k]) = k
  /\ \A r \in late : Keyed(r.mig)
  /\ \A m \in Mig : Taken(m) => store[Key(m)] # NoMig /\ Own(m, store[Key(m)])
  /\ \A m \in Mig : origin[m] # NoMig => Keyed(m) /\ Keyed(origin[m])
  /\ RestoresOwnSnapshot

\* A step that leaves objects, restores and late requests alone and changes no
\* key that is in use keeps this, if no migration believes more than before.
LEMMA QuietOwnInv ==
  ASSUME TypeInv, TypeInv', OwnInv, UNCHANGED <<store, origin>>, overdue \subseteq overdue',
         \A n \in Mig : Keyed(n) => Keyed(n)' /\ Key(n)' = Key(n),
         \A n \in Mig : Taken(n)' => Taken(n),
         \A r \in late' : Keyed(r.mig)'
  PROVE  OwnInv'
<1>1. ASSUME NEW k \in Op \X (Time \union {0}), store[k] # NoMig
      PROVE  Keyed(store[k])' /\ Key(store[k])' = k
  BY <1>1 DEF OwnInv, TypeInv, TypeOK
<1>2. ASSUME NEW m \in Mig, Taken(m)'
      PROVE  (store[Key(m)] # NoMig /\ Own(m, store[Key(m)]))'
  BY <1>2 DEF OwnInv, Own, Taken, Keyed
<1>3. ASSUME NEW m \in Mig, origin[m] # NoMig
      PROVE  /\ Keyed(m)' /\ Keyed(origin[m])'
             /\ Key(m)' = Key(m) /\ Key(origin[m])' = Key(origin[m])
  BY <1>3 DEF OwnInv, TypeInv, TypeOK
<1>4. RestoresOwnSnapshot'
  BY <1>3 DEF OwnInv, RestoresOwnSnapshot
<1> QED
  BY <1>1, <1>2, <1>3, <1>4 DEF OwnInv

\* An upload of m makes the object its own; another migration that reads under
\* the same key excuses it, or is not there.
LEMMA UploadOwnInv ==
  ASSUME TypeInv, OwnInv, NEW m \in Mig, Upload(m), Keyed(m), late' \subseteq late,
         UNCHANGED <<pc, job, seq, keyless>>, overdue \subseteq overdue',
         \A n \in Mig : Taken(n)' => (n = m \/ Taken(n)),
         \A n \in Mig : Taken(n)' /\ n # m /\ Key(n) = Key(m) =>
           [mig |-> m, call |-> "snapshot"] \in overdue'
  PROVE  OwnInv'
<1>1. Key(m) \in Op \X (Time \union {0}) /\ m # NoMig
  BY JobTypes, PCTRAssumption DEF Keyed, Mig, NoMig
<1>2. store' = [store EXCEPT ![Key(m)] = m] /\ UNCHANGED origin
  BY DEF Upload
<1>3. ASSUME NEW k \in Op \X (Time \union {0}), store'[k] # NoMig
      PROVE  Keyed(store'[k]) /\ Key(store'[k]) = k
  BY <1>1, <1>2, <1>3 DEF OwnInv, TypeInv, TypeOK
<1>4. ASSUME NEW n \in Mig, Taken(n)'
      PROVE  /\ store'[Key(n)] # NoMig
             /\ store'[Key(n)] = n \/ [mig |-> store'[Key(n)], call |-> "snapshot"] \in overdue'
  <2>1. Key(n) \in Op \X (Time \union {0})
    BY <1>4, JobTypes DEF Taken
  <2>2. CASE Key(n) = Key(m)
    <3>1. store'[Key(n)] = m
      BY <1>1, <1>2, <2>2 DEF TypeInv, TypeOK
    <3> QED
      BY <1>1, <1>4, <2>2, <3>1
  <2>3. CASE Key(n) # Key(m)
    <3>1. Taken(n) /\ store'[Key(n)] = store[Key(n)]
      BY <1>1, <1>2, <1>4, <2>1, <2>3 DEF TypeInv, TypeOK
    <3> QED
      BY <3>1 DEF OwnInv, Own
  <2> QED
    BY <2>2, <2>3
<1>5. \A k \in Op \X (Time \union {0}) : (store[k] # NoMig => Keyed(store[k]) /\ Key(store[k]) = k)'
  BY <1>3 DEF Keyed, Key
<1>6. \A n \in Mig : (Taken(n) => store[Key(n)] # NoMig /\ Own(n, store[Key(n)]))'
  BY <1>4 DEF Own, Key
<1>7. RestoresOwnSnapshot'
  BY <1>2 DEF OwnInv, RestoresOwnSnapshot, Key
<1>8. (\A r \in late : Keyed(r.mig))' /\ (\A n \in Mig : origin[n] # NoMig => Keyed(n) /\ Keyed(origin[n]))'
  BY <1>2 DEF OwnInv, Keyed
<1> QED
  BY <1>5, <1>6, <1>7, <1>8 DEF OwnInv

\* A restore of m finds its own snapshot, or one under the same key that came
\* late, or is late itself.
LEMMA RestoreOwnInv ==
  ASSUME TypeInv, OwnInv, NEW m \in Mig, Restore(m), Keyed(m), late' \subseteq late,
         UNCHANGED <<pc, job, seq, keyless>>, overdue \subseteq overdue',
         \A n \in Mig : Taken(n)' => Taken(n),
         Taken(m) \/ [mig |-> m, call |-> "restore"] \in overdue'
  PROVE  OwnInv'
<1>1. Key(m) \in Op \X (Time \union {0})
  BY JobTypes DEF Keyed
<1>2. origin' = [origin EXCEPT ![m] = store[Key(m)]] /\ UNCHANGED store
  BY DEF Restore
<1>3. store[Key(m)] # NoMig => Keyed(store[Key(m)]) /\ Key(store[Key(m)]) = Key(m)
  BY <1>1 DEF OwnInv
<1>4. ASSUME NEW n \in Mig, origin'[n] \notin {NoMig, n}
      PROVE  /\ Key(origin'[n]) = Key(n)
             /\ \/ [mig |-> origin'[n], call |-> "snapshot"] \in overdue'
                \/ [mig |-> n, call |-> "restore"] \in overdue'
  <2>1. CASE n = m
    <3>1. origin'[n] = store[Key(m)]
      BY <1>2, <2>1 DEF TypeInv, TypeOK
    <3> QED
      BY <1>3, <1>4, <2>1, <3>1 DEF OwnInv, Own
  <2>2. CASE n # m
    <3>1. origin'[n] = origin[n]
      BY <1>2, <2>2 DEF TypeInv, TypeOK
    <3> QED
      BY <1>4, <3>1 DEF OwnInv, RestoresOwnSnapshot
  <2> QED
    BY <2>1, <2>2
<1>5. RestoresOwnSnapshot'
  BY <1>4 DEF RestoresOwnSnapshot, Key
<1>6. ASSUME NEW n \in Mig, origin'[n] # NoMig PROVE Keyed(n) /\ Keyed(origin'[n])
  BY <1>2, <1>3, <1>6 DEF OwnInv, TypeInv, TypeOK
<1>7. (\A n \in Mig : origin[n] # NoMig => Keyed(n) /\ Keyed(origin[n]))'
  BY <1>6 DEF Keyed
<1>8. \A k \in Op \X (Time \union {0}) : (store[k] # NoMig => Keyed(store[k]) /\ Key(store[k]) = k)'
  BY <1>2 DEF OwnInv, Keyed, Key
<1>9. \A n \in Mig : (Taken(n) => store[Key(n)] # NoMig /\ Own(n, store[Key(n)]))'
  BY <1>2 DEF OwnInv, Own, Key
<1>10. (\A r \in late : Keyed(r.mig))'
  BY DEF OwnInv, Keyed
<1> QED
  BY <1>5, <1>7, <1>8, <1>9, <1>10 DEF OwnInv

\* An upload or a restore that is served for its caller is of a live migration:
\* no other one reads under its key.
LEMMA ServeOwnInv ==
  ASSUME TypeInv, TableInv, OwnInv, NEW m \in Mig, Serve(m)
  PROVE  OwnInv'
<1>1. pc[m] \in Calls /\ pc[m] \in Live /\ pc[m] # "none" /\ reply[m] = "none" /\ TypeInv'
  BY ServeTypes DEF Serve, ServeDrain, ServeSnapshot, ServeRestore, ServeTerminate, Calls, Live
<1>2. UNCHANGED <<pc, job, seq, keyless, overdue>> /\ \A n \in Mig : n # m => reply'[n] = reply[n]
  BY DEF Serve, ServeDrain, ServeSnapshot, ServeRestore, ServeTerminate, Answer, history, TypeInv, TypeOK
<1>3. \A n \in Mig : n # m /\ Taken(n)' => Taken(n) /\ Key(n) # Key(m)
  BY <1>1, <1>2 DEF Taken, TableInv, Key, Live, Calls
<1>4. CASE ServeSnapshot(m) /\ Upload(m) /\ UNCHANGED late
  <2>1. Keyed(m)
    BY <1>4 DEF ServeSnapshot, Keyed
  <2> QED
    BY <1>2, <1>3, <1>4, <2>1, UploadOwnInv
<1>5. CASE ServeRestore(m) /\ Restore(m) /\ m \notin keyless
  <2>1. pc[m] = "restore" /\ UNCHANGED late
    BY <1>5 DEF ServeRestore
  <2>2. Taken(m) /\ Keyed(m)
    BY <1>5, <2>1 DEF Taken, Keyed
  <2> QED
    BY <1>2, <1>3, <1>5, <2>1, <2>2, RestoreOwnInv
<1>6. CASE UNCHANGED <<store, origin>> /\ (pc[m] = "snapshot" => reply'[m] # "ok")
  <2>1. \A n \in Mig : (Keyed(n) => Keyed(n)') /\ Key(n)' = Key(n)
    BY <1>2 DEF Keyed, Key
  <2>2. \A n \in Mig : Taken(n)' => Taken(n)
    BY <1>2, <1>3, <1>6 DEF Taken
  <2>3. late' \subseteq late \union {Request(m)} /\ (late' # late => Keyed(m))
    BY DEF Serve, ServeDrain, ServeSnapshot, ServeRestore, ServeTerminate, Keyed
  <2>4. \A r \in late' : Keyed(r.mig)'
    BY <1>2, <2>3 DEF OwnInv, Keyed, Request
  <2> QED
    BY <1>1, <1>2, <1>6, <2>1, <2>2, <2>4, QuietOwnInv
<1>7. ServeSnapshot(m) => (Upload(m) /\ UNCHANGED late) \/ (UNCHANGED <<store, origin>> /\ reply'[m] # "ok")
  BY <1>1 DEF ServeSnapshot, Answer, world, TypeInv, TypeOK
<1>8. ServeRestore(m) => (Restore(m) /\ m \notin keyless) \/ UNCHANGED <<store, origin>>
  BY DEF ServeRestore, world
<1>9. ServeDrain(m) \/ ServeTerminate(m) => UNCHANGED <<store, origin>>
  BY DEF ServeDrain, ServeTerminate, Deregister, world
<1>10. ServeDrain(m) \/ ServeRestore(m) \/ ServeTerminate(m) => pc[m] # "snapshot"
  BY DEF ServeDrain, ServeRestore, ServeTerminate
<1> QED
  BY <1>4, <1>5, <1>6, <1>7, <1>8, <1>9, <1>10 DEF Serve

\* Ending a migration, or issuing its next call, changes no key in use.
LEMMA EndOwnInv ==
  ASSUME TypeInv, TypeInv', OwnInv, NEW m \in Mig, pc[m] \in Live, NEW how \in Ended,
         End(m, how), Abandon(m), UNCHANGED <<job, seq, store, origin, overdue>>,
         keyless \subseteq keyless'
  PROVE  OwnInv'
<1>1. \A n \in Mig : (Keyed(n) => Keyed(n)') /\ Key(n)' = Key(n) /\ (Taken(n)' => Taken(n))
  BY DEF End, Ended, Live, Calls, Keyed, Key, Taken, TypeInv, TypeOK
<1>2. \A r \in late' : r.mig \in Mig /\ Keyed(r.mig)
  BY DEF Abandon, Pending, Request, Requests, Calls, Keyed, OwnInv, TypeInv, TypeOK
<1> QED
  BY <1>1, <1>2, QuietOwnInv

LEMMA IssueOwnInv ==
  ASSUME TypeInv, TypeInv', OwnInv, NEW m \in Mig, pc[m] \in Live, NEW c \in Calls,
         Issue(m, c), UNCHANGED <<job, store, origin, late, overdue>>,
         keyless \subseteq keyless',
         \A n \in Mig : Keyed(n) => seq'[n] = seq[n],
         Keyed(m) => c # "drain",
         c = "restore" => Taken(m) \/ m \in keyless'
  PROVE  OwnInv'
<1>1. CASE End(m, "failed")
  <2>1. \A n \in Mig : (Keyed(n) => Keyed(n)' /\ Key(n)' = Key(n)) /\ (Taken(n)' => Taken(n))
    BY <1>1 DEF End, Live, Calls, Keyed, Key, Taken, TypeInv, TypeOK
  <2>2. \A r \in late : r.mig \in Mig /\ Keyed(r.mig)
    BY DEF Requests, OwnInv, TypeInv, TypeOK
  <2> QED
    BY <2>1, <2>2, QuietOwnInv
<1>2. CASE pc' = [pc EXCEPT ![m] = c] /\ reply' = [reply EXCEPT ![m] = "none"]
  <2>1. \A n \in Mig : (Keyed(n) => Keyed(n)' /\ Key(n)' = Key(n)) /\ (Taken(n)' => Taken(n))
    BY <1>2 DEF Calls, Keyed, Key, Taken, TypeInv, TypeOK
  <2>2. \A r \in late : r.mig \in Mig /\ Keyed(r.mig)
    BY DEF Requests, OwnInv, TypeInv, TypeOK
  <2> QED
    BY <2>1, <2>2, QuietOwnInv
<1> QED
  BY <1>1, <1>2 DEF Issue

LEMMA NextOwnInv ==
  ASSUME TypeInv, TableInv, OwnInv, [Next]_vars
  PROVE  OwnInv'
<1>0. TypeInv'
  BY NextTypeInv
<1> USE DEF Calls, Live, Ended, history, world
<1>1. ASSUME NEW o \in Op, NEW s \in Tier, NEW d \in Tier, MigrateOperator(o, s, d)
      PROVE  OwnInv'
  <2>1. started + 1 \in Mig /\ pc[started + 1] = "none"
    BY <1>1, PCTRAssumption DEF MigrateOperator, TypeInv, TypeOK, Known, Mig
  <2>2. \A n \in Mig : n # started + 1 => pc'[n] = pc[n] /\ job'[n] = job[n]
    BY <1>1 DEF MigrateOperator, TypeInv, TypeOK
  <2>3. pc'[started + 1] = "created" /\ UNCHANGED <<reply, seq, keyless, store, origin, late, overdue>>
    BY <1>1, <2>1 DEF MigrateOperator, TypeInv, TypeOK
  <2>4. \A n \in Mig : (Keyed(n) => Keyed(n)' /\ Key(n)' = Key(n)) /\ (Taken(n)' => Taken(n))
    BY <2>1, <2>2, <2>3 DEF Keyed, Key, Taken
  <2>5. \A r \in late : r.mig \in Mig /\ Keyed(r.mig)
    BY DEF Requests, OwnInv, TypeInv, TypeOK
  <2> QED
    BY <1>0, <2>3, <2>4, <2>5, QuietOwnInv
<1>2. ASSUME NEW m \in Mig, Execute(m) PROVE OwnInv'
  BY <1>0, <1>2, IssueOwnInv DEF Execute, Keyed
<1>3. ASSUME NEW m \in Mig, DrainReturns(m) PROVE OwnInv'
  <2>1. \A n \in Mig : Keyed(n) => seq'[n] = seq[n]
    BY <1>3 DEF DrainReturns, Keyed, TypeInv, TypeOK
  <2> QED
    BY <1>0, <1>3, <2>1, IssueOwnInv DEF DrainReturns
<1>4. ASSUME NEW m \in Mig, SnapshotReturns(m) PROVE OwnInv'
  <2>1. pc[m] \in Live /\ keyless \subseteq keyless' /\ UNCHANGED <<job, seq, store, origin, late, overdue>>
    BY <1>4 DEF SnapshotReturns
  <2>2. CASE reply[m] \in {"ok", "empty"} /\ Issue(m, "restore")
    <3>1. Taken(m) \/ m \in keyless'
      BY <1>4, <2>2 DEF SnapshotReturns, Taken
    <3> QED
      BY <1>0, <2>1, <2>2, <3>1, IssueOwnInv
  <2>3. CASE End(m, "failed")
    BY <1>0, <2>1, <2>3, EndOwnInv DEF Abandon
  <2> QED
    BY <1>4, <2>2, <2>3 DEF SnapshotReturns
<1>5. ASSUME NEW m \in Mig, RestoreReturns(m) PROVE OwnInv'
  BY <1>0, <1>5, IssueOwnInv DEF RestoreReturns
<1>6. ASSUME NEW m \in Mig, TerminateReturns(m) PROVE OwnInv'
  BY <1>0, <1>6, EndOwnInv DEF TerminateReturns, Abandon
<1>7. ASSUME NEW m \in Mig, CallRaises(m) \/ TimeOut(m) PROVE OwnInv'
  BY <1>0, <1>7, EndOwnInv DEF CallRaises, TimeOut
<1>8. ASSUME NEW m \in Mig, Serve(m) PROVE OwnInv'
  BY <1>8, ServeOwnInv
<1>9. CASE Crash
  <2>1. \A n \in Mig : (Keyed(n) => Keyed(n)' /\ Key(n)' = Key(n)) /\ (Taken(n)' => Taken(n))
    BY <1>9 DEF Crash, Keyed, Key, Taken, TypeInv, TypeOK
  <2>2. \A r \in late' : r.mig \in Mig /\ Keyed(r.mig)
    BY <1>9, PCTRAssumption DEF Crash, Pending, Request, Requests, Keyed, OwnInv, TypeInv, TypeOK
  <2> QED
    BY <1>0, <1>9, <2>1, <2>2, QuietOwnInv DEF Crash
<1>10. CASE Tick \/ UNCHANGED vars
  <2>1. UNCHANGED <<pc, job, reply, seq, keyless, store, origin, late, overdue>>
    BY <1>10 DEF Tick, vars, aode
  <2>2. \A r \in late : r.mig \in Mig /\ Keyed(r.mig)
    BY DEF Requests, OwnInv, TypeInv, TypeOK
  <2> QED
    BY <1>0, <2>1, <2>2, QuietOwnInv DEF Keyed, Key, Taken
<1>11. ASSUME NEW r \in late, ServeLate(r) PROVE OwnInv'
  <2> DEFINE m == r.mig
  <2>1. m \in Mig /\ Keyed(m) /\ r = [mig |-> m, call |-> r.call]
    BY DEF Requests, OwnInv, TypeInv, TypeOK
  <2>2. /\ UNCHANGED <<pc, job, reply, seq, keyless>> /\ late' \subseteq late
        /\ overdue' = overdue \union {r}
    BY <1>11 DEF ServeLate, aode
  <2>3. \A n \in Mig : Taken(n)' => Taken(n)
    BY <2>2 DEF Taken
  <2>4. CASE r.call = "snapshot" /\ Upload(m)
    BY <2>1, <2>2, <2>3, <2>4, UploadOwnInv
  <2>5. CASE r.call = "restore" /\ Restore(m)
    BY <2>1, <2>2, <2>3, <2>5, RestoreOwnInv
  <2>6. CASE UNCHANGED <<store, origin>>
    BY <1>0, <2>1, <2>2, <2>3, <2>6, QuietOwnInv DEF OwnInv, Keyed, Key, Requests, TypeInv, TypeOK
  <2> QED
    BY <1>11, <2>4, <2>5, <2>6 DEF ServeLate, Deregister
<1> QED
  BY <1>1, <1>2, <1>3, <1>4, <1>5, <1>6, <1>7, <1>8, <1>9, <1>10, <1>11
  DEF Next, Step, Environment

\* Keys repeat, within a second and when the clock is set back: a restore takes
\* a snapshot of another migration only if its upload, or the restore itself,
\* was executed late, and then one under the same key (snapshot keys of
\* _phase_2_snapshot and create_migration_snapshot).
THEOREM SnapshotsAreOwn == Spec => []RestoresOwnSnapshot
<1>1. Init => OwnInv
  BY DEF Init, OwnInv, Taken, RestoresOwnSnapshot
<1>2. TypeInv /\ TableInv /\ OwnInv /\ [Next]_vars => OwnInv'
  BY NextOwnInv
<1>3. OwnInv => RestoresOwnSnapshot
  BY DEF OwnInv
<1> QED
  BY <1>1, <1>2, <1>3, TableCorrect, PTL DEF Spec

-----------------------------------------------------------------------------
(* PCTR implements MakeBeforeBreak when targets tell the truth and no        *)
(* request outlives its caller.                                              *)

\* The table names live migrations of the operator, and only those.
ActiveInv ==
  \A o \in Op : active[o] # NoMig =>
    active[o] \in Mig /\ pc[active[o]] \in Live /\ job[active[o]].op = o

RInv == IInv /\ ActiveInv

LEMMA EndActive ==
  ASSUME RInv, NEW m \in Mig, pc[m] \in Live, NEW how \in Ended, End(m, how), UNCHANGED job
  PROVE  ActiveInv'
<1> SUFFICES ASSUME NEW o \in Op, active'[o] # NoMig
             PROVE  active'[o] \in Mig /\ pc'[active'[o]] \in Live /\ job[active'[o]].op = o
  BY DEF ActiveInv
<1>1. o # job[m].op /\ active'[o] = active[o]
  BY DEF End, RInv, IInv, TypeInv, TypeOK
<1>2. active[o] # m
  BY <1>1 DEF RInv, ActiveInv
<1> QED
  BY <1>1, <1>2 DEF End, RInv, ActiveInv, IInv, TypeInv, TypeOK

LEMMA IssueActive ==
  ASSUME RInv, NEW m \in Mig, pc[m] \in Live, NEW c \in Calls, Issue(m, c), UNCHANGED job
  PROVE  ActiveInv'
<1>1. CASE End(m, "failed")
  BY <1>1, EndActive DEF Ended
<1>2. CASE pc' = [pc EXCEPT ![m] = c] /\ UNCHANGED active
  BY <1>2 DEF RInv, ActiveInv, IInv, TypeInv, TypeOK, Live
<1> QED
  BY <1>1, <1>2 DEF Issue

LEMMA NextActiveInv == Honest /\ RInv /\ [Next]_vars => ActiveInv'
<1> SUFFICES ASSUME Honest, RInv, [Next]_vars PROVE ActiveInv'
  OBVIOUS
<1>1. ASSUME NEW o \in Op, NEW s \in Tier, NEW d \in Tier, MigrateOperator(o, s, d)
      PROVE  ActiveInv'
  <2>1. started + 1 \in Mig /\ pc[started + 1] = "none"
    BY <1>1, PCTRAssumption DEF MigrateOperator, RInv, IInv, TypeInv, TypeOK, Known, Mig
  <2> SUFFICES ASSUME NEW p \in Op, active'[p] # NoMig
               PROVE  active'[p] \in Mig /\ pc'[active'[p]] \in Live /\ job'[active'[p]].op = p
    BY DEF ActiveInv
  <2>2. CASE p = o
    BY <1>1, <2>1, <2>2 DEF MigrateOperator, Live, RInv, IInv, TypeInv, TypeOK
  <2>3. CASE p # o
    <3>1. active'[p] = active[p]
      BY <1>1, <2>3 DEF MigrateOperator, RInv, IInv, TypeInv, TypeOK
    <3>2. active[p] \in Mig /\ pc[active[p]] \in Live /\ job[active[p]].op = p
      BY <3>1 DEF RInv, ActiveInv
    <3>3. active[p] # started + 1
      BY <2>1, <3>2 DEF Live, Calls
    <3> QED
      BY <1>1, <3>1, <3>2, <3>3 DEF MigrateOperator, RInv, IInv, TypeInv, TypeOK
  <2> QED
    BY <2>2, <2>3
<1> USE DEF Calls, Live, Ended
<1>2. ASSUME NEW m \in Mig, Execute(m) PROVE ActiveInv'
  BY <1>2, IssueActive DEF Execute
<1>3. ASSUME NEW m \in Mig, DrainReturns(m) PROVE ActiveInv'
  BY <1>3, IssueActive DEF DrainReturns
<1>4. ASSUME NEW m \in Mig, SnapshotReturns(m) PROVE ActiveInv'
  BY <1>4, IssueActive, EndActive DEF SnapshotReturns
<1>5. ASSUME NEW m \in Mig, RestoreReturns(m) PROVE ActiveInv'
  BY <1>5, IssueActive DEF RestoreReturns
<1>6. ASSUME NEW m \in Mig, TerminateReturns(m) PROVE ActiveInv'
  BY <1>6, EndActive DEF TerminateReturns
<1>7. ASSUME NEW m \in Mig, CallRaises(m) \/ TimeOut(m) PROVE ActiveInv'
  BY <1>7, EndActive DEF CallRaises, TimeOut
<1>8. ASSUME NEW m \in Mig, Serve(m) PROVE ActiveInv'
  BY <1>8 DEF Serve, RInv, ActiveInv
<1>9. CASE Crash
  BY <1>9 DEF Crash, ActiveInv
<1>10. CASE Tick \/ UNCHANGED vars
  BY <1>10 DEF Tick, vars, aode, RInv, ActiveInv
<1>11. ASSUME NEW r \in late, ServeLate(r) PROVE ActiveInv'
  BY <1>11 DEF ServeLate, aode, RInv, ActiveInv
<1> QED
  BY <1>1, <1>2, <1>3, <1>4, <1>5, <1>6, <1>7, <1>8, <1>9, <1>10, <1>11
  DEF Next, Step, Environment

LEMMA RInvCorrect == Honest /\ Spec => []RInv
<1>1. Init => ActiveInv
  BY DEF Init, ActiveInv
<1>2. Honest /\ RInv /\ [Next]_vars => ActiveInv'
  BY NextActiveInv
<1>3. Honest => Honest'
  BY DEF Honest
<1>4. IInv /\ ActiveInv <=> RInv
  BY DEF RInv
<1> QED
  BY <1>1, <1>2, <1>3, <1>4, HandoverCorrect, PTL DEF Spec

-----------------------------------------------------------------------------
\* The move of an operator whose table entry, job and stage stay is the same.
LEMMA SameMove ==
  ASSUME RInv, NEW o \in Op, active'[o] = active[o], UNCHANGED job,
         active[o] # NoMig =>
           Stage(pc'[active[o]], reply'[active[o]]) = Stage(pc[active[o]], reply[active[o]])
  PROVE  MoveOf(o)' = MoveOf(o)
  BY DEF MoveOf

\* Ending a migration ends the move of its operator.
LEMMA EndIsFinish ==
  ASSUME RInv, NEW m \in Mig, pc[m] \in Live, NEW how \in Ended, End(m, how),
         UNCHANGED <<job, running>>
  PROVE  Handover!Finish({job[m].op})
<1>1. pc[m] # "none" /\ job[m].op \in Op /\ active[job[m].op] = m /\ m # NoMig
  BY JobTypes, PCTRAssumption DEF RInv, IInv, TableInv, Live, Calls, Mig, NoMig
<1>2. MoveOf(job[m].op).stage # "still"
  BY <1>1 DEF MoveOf, Stage
<1>3. MoveOf(job[m].op)' = [stage |-> "still"]
  BY <1>1 DEF MoveOf, End, RInv, IInv, TypeInv, TypeOK
<1>4. ASSUME NEW p \in Op, p # job[m].op PROVE MoveOf(p)' = MoveOf(p)
  <2>1. active'[p] = active[p]
    BY <1>4 DEF End, RInv, IInv, TypeInv, TypeOK
  <2>2. ASSUME active[p] # NoMig
        PROVE  pc'[active[p]] = pc[active[p]] /\ reply'[active[p]] = reply[active[p]]
    <3>1. active[p] # m /\ active[p] \in Mig
      BY <1>4, <2>2 DEF RInv, ActiveInv
    <3> QED
      BY <3>1 DEF End, RInv, IInv, TypeInv, TypeOK
  <2> QED
    BY <2>1, <2>2, SameMove
<1> QED
  BY <1>1, <1>2, <1>3, <1>4 DEF Handover!Finish, Handover!At, Handover!Still

\* A step that leaves table, jobs and tiers alone and keeps every stage stutters.
LEMMA SameStages ==
  ASSUME RInv, UNCHANGED <<active, job, running>>,
         \A n \in Mig : Stage(pc'[n], reply'[n]) = Stage(pc[n], reply[n])
  PROVE  UNCHANGED Handover!hvars
<1>1. ASSUME NEW o \in Op PROVE MoveOf(o)' = MoveOf(o)
  BY SameMove DEF RInv, ActiveInv
<1> QED
  BY <1>1 DEF Handover!hvars

\* Issuing the next call keeps the stage or ends the move.
LEMMA IssueIsQuiet ==
  ASSUME RInv, NEW m \in Mig, pc[m] \in Live, NEW c \in Calls, Issue(m, c),
         UNCHANGED <<job, running>>, Stage(c, "none") = Stage(pc[m], reply[m])
  PROVE  Handover!Finish({job[m].op}) \/ UNCHANGED Handover!hvars
<1>1. CASE End(m, "failed")
  BY <1>1, EndIsFinish DEF Ended
<1>2. CASE pc' = [pc EXCEPT ![m] = c] /\ reply' = [reply EXCEPT ![m] = "none"] /\ UNCHANGED active
  <2>1. \A n \in Mig : Stage(pc'[n], reply'[n]) = Stage(pc[n], reply[n])
    BY <1>2 DEF RInv, IInv, TypeInv, TypeOK
  <2> QED
    BY <1>2, <2>1, SameStages
<1> QED
  BY <1>1, <1>2 DEF Issue

\* Only the restore and the terminate of the operator's own migration change
\* where it runs, as a copy and a settlement of its move.
LEMMA ServeIsMove ==
  ASSUME Honest, RInv, NEW m \in Mig, Serve(m)
  PROVE  \/ Handover!Copy(job[m].op) \/ Handover!Settle(job[m].op)
         \/ UNCHANGED Handover!hvars
<1> DEFINE o == job[m].op
<1>1. pc[m] \in Live /\ pc[m] # "none" /\ reply[m] = "none"
  BY DEF Serve, ServeDrain, ServeSnapshot, ServeRestore, ServeTerminate, Live, Calls
<1>2. o \in Op /\ active[o] = m /\ m # NoMig
  BY <1>1, JobTypes, PCTRAssumption DEF RInv, IInv, TableInv, Mig, NoMig
<1>3. UNCHANGED <<active, job, pc>>
  BY DEF Serve
<1>4. \A n \in Mig : n # m => reply'[n] = reply[n]
  BY DEF Serve, ServeDrain, ServeSnapshot, ServeRestore, ServeTerminate, Answer,
    RInv, IInv, TypeInv, TypeOK
<1>5. ASSUME NEW p \in Op, p # o PROVE MoveOf(p)' = MoveOf(p)
  <2>1. active[p] # NoMig => active[p] \in Mig /\ active[p] # m
    BY <1>5 DEF RInv, ActiveInv
  <2> QED
    BY <1>3, <1>4, <2>1, SameMove
<1>6. MoveOf(o) = [stage |-> Stage(pc[m], "none"), src |-> job[m].src, dst |-> job[m].dst]
  BY <1>1, <1>2 DEF MoveOf
<1>7. MoveOf(o)' = [stage |-> Stage(pc[m], reply'[m]), src |-> job[m].src, dst |-> job[m].dst]
  BY <1>2, <1>3 DEF MoveOf
<1>8. CASE ServeDrain(m) \/ ServeSnapshot(m)
  <2>1. UNCHANGED running /\ pc[m] \in {"drain", "snapshot"}
    BY <1>8 DEF ServeDrain, ServeSnapshot, Upload, world
  <2>2. \A n \in Mig : Stage(pc'[n], reply'[n]) = Stage(pc[n], reply[n])
    BY <1>3, <1>4, <2>1 DEF Stage
  <2> QED
    BY <1>3, <2>1, <2>2, SameStages
<1>9. CASE ServeRestore(m)
  <2>1. Restore(m) /\ pc[m] = "restore" /\ reply'[m] = "ok"
    BY <1>9 DEF ServeRestore, Honest, Answer, RInv, IInv, TypeInv, TypeOK
  <2>2. MoveOf(o).stage = "copying"
    BY <1>6, <2>1 DEF Stage
  <2>3. MoveOf(o)' = [MoveOf(o) EXCEPT !.stage = "copied"]
    BY <1>6, <1>7, <2>1 DEF Stage
  <2>4. running' = [running EXCEPT ![o] = @ \union {MoveOf(o).dst}]
    BY <1>6, <2>1 DEF Restore
  <2>5. [p \in Op |-> MoveOf(p)]' = [[p \in Op |-> MoveOf(p)] EXCEPT ![o].stage = "copied"]
    <3>1. \A p \in Op : MoveOf(p)' = IF p = o THEN [MoveOf(o) EXCEPT !.stage = "copied"] ELSE MoveOf(p)
      BY <1>3, <1>5, <2>3
    <3> HIDE DEF o
    <3>2. [p \in Op |-> MoveOf(p)]' =
            [p \in Op |-> IF p = o THEN [MoveOf(o) EXCEPT !.stage = "copied"] ELSE MoveOf(p)]
      BY <3>1
    <3> QED
      BY <1>2, <3>2
  <2>6. [p \in Op |-> MoveOf(p)][o] = MoveOf(o)
    BY <1>2
  <2> QED
    BY <2>2, <2>4, <2>5, <2>6 DEF Handover!Copy, Handover!At
<1>10. CASE ServeTerminate(m)
  <2>1. pc[m] = "terminate" /\ reply'[m] # "none"
    BY <1>10 DEF ServeTerminate, Answer, RInv, IInv, TypeInv, TypeOK
  <2>2. MoveOf(o).stage = "copied"
    BY <1>6, <2>1 DEF Stage
  <2>3. MoveOf(o)' = [MoveOf(o) EXCEPT !.stage = "settled"]
    BY <1>6, <1>7, <2>1 DEF Stage
  <2>4. running' = running \/ running' = [running EXCEPT ![o] = @ \ {MoveOf(o).src}]
    BY <1>6, <1>10 DEF ServeTerminate, Deregister, world
  <2>5. [p \in Op |-> MoveOf(p)]' = [[p \in Op |-> MoveOf(p)] EXCEPT ![o].stage = "settled"]
    <3>1. \A p \in Op : MoveOf(p)' = IF p = o THEN [MoveOf(o) EXCEPT !.stage = "settled"] ELSE MoveOf(p)
      BY <1>3, <1>5, <2>3
    <3> HIDE DEF o
    <3>2. [p \in Op |-> MoveOf(p)]' =
            [p \in Op |-> IF p = o THEN [MoveOf(o) EXCEPT !.stage = "settled"] ELSE MoveOf(p)]
      BY <3>1
    <3> QED
      BY <1>2, <3>2
  <2>6. [p \in Op |-> MoveOf(p)][o] = MoveOf(o)
    BY <1>2
  <2> QED
    BY <2>2, <2>4, <2>5, <2>6 DEF Handover!Settle, Handover!At
<1> QED
  BY <1>8, <1>9, <1>10 DEF Serve

LEMMA NextIsMove ==
  Honest /\ RInv /\ [Next]_vars => [Handover!HandoverNext]_(Handover!hvars)
<1> SUFFICES ASSUME Honest, RInv, [Next]_vars
             PROVE  Handover!HandoverNext \/ UNCHANGED Handover!hvars
  OBVIOUS
<1> USE DEF Calls, Live, Ended
<1>1. ASSUME NEW o \in Op, NEW s \in Tier, NEW d \in Tier, MigrateOperator(o, s, d)
      PROVE  Handover!Begin(o, s, d)
  <2>1. started + 1 \in Mig /\ started + 1 # NoMig /\ pc[started + 1] = "none"
    BY <1>1, PCTRAssumption DEF MigrateOperator, RInv, IInv, TypeInv, TypeOK, Known, Mig, NoMig
  <2>2. MoveOf(o).stage = "still"
    BY <1>1 DEF MigrateOperator, MoveOf
  <2>3. MoveOf(o)' = [stage |-> "copying", src |-> s, dst |-> d]
    BY <1>1, <2>1 DEF MigrateOperator, MoveOf, Stage, RInv, IInv, TypeInv, TypeOK
  <2>4. ASSUME NEW p \in Op, p # o PROVE MoveOf(p)' = MoveOf(p)
    <3>1. active'[p] = active[p]
      BY <1>1, <2>4 DEF MigrateOperator, RInv, IInv, TypeInv, TypeOK
    <3>2. active[p] # NoMig => active[p] \in Mig /\ active[p] # started + 1
      BY <2>1 DEF RInv, ActiveInv
    <3> QED
      BY <1>1, <3>1, <3>2 DEF MigrateOperator, MoveOf, RInv, IInv, TypeInv, TypeOK
  <2> QED
    BY <1>1, <2>2, <2>3, <2>4 DEF MigrateOperator, world, Handover!Begin, Handover!At
<1>2. ASSUME NEW m \in Mig, pc[m] # "none", Handover!Finish({job[m].op}) PROVE Handover!HandoverNext
  BY <1>2, JobTypes DEF Handover!HandoverNext, RInv, IInv
<1>3. ASSUME NEW m \in Mig, Step(m) PROVE Handover!HandoverNext \/ UNCHANGED Handover!hvars
  <2>1. CASE Execute(m)
    BY <1>2, <2>1, IssueIsQuiet DEF Execute, Stage, world
  <2>2. CASE DrainReturns(m)
    BY <1>2, <2>2, IssueIsQuiet DEF DrainReturns, Stage, world
  <2>3. CASE SnapshotReturns(m)
    BY <1>2, <2>3, IssueIsQuiet, EndIsFinish DEF SnapshotReturns, Stage, world
  <2>4. CASE RestoreReturns(m)
    BY <1>2, <2>4, IssueIsQuiet DEF RestoreReturns, Stage, world
  <2>5. CASE TerminateReturns(m)
    BY <1>2, <2>5, EndIsFinish DEF TerminateReturns, world
  <2>6. CASE CallRaises(m) \/ TimeOut(m)
    BY <1>2, <2>6, EndIsFinish DEF CallRaises, TimeOut, world
  <2>7. CASE Serve(m)
    <3>1. pc[m] # "none"
      BY <2>7 DEF Serve, ServeDrain, ServeSnapshot, ServeRestore, ServeTerminate
    <3> QED
      BY <2>7, <3>1, ServeIsMove, JobTypes DEF Handover!HandoverNext, RInv, IInv
  <2> QED
    BY <1>3, <2>1, <2>2, <2>3, <2>4, <2>5, <2>6, <2>7 DEF Step
<1>4. CASE Crash
  <2> DEFINE S == {o \in Op : active[o] # NoMig}
  <2>1. \A o \in S : MoveOf(o).stage # "still"
    BY DEF MoveOf, Stage
  <2>2. \A o \in Op : MoveOf(o)' = [stage |-> "still"]
    BY <1>4 DEF Crash, MoveOf
  <2>3. \A o \in Op : o \notin S => MoveOf(o) = [stage |-> "still"]
    BY DEF MoveOf
  <2>4. Handover!Finish(S)
    BY <1>4, <2>1, <2>2, <2>3 DEF Crash, world, Handover!Finish, Handover!At, Handover!Still
  <2>5. S \in SUBSET Op
    OBVIOUS
  <2> QED
    BY <2>4, <2>5 DEF Handover!HandoverNext
<1>5. CASE Tick \/ UNCHANGED vars
  BY <1>5, SameStages DEF Tick, vars, aode, world
<1>6. ASSUME NEW r \in late, ServeLate(r) PROVE FALSE
  BY <1>6 DEF RInv, IInv, HandInv
<1> QED
  BY <1>1, <1>3, <1>4, <1>5, <1>6 DEF Next, Environment, Handover!HandoverNext

\* The four phases implement make-before-break: for any operators, tiers and
\* clients, and any schedule of calls, failures, timeouts and restarts of AODE,
\* an operator is taken from its source only in a move that has already put it
\* on its target.
THEOREM Implementation == Honest /\ Spec => ImplementsHandover
<1>1. Init => Handover!HandoverInit
  <2> SUFFICES ASSUME Init PROVE Handover!HandoverInit
    OBVIOUS
  <2>1. running \in [Op -> {{t} : t \in Tier}]
    BY DEF Init
  <2>2. [o \in Op |-> MoveOf(o)] = [o \in Op |-> Handover!Still]
    BY DEF Init, MoveOf, Handover!Still
  <2> QED
    BY <2>1, <2>2 DEF Handover!HandoverInit
<1>2. Honest => Honest'
  BY DEF Honest
<1> QED
  BY <1>1, <1>2, RInvCorrect, NextIsMove, PTL
  DEF Spec, ImplementsHandover, Handover!HandoverSpec
=============================================================================
