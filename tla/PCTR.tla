-------------------------------- MODULE PCTR --------------------------------
(***************************************************************************)
(* The four-phase operator migration of AODE (aode/migration/pctr.py):     *)
(* drain, snapshot, restore, terminate.  The orchestrator keeps the table  *)
(* of active migrations and runs every migration as an asyncio task under  *)
(* one overall wait_for timeout.  Each phase awaits one remote call; the   *)
(* code between two awaits is one atomic step of the event loop.           *)
(*                                                                         *)
(* A remote call is served by an edge agent (HEA) or by the Flink          *)
(* connector.  The caller may give up - an exception, the RPC deadline,    *)
(* the wait_for timeout, a crash of AODE - before the server has executed  *)
(* the request, and a server that times out on its own event loop answers  *)
(* with an error and executes the coroutine later.  Such a request is a    *)
(* straggler.                                                              *)
(***************************************************************************)
EXTENDS Naturals

CONSTANTS
  Op,             (* operator ids                                            *)
  Tier,           (* the tiers an operator can run on                        *)
  Cloud,          (* the tier that is restored through the Flink connector   *)
  HeaClients,     (* the tiers that have an entry in hea_clients             *)
  Methods,        (* the calls whose client method exists and can be issued  *)
  RestoreReplies, (* what RestoreResponse.success may say: "ok", "error"     *)
  Stragglers,     (* migrations whose abandoned requests may execute late    *)
  MaxMigrations,  (* bound: migrations created                               *)
  MaxTime         (* bound: seconds time.time() moves through                *)

Mig    == 1 .. MaxMigrations
Time   == 1 .. MaxTime
NoMig  == 0
Calls  == {"drain", "snapshot", "restore", "terminate"}
Live   == Calls \union {"created"}
Ended  == {"completed", "failed", "timedout", "crashed"}
Job    == [op : Op, src : Tier, dst : Tier]
NoJob  == [op |-> "none", src |-> Cloud, dst |-> Cloud]

ASSUME PCTRAssumption ==
  /\ Op # {}
  /\ Cloud \in Tier
  /\ HeaClients \subseteq Tier
  /\ Methods \subseteq Calls \union {"flink_restore"}
  /\ RestoreReplies \subseteq {"ok", "error"}
  /\ Stragglers \subseteq Mig
  /\ MaxMigrations \in Nat
  /\ MaxTime \in Nat \ {0}

VARIABLES
  active,    (* _active_migrations: the migration registered for an operator *)
  started,   (* migrations created so far                                    *)
  job,       (* operator_id, source_tier and target_tier of a migration      *)
  pc,        (* the call a migration awaits (its phase), or how it ended     *)
  reply,     (* what the server answered to that call, "none" before         *)
  seq,       (* migration_seq of phase 2, 0 before: int(time.time())         *)
  clock,     (* time.time() in whole seconds                                 *)
  store,     (* the object store: who wrote the object under a snapshot key  *)
  origin,    (* whose snapshot the restore of a migration installed          *)
  running,   (* the tiers on which an instance of an operator runs           *)
  late,      (* stragglers: requests without a caller, not executed yet      *)
  keyless,   (* migrations whose snapshot_object_key is the empty string     *)
  blamed,    (* history: migrations that ignored a refused restore, or whose
                terminate executed after they had ended                      *)
  overdue    (* history: the requests that were executed late                *)

aode == <<active, started, job, pc, reply, seq, keyless>>
world == <<store, origin, running>>
history == <<blamed, overdue>>
vars == <<aode, clock, world, late, history>>

Key(m)      == <<job[m].op, seq[m]>>
Request(m)  == [mig |-> m, call |-> pc[m]]
Requests    == [mig : Mig, call : Calls]
Pending(m)  == pc[m] \in Calls \ {"drain"} /\ reply[m] = "none"
SourceUp(m) == job[m].src \in running[job[m].op]

TypeOK ==
  /\ active \in [Op -> Mig \union {NoMig}]
  /\ started \in 0 .. MaxMigrations
  /\ job \in [Mig -> Job \union {NoJob}]
  /\ pc \in [Mig -> {"none"} \union Live \union Ended]
  /\ reply \in [Mig -> {"none", "ok", "error", "empty"}]
  /\ seq \in [Mig -> Time \union {0}]
  /\ clock \in Time
  /\ store \in [Op \X (Time \union {0}) -> Mig \union {NoMig}]
  /\ origin \in [Mig -> Mig \union {NoMig}]
  /\ running \in [Op -> SUBSET Tier]
  /\ late \subseteq Requests
  /\ keyless \subseteq Mig
  /\ blamed \subseteq Mig
  /\ overdue \subseteq Requests

Init ==
  /\ active = [o \in Op |-> NoMig]
  /\ started = 0
  /\ job = [m \in Mig |-> NoJob]
  /\ pc = [m \in Mig |-> "none"]
  /\ reply = [m \in Mig |-> "none"]
  /\ seq = [m \in Mig |-> 0]
  /\ clock = 1
  /\ store = [k \in Op \X (Time \union {0}) |-> NoMig]
  /\ origin = [m \in Mig |-> NoMig]
  /\ \E home \in [Op -> Tier] : running = [o \in Op |-> {home[o]}]
  /\ late = {}
  /\ keyless = {}
  /\ blamed = {}
  /\ overdue = {}

-----------------------------------------------------------------------------
(* The orchestrator.                                                       *)

\* The definitions named ..._Bug are not part of the model: each is a plausible
\* mistake in the definition that follows it, which a property must catch.
MigrateOperator_Bug(o, s, d) ==   \* no check of the table
  /\ s # d
  /\ started < MaxMigrations
  /\ started' = started + 1
  /\ job' = [job EXCEPT ![started + 1] = [op |-> o, src |-> s, dst |-> d]]
  /\ pc' = [pc EXCEPT ![started + 1] = "created"]
  /\ active' = [active EXCEPT ![o] = started + 1]
  /\ UNCHANGED <<reply, seq, keyless, clock, world, late, history>>

\* migrate_operator raises ValueError, and changes nothing, while the operator
\* has an active migration.  Its one caller never passes equal tiers.
MigrateOperator(o, s, d) ==
  /\ active[o] = NoMig
  /\ s # d
  /\ started < MaxMigrations
  /\ started' = started + 1
  /\ job' = [job EXCEPT ![started + 1] = [op |-> o, src |-> s, dst |-> d]]
  /\ pc' = [pc EXCEPT ![started + 1] = "created"]
  /\ active' = [active EXCEPT ![o] = started + 1]
  /\ UNCHANGED <<reply, seq, keyless, clock, world, late, history>>

\* The finally block: whatever the outcome, the table entry is popped.
End(m, how) ==
  /\ pc' = [pc EXCEPT ![m] = how]
  /\ reply' = [reply EXCEPT ![m] = "none"]
  /\ active' = [active EXCEPT ![job[m].op] = NoMig]

\* A missing client is a ValueError, a missing method an AttributeError: both
\* end the migration before the request leaves.
CanCall(m, c) ==
  IF c = "restore" /\ job[m].dst = Cloud
  THEN "flink_restore" \in Methods
  ELSE /\ (IF c = "restore" THEN job[m].dst ELSE job[m].src) \in HeaClients
       /\ c \in Methods

\* The coroutine runs on to the next await.
Issue(m, c) ==
  \/ /\ CanCall(m, c)
     /\ pc' = [pc EXCEPT ![m] = c]
     /\ reply' = [reply EXCEPT ![m] = "none"]
     /\ UNCHANGED active
  \/ /\ ~CanCall(m, c)
     /\ End(m, "failed")

\* The task created by migrate_operator gets its first turn: phase 1.
Execute(m) ==
  /\ pc[m] = "created"
  /\ Issue(m, "drain")
  /\ UNCHANGED <<started, job, seq, keyless, clock, world, late, history>>

DrainReturns_Bug(m) ==   \* milliseconds instead of seconds
  /\ pc[m] = "drain" /\ reply[m] # "none"
  /\ Issue(m, "snapshot")
  /\ seq' = [seq EXCEPT ![m] = 1000 * clock]
  /\ UNCHANGED <<started, job, keyless, clock, world, late, history>>

\* The drain answer is read for its offsets only; phase 2 numbers the snapshot
\* with the wall clock.
DrainReturns(m) ==
  /\ pc[m] = "drain" /\ reply[m] # "none"
  /\ Issue(m, "snapshot")
  /\ seq' = [seq EXCEPT ![m] = clock]
  /\ UNCHANGED <<started, job, keyless, clock, world, late, history>>

SnapshotReturns_Bug(m) ==   \* terminate before restore
  /\ pc[m] = "snapshot"
  /\ \/ reply[m] \in {"ok", "empty"} /\ Issue(m, "terminate")
     \/ reply[m] = "error" /\ End(m, "failed")
  /\ keyless' = IF reply[m] = "empty" THEN keyless \union {m} ELSE keyless
  /\ UNCHANGED <<started, job, seq, clock, world, late, history>>

\* An answer without an error message is a success, with or without a key in it.
SnapshotReturns(m) ==
  /\ pc[m] = "snapshot"
  /\ \/ reply[m] \in {"ok", "empty"} /\ Issue(m, "restore")
     \/ reply[m] = "error" /\ End(m, "failed")
  /\ keyless' = IF reply[m] = "empty" THEN keyless \union {m} ELSE keyless
  /\ UNCHANGED <<started, job, seq, clock, world, late, history>>

RestoreReturns_Bug(m) ==   \* the restore is sent but not awaited
  /\ pc[m] = "restore"
  /\ Issue(m, "terminate")
  /\ UNCHANGED <<started, job, seq, keyless, clock, world, late, history>>

\* RestoreResponse.success is not looked at.
RestoreReturns(m) ==
  /\ pc[m] = "restore" /\ reply[m] # "none"
  /\ Issue(m, "terminate")
  /\ blamed' = IF reply[m] = "ok" THEN blamed ELSE blamed \union {m}
  /\ UNCHANGED <<started, job, seq, keyless, clock, world, late, overdue>>

TerminateReturns_Bug(m) ==   \* TerminateAck.success is not looked at
  /\ pc[m] = "terminate" /\ reply[m] # "none"
  /\ End(m, "completed")
  /\ UNCHANGED <<started, job, seq, keyless, clock, world, late, history>>

TerminateReturns(m) ==
  /\ pc[m] = "terminate"
  /\ \/ reply[m] = "ok" /\ End(m, "completed")
     \/ reply[m] = "error" /\ End(m, "failed")
  /\ UNCHANGED <<started, job, seq, keyless, clock, world, late, history>>

\* The caller of m's request goes away; the request may stay with the server.
Abandon(m) ==
  \/ UNCHANGED late
  \/ /\ Pending(m) /\ m \in Stragglers
     /\ late' = late \union {Request(m)}

\* The awaited call raises: transport error or RPC deadline, whether or not the
\* server has executed the request.  execute() turns it into an error.
CallRaises(m) ==
  /\ pc[m] \in Calls
  /\ End(m, "failed")
  /\ Abandon(m)
  /\ UNCHANGED <<started, job, seq, keyless, clock, world, history>>

TimeOut_Bug(m) ==   \* the table entry goes, the task runs on
  /\ pc[m] \in Calls
  /\ active' = [active EXCEPT ![job[m].op] = NoMig]
  /\ UNCHANGED <<started, job, pc, reply, seq, keyless, clock, world, late, history>>

TimeOut_DrainBug(m) ==   \* the timeout covers only the drain
  /\ pc[m] = "drain"
  /\ End(m, "timedout")
  /\ Abandon(m)
  /\ UNCHANGED <<started, job, seq, keyless, clock, world, history>>

\* asyncio.wait_for cancels execute() in whatever phase it is.
TimeOut(m) ==
  /\ pc[m] \in Calls
  /\ End(m, "timedout")
  /\ Abandon(m)
  /\ UNCHANGED <<started, job, seq, keyless, clock, world, history>>

\* AODE stops and a new process starts with an empty table: nothing of a
\* migration is written to etcd.
Crash ==
  /\ \E m \in Mig : pc[m] \in Live
  /\ pc' = [m \in Mig |-> IF pc[m] \in Live THEN "crashed" ELSE pc[m]]
  /\ reply' = [m \in Mig |-> "none"]
  /\ active' = [o \in Op |-> NoMig]
  /\ \E S \in SUBSET {m \in Stragglers : Pending(m)} :
       late' = late \union {Request(m) : m \in S}
  /\ UNCHANGED <<started, job, seq, keyless, clock, world, history>>

-----------------------------------------------------------------------------
(* The servers.                                                            *)

Upload_Bug(m) ==   \* an object that exists under the key is left as it is
  /\ store' = IF store[Key(m)] = NoMig THEN [store EXCEPT ![Key(m)] = m] ELSE store
  /\ UNCHANGED <<origin, running>>

\* create_migration_snapshot uploads under a key that a later upload overwrites.
Upload(m) ==
  /\ store' = [store EXCEPT ![Key(m)] = m]
  /\ UNCHANGED <<origin, running>>

\* The target starts an instance from the object it finds under the key.
Restore(m) ==
  /\ running' = [running EXCEPT ![job[m].op] = @ \union {job[m].dst}]
  /\ origin' = [origin EXCEPT ![m] = store[Key(m)]]
  /\ UNCHANGED store

\* deregister_operator pops the operator first; an unknown operator is no error.
Deregister(m) ==
  /\ running' = [running EXCEPT ![job[m].op] = @ \ {job[m].src}]
  /\ UNCHANGED <<store, origin>>

Answer(m, what) == reply' = [reply EXCEPT ![m] = what]

\* No server of the repository implements the drain; its answer is taken as
\* given and has no effect that the other phases depend on.
ServeDrain(m) ==
  /\ pc[m] = "drain" /\ reply[m] = "none"
  /\ Answer(m, "ok")
  /\ UNCHANGED <<world, late>>

\* TriggerSnapshot: an unknown operator and a failed upload are error replies.
\* When the upload outlasts future.result(timeout=30) the TimeoutError has an
\* empty text: the answer has neither an error message nor a key, and the upload
\* ends after it, or just before.
ServeSnapshot(m) ==
  /\ pc[m] = "snapshot" /\ reply[m] = "none"
  /\ \/ SourceUp(m) /\ Upload(m) /\ (Answer(m, "ok") \/ Answer(m, "empty")) /\ UNCHANGED late
     \/ Answer(m, "error") /\ UNCHANGED <<world, late>>
     \/ /\ SourceUp(m)
        /\ Answer(m, "empty")
        /\ \/ UNCHANGED late
           \/ m \in Stragglers /\ late' = late \union {Request(m)}
        /\ UNCHANGED world

\* restoreOperator answers success=false for every exception of its own.  No
\* target finds an object under the empty key.
ServeRestore(m) ==
  /\ pc[m] = "restore" /\ reply[m] = "none"
  /\ \E what \in RestoreReplies :
       /\ Answer(m, what)
       /\ \/ what = "ok" /\ m \notin keyless /\ Restore(m)
          \/ what = "error" /\ UNCHANGED world
  /\ UNCHANGED late

\* TerminateOperator: the operator is gone although the reply is an error when
\* draining its queue outlasts future.result; an error may also come before the
\* coroutine was scheduled (never executed) or before its first turn (late).
ServeTerminate(m) ==
  /\ pc[m] = "terminate" /\ reply[m] = "none"
  /\ \/ Deregister(m) /\ (Answer(m, "ok") \/ Answer(m, "error")) /\ UNCHANGED late
     \/ Answer(m, "error") /\ UNCHANGED <<world, late>>
     \/ /\ m \in Stragglers
        /\ Answer(m, "error")
        /\ late' = late \union {Request(m)}
        /\ UNCHANGED world

Serve(m) ==
  /\ ServeDrain(m) \/ ServeSnapshot(m) \/ ServeRestore(m) \/ ServeTerminate(m)
  /\ UNCHANGED <<active, started, job, pc, seq, keyless, clock, history>>

\* A straggler is executed after its caller has gone.
ServeLate(r) ==
  /\ r \in late
  /\ \/ r.call = "snapshot" /\ Upload(r.mig) /\ UNCHANGED blamed
     \/ r.call = "restore" /\ r.mig \notin keyless /\ Restore(r.mig) /\ UNCHANGED blamed
     \/ r.call = "restore" /\ r.mig \in keyless /\ UNCHANGED <<world, blamed>>
     \/ /\ r.call = "terminate" /\ Deregister(r.mig)
        /\ blamed' = blamed \union {r.mig}
  /\ late' = late \ {r}
  /\ overdue' = overdue \union {r}
  /\ UNCHANGED <<aode, clock>>

\* time.time() is the wall clock: it may also be set back.
Tick ==
  /\ clock' \in Time \ {clock}
  /\ UNCHANGED <<aode, world, late, history>>

-----------------------------------------------------------------------------
Step(m) ==
  \/ Execute(m) \/ DrainReturns(m) \/ SnapshotReturns(m) \/ RestoreReturns(m)
  \/ TerminateReturns(m) \/ CallRaises(m) \/ TimeOut(m) \/ Serve(m)

Environment == Crash \/ Tick \/ \E r \in late : ServeLate(r)

Next ==
  \/ \E o \in Op, s, d \in Tier : MigrateOperator(o, s, d)
  \/ \E m \in Mig : Step(m)
  \/ Environment

Spec == Init /\ [][Next]_vars

\* The event loop runs a task that is ready, and asyncio's timer fires.  No
\* fairness is assumed of any server.
FairSpec == Spec /\ \A m \in Mig : WF_vars(Execute(m)) /\ WF_vars(TimeOut(m))

-----------------------------------------------------------------------------
(* Properties.                                                             *)

\* Two migrations that are still executing move different operators, whatever
\* ended the earlier ones: the guard of migrate_operator and the pop in the
\* finally block of _execute_migration keep the table equal to the live tasks.
OneMigrationPerOperator ==
  \A m, n \in Mig :
    (pc[m] \in Live /\ pc[n] \in Live /\ m # n) => job[m].op # job[n].op

\* From the moment _phase_4_terminate asks the source to stop, the target runs
\* the operator (dst_ready, "set after Phase 3" in the proto's MigrationState).
DstReadyAfterPhase3 ==
  \A m \in Mig : pc[m] = "terminate" => job[m].dst \in running[job[m].op]

\* No operator is without an instance, through failures of any call, timeouts
\* of the migration and crashes of AODE.
NeverLost == \A o \in Op : running[o] # {}

\* The restore of a migration installs the snapshot that this migration took.
\* Keys repeat, within one second and when the clock is set back, and a later
\* upload overwrites an earlier one; the one way to a foreign snapshot is that
\* it bears the same key and its upload, or the restore, was executed late.
RestoresOwnSnapshot ==
  \A m \in Mig : origin[m] \in {NoMig, m} \/
    /\ Key(origin[m]) = Key(m)
    /\ {[mig |-> origin[m], call |-> "snapshot"], [mig |-> m, call |-> "restore"]}
         \intersect overdue # {}

\* A migration that reports completed has moved its operator: at that moment the
\* target runs it and the source does not.
CompletedMeansMoved ==
  [][\A m \in Mig : (pc[m] \in Live /\ pc'[m] = "completed") =>
        /\ job[m].dst \in running[job[m].op]
        /\ job[m].src \notin running[job[m].op]]_vars

\* The only two ways an operator can disappear: a migration of it went on to
\* terminate the source after a refused restore, or a terminate that its
\* migration had given up on was executed later.
LossExplained ==
  \A o \in Op : running[o] = {} => \E m \in blamed : job[m].op = o

\* The wait_for of _execute_migration ends every migration, even when no
\* server ever answers, so that no operator stays blocked in the table.
EveryMigrationEnds == \A m \in Mig : (pc[m] \in Live) ~> (pc[m] \in Ended)
=============================================================================
