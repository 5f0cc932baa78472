------------------------------ MODULE Optimizer ------------------------------
(***************************************************************************)
(* The placement optimizer of AODE (aode/placement/optimizer.py), the      *)
(* placement cache it reads and writes (aode/placement/state.py) and the   *)
(* etcd keys behind that cache.  Several coroutines run _run_optimization  *)
(* at once: the task that optimizer.start creates, the second task of      *)
(* main.py and every TriggerRecalibration call.  They meet in the table of *)
(* active migrations and in the lock of PlacementState.                    *)
(*                                                                         *)
(* Migrations are the moves of MakeBeforeBreak, which the orchestrator     *)
(* implements with truthful targets (PCTRRefinement), and what else PCTR   *)
(* lets them do: a restore that the target refuses is taken for done, and  *)
(* a restore or a terminate that was given up may be executed later.       *)
(* Which operators a run wants to move, and where, is the outcome of       *)
(* scores that change with every telemetry sample: any choice is possible. *)
(***************************************************************************)
EXTENDS MakeBeforeBreak, Sequences

CONSTANTS
  Caller,      (* coroutines that run an optimization or remove an operator *)
  PutMayFail,  (* whether an etcd write can raise without being applied     *)
  Stragglers   (* operators whose abandoned requests may be executed late   *)

NoTier    == "none"
Candidate == [op : Op, src : Tier, dst : Tier]
Request   == [call : {"restore", "terminate"}, op : Op, tier : Tier]
NoWrite   == <<>>

ASSUME OptimizerAssumption ==
  /\ PutMayFail \in BOOLEAN
  /\ Stragglers \subseteq Op
  /\ NoTier \notin Tier
  /\ \E s, t \in Tier : s # t      \* fewer than two tiers: nothing to optimize

VARIABLES
  cache,    (* _cache: the tier recorded for an operator, NoTier: absent     *)
  etcd,     (* the keys /placement/operators/<operator>                      *)
  line,     (* the lock: its holder and the waiters behind, in arrival order *)
  at,       (* where a caller is: "idle", or in an update, "waiting" for the
               lock or "putting" (inside the lock, awaiting etcd)            *)
  write,    (* the <<operator, tier>> that update is about                   *)
  plan,     (* the candidates that a run has still to start                  *)
  stray,    (* requests of migrations that were given up, not executed yet   *)
  unput,    (* history: operators whose last put raised unapplied            *)
  excused   (* history: operators whose record lost its backing: a put or a
               move of it was lost, a restore refused, a terminate late      *)

vars == <<hosts, move, cache, etcd, line, at, write, plan, stray, unput, excused>>

TypeOK ==
  /\ hosts \in [Op -> SUBSET Tier]
  /\ move \in [Op -> Move \union {Still}]
  /\ cache \in [Op -> Tier \union {NoTier}]
  /\ etcd \in [Op -> Tier \union {NoTier}]
  /\ line \in Seq(Caller)
  /\ at \in [Caller -> {"idle", "waiting", "putting"}]
  /\ write \in [Caller -> {NoWrite} \union (Op \X (Tier \union {NoTier}))]
  /\ plan \in [Caller -> SUBSET Candidate]
  /\ stray \subseteq Request
  /\ unput \subseteq Op
  /\ excused \subseteq Op

\* load_from_etcd has filled the cache, and the record is true.
Init ==
  /\ HandoverInit
  /\ cache \in {c \in [Op -> Tier] : \A o \in Op : c[o] \in hosts[o]}
  /\ etcd = cache
  /\ line = <<>>
  /\ at = [a \in Caller |-> "idle"]
  /\ write = [a \in Caller |-> NoWrite]
  /\ plan = [a \in Caller |-> {}]
  /\ stray = {}
  /\ unput = {}
  /\ excused = {}

-----------------------------------------------------------------------------
(* The definitions named ..._Bug are not part of the model: each is a       *)
(* plausible mistake in the definition that follows it.                     *)

\* What _identify_migration_candidates may return: at most one move for each
\* recorded operator, away from the tier recorded for it.
Plans ==
  {p \in SUBSET {c \in Candidate : c.src = cache[c.op] /\ c.src # c.dst} :
     \A c, d \in p : c.op = d.op => c = d}

Update_Bug(a, o, t, ahead) ==   \* the lock is not taken
  /\ cache' = [cache EXCEPT ![o] = t]
  /\ at' = [at EXCEPT ![a] = "putting"]
  /\ write' = [write EXCEPT ![a] = <<o, t>>]
  /\ line' = Append(ahead, a)

\* update_operator_placement and remove_operator: a free lock is taken without
\* a turn of the event loop, and the cache changes before etcd is asked.
Update(a, o, t, ahead) ==
  /\ line' = Append(ahead, a)
  /\ write' = [write EXCEPT ![a] = <<o, t>>]
  /\ IF ahead = <<>>
     THEN cache' = [cache EXCEPT ![o] = t] /\ at' = [at EXCEPT ![a] = "putting"]
     ELSE at' = [at EXCEPT ![a] = "waiting"] /\ UNCHANGED cache

Proceed_Bug(a, p, ahead) ==   \* the placement is recorded although the move was refused
  \/ \E c \in p :
       /\ Begin(c.op, c.src, c.dst) \/ (~At(c.op, "still") /\ UNCHANGED hvars)
       /\ Update(a, c.op, c.dst, ahead)
       /\ plan' = [plan EXCEPT ![a] = p \ {c}]
  \/ /\ p = {}
     /\ plan' = [plan EXCEPT ![a] = {}]
     /\ at' = [at EXCEPT ![a] = "idle"]
     /\ write' = [write EXCEPT ![a] = NoWrite]
     /\ line' = ahead
     /\ UNCHANGED <<hosts, move, cache>>

\* The loop over the candidates up to its next await.  Candidates whose operator
\* is being migrated raise ValueError and are skipped; for the first other one
\* the migration is started and, at once, its target recorded.
Proceed(a, p, ahead) ==
  LET busy == {c \in p : ~At(c.op, "still")}
  IN  \/ \E c \in p \ busy, skipped \in SUBSET busy :
           /\ Begin(c.op, c.src, c.dst)
           /\ Update(a, c.op, c.dst, ahead)
           /\ plan' = [plan EXCEPT ![a] = p \ (skipped \union {c})]
      \/ /\ p = busy
         /\ plan' = [plan EXCEPT ![a] = {}]
         /\ at' = [at EXCEPT ![a] = "idle"]
         /\ write' = [write EXCEPT ![a] = NoWrite]
         /\ line' = ahead
         /\ UNCHANGED <<hosts, move, cache>>

\* _run_optimization: the plan is computed from a copy of the cache.
RunOptimization(a) ==
  /\ at[a] = "idle"
  /\ \E p \in Plans : p # {} /\ Proceed(a, p, line)
  /\ UNCHANGED <<etcd, stray, unput, excused>>

\* No code of the repository calls remove_operator; a caller may.
RemoveOperator(a, o) ==
  /\ at[a] = "idle"
  /\ Update(a, o, NoTier, line)
  /\ UNCHANGED <<hosts, move, etcd, plan, stray, unput, excused>>

Acquire_Bug(a) ==   \* the lock goes to any waiter
  /\ at[a] = "waiting" /\ \A b \in Caller : at[b] # "putting"
  /\ cache' = [cache EXCEPT ![write[a][1]] = write[a][2]]
  /\ at' = [at EXCEPT ![a] = "putting"]
  /\ UNCHANGED <<hosts, move, etcd, line, write, plan, stray, unput, excused>>

\* The waiter at the head of the line gets its turn.
Acquire(a) ==
  /\ at[a] = "waiting" /\ Head(line) = a
  /\ cache' = [cache EXCEPT ![write[a][1]] = write[a][2]]
  /\ at' = [at EXCEPT ![a] = "putting"]
  /\ UNCHANGED <<hosts, move, etcd, line, write, plan, stray, unput, excused>>

PutReturns_Bug(a) ==   \* a put that raises leaves the lock taken
  /\ at[a] = "putting"
  /\ \/ /\ etcd' = [etcd EXCEPT ![write[a][1]] = write[a][2]]
        /\ unput' = unput \ {write[a][1]}
        /\ Proceed(a, plan[a], Tail(line))
        /\ UNCHANGED excused
     \/ /\ PutMayFail
        /\ unput' = unput \union {write[a][1]}
        /\ excused' = excused \union {write[a][1]}
        /\ Proceed(a, plan[a], line)
        /\ UNCHANGED etcd
  /\ UNCHANGED stray

\* The etcd call returns or raises, applied or not.  Either way the lock is
\* released, and the exception is caught around this candidate: the run goes on.
PutReturns(a) ==
  /\ at[a] = "putting"
  /\ \/ /\ etcd' = [etcd EXCEPT ![write[a][1]] = write[a][2]]
        /\ unput' = unput \ {write[a][1]}
        /\ UNCHANGED excused
     \/ /\ PutMayFail
        /\ unput' = unput \union {write[a][1]}
        /\ excused' = excused \union {write[a][1]}
        /\ UNCHANGED etcd
  /\ UNCHANGED stray
  /\ Proceed(a, plan[a], Tail(line))

\* A target refuses the restore, and the migration goes on to the terminate.
Refuse(o) ==
  /\ At(o, "copying")
  /\ move' = [move EXCEPT ![o].stage = "copied"]
  /\ UNCHANGED hosts

\* The requests that a migration of o may leave behind when it is given up.
Abandoned(o) ==
  IF o \notin Stragglers THEN {}
  ELSE {r \in Request : /\ r.op = o
                       /\ \/ At(o, "copying") /\ r.call = "restore" /\ r.tier = move[o].dst
                          \/ At(o, "copied") /\ r.call = "terminate" /\ r.tier = move[o].src}

\* The migrations go on by themselves and end one by one.
MoveOn(o) ==
  /\ \/ (Copy(o) \/ Settle(o)) /\ UNCHANGED <<stray, excused>>
     \/ Refuse(o) /\ excused' = excused \union {o} /\ UNCHANGED stray
     \/ /\ Finish({o})
        /\ \E S \in SUBSET Abandoned(o) : stray' = stray \union S
        /\ excused' = IF At(o, "copying") THEN excused \union {o} ELSE excused
  /\ UNCHANGED <<cache, etcd, line, at, write, plan, unput>>

\* A server executes a request whose migration has ended.
ServeLate(r) ==
  /\ r \in stray
  /\ stray' = stray \ {r}
  /\ \/ /\ r.call = "restore"
        /\ hosts' = [hosts EXCEPT ![r.op] = @ \union {r.tier}]
        /\ UNCHANGED excused
     \/ /\ r.call = "terminate"
        /\ hosts' = [hosts EXCEPT ![r.op] = @ \ {r.tier}]
        /\ excused' = excused \union {r.op}
  /\ UNCHANGED <<move, cache, etcd, line, at, write, plan, unput>>

\* AODE stops; its next process has no migrations and loads the cache from etcd.
Restart ==
  /\ Finish({o \in Op : ~At(o, "still")})
  /\ \E S \in SUBSET UNION {Abandoned(o) : o \in Op} : stray' = stray \union S
  /\ cache' = etcd
  /\ unput' = {}
  /\ excused' = excused \union {o \in Op : At(o, "copying") \/ cache[o] # etcd[o]}
                        \union {write[a][1] : a \in {b \in Caller : at[b] = "waiting"}}
  /\ line' = <<>>
  /\ at' = [a \in Caller |-> "idle"]
  /\ write' = [a \in Caller |-> NoWrite]
  /\ plan' = [a \in Caller |-> {}]
  /\ UNCHANGED etcd

Next ==
  \/ \E a \in Caller : RunOptimization(a) \/ Acquire(a) \/ PutReturns(a)
  \/ \E a \in Caller, o \in Op : RemoveOperator(a, o)
  \/ \E o \in Op : MoveOn(o)
  \/ \E r \in stray : ServeLate(r)
  \/ Restart

Spec == Init /\ [][Next]_vars

-----------------------------------------------------------------------------
(* Properties.                                                              *)

Writing(o, where) == \E a \in Caller : at[a] = where /\ write[a][1] = o

\* The cache and etcd differ only for the operator whose put is under way, or
\* while the last put of an operator is one that raised unapplied: the lock around
\* the two writes of update_operator_placement orders the puts like the cache
\* writes.
EtcdFollowsCache ==
  \A o \in Op \ unput : ~Writing(o, "putting") => etcd[o] = cache[o]

\* While an operator is migrated the cache names the target of that migration,
\* unless its record still waits for the lock or the operator was removed:
\* records are written in the order in which the migrations were started.
MoveIsRecorded ==
  \A o \in Op : ~At(o, "still") =>
    \/ cache[o] \in {move[o].dst, NoTier}
    \/ Writing(o, "waiting")

\* An operator that is not being migrated runs on the tier recorded for it.
RecordIsTrue(o) ==
  (At(o, "still") /\ cache[o] # NoTier /\ ~Writing(o, "waiting")) =>
     cache[o] \in hosts[o]

\* The record of an operator is false only after a migration of it was given up
\* before the target had it, its restore was refused, its terminate was executed
\* late, or a put was lost: stale plans and the overlap of runs, removals and
\* restarts do not falsify it.
PlacementExplained == \A o \in Op \ excused : RecordIsTrue(o)

\* Nobody waits for a lock that nobody gives back: every waiter is in the line,
\* and whoever is at its head is inside or next to enter, whatever becomes of the
\* puts (the lock of update_operator_placement is released when a put raises).
LockIsHeld ==
  /\ \A a \in Caller : at[a] = "waiting" => \E i \in DOMAIN line : line[i] = a
  /\ line # <<>> => at[Head(line)] \in {"waiting", "putting"}
  /\ \A a \in Caller : at[a] = "putting" => line # <<>> /\ Head(line) = a
=============================================================================
