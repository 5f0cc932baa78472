---------------------------- MODULE OperatorEngine ----------------------------
(***************************************************************************)
(* The operator engine of an edge agent (hea/execution/engine.py), seen    *)
(* from one input topic.  The consume loop of the topic dispatches every   *)
(* record to the operators bound to it: an io-bound operator is awaited,   *)
(* a cpu-bound one has a queue and a worker task of its own.  Operators    *)
(* are registered and deregistered while the loop runs; deregistering a    *)
(* cpu-bound operator waits for its queue.  After every batch the depth of *)
(* the queues is checked and the position of the consumer committed, but a *)
(* queue above the high-water mark makes the check raise: aiokafka takes   *)
(* the partitions to pause one by one, not as the set that it is given.    *)
(* So no topic is ever paused, nothing ever resumed, and the commit waits. *)
(* The agent may crash: its tables and queues are gone, the committed      *)
(* position and the outputs stay.  The consumers of all topics of a node   *)
(* are one group: when one of them starts or misses a heartbeat, Kafka     *)
(* assigns the partitions anew, and the others go back to what they have   *)
(* committed.                                                              *)
(*                                                                         *)
(* Every registration of a cpu-bound operator creates a new queue and a    *)
(* new worker; an old pair lives on until it is drained.                   *)
(***************************************************************************)
EXTENDS Naturals, FiniteSets, SequencesExt

CONSTANTS
  High,         (* backpressure_high_water                                  *)
  Batch,        (* kafka_batch_size                                         *)
  Loads,        (* situations, each a record with the operators that read
                   the topic (op), those of them marked cpu_bound (cpu) and
                   those that may be moved away (movable), the records that
                   cannot be deserialized (poison), and bounds: how many
                   records, registrations and faults there are              *)
  None          (* no value                                                 *)

Op  == UNION {l.op : l \in Loads}
Rec == UNION {1 .. l.records : l \in Loads}
Reg == UNION {1 .. l.regs : l \in Loads}

ASSUME EngineAssumption ==
  /\ High \in Nat /\ Batch \in Nat \ {0}
  /\ Loads # {} /\ None \notin Nat
  /\ \A l \in Loads :
       /\ IsFiniteSet(l.op) /\ l.op # {} /\ l.cpu \subseteq l.op /\ l.movable \subseteq l.op
       /\ l.records \in Nat /\ l.regs \in Nat \ {0} /\ l.faults \in Nat
       /\ l.poison \subseteq 1 .. l.records

VARIABLES
  load,      (* the situation, the same for all of a behaviour               *)
  ops,       (* _operators                                                   *)
  routes,    (* the operators that have an entry in _output_routes           *)
  bind,      (* _topic_bindings of the topic                                 *)
  worker,    (* _worker_queues: the registration whose queue is current      *)
  owner,     (* the operator of a registration                               *)
  queue,     (* the queue of a registration                                  *)
  busy,      (* the record its worker is processing                          *)
  opening,   (* registrations whose register_operator awaits a consumer      *)
  joining,   (* registrations whose deregister_operator awaits q.join()      *)
  regs,      (* registrations so far                                         *)
  pc,        (* the consume loop: "off" before the consumer starts, "poll",
                "dispatch", "process", "commit"                              *)
  batch,     (* what is left of the fetched records                          *)
  idx,       (* position in the bindings for the first of them               *)
  read,      (* where the batch ends that was fetched last                   *)
  pos,       (* the position of the consumer, where the next batch begins    *)
  committed, (* the committed position, 0: none                              *)
  faults,    (* crashes, failed commits and rebalances so far                *)
  done,      (* history: how often an operator has processed a record        *)
  muted,     (* history: operators that emitted without having a route       *)
  renewed,   (* history: operators registered while an old queue was joined,
                or whose queue another registration replaced                 *)
  since,     (* history: from which position on an operator has been asked to
                read, crashes aside                                          *)
  reread,    (* history: records handed out a second time after a rebalance  *)
  lost       (* history: <<operator, record>> lost in a way that CommitCovers
                lists                                                        *)

table == <<ops, routes, bind, worker, owner, opening, joining, regs, renewed, since>>
loop  == <<pc, batch, idx, read, pos, committed, reread>>
work  == <<queue, busy, done, muted, lost>>
vars  == <<load, faults, table, loop, work>>

TypeOK ==
  /\ load \in Loads /\ faults \in 0 .. load.faults
  /\ ops \subseteq Op /\ routes \subseteq Op /\ renewed \subseteq Op /\ muted \subseteq Op
  /\ bind \in Seq(Op) /\ Len(bind) <= load.regs
  /\ worker \in [Op -> Reg \union {None}]
  /\ owner \in [Reg -> Op \union {None}]
  /\ queue \in [Reg -> Seq(Rec)]
  /\ busy \in [Reg -> Rec \union {None}]
  /\ opening \subseteq Reg /\ joining \subseteq Reg
  /\ regs \in 0 .. load.regs
  /\ pc \in {"off", "poll", "dispatch", "process", "commit"}
  /\ batch \in Seq(Rec) /\ Len(batch) <= Batch
  /\ idx \in 1 .. load.regs + 1
  /\ committed \in 0 .. pos /\ pos \in 0 .. load.records /\ read \in 0 .. load.records
  /\ reread \subseteq Rec
  /\ done \in [Op \X Rec -> Nat]
  /\ since \in [Op -> Nat \union {None}]
  /\ lost \subseteq Op \X Rec

\* Nothing is registered, and the topic has no consumer yet.
Init ==
  /\ load \in Loads /\ faults = 0
  /\ ops = {} /\ routes = {} /\ bind = <<>>
  /\ worker = [o \in Op |-> None] /\ owner = [g \in Reg |-> None]
  /\ queue = [g \in Reg |-> <<>>] /\ busy = [g \in Reg |-> None]
  /\ opening = {} /\ joining = {} /\ regs = 0
  /\ pc = "off" /\ batch = <<>> /\ idx = 1 /\ read = 0 /\ pos = 0 /\ committed = 0
  /\ done = [x \in Op \X Rec |-> 0]
  /\ muted = {} /\ renewed = {} /\ lost = {} /\ reread = {}
  /\ since = [o \in Op |-> None]

-----------------------------------------------------------------------------
(* The definitions named ..._Bug are not part of the model: each is a       *)
(* plausible mistake in the definition that follows it.                     *)

\* register_operator up to its await: the consumer of this topic or of another
\* one of the operator has to be started.  With an io-bound operator nothing of
\* the engine's state is left to set after that.  The callers check that the
\* operator is not registered.  (Bound: one registration at a time while this topic has
\* no consumer.)
Register(o) ==
  /\ o \in load.op \ ops /\ regs < load.regs
  /\ pc = "off" => opening = {}
  /\ regs' = regs + 1
  /\ ops' = ops \union {o}
  /\ routes' = routes \union {o}
  /\ bind' = Append(bind, o)
  /\ owner' = [owner EXCEPT ![regs + 1] = o]
  /\ opening' = IF pc = "off" \/ o \in load.cpu THEN opening \union {regs + 1} ELSE opening
  /\ renewed' = IF \E g \in joining : owner[g] = o THEN renewed \union {o} ELSE renewed
  /\ since' = IF since[o] = None THEN [since EXCEPT ![o] = pos] ELSE since
  /\ UNCHANGED <<load, faults, worker, joining, loop, work>>

\* Where a new consumer begins: at the committed position of the group or, with
\* none, at the end of the topic, whose older records are passed over.  (Bound:
\* the first consumer finds the topic empty.)
StartPosition(p) ==
  IF committed = 0 /\ faults > 0 THEN p \in pos .. load.records ELSE p = committed

\* The rest of register_operator: the consumer runs, and a cpu-bound operator
\* gets a queue and a worker, also when it has been deregistered meanwhile.
Registered(g) ==
  LET o == owner[g] IN
  /\ g \in opening
  /\ opening' = opening \ {g}
  /\ worker' = IF o \in load.cpu THEN [worker EXCEPT ![o] = g] ELSE worker
  /\ renewed' = IF worker[o] # None THEN renewed \union {o} ELSE renewed
  /\ \/ /\ pc # "off"
        /\ UNCHANGED <<pc, read, pos, lost>>
     \/ /\ pc = "off" /\ pc' = "poll"
        /\ \E p \in 0 .. load.records :
             /\ StartPosition(p) /\ read' = p /\ pos' = p
             /\ lost' = IF committed = 0 THEN lost \union (load.op \X (1 .. p)) ELSE lost
  /\ UNCHANGED <<load, faults, ops, routes, bind, owner, joining, regs, since,
                 batch, idx, committed, reread, queue, busy, done, muted>>

Deregister_Bug(o) ==   \* the queue is not waited for
  /\ o \in ops \intersect load.movable
  /\ ops' = ops \ {o}
  /\ worker' = [worker EXCEPT ![o] = None]
  /\ routes' = routes \ {o}
  /\ since' = [since EXCEPT ![o] = None]
  /\ UNCHANGED <<load, faults, bind, owner, opening, joining, regs, renewed, loop, work>>

\* deregister_operator up to its await; without a queue there is none.  The
\* binding to the topic stays.
Deregister(o) ==
  /\ o \in ops \intersect load.movable
  /\ ops' = ops \ {o}
  /\ worker' = [worker EXCEPT ![o] = None]
  /\ IF worker[o] # None
     THEN joining' = joining \union {worker[o]} /\ UNCHANGED routes
     ELSE routes' = routes \ {o} /\ UNCHANGED joining
  /\ since' = [since EXCEPT ![o] = None]
  /\ UNCHANGED <<load, faults, bind, owner, opening, regs, renewed, loop, work>>

\* q.join() returns: every queued record has been processed.
JoinReturns(g) ==
  /\ g \in joining /\ queue[g] = <<>> /\ busy[g] = None
  /\ joining' = joining \ {g}
  /\ routes' = routes \ {owner[g]}
  /\ UNCHANGED <<load, faults, ops, bind, worker, owner, opening, regs, renewed, since, loop, work>>

-----------------------------------------------------------------------------
\* The processing of r by o returns its output, which is sent on the routes of
\* the moment, or raises.
Emit(o, r) ==
  /\ done' = [done EXCEPT ![<<o, r>>] = @ + 1]
  /\ muted' \in {muted} \union (IF o \in routes THEN {} ELSE {muted \union {o}})

WorkerGets(g) ==
  /\ queue[g] # <<>> /\ busy[g] = None
  /\ busy' = [busy EXCEPT ![g] = Head(queue[g])]
  /\ queue' = [queue EXCEPT ![g] = Tail(@)]
  /\ UNCHANGED <<load, faults, table, loop, done, muted, lost>>

WorkerDone(g) ==
  /\ busy[g] # None
  /\ Emit(owner[g], busy[g])
  /\ busy' = [busy EXCEPT ![g] = None]
  /\ UNCHANGED <<load, faults, table, loop, queue, lost>>

\* getmany hands out up to `limit` records behind position `first`.
Fetch(first, limit) ==
  /\ pc = "poll"
  /\ \E k \in 0 .. limit :
       /\ first + k <= load.records
       /\ batch' = [i \in 1 .. k |-> first + i]
       /\ read' = IF k = 0 THEN pos ELSE first + k
       /\ pos' = read'
  /\ pc' = "dispatch" /\ idx' = 1
  /\ UNCHANGED <<load, faults, table, work, committed, reread>>

Poll_Bug == Fetch(IF pos = 0 THEN 0 ELSE pos - 1, Batch)   \* overlaps the last batch
Poll_LimitBug == Fetch(pos, Batch + 1)                     \* more than max_records

\* The fetched records are committed at once, as with enable_auto_commit.
Poll_CommitBug ==
  /\ pc = "poll"
  /\ \E k \in 0 .. Batch :
       /\ pos + k <= load.records
       /\ batch' = [i \in 1 .. k |-> pos + i]
       /\ read' = pos + k /\ pos' = pos + k /\ committed' = pos + k
  /\ pc' = "dispatch" /\ idx' = 1
  /\ UNCHANGED <<load, faults, table, work, reread>>

Poll == Fetch(pos, Batch)

\* The group is rebalanced, because a consumer of another topic starts or a
\* heartbeat comes too late: the consumer goes on from the committed position or,
\* with none, from the end of the topic.  What has been fetched is dispatched.
Rebalance ==
  /\ pc # "off" /\ faults < load.faults
  /\ faults' = faults + 1
  /\ \E p \in 0 .. load.records :
       /\ p = committed \/ (committed = 0 /\ p >= pos)
       /\ pos' = p
       /\ reread' = reread \union (p + 1 .. read)
       /\ lost' = lost \union (load.op \X (pos + 1 .. p))
  /\ UNCHANGED <<load, table, pc, batch, idx, read, committed, queue, busy, done, muted>>

\* An exception in the loop body: the rest of the batch is skipped, and so are
\* the check of the queues and the commit.  The position stays behind the batch.
Skip ==
  /\ pc = "dispatch" /\ batch # <<>> /\ Head(batch) \in load.poison
  /\ pc' = "poll" /\ batch' = <<>>
  /\ lost' = lost \union (load.op \X ToSet(batch))
  /\ UNCHANGED <<load, faults, table, queue, busy, done, muted, idx, read, pos, committed, reread>>

\* The first record goes to the operators bound to the topic, up to the next one
\* that has to be awaited; a cpu-bound one that has no queue yet misses it.
Dispatch ==
  /\ pc = "dispatch" /\ batch # <<>> /\ Head(batch) \notin load.poison
  /\ LET r    == Head(batch)
         n    == Len(bind)
         awaited(i) == bind[i] \in ops \ load.cpu
         deaf == {o \in ops \intersect load.cpu : worker[o] = None}
     IN \E until \in idx .. n + 1 :
     /\ \A i \in idx .. until - 1 : ~ awaited(i)
     /\ queue' = [g \in Reg |->
          LET given == {i \in idx .. until - 1 : bind[i] \in ops /\ worker[bind[i]] = g}
          IN  queue[g] \o [i \in 1 .. Cardinality(given) |-> r]]
     /\ \/ /\ until <= n /\ awaited(until)
           /\ pc' = "process" /\ idx' = until
           /\ lost' = lost \union (deaf \X {r})
           /\ UNCHANGED batch
        \/ /\ until = n + 1
           /\ batch' = Tail(batch) /\ idx' = 1
           /\ lost' = lost \union ((deaf \union (load.op \ ops)) \X {r})
           /\ UNCHANGED pc
  /\ UNCHANGED <<load, faults, table, read, pos, committed, reread, busy, done, muted>>

\* The awaited processing by an io-bound operator ends.
ProcessReturns ==
  /\ pc = "process"
  /\ Emit(bind[idx], Head(batch))
  /\ pc' = "dispatch" /\ idx' = idx + 1
  /\ UNCHANGED <<load, faults, table, queue, busy, lost, batch, read, pos, committed, reread>>

Depth(i) == Len(queue[worker[bind[i]]])

\* The bindings whose operator has a queue: _check_backpressure asks them in turn.
Asked == {i \in 1 .. Len(bind) : worker[bind[i]] # None}

CheckBackpressure_Bug ==   \* the exception is caught within the check
  /\ pc = "dispatch" /\ batch = <<>>
  /\ pc' = "commit"
  /\ UNCHANGED <<load, faults, table, work, batch, idx, read, pos, committed, reread>>

CheckBackpressure_RoomBug ==   \* wants room for a whole batch
  /\ pc = "dispatch" /\ batch = <<>>
  /\ pc' = IF \E i \in Asked : Depth(i) + Batch > High THEN "poll" ELSE "commit"
  /\ UNCHANGED <<load, faults, table, work, batch, idx, read, pos, committed, reread>>

\* With a queue above the high-water mark, pause() raises a TypeError, which ends
\* the round of the loop before the commit.  No topic gets into _paused_topics, so
\* that the low-water mark is never looked at.
CheckBackpressure ==
  /\ pc = "dispatch" /\ batch = <<>>
  /\ pc' = IF \E i \in Asked : Depth(i) > High THEN "poll" ELSE "commit"
  /\ UNCHANGED <<load, faults, table, work, batch, idx, read, pos, committed, reread>>

\* The position is committed, or the call raises and the loop goes on.
Commit ==
  /\ pc = "commit"
  /\ pc' = "poll"
  /\ \/ committed' = pos /\ UNCHANGED faults
     \/ faults < load.faults /\ faults' = faults + 1 /\ UNCHANGED committed
  /\ UNCHANGED <<load, table, work, batch, idx, read, pos, reread>>

\* What is in the queues or under way.
Pending(o, r) == \E g \in 1 .. regs : owner[g] = o /\ (busy[g] = r \/ r \in ToSet(queue[g]))

\* The agent crashes, and with it its tables and what is in the queues.
Crash ==
  /\ pc # "off" /\ faults < load.faults
  /\ faults' = faults + 1
  /\ ops' = {} /\ routes' = {} /\ bind' = <<>>
  /\ worker' = [o \in Op |-> None] /\ opening' = {} /\ joining' = {}
  /\ lost' = lost \union {x \in Op \X Rec : Pending(x[1], x[2])}
  /\ queue' = [g \in Reg |-> <<>>] /\ busy' = [g \in Reg |-> None]
  /\ pc' = "off" /\ batch' = <<>> /\ idx' = 1
  /\ UNCHANGED <<load, owner, regs, renewed, since, read, pos, committed, reread, done, muted>>

ConsumeLoop ==
  \/ Poll \/ Skip \/ Dispatch \/ ProcessReturns \/ CheckBackpressure \/ Commit

Next ==
  \/ \E o \in Op : Register(o) \/ Deregister(o)
  \/ \E g \in Reg : Registered(g) \/ JoinReturns(g) \/ WorkerGets(g) \/ WorkerDone(g)
  \/ ConsumeLoop
  \/ Rebalance \/ Crash

Spec == Init /\ [][Next]_vars

\* The event loop runs tasks that are ready; operators return from process().
FairSpec ==
  /\ Spec /\ WF_vars(ConsumeLoop)
  /\ \A g \in Reg : /\ WF_vars(Registered(g)) /\ WF_vars(JoinReturns(g))
                    /\ WF_vars(WorkerGets(g)) /\ WF_vars(WorkerDone(g))

-----------------------------------------------------------------------------
(* Properties.                                                              *)

Registrations(o) == Cardinality({g \in 1 .. regs : owner[g] = o})

\* The output of a cpu-bound operator is dropped for want of a route only when
\* two registrations of the operator overlapped: it was registered again while
\* the queue of the last one was still being drained (deregister_operator
\* withdraws the routes after q.join()), or while that one still waited for a
\* consumer.
DropExplained == muted \intersect load.cpu \subseteq renewed

\* An operator processes a record at most once for each time it was bound to the
\* topic, although a restarted agent reads records again, unless a rebalance put
\* the consumer back to before the record: what was committed by the time of every
\* rebalance is processed, with one registration, at most once.
DuplicatesExplained ==
  \A o \in Op, r \in Rec \ reread : done[<<o, r>>] <= Registrations(o)

\* A committed record has been processed by every operator that has been asked to
\* read it, or is on its way, or was lost in one of six ways: in the queue of an
\* agent that crashed, before the operator was registered again after a crash,
\* while that registration waited for a consumer, behind a record that cannot be
\* read, or passed over by a consumer that began, or was assigned its partition
\* anew, without a committed position.
CommitCovers ==
  \A o \in Op, r \in 1 .. committed :
    (since[o] # None /\ since[o] < r) =>
      done[<<o, r>>] > 0 \/ Pending(o, r) \/ <<o, r>> \in lost

\* What a crash takes from the queue of a registered operator without being read
\* again is bounded by the high-water mark: nothing is committed in a round that
\* has found a queue above it, and what is queued later is not committed yet.
BacklogBounded ==
  \A o \in Op : worker[o] # None =>
    Cardinality({i \in DOMAIN queue[worker[o]] : queue[worker[o]][i] <= committed}) <= High

\* The commits that a deep queue has stopped come back: what has been fetched is
\* committed once the input pauses, unless the agent crashes or a rebalance gives
\* it up.
CommitsResume == committed < pos ~> (committed = pos \/ pc = "off")
=============================================================================
