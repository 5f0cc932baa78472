# HybridStream: specifications, model checking and proofs

HybridStream places stream operators on edge nodes and in the cloud and migrates
them while they run.  This directory holds TLA+ models of its control logic, the
TLC configurations that check them on small instances, and proofs, checked by
TLAPS, that the main properties hold for every value of the constants.

## The system

| Part | State | Operations | Hard behaviour |
|---|---|---|---|
| Migration orchestrator (`aode/migration/pctr.py`) | table of active migrations; per migration: phase, snapshot key, outcome | `migrate_operator`, the four phases drain / snapshot / restore / terminate, the `wait_for` timeout, removal from the table | one remote call per phase, each of which may fail, time out or be executed after its caller has gone; nothing survives a crash |
| Placement optimizer (`aode/placement/optimizer.py`) | the plan of a run | `_run_optimization`, from two loops and the management API at once | plans computed before an await and used after it |
| Placement state (`aode/placement/state.py`) | placement cache, its lock, the etcd keys | load, update, remove | two writes with an await between them |
| etcd client and leader election (`aode/etcd/client.py`) | leader flag, lease, refresh task | `start_election`, `maintain_leadership`, `stop_election`, `close` | the flag says nothing of the lock; leases expire, refreshes come late or raise |
| Scoring (`aode/scoring`) | weights | `set_weights`, scores, greedy assignment | capacities, ties, hysteresis |
| Telemetry (`aode/telemetry`) | latest samples per agent | collection loop, registration, queries | two loops overwrite each other |
| AODE API, clients, process (`aode/grpc`, `aode/main.py`) | none of their own | RPC handlers, RPC deadlines, wiring | more callers of the optimizer |
| HEA operator engine (`hea/execution`) | operators, routes, bindings, queues, workers, offsets | register, deregister, consume loop, workers, backpressure, commit | all of them interleave at every await; a crash loses all but the committed offsets; the consumers of all topics of a node are one group; pausing raises |
| HEA API (`hea/grpc/server.py`) | none | TriggerSnapshot, TerminateOperator, ApplyPlacement, GetTelemetry | a coroutine runs on after `future.result` timed out, and the TimeoutError has an empty text |
| HEA state, metrics, bridge (`hea/state`, `hea/metrics.py`, `hea/kafka`) | latency windows, checkpoints | snapshot, checkpoint, percentiles | windows and rates at their limits |
| Flink connector (Java) | job table; per job the restored state | restore, terminate, status; reading of snapshots; the operators once more | a thread per call over one table; two implementations of each operator; two loaders of the schemas |
| hybridstream-common | schemas | snapshot codec, object store, DAG order | overwritten objects, dropped fields, damaged snapshots |
| workloads | the state of eleven operators | `process`, `get_state`, `restore_state` | an operator may be moved at any moment of its windows, joins and intervals |
| experiments (`experiments/`) | network profile on the interface, open window and snapshots of a run, results directory | `run_all`, `_run_single`, the generator's task, the metrics collector, saving, pairing, statistics | 270 runs in sequence, each of which may raise; results of several campaigns, and the synthetic ones that are shipped, in one directory; windows cut while events arrive |

The optimizer asks the orchestrator for migrations and records their targets in
the placement state; the orchestrator calls the agents and the connector; an
agent's API schedules coroutines on the loop on which its engine runs; snapshots
pass through the object store.  All of AODE runs on one asyncio loop, so code
between two awaits is one atomic step; the models' actions are these steps.

`PROJECT.json` lists every component with what is modelled of it, and the hazards
with the properties that cover them.

## Modules

| Module | Contents |
|---|---|
| `MakeBeforeBreak` | what a migration promises, abstractly: a move adds the operator to its target before it takes it from the source |
| `PCTR` | the orchestrator, its calls and the servers that answer them |
| `PCTRRefinement` | the migrations of `PCTR` as moves of `MakeBeforeBreak` |
| `Optimizer` | optimizer runs, the placement cache with its lock, the etcd writes; extends `MakeBeforeBreak`, whose moves are its migrations |
| `LeaderElection` | election, lease refresh, resignation and restart of AODE instances over an etcd with expiring leases |
| `OperatorEngine` | the consume loop, dispatch, worker queues, registration, backpressure, commits, rebalances and crash of an edge agent, for one topic |
| `WorkloadOperators` | the eleven operators of the workloads as functions, and the state each saves and restores |
| `FlinkOperators` | the same operators as the connector implements them |
| `SnapshotCodec` | writing and reading of snapshots by the agents, reading by the connector, the schemas of both |
| `StateTransfer` | one operator that stays, one that is handed over between agents, a snapshot of it and its two readers, and the same class on Flink; composes the three modules above |
| `ConnectorJobs` | the job table of the connector under concurrent calls |
| `Telemetry` | the collection loops over the edge nodes and the table of samples they write |
| `Scoring` | scores, greedy assignment and hysteresis filter, as functions of that table |
| `Recalibration` | the closed loop: `Telemetry` feeds `Scoring`, whose moves change the placement |
| `MetricsCollector` | what one experiment run measures: windows, their figures, the snapshots after the warm-up |
| `ExperimentRunner` | the campaign of all configurations over that collector, its failures and restarts, the results directory and what the analysis pairs |
| `MC...` | instances for TLC; each `.cfg` is named `<MC module>_<run>.cfg` |
| `PCTR_proofs`, `Optimizer_proofs`, `LeaderElection_proofs`, `OperatorEngine_proofs`, `ConnectorJobs_proofs`, `StateTransfer_proofs`, `Recalibration_proofs`, `ExperimentRunner_proofs` | theorems and proofs |

Definitions named `..._Bug` stand before the definition they vary: each is a
plausible mistake in that code (a dropped guard, a swapped order, an off-by-one)
that some property must detect.  They take no part in the specifications.

### PCTR

`active`, `job`, `pc`, `seq` are the orchestrator's table and the fields of a
`PCTRMigration`; `pc[m]` is the call the migration awaits, or how it ended.
`running`, `store` and `origin` are the effects of the calls at the servers,
`late` the requests that lost their caller before they were executed, `overdue` those
of them that were executed afterwards.  One action
is one turn of the event loop: the code from the return of one awaited call to
the next (`DrainReturns` also sends the snapshot request), with the `except` of
`execute` and the `finally` of `_execute_migration` (`End`) in the same step.
`TimeOut` may strike in any phase, `CallRaises` covers transport errors and RPC
deadlines whether or not the server did its work, `Crash` empties the table.
A server's action is one execution of a request.  `ServeSnapshot` may answer while
its upload is still under way: `future.result(timeout=30)` raises a TimeoutError
whose text is empty, `pctr.py:80` takes that for the absence of an error, and the
migration goes on with an empty key (`keyless`), under which no target finds
anything.  The wall clock that numbers the snapshots may be set back.  `ServeTerminate` has the three
outcomes of `future.result(timeout=10)`: done and answered, done and answered
with an error because the queue drained too slowly, not done (yet) and answered
with an error.  `RestoreReplies` and `Stragglers` choose how truthful targets are
and which abandoned requests execute late.

No server in the repository implements the drain, and `HEAClient` has neither
`drain_operator` nor `restore_operator`; as shipped every migration ends in phase
1 with an AttributeError (the constant `Methods` can express that).  The model
gives the calls the effect their callers rely on, with `Methods` complete.

### Optimizer

`Proceed` is the loop over the candidates up to its next await: it skips
candidates that are being migrated (ValueError), starts one migration, and runs
on into `update_operator_placement`, which takes a free lock without yielding and
writes the cache; `at` says whether the caller then waits for the lock or for
etcd.  `line` is asyncio's lock, which serves waiters in order of arrival.  Which
candidates a run has is free here; `Recalibration` derives them from the scores.  `MoveOn` lets the migrations proceed in the background; they are
the moves that `PCTR` is proved to implement for truthful targets, and what `PCTR`
has besides: a refused restore, after which the migration goes on to terminate the
source (`Refuse`), and requests that outlive a migration that was given up (`stray`,
`ServeLate`).  `Restart` is
a crash of AODE and the next start, with the cache loaded from etcd.  In the
repository nobody calls `load_from_etcd` or `remove_operator`, and `EtcdClient.put`
is a plain function, so that awaiting its result raises after the write; an
exception after an applied write and a return are the same step here, because the
caller catches and goes on.

### LeaderElection

Every operation of an instance is one step, because all its etcd calls are
synchronous.  Time is discrete; `Tick` is blocked when a refresh is as late as
`Lag` allows.  A transaction that raises may have been applied; a refresh that
raises ends the task; a revocation that raises leaves flag and lease.  `etcd3`, which
`aode/pyproject.toml:13` asks for in version 0.12, returns the pair (succeeded,
responses) from `transaction()`; the code tests the pair, which is true.  So whoever
gets an answer leads (`Elect`), while in etcd the key is only created where there is
none (`Claim`).  `start_election` is only called on an instance that does not
lead.

### OperatorEngine

One topic and the operators that read it.  Every registration of a cpu-bound
operator has a queue and a worker of its own (`queue[g]`, `busy[g]`).
`register_operator` is two steps, because it awaits the start of a consumer:
`Register` up to the await, with the operator already bound to the topic, and
`Registered`, which creates queue and worker.  Who waits there is in `opening`, who
waits in `q.join()` of a deregistration in `joining`.  Routes are looked up when an
output is sent, as in `_emit`.  The consume loop (`pc`) is off, at `poll`, between
two dispatches, in the awaited `process` of an io-bound operator, or in `commit`;
`CheckBackpressure` finds a queue above the high-water mark or does not.  If it does,
`pause()` is called with a set of partitions as its one argument; aiokafka
(`hea/pyproject.toml:13`) wants them one by one and raises TypeError, which the `except` of the
loop swallows.  Nothing is paused, so nothing is ever in `_paused_topics`, and the commit of
that round does not take place; the low-water mark has no effect and is not in the model.

`committed` is the offset of the consumer group.  A consumer begins there, or,
without one, at the end of the topic (`StartPosition`): the engine sets no
`auto_offset_reset`, and `latest` is the default of aiokafka.  `Commit` may raise,
and `Crash` keeps nothing but the committed offset and the outputs.  All consumers of a node
are one group (`engine.py:87`): when the consumer of another topic starts, or a heartbeat is
late, `Rebalance` puts this one back to its committed offset, while what it has fetched and
queued goes on.  `pos` is the position of the consumer, `read` the end of the last batch.  Nobody
registers the operators of a restarted agent again (`ApplyPlacement` logs an
operator it does not know), so a later `Register` stands for whoever does.

`Loads` is a set of situations, one of which a behaviour is in: who reads the
topic, who is cpu-bound, who may leave, which records cannot be read, and the
bounds.  A run thus covers several small instances, each as large as its question
needs.

### WorkloadOperators, FlinkOperators, SnapshotCodec, StateTransfer

An operator of kind `k` is `Process(k, state, record, now)`, which yields the next
state and the emitted records.  `Saved(k)` names the fields that `get_state`
returns, `Reset(k, now)` what `restore_state` sets to the present instead.
Floats are fixed-point integers in units of `One`; squares are in units of its
square and no root is taken, so z-scores are compared squared.  Settings that
never change are constants, except the risk limit, whose default on restoration
differs from the configured one.

`FlinkLogic` is `OperatorFactory.create`, class by class; `Open` and `FlatMap` are
`MigratedOperator`, whose state is `<<>>` while it is null and `<<map>>` afterwards.
A snapshot is a record of what its readers test: how much of
it there is, the magic bytes, the version, the payload.  `Deserialize` has the checks
of the agents, `Unreadable` those of the connector, which `JavaRestore` makes before
it translates the fields.

In `StateTransfer` three instances read the same records: `live` is never moved,
`edge` is handed over (`HandOver`) at any moment, `job` is the connector's
implementation.  A snapshot of `live` is stored (`TakeSnapshot`), perhaps damaged
(`Damage`), and both `Deserialize` and `JavaRestore` are asked for it.  The method that
would supply its offsets, `drain_operator`, does not exist in the repository.

No code of the connector takes the step from a snapshot to a running job.  As the image is built, no
schema file is loaded and `restoreOperator` refuses every snapshot (see
below); with schemas it would hand the state to `submitFlinkJob`, which only logs;
and `KafkaBridgeSource`, which would choose the first record, is used nowhere.  So
`OpenJob` is the class as it is offered and tested: `OperatorFactory.create` with a
given state, `open` with that state or, since it is a transient field of a serializable
operator, without it, and records from any one on.

### ConnectorJobs

Every call of the connector is a thread (`step[c]`, `job[c]`), the table a
concurrent map (`jobId`).  A restore loads, submits, and then names its job; a
termination removes the name and then cancels.  `submitFlinkJob` and
`cancelFlinkJob` only log in the repository; they are modelled by what their
callers take them for, a job that runs and a job that stops or an exception.
`reused` and `escaped` are histories of how the table loses sight of a job.  The
handlers of different operators share no state but the clock.

### Telemetry, Scoring, Recalibration

`turn[l]` is the node that collection loop `l` has called, `answer[l]` the outcome
until the loop runs again and stores it in `sample` (`_last_telemetry`); `world` is
what a call would find.  Both `telemetry.start` and `main.py` start a loop.
`Scoring` holds the tables of the code (weight presets, objectives, lambda classes)
and translates `compute_scores`, `find_optimal_placement` and
`_identify_migration_candidates` with weights and utilisations in percent, so that
all numbers are integers; fractions of a hundredth of a score are cut off.
`Turn` is the order in which the operators choose, `Choice` what one of them gets,
`Turns` the placement after each choice.
`Plans` are the scores and the assignment for each content of the table, each preset
and each outcome of `get_operator_latency`; `UpdateWeights` changes the preset between
two runs (its handler has a thread of its own, so that one computation of scores may
see both; that is not modelled); `Run` is one `_run_optimization` as one step:
overlapping runs are in `Optimizer`, and the operators whose migration is refused
because another one runs are chosen freely.

A node and its tier have one name in the model.  As configured they have two:
samples are kept under `hea-node-N`, the host of the endpoint, while the tiers are
called `edge-node-N` (`state.py:70`), so that every edge tier is scored as
unreachable.  The cloud never has a sample: its network term is 0 and its
utilisation counts as 90 percent.

### MetricsCollector, ExperimentRunner

The collector counts events in an open window and cuts it every `Interval`, up to
`Lag` later (`CollectionLoop`); `GetSnapshots` are the windows cut after the warm-up,
as a set.  The percentile is stated as an order statistic, which is what the
sorted list and its index yield; `Rank` is the index.  One operator type stands for the
keys of the dictionaries.  `Record` is one event, with an objective or without one
(`slo_ms=None`), which is then a sample but not counted.  Nothing in the repository but the
tests calls the `record_` methods; in the model events arrive at any time.

`ExperimentRunner` is `run_all` with one step for the application of a network
profile (`Applications` composes the two commands, of which the first may fail
unnoticed), the start and the end of a run, and a `Restart` at any moment after a
failure or a crash, perhaps on a machine that was booted meanwhile.  `files` maps
a configuration and repetition to the profile that was in force while its file
was measured, or to absent, damaged or synthetic: the repository ships 270 files made by
`generate_synthetic.py` at the very paths that `save_snapshots` writes, and `Init` takes the
directory as shipped or emptied.  The generator of a run is a task that nobody awaits
(`feeding`); as shipped it fails at once, because there is no module `generators`, and
`GeneratorFails` costs the run its events and nothing else.  A profile stays on the interface when a
campaign ends or fails; `current_network` does not outlive the process.
`Loaded` are the times of the rows that `load_all_results` keeps of a file, `Compared` is the
condition under which the analysis pairs two systems.

## Runs

| Run | Checks | Instance |
|---|---|---|
| `handover` | type invariant, mutual exclusion, NeverLost, DstReadyAfterPhase3, CompletedMeansMoved, refinement of `MakeBeforeBreak` | 2 operators, 2 edge nodes and cloud, 2 migrations, 2 clock values; truthful restores, no late execution |
| `faults` | LossExplained, RestoresOwnSnapshot, EveryMigrationEnds | 1 operator, 2 migrations, 2 clock values, refused restores; the upload, the restore and the terminate of the first migration may execute late |
| `refused` | DstReadyAfterPhase3, violated | as above, 1 migration |
| `overlap` | EtcdFollowsCache, PlacementExplained, MoveIsRecorded, LockIsHeld | 2 operators, 2 tiers, 3 callers, failing puts, refused restores; requests of one operator may execute late; the third caller comes in only when all three are about one operator, one mishap at a time |
| `timely` | LockKept, LockFreed | 2 instances, 3 leases, time to live 6, refreshes up to 3 late, every call may raise |
| `rival` | NotLeaderWhileOtherHolds, violated | 2 instances, no faults |
| `engine` | type invariant, DropExplained, DuplicatesExplained, CommitCovers, BacklogBounded, CommitsResume | four situations: one cpu-bound operator registered up to twice, 4 records; one of each kind, 3 registrations, an unreadable record; the two with a crash, a rebalance or a failed commit; two cpu-bound operators on one topic.  Batches of 2, high-water mark 1 |
| `loop` | AssignmentFits, AssignmentIsCheapest, TelemetryConverges, Settles, LeavesDeadNodes | 2 operators, 2 edge nodes with room for one and the cloud, 2 collection loops; a node is idle, saturated or down; any preset at first, which may change to latency-first |
| `transfer` | Continuity, CollectedSurvives, StatisticsExact, PercentileRank, DamageRefused, FlinkStartsOver, FlinkFigures, DetectorIsSilent | all eleven operators, 4 records, 3 moments; one hand-over, or one snapshot with any one damage, or one job |
| `lossless` | SnapshotLossless, violated | as above |
| `connector` | JobsAccounted, StatusTruthful | 1 operator, 3 calls at once, 3 clock values |
| `campaign` | ResultsInOrder, ComparisonsMatched, SavedWindows, FiguresAgree | 1 workload, 3 systems, 2 networks, 2 repetitions, 1 restart; windows of 2, up to 1 late, percentile 60 of the last 2 samples, 3 events in the first run |

The bounds.  Two migrations suffice for every interference in `PCTR`: of two
operators through the store and the clock, of one operator through the table, the
keys of one second and a late request.  Three callers are the fewest for two
waiters behind a holder, which the order of the lock is about; two operators the
fewest for a plan that goes stale between its candidates.  The constraint of `overlap`
(`OneMishap`) leaves one operator without its backing at a time, one request late, and one caller at work while
it is: operators share nothing but the
lock, which does not depend on how a migration went.  In `timely`,
Interval + Lag = 5 is the last value below the time to live: with one more unit of
lateness a lease expires under its holder and the other instance gets the lock.  In `engine` four
records are two batches, the second of which may be fetched on top of a queue above the mark; the
situation with faults has three, so that one can be committed, one queued and one unread.
In `transfer` windows hold two or three records and a share of 60 percent replaces the
95, which in a window of three would only ever be the maximum; four records fill
every window and go one beyond.  The values are multiples of
60, so that no mean of up to four of them is rounded (`NoRemainder`, which the run
checks).  Time stands still for operators that do not
look at it.  The schemas of the agents are those of `schema-registry/schemas/v1`, of which only the
names shared with a state matter; the connector has none, as its image is built.  The
hand-overs, the snapshot and the job only read the records, so each is explored without the
other two (`Apart`).  In `connector` three calls are two restores and the
termination between them; three clock values let an id repeat after others.
In `loop` the nodes have room for one operator each, because capacities matter only
when operators compete; the two latencies reverse the order in which they choose,
and utilisation 99 is where the resource term is capped.  The default constants
are used: LeavesDeadNodes depends on them, as a node whose calls took much longer
than 1000 ms would score worse than one that does not answer.
In `campaign` two networks and a restart are the fewest for a profile left over, two
systems the fewest for a pair; three events exceed the two samples that the
percentile looks at, and are recorded in the first run only (`EventsInFirst`), because every run starts
with a new collector; for the same reason a generator fails before it has sent anything, and one
event at most of a window has no objective.  The warm-up is 3 units long, the run after it 4 and a synthetic file 6, and rows are read from 1 on,
which is the order of the 600, 120 and 600 seconds of the code.
`MaxMigrations`, `MaxTime`, `MaxRestarts`, `MaxEvents`, the bounds in `Loads`, `MaxRecords`, `MaxClock`, `MaxMoves` and the
sets `Lease` and `Time` bound what the code leaves unbounded; when such a bound is
reached the models stop, so deadlock is not checked in the runs of `PCTR`,
`OperatorEngine`, `Recalibration`, `StateTransfer` and `ExperimentRunner`, whose
campaign also ends.

Symmetry is used for operators, edge nodes, callers and calls in runs without liveness.

### What the violated properties show

* `refused`: `_phase_3_restore` ignores the answer of the target
  (`pctr.py:85-99`); after `success=false` the source is terminated and the
  operator runs nowhere.  `LossExplained` shows that this, and a terminate executed
  after its migration was given up, are the only causes.
* `rival`: `acquire_leader_lock` takes the pair that the transaction returns for a
  success (`client.py:65`), so an instance leads while another one holds the lock.  With
  a client that returned a truth value there would be a second way: nothing clears
  `_is_leader` when the refresh task dies (`client.py:77-82`), and after the lease has
  expired another instance gets the lock.
* `lossless`: `serialize` copies the fields that the schema file names
  (`snapshot.py:17-22`), and the shipped files name none of what `get_state`
  returns, except `zone_id` of ZoneAggregator.  A snapshot carries offsets only.

Three more disagreements are in the models, without a run of their own:

* nothing bounds a worker queue.  `test_queue_depth_above_high_water_pauses_consumer`
  (`test_engine.py:299`, with a mocked consumer) says that a deep queue pauses the
  consumer; the call raises (`engine.py:167`), and a queue grows by up to a batch in
  every round (`CheckBackpressure`);
* the connector reads no snapshot.  `SchemaRegistry.java:13` says "Reads the same JSON
  schema files as the Python hybridstream-common schema registry"; its loader wants
  `operator_type` and a map of fields, the shipped files have `operator_class` and a
  list (`SchemaRegistry.java:51-68`).  Its image has them in a subdirectory that is not
  listed (`Dockerfile:26`, `SchemaRegistry.java:36`), so it starts without schemas;
  pointed at the files themselves it would not start (`MCConnectorFiles`);
* `load_all_results` keeps what is later than 120 s (`storage.py:64`), where
  `test_storage.py:133` says 600 s, and fails.  Results of a campaign start at 600 s;
  what is read of the first 600 s comes from the shipped files, which have no rows
  beyond them (`Loaded`).

### What the passing properties show besides

* PlacementExplained: the optimizer records the target when the migration starts
  (`optimizer.py:74-82`); a record stays false if its restore is refused, if that migration is given up,
  or a terminate executed after it was
  (`test_placement_optimizer.py:286` expects the record after success).
* AssignmentFits is about the assignment, not about what is made of it: the filter may
  let one of two operators move and not the other, and they then share a node that
  has room for one (`optimizer.py:96-128`).  No statement of the repository excludes
  that.
* CommitCovers names six ways in which a committed record is never processed.
  The first is the crash: offsets are committed when records are queued
  (`engine.py:109`).  BacklogBounded says how many records of a queue such a crash can
  cost: the exception that takes the place of pausing also withholds the commit.
* DuplicatesExplained: the start of a consumer for another topic makes an agent process
  again what it has not committed (`engine.py:87`), besides once per registration, and no more often than that what it had committed.
* RestoresOwnSnapshot: keys repeat, when the clock is set back or within a second, and still
  a restore finds a foreign object only if an upload or a restore was executed late.
* LockKept: although everybody leads, the lock itself stays with the instance that got it,
  for as long as its refreshes are timely.
* Continuity and CollectedSurvives: three of the eleven classes do not continue
  exactly after a direct hand-over: the aggregator forgets how many records its
  next output is away, join and zone aggregator restart their intervals.
* DetectorIsSilent: with its default parameters the anomaly detector reports
  nothing, ever (`anomaly.py:36-44`); its tests use `z_threshold=1.5`.
* FlinkStartsOver and FlinkFigures: what the operators on Flink say agrees with Python only in a
  few figures and only as if they had begun with their first record, whatever state they
  were created with; the figures of the others are those of the records they were given.
  "The processing logic here must exactly mirror the Python operator implementations",
  says `OperatorFactory.java:10`; its field names and several formulas are others.
* ResultsInOrder and ComparisonsMatched hold although a campaign may fail anywhere and
  leaves its profile and files behind: a failed `tc` command and a result that cannot be
  written both leave `run_all`, which starts again with the first configuration.  The
  exception of a generator does not: its run is saved as any other.  A campaign that is cut short over
  the shipped files leaves one workload and network at most where the
  analysis sets measured figures against synthetic ones.
* FiguresAgree holds up to 1000 samples in a window; of more, the percentile sees the
  last 1000 only and the compliance all (`collector.py:107`).  An event without an
  objective is in the percentile and not in the compliance (`collector.py:65-69`).  In both
  cases the two may contradict each other.
* JobsAccounted names three ways to lose sight of a running job: a second restore of
  the operator, a failed cancellation, a restart of the connector.

### Fairness

`PCTR` assumes that the event loop runs a new task and that the timer of
`wait_for` fires; nothing is assumed of servers.  `LeaderElection` assumes that time passes and that a due refresh is run;
`OperatorEngine` that ready tasks run and that `process` returns.  `Recalibration`
assumes that the loops go on (both catch every exception), that a telemetry call
returns or raises (`HEAClient` sets a deadline), and, for each operator, that its
move is not refused for ever: the migration in its way ends within its timeout,
which is EveryMigrationEnds of `PCTR`.  Settles and LeavesDeadNodes suppose what no
code can ensure, that the table, or the nodes, no longer change.

## Proofs

All for every value of the constants, under the ASSUMEs of the modules.

* `PCTR_proofs`: `TypeCorrect` and `MigrationsExclude` hold without restriction.
  The latter needs `TableInv`: a live migration is the table's entry for its
  operator, because `End` removes exactly that entry.  The theorems
  `OperatorsSurvive`, `TargetReady` and `CompletionIsTrue`
  assume `Honest` (restores succeed or raise, no late execution).  Their common
  invariant `IInv` adds, for each phase, what the servers have done for the
  migration: from the answered restore on its target runs the operator; hence the removal of
  the source leaves the target.  `LossesExplained` does without `Honest`.  Its
  invariant `LossInv`: once a restore was answered with success, or phase 4 was
  reached, the target runs the operator or a blamed migration of it exists.  No
  other live migration can take the operator away (`TableInv`), and a request that
  executes late makes its migration a blamed one.
  `SnapshotsAreOwn` (RestoresOwnSnapshot) needs no such assumption either: while a migration is
  between its answered upload and its restore, nobody else may write a key of its
  operator in time, so what it finds there is its own or has come late.
  `Implementation` is the refinement of `MakeBeforeBreak`
  under `Honest`.  Every action is matched: a request executed or answered to
  `Copy` or `Settle`, every end of a migration to `Finish` of one operator, a
  crash to `Finish` of all, the rest stutters.  It needs `ActiveInv`: the table names
  live migrations of the operator, and only those.
* `LeaderElection_proofs`: `HolderKeepsLock` (LockKept) when
  Interval + Lag < TTL.  The invariant says that a refreshing leader that has the key
  also has at least TTL minus the time slept left of its lease, and that instances never share a
  lease; so neither time nor what another instance does with its lease deletes the key.  `ElectionTypeCorrect` needs no such condition.
* `Optimizer_proofs`: `OptimizerTypeCorrect`, `EtcdIsFaithful`,
  `RecordsInOrder` and `RecordsAreTrue`, with any number of callers, plans and
  failing puts.  The invariant of the first two describes the lock: whoever is in the line is in an
  update, nobody is in it twice, every waiter is in it, only its head may be
  inside, and then the cache has what the head writes.  `Ahead` and `Settled` state
  the same for the moment between the return of a put and the next await, so that
  one lemma about `Proceed` serves every action that runs through the loop.
  `RecordsInOrder` adds `InOrder`: the last record in the line for an operator
  being migrated is that of its current migration, or a removal.
  `RecordsAreTrue` (PlacementExplained) adds `MovesInv`, that the target runs the
  operator once a migration has copied it, unless the restore was refused or a terminate came late, and `Sound`, that the last record in
  the line for an operator at rest is true, unless it is excused.  When a migration
  ends, the order of the records turns into their truth.
  `LockIsPassedOn` (LockIsHeld) follows from the invariant of the lock: the head of
  the line is the caller inside, or one that was woken, so a free lock has no
  waiters, whatever puts raise.
* `OperatorEngine_proofs`: `EngineTypeCorrect`, `OutputsFindRoutes` (DropExplained)
  and `CommittedIsCovered` (CommitCovers), for every set of operators, registrations and situations.  As long as no two registrations of a
  cpu-bound operator overlap, at most one queue works for it, that which
  `_worker_queues` names or the one whose deregistration awaits `q.join()`, and either
  way the routes are still there.  `Routed` says so, with what it needs: who owns a
  registration, and that one without worker has neither records nor a busy worker.
  `Shape` strengthens the types: the batch is the last of what was read, every
  operator in the table is bound, and a worker stays only with one that is.
  `Covered` says of each record that was read,
  and of those a commit would cover that were not, that it is still to be dispatched, in a queue,
  in a worker, done, or lost in one of the six ways that CommitCovers names; a
  record moves along these places, and a deregistration or a crash that takes it
  from them leaves the history that excuses it.
  `DuplicatesAreExplained` and `BacklogIsBounded` are about
  the queues, on top of `Shape`.  The first
  (`Counted`) counts, for a record that was not handed out again and an operator, the times it is done, the
  slots that hold it (a place in a queue, a busy worker) and the bindings to which
  the batch still owes it: the sum is at most the operator's registrations, and a
  slot can only be filled from what is owed.  The second (`Kept`) says that what is queued of
  the committed records is at most the high-water mark: a commit follows a check that
  found every asked queue that short, and what is queued afterwards is beyond the commit, until the next one.
* `ConnectorJobs_proofs`: `WellTyped`, `NoHiddenJob` and `StatusIsTruthful`, for any
  number of operators and concurrent calls and a clock that may step back.
  NoHiddenJob is inductive with the types: whoever lets go of a job has named it,
  stopped it, or is one of the three ways to lose it.  StatusIsTruthful needs more:
  every id is known by its submission (`Known`), an id that was given once is at one
  place only, an entry or one handler (`OnePlace`), and what is at such a place
  runs (`Alive`).
* `StateTransfer_proofs`, for any inputs and settings and every sequence of hand-overs.
  `DetectorNeverFires`, for every unit `One`: its core is `NeverAnAnomaly`, that the
  squared deviation enters the variance with a fifth of its weight before it is
  measured against it, so the squared z-score stays below five.  The invariant
  (`Detecting`) says that mean and variance stay integers, the latter at least 0, and
  that the count is 0, which a hand-over keeps.
  `HandOverIsSeamless` (Continuity): a state of one of the eight classes has exactly the
  fields that `get_state` returns (`Whole`), which `process` keeps, so that what is
  restored is what was there.
  `CollectionsSurvive` (CollectedSurvives): the window is the end of the input
  (`NewestIs` says what the end of a sequence is, `PushIsNewest` that a bounded
  deque stays it), a zone's entry is its newest record, the detections are counted
  once each; a hand-over touches none of it.
  `PercentilesAreRanked` (PercentileRank) rests on the existence of order statistics
  (`OrderStatistic`) and the arithmetic of the index (`PctIndexIs`).
  `DamageIsRefused` (DamageRefused): an object in the store is what `serialize`
  wrote or one damage away from it (`Snapshots`), and each reader refuses the
  damages, for any schemas of either side (agents have those of version 1 only,
  `SchemasAssumption`).
  `StatisticsAreExact` (StatisticsExact) and `FlinkSaysTheSame` (FlinkStartsOver) are
  about folds over the input, for any number of records.  They share the hypothesis
  `NoRemainder`, that every count up to `MaxRecords` divides every value: the code
  divides floats and the model integers, which can be compared only where neither
  rounds, and a small enough unit of measurement makes it so.  Without an operator
  parameter to instantiate, the induction over the input is one over its length, on
  folds as recursive functions (`SumIs`, `ReplayIs`, `SequencesGrow`).
  Welford's update is exact because a mean of n values moves by a whole number when
  one more is added (`MeanMoves`, `Quotient`) and the squared deviations shift with it
  (`DevShifts`); the invariant (`Measuring`) adds to it that a hand-over keeps fields
  and collections.
  On the Java side the state that a job is created with has none of the names that its
  logic looks for (`RestoredAssumption`; the schemas list none), so the job starts afresh wherever it begins.  The invariant
  (`Replaying`) is that its log and its operators are those of a new Python operator
  that was given the records taken so far (`Alike`); one lemma per class shows that
  a further record keeps it (`LogStep`, `RiskStep`, `StatStep`).
* `Recalibration_proofs`, for any operators, tiers, capacities, telemetry and presets.
  Scores are numbers (`ScoresAreNat`), the sum of a share of the operator and one of
  the tier (`ScoreSplits`).  The order in which the operators choose is strict and total,
  so the number of those before an operator tells its turn, and everybody gets one
  (`TurnIs`, by counting); the recursive function of the turns exists because its
  prefixes do.  `GreedyFits`: a turn keeps the loads within the capacities, unless
  every tier is full and the cloud takes more (`TurnKeeps`).  `AssignmentsFit`
  (AssignmentFits) and `RecalibrationTypeCorrect` follow.
  `GreedyIsCheapest` and with it `AssignmentsAreCheapest` (AssignmentIsCheapest) is an
  argument by prices: as long as the choices fit there is a limit that no operator
  pays more than, and every tier below the limit is full (`TurnTight`).  Another
  assignment that fits has no more operators on any of those tiers, and above the
  limit saves nothing (`TightIsCheapest`).  The sums are those of FiniteSetsExt, a
  recursive function over sets: `SumIs` and `SumTakes` show that it exists and that
  the order of the elements does not matter, by the smallest set that would
  contradict it.
  `EveryMovePaysOff` is the action property MovesPayOff: two scores of an operator differ
  by what their tiers cost, so the filter only ever passes moves to tiers that are
  cheaper by `DeltaH` for everybody.
* `ExperimentRunner_proofs`: `CampaignTypeCorrect`, `FiguresNeverDisagree`,
  `ResultsAreInOrder`, `ComparisonsAreMatched` and `WindowsAreSaved`, for any workloads,
  systems, networks, repetitions, restarts, percentiles, latencies, intervals and
  delays.  FiguresAgree rests on
  the existence of order statistics (`OrderStatistic`, by the least value with enough
  samples below it) and on the arithmetic of `Rank` (`RankIs`): at least Pct per cent
  of n events comply exactly if the sample of that rank does, when all events have been compared with the objective.  For the next two,
  `SortedIs` shows that the sorted list of configurations exists and contains each of
  them once (prefixes of it exist for every length: the least configuration that is
  missing continues them), and `NextItem` that going on passes the present item and
  no other.  The invariant `CampaignInv` says that the profile run_all believes in is
  on the interface (`Applied`), that a file is absent, damaged, synthetic or measured under the
  profile of its configuration, that what a campaign has not reached is untouched or was
  left by an earlier one, and that a run is never without a recent snapshot
  (`Alive`), so that a run that ends has something to save.
  `WindowsAreSaved` (SavedWindows) keeps a ledger of the measurement that goes on
  (`Ledger`): each window begins where the one before it ended and is no longer than a
  late interval (`Cutting`), and every event belongs to exactly one window, within
  whose ends it arrived and among whose events it is counted, or to the open one
  (`Owned`; which of two windows an event at their common end belongs to depends on the
  order of the steps, so the invariant says that such an assignment exists).  The sum
  over the saved rows is then the number of events that belong to them
  (`SumIsUnion`), and these are the events between the ends and some at the ends.
  It needs a warm-up, which every workload has (600 s, `harness/config.py:43`):
  without one the window that is cut at once, at time 0, would be saved too, and
  begin where the next one begins.

Model-checked only: liveness (EveryMigrationEnds, LockFreed, CommitsResume,
TelemetryConverges, Settles, LeavesDeadNodes), which is out of the prover's reach.
Of the safety invariants and action properties that a passing run checks, all but FlinkFigures
are theorems.

## Not modelled, and the plan

Not modelled:

* start-up code, settings, wording and layout of messages; of the experiments the dry
  run, the set-up of the baselines, the statistical tests, tables, plots and the synthetic
  figures, which compute over files;
* the state store and the checkpointer of the agent, the metrics and the DAG model:
  no operator is ever registered with the checkpointer, the metrics only observe,
  and nothing but its tests uses the DAG model;
* the process pool of cpu-bound operators: `process` runs in a copy of the operator
  (`engine.py:143`), so changes of its state are lost; for `OperatorEngine` only
  that a record has been processed matters;
* a second `start_election` of a leading instance (`client.py:58`), which would
  replace the stored lease; nobody calls it twice, or at all;
* the start of the agent's gRPC server: `serve` waits on the event loop on which its
  own handlers schedule coroutines, and `get_event_loop` raises in a gRPC
  thread; `PCTR` has the resulting time-outs among the answers of a server;
* several input topics of one operator, two registrations that both start the first consumer of
  a topic, and `stop` of the engine, which nobody calls;
* `KafkaBridgeSource`, which no code uses.

Next: migrations of `PCTR` whose servers are `OperatorEngine` and `ConnectorJobs`,
rather than the contracts their callers rely on.
