-------------------------- MODULE ExperimentRunner --------------------------
(* experiments/harness: the campaign of all configurations, each repeated,  *)
(* that fills the results directory, and what the analysis compares of it.  *)
(*                                                                          *)
(* run_all goes through the configurations network by network. It may raise *)
(* when the network profile is applied or a result is written, may crash,   *)
(* and may be started again; the qdisc of the interface and the result      *)
(* files outlive it. The generator of a run is a task nobody awaits: when   *)
(* it fails the run goes on without events and is saved as any other.       *)
(* A file stands for the network profile that was in force while it was     *)
(* measured, or for the synthetic figures that the repository ships at the  *)
(* paths of all results (generate_synthetic.py).                            *)
EXTENDS MetricsCollector

CONSTANTS Workload, System, Network,  \* names: numbers in their order
          Reps,                       \* repetitions of each configuration (10)
          Duration,                   \* duration_s
          LoadFrom,                   \* load_all_results skips rows before it (120 s)
          SyntheticSpan,              \* duration_s of generate_synthetic.py (600 s)
          MaxRestarts                 \* bounds the run

ASSUME RunnerAssumption ==
  /\ Workload \subseteq Nat /\ System \subseteq Nat /\ Network \subseteq Nat \ {0}
  /\ IsFiniteSet(Workload) /\ IsFiniteSet(System) /\ IsFiniteSet(Network)
  /\ {} \notin {Workload, System, Network}
  /\ Reps \in Nat \ {0} /\ MaxRestarts \in Nat
  /\ Duration \in Nat /\ Duration > Interval + Lag
  /\ LoadFrom \in Nat /\ SyntheticSpan \in Nat

NoProfile == 0   \* no profile, beside those of Network
Absent == -1     \* what a file is, beside a profile
Damaged == -2
Synthetic == -3

VARIABLES step,      \* where run_all is
          config,    \* its configuration, as a position in SortedConfigs
          rep,       \* its repetition
          current,   \* current_network
          net,       \* the profile on the interface
          feeding,   \* gen_task runs
          files,     \* the results directory
          rows,      \* history: what the last run has saved, a set of snapshots
          restarts

runnerVars == <<step, config, rep, current, net, feeding, files, rows, restarts>>
vars == <<collectorVars, runnerVars>>

\* build_experiment_matrix
Matrix == [workload : Workload, system : System, network : Network]

\* The key of sorted: network, then workload, then system.
Before(c, d) ==
  \/ c.network < d.network
  \/ /\ c.network = d.network
     /\ \/ c.workload < d.workload
        \/ c.workload = d.workload /\ c.system < d.system

SortedConfigs ==
  CHOOSE s \in [1..Cardinality(Matrix) -> Matrix] :
    \A i, j \in DOMAIN s : i < j => Before(s[i], s[j])

Item == Matrix \X (1..Reps)
Here == <<SortedConfigs[config], rep>>

TypeOK ==
  /\ CollectorTypeOK
  /\ step \in {"next", "measuring", "failed", "complete"}
  /\ config \in 1..Cardinality(Matrix) /\ rep \in 1..Reps
  /\ {current, net} \subseteq Network \cup {NoProfile}
  /\ feeding \in BOOLEAN /\ (feeding => step = "measuring")
  /\ files \in [Item -> Network \cup {Absent, Damaged, Synthetic}]
  /\ rows \subseteq MetricSnapshot
  /\ restarts \in 0..MaxRestarts

\* The results directory is as it is shipped, or has been emptied.
Init ==
  /\ CollectorInit
  /\ step = "next" /\ config = 1 /\ rep = 1 /\ current = NoProfile
  /\ net = NoProfile /\ feeding = FALSE /\ rows = {} /\ restarts = 0
  /\ \E shipped \in {Absent, Synthetic} : files = [i \in Item |-> shipped]

\* What _run_cmd may do on an interface of profile n with a command that sets to.
RunCmd(n, to, ignoreErrors) ==
  {[net |-> to, raised |-> FALSE], [net |-> n, raised |-> ~ignoreErrors]}

\* apply_network_profile clears the interface and adds the new profile.
Applications(profile) ==
  UNION {RunCmd(cleared.net, profile, FALSE) : cleared \in RunCmd(net, NoProfile, TRUE)}

ApplyNetworkProfile_Bug ==   \* the errors of both commands are ignored
  LET wanted == SortedConfigs[config].network
  IN  /\ step = "next" /\ wanted # current
      /\ net' \in {wanted, net, NoProfile} /\ current' = wanted
      /\ UNCHANGED <<collectorVars, step, config, rep, feeding, files, rows, restarts>>
\* run_all meets another network.
ApplyNetworkProfile ==
  LET wanted == SortedConfigs[config].network
  IN  /\ step = "next" /\ wanted # current
      /\ \E after \in Applications(wanted) :
           /\ net' = after.net
           /\ IF after.raised THEN step' = "failed" /\ UNCHANGED current
                              ELSE current' = wanted /\ UNCHANGED step
      /\ UNCHANGED <<collectorVars, config, rep, feeding, files, rows, restarts>>

\* _run_single up to its long sleep.
StartRun ==
  /\ step = "next" /\ SortedConfigs[config].network = current
  /\ step' = "measuring" /\ feeding' = TRUE /\ rows' = {}
  /\ Start
  /\ UNCHANGED <<config, rep, current, net, files, restarts>>

\* _run_generator raises, at once when the module of its workload cannot be imported.
\* The exception stays in gen_task: cancelling a task that is done retrieves nothing.
GeneratorFails ==
  /\ feeding /\ feeding' = FALSE
  /\ UNCHANGED <<collectorVars, step, config, rep, current, net, files, rows, restarts>>

\* The loops of run_all go on to the next repetition or configuration.
Advance ==
  LET last == config = Cardinality(Matrix) /\ rep = Reps
  IN  /\ step' = IF last THEN "complete" ELSE "next"
      /\ rep' = IF rep < Reps THEN rep + 1 ELSE IF last THEN rep ELSE 1
      /\ config' = IF rep = Reps /\ ~last THEN config + 1 ELSE config

End == Warmup + Duration

\* save_snapshots: without a snapshot there is no file.
Saved(snaps) == IF snaps = {} THEN files ELSE [files EXCEPT ![Here] = net]

EndRun_Bug ==   \* the exception is logged and not raised again
  /\ step = "measuring" /\ clock >= End
  /\ Stop /\ feeding' = FALSE
  /\ \/ files' = Saved(GetSnapshots) /\ rows' = GetSnapshots
     \/ files' \in {files, [files EXCEPT ![Here] = Damaged]} /\ UNCHANGED rows
  /\ Advance
  /\ UNCHANGED <<current, net, restarts>>
\* The rest of _run_single, whether the generator still ran or not. An exception of
\* the writer leaves the old file or half of a new one, and leaves run_all.
EndRun ==
  /\ step = "measuring" /\ clock >= End
  /\ Stop /\ feeding' = FALSE
  /\ \/ files' = Saved(GetSnapshots) /\ rows' = GetSnapshots /\ Advance
     \/ /\ files' \in {files, [files EXCEPT ![Here] = Damaged]}
        /\ step' = "failed"
        /\ UNCHANGED <<config, rep, rows>>
  /\ UNCHANGED <<current, net, restarts>>

\* The campaign is started again after it has failed, crashed or ended, perhaps on
\* a machine that was booted meanwhile.
Restart ==
  /\ restarts < MaxRestarts /\ restarts' = restarts + 1
  /\ step' = "next" /\ config' = 1 /\ rep' = 1 /\ current' = NoProfile
  /\ net' \in {net, NoProfile} /\ feeding' = FALSE /\ rows' = {}
  /\ clock' = 0 /\ wake' = Never /\ since' = 0 /\ NoWindow
  /\ snapshots' = <<>> /\ arrivals' = <<>>
  /\ UNCHANGED files

\* What the generator sends is processed and recorded with or without an objective.
Measure ==
  /\ step = "measuring"
  /\ \/ Tick(End)
     \/ CollectionLoop
     \/ feeding /\ \E ms \in Latency, objective \in BOOLEAN : Record(ms, objective)
  /\ UNCHANGED runnerVars

Next ==
  \/ ApplyNetworkProfile \/ StartRun \/ GeneratorFails \/ Measure \/ EndRun \/ Restart

Spec == Init /\ [][Next]_vars
-----------------------------------------------------------------------------
EarlierItem(i, j) == Before(i[1], j[1]) \/ (i[1] = j[1] /\ i[2] < j[2])
Sound(i) == files[i] \notin {Absent, Damaged, Synthetic}
Untouched(i) == files[i] \in {Absent, Synthetic}

\* The configurations that run_all has passed have results of their own, although
\* runs fail, are repeated and overwrite each other, and a campaign that ends has
\* replaced all that was there: run_all stops at the first exception that reaches it,
\* and that of a generator, which does not, costs no result.
ResultsInOrder ==
  /\ \A i \in Item : (EarlierItem(i, Here) \/ step = "complete") => Sound(i)
  /\ \A i, j \in Item : EarlierItem(i, j) /\ Untouched(i) => Untouched(j)

\* load_all_results reads every file and raises at a damaged one.
Loadable == \A i \in Item : files[i] # Damaged

\* The times of the rows of a file: generate_synthetic.py writes one each interval
\* from 0 on, save_snapshots what get_snapshots has kept of a run.
RowTimes(f) ==
  IF f = Synthetic THEN {k * Interval : k \in 0..(SyntheticSpan \div Interval - 1)}
                   ELSE Warmup..(End + Lag)

Loaded(f) == IF f \in {Absent, Damaged} THEN {} ELSE {t \in RowTimes(f) : t >= LoadFrom}

File(w, s, n, r) == files[<<[workload |-> w, system |-> s, network |-> n], r>>]

\* run_all_pairwise_comparisons compares the systems of a workload and network if
\* each has all of its repetitions.
RepsOf(w, n, s) == {r \in 1..Reps : Loaded(File(w, s, n, r)) # {}}
Compared(w, n) == Loadable /\ \A s \in System : Cardinality(RepsOf(w, n, s)) = Reps

\* Measured figures stand against shipped ones.
Mixed(w, n) ==
  /\ Compared(w, n)
  /\ \E s, t \in System, q, r \in 1..Reps :
       File(w, s, n, q) = Synthetic /\ File(w, t, n, r) # Synthetic

\* Whatever campaigns have filled the directory, the figures that the analysis pairs
\* are of the same repetitions, and were measured under the network profile that
\* their configuration names unless they are the shipped ones: no run goes on under a
\* profile that a failed apply_network_profile or an earlier campaign has left on the
\* interface. A campaign that was cut short leaves at most one workload and network
\* whose comparisons set measured figures against shipped ones.
ComparisonsMatched ==
  /\ \A w \in Workload, n \in Network :
       Compared(w, n) => \A s \in System, r \in 1..Reps : File(w, s, n, r) \in {n, Synthetic}
  /\ \A v, w \in Workload, m, n \in Network :
       Mixed(v, m) /\ Mixed(w, n) => v = w /\ m = n

\* What is saved of a run covers its time after the warm-up without a gap: each
\* window begins where the last one ended, the first one at most one late interval
\* before the end of the warm-up, the last one ends at most one late interval before
\* the end, and every event between is counted once (get_snapshots, _build_snapshot).
From(row) == row.at - row.window
SavedWindows ==
  rows # {} =>
    LET lo == Min({From(r) : r \in rows})
        hi == Max({r.at : r \in rows})
        counted == MapThenSumSet(LAMBDA r : r.events, rows)
        inside  == {i \in DOMAIN arrivals : arrivals[i] \in (lo + 1)..(hi - 1)}
        atEdges == {i \in DOMAIN arrivals : arrivals[i] \in {lo, hi}}
    IN  /\ \A q, r \in rows : q # r => From(q) # From(r)
        /\ \A r \in rows : From(r) = lo \/ \E q \in rows : q.at = From(r)
        /\ lo < Warmup /\ Warmup <= lo + Interval + Lag
        /\ End <= hi + Interval + Lag
        /\ counted - Cardinality(inside) \in 0..Cardinality(atEdges)
=============================================================================
