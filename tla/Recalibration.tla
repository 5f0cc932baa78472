---------------------------- MODULE Recalibration ----------------------------
(***************************************************************************)
(* The control loop of AODE: telemetry sweeps feed the scores, and every    *)
(* recalibration computes the assignment, filters it and records the moves  *)
(* it starts.  A run is one step here; how runs overlap, and what becomes   *)
(* of the moves, is in Optimizer.                                           *)
(***************************************************************************)
EXTENDS Telemetry, Scoring

CONSTANTS
  Latencies, (* observed latencies of the operators, in ms                   *)
  Requests   (* names of presets that UpdateWeights is called with           *)

ASSUME RecalibrationAssumption ==
  /\ Latencies \subseteq [Op -> Nat]
  /\ Cloud \notin Node      \* no agent reports for the cloud

\* What a run may compute, given the table it finds: scores and assignment.
Plans ==
  LET Plan(table, latency, name) ==
        LET score == ComputeScores(table, latency, WEIGHT_PRESETS[name])
        IN  [table |-> table, preset |-> name,
             score |-> score, optimal |-> FindOptimalPlacement(score)]
  IN  {Plan(table, latency, name) :
         table \in Table, latency \in Latencies, name \in DOMAIN WEIGHT_PRESETS}

VARIABLES
  placement, (* the tier recorded for an operator                            *)
  preset     (* the weights of the scoring algorithm                         *)

vars == <<world, sample, turn, answer, placement, preset>>

TypeOK ==
  /\ TelemetryTypeOK
  /\ placement \in [Op -> Tier]
  /\ preset \in DOMAIN WEIGHT_PRESETS

\* default_weight_preset is any of the three.
Init ==
  /\ TelemetryInit
  /\ placement \in [Op -> Tier]
  /\ preset \in DOMAIN WEIGHT_PRESETS

\* What a run finds to compute with.
Found(plan) == plan.table = sample /\ plan.preset = preset

\* UpdateWeights: get_weight_preset raises for an unknown name, and nothing changes.
\* (Its handler has a thread of its own and may change the weights while scores are
\* being computed; here it does so between two runs.)
UpdateWeights(name) ==
  /\ name \in DOMAIN WEIGHT_PRESETS
  /\ preset' = name
  /\ UNCHANGED <<tvars, placement>>

\* _run_optimization.  Some operators may be refused: they are being migrated,
\* migrate_operator raises, and their record stays.  Those in heard are not.
Run(heard) ==
  /\ UNCHANGED <<tvars, preset>>
  /\ \E plan \in Plans :
       /\ Found(plan)
       /\ \E wanted \in {Candidates(placement, plan.optimal, plan.score)} :
           \E refused \in SUBSET (wanted \ heard) :
             placement' = [o \in Op |-> IF o \in wanted \ refused THEN plan.optimal[o]
                                                                  ELSE placement[o]]

Next ==
  \/ TelemetryNext /\ UNCHANGED <<placement, preset>>
  \/ Run({})
  \/ \E name \in Requests : UpdateWeights(name)

Spec == Init /\ [][Next]_vars

\* No operator is refused for ever: its migration ends within the timeout
\* (EveryMigrationEnds of PCTR), and the loop of the optimizer goes on.
FairSpec == Spec /\ TelemetryFairness /\ \A o \in Op : WF_vars(Run({o}))

-----------------------------------------------------------------------------
(* Properties.                                                              *)

Fits(p) == \A t \in Tier : Load(p, t) <= Capacity[t]

\* Whatever the telemetry says, the assignment keeps every tier within its
\* capacity; only the cloud may exceed its own, once every tier is full
\* (find_optimal_placement sends only what fits nowhere to the cloud).
AssignmentFits ==
  \A plan \in Plans :
    Found(plan) =>
      \/ Fits(plan.optimal)
      \/ \A t \in Tier : /\ t # Cloud => Load(plan.optimal, t) = Capacity[t]
                         /\ t = Cloud => Load(plan.optimal, t) > Capacity[t]

Total(score, p) == MapThenSumSet(LAMBDA o : score[o][p[o]], Op)

\* The greedy assignment is as cheap as any that fits: an operator's share of a
\* score does not depend on the tier, so that taking turns costs nothing
\* (compute_scores, find_optimal_placement).
AssignmentIsCheapest ==
  \A plan \in Plans :
    Found(plan) /\ Fits(plan.optimal) =>
      \A p \in [Op -> Tier] : Fits(p) => Total(plan.score, plan.optimal) <= Total(plan.score, p)

\* The part of a score that the tier accounts for.
TierCost(t) ==
  LET weights == WEIGHT_PRESETS[preset]
  IN  weights.res * PhiRes(sample, t) + weights.net * PhiNet(sample, t)

\* An operator moves only to a tier that is cheaper by delta_h for every operator,
\* whatever latencies were observed of which operator: what is compared
\* is the cost of the two tiers alone (_identify_migration_candidates).
MovesPayOff ==
  [][\A o \in Op : placement'[o] # placement[o] =>
       TierCost(placement[o]) - TierCost(placement'[o]) >= DeltaH]_vars

\* While the table of telemetry and the weights stay the same, operators stop moving, although
\* observed latencies reorder the greedy choice with every run: hysteresis lets
\* an operator move only to a tier that is cheaper for all of them.
Settles == <>[][FALSE]_<<sample, preset>> => <>[][FALSE]_placement

\* Once the nodes no longer change, no operator stays recorded on one that does
\* not answer: the table comes to say so, and the network term then outweighs
\* every other tier.
LeavesDeadNodes ==
  <>[][FALSE]_world =>
    <>[](\A o \in Op : placement[o] \in Node => world[placement[o]].reachable)
=============================================================================
