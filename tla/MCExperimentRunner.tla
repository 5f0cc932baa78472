-------------------------- MODULE MCExperimentRunner --------------------------
(* Instances of ExperimentRunner for TLC.                                   *)
EXTENDS ExperimentRunner, TLC

\* Names are numbered in their order: one workload, B1 < B2 < HybridStream, two networks.
OneWorkload == {1}
Systems == {1, 2, 3}
Networks == {1, 2}
Latencies == {1, 2}

\* Bounds the run: a generator that has sent events does not fail, and they are
\* recorded in the first run of the first campaign, in an empty directory, at most one
\* of a window without an objective, and no three of them in different windows (nothing
\* follows the window of three). Every run starts with a new collector, so that the
\* others measure as this one does.
EventsInFirst ==
  /\ arrivals # <<>> =>
       /\ restarts = 0 /\ feeding /\ config = 1 /\ rep = 1
       /\ \A i \in Item : files[i] # Synthetic
  /\ Len(arrivals) > 2 => Len(samples) = Len(arrivals)
  /\ Len(samples) <= counter.total + 1
=============================================================================
