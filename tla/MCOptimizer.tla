----------------------------- MODULE MCOptimizer -----------------------------
(* Instances of Optimizer for TLC.                                          *)
EXTENDS Optimizer, FiniteSets, Integers, TLC

Symmetry == Permutations(Caller) \union Permutations(Tier)

\* Bounds the run: two callers work on any operators, and a third one joins them
\* when all updates and migrations are about one operator; one caller works while
\* a request is late.  One request is late at a time, and one operator is without
\* its backing.
About(a) == {c.op : c \in plan[a]} \union (IF write[a] = NoWrite THEN {} ELSE {write[a][1]})
Busy     == {a \in Caller : at[a] # "idle"}
ThreeAboutOne ==
  Cardinality(Busy) > 2 =>
    Cardinality(UNION {About(a) : a \in Busy} \union {o \in Op : ~At(o, "still")}) = 1
OneMishap ==
  /\ Cardinality(excused) <= 1
  /\ stray # {} => Cardinality(stray) = 1 /\ Cardinality(Busy) <= 1
=============================================================================
