SPECIFICATION Spec
CONSTANTS
  Op = {o1}
  Call = {c1, c2, c3}
  Time = {0, 1, 2}
  NoJob = NoJob
SYMMETRY Symmetry
INVARIANTS JobsAccounted StatusTruthful
