SPECIFICATION Spec
CONSTANTS
  Keys = {k1, k2}
  Conns = {a, b, c}
  Tasks = {t1, t2, t3}
  None = None
  OptionSet <- MCOptionSet
INVARIANTS
  InUseNeverClosed
  NoOpenConnForgotten
  CacheConsistent
PROPERTY
  KeepsPromise
CHECK_DEADLOCK FALSE
SYMMETRY MCSymmetry
