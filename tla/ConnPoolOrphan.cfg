SPECIFICATION Spec
CONSTANTS
  Keys = {k1}
  Conns = {a, b, c}
  Tasks = {t1, t2, t3}
  None = None
  OptionSet <- MCOptionSetOrphan
INVARIANT
  CachedIsTakeable
CHECK_DEADLOCK FALSE
SYMMETRY MCSymmetry
