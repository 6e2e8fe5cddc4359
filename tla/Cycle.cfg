SPECIFICATION CycleSpec
CONSTANTS
  Callers = {c1, c2}
  NoCaller = NoCaller
  Stoppers = {s1, s2}
  Closer = s2
INVARIANTS
  AtMostOneLateFn
  PausedMeansNoTick
  StopIsFinal
PROPERTIES
  TriggerWaitRan
  StopReturns
  CallReturns
CHECK_DEADLOCK FALSE
