SPECIFICATION RuntimeSpec
CONSTANTS
  ThrottleConsumers = {consumer, spare}
  ThrottleProducers = {producer}
  ThrottleAmounts = {1, 2, 3}
  MaxAvailable = 4
  Jobs = {j1, j2, j3}
  GroupWaiters = {g1, g2}
  Tasks = {t1, t2, t3}
  Scale = 300
  RoundErr = 1
  Thresholds = {0, 100, 150, 210, 300, 301}
  ThresholdWaiters = {tw1}
  Callers = {c1, c2, c3}
  Lockers = {l1, l2, l3}
  Slots = 2
  Stoppers = {s1, s2}
  MaxCoolRuns = 3
  GroupFns = {f1, f2, f3}
  FenceWaiters = {fw1, fw2}
  MaxErrs = 3
  Cancellers = {x1, x2}
  Observers = {o1, o2}
  CopyReads = 2
  Names = {tcp, quic, alt}
  Tcp = tcp
  TcpPriority = 1
  Priorities = {1, 2}
  None = None
  ConnUsers = {u1, u2, u3}
  TestFns = {fn1, fn2, fn3}
INVARIANTS
  NoLostWakeUp
  WaitsCover
  DoneMeansDecided
  CooldownHolds
  OneError
  NoSocketLeft
  KeepsBest
  OneStream
PROPERTY
  EveryWaitEnds
CHECK_DEADLOCK FALSE
