CONSTANTS
  w1 = w1
  w2 = w2
  t1 = t1
  t2 = t2
  t3 = t3
  Worker <- TwoWorkers
  Task <- ThreeTasks
  NoTask = NoTask
  MissesForIdle = 2
  Preallocated = 1
SPECIFICATION FairSpec
INVARIANTS
  TypeOK
  QuiescenceIsReal
  CountersBalance
  IdleCountIsExact
PROPERTIES
  QuiescenceIsDetected
  StopCompletes
