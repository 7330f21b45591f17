CONSTANTS
  w1 = w1
  w2 = w2
  t1 = t1
  t2 = t2
  arrival = arrival
  copy = copy
  contribution = contribution
  answer = answer
  Worker <- TwoWorkers
  Task <- TwoTasks
  NoTask = NoTask
  MissesForIdle = 1
  Preallocated = 2
  Mail <- AllMail
  Inbound = {arrival}
  Own = {contribution}
  Direct = {answer}
  Becomes <- MailBecomes
  MaxToSend = 1
  BulkSize = 10
  LocalCounts = 2
SPECIFICATION LoopFairSpec
INVARIANTS
  LoopTypeOK
  CheckedOnlyWhenQuiet
PROPERTIES
  MailLeaves
  QuietProcessAsks
