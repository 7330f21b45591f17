CONSTANTS
  t1 = t1
  t2 = t2
  Thread <- TwoThreads
  Word <- TwoWords
  Request <- Calls
SPECIFICATION FairSpec
INVARIANTS
  TypeOK
  SeenIsCurrent
PROPERTIES
  ImplementsRegister
  LockFree
