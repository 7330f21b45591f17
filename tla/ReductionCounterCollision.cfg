CONSTANTS
  t1 = t1
  t2 = t2
  Thread <- TwoThreads
  Key <- CollidingKeys
  Expected <- CollidingExpected
  Size = 4
SPECIFICATION Spec
INVARIANTS
  OneThreadIsTold
