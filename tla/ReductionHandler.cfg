CONSTANTS
  t1 = t1
  t2 = t2
  Thread <- TwoThreads
  Order <- TwoInOrder
  Key <- MixedKeys
  Expected <- MixedExpected
  Size = 4
SPECIFICATION HandlerFairSpec
INVARIANTS
  HandlerTypeOK
  TrueMeansAllMade
  OneThreadIsTold
  HandedOnIsWhole
  TablesAreEmptied
PROPERTIES
  ReductionIsHandedOn
