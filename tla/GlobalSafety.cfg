CONSTANTS
  N = 4
  Int64Max = 100
  MaxSent = 2
  MaxSweep = 2
SPECIFICATION Spec
INVARIANTS
  TypeOK
  CountsBalance
  ResetFindsNothing
  OneSweepAtATime
  TerminationReachesAll
PROPERTIES
  OnlyHiddenMessagesDeceive
