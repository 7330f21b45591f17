CONSTANTS
  N = 2
  Int64Max = 100
  MaxSent = 3
  MaxSweep = 2
SPECIFICATION Spec
INVARIANTS
  TerminationIsReal
