CONSTANTS
  N = 4
  Int64Max = 100
  MaxSent = 1
  MaxSweep = 3
SPECIFICATION FairSpec
PROPERTIES
  QuiescenceIsDetected
