CONSTANTS
  N = 5
  Id <- TwoIds
  Size = 2
SPECIFICATION Spec
CHECK_DEADLOCK FALSE
INVARIANTS
  TypeOK
  ResultIsWhole
  ContributionsAreConserved
  NobodyWaitsInVain
