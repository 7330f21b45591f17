CONSTANTS
  N = 2
  r = r
  c = c
  e = e
  f = f
  Component <- AllComponents
  Collections <- OneCollection
  ElementIndex <- TwoElements
  Program <- AnyOrder
SPECIFICATION InsertSpec
CHECK_DEADLOCK FALSE
INVARIANTS
  SameNumbering
