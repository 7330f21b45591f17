CONSTANTS
  N = 4
  r = r
  c = c
  e = e
  f = f
  plain = plain
  rows = rows
  hollow = hollow
  maps = maps
  bases = bases
  MaxLength = 2
  Component <- AllComponents
  Collections <- OneCollection
  ElementIndex <- TwoElements
  Program <- Programs
  Call <- Calls
  ThroughCallback <- ByCallback
  MovedFrom <- Hollowed
  MaxCalls = 2
  Arguments <- SomeArguments
  Plain <- OnlyPlain
  ObjectSize <- Sizes
  Alignment <- Aligns
  PackedSize <- Packs
  Self = 1
  Rendezvous <- LargeOnes
  NoMessage = NoMessage
  MaxToReceive = 1
  Derived <- Classes
  serializable_hash <- Hashes
  TypeOf <- Tuples
SPECIFICATION FairSpec
CHECK_DEADLOCK FALSE
INVARIANTS
  TypeOK
  IdsMatchLocations
  OnlyAgreementLeavesInsertMode
  ExactlyTheAddressed
  ArgumentsArrive
  BuffersHold
  RoundTrips
PROPERTIES
  CallsAreCarriedOut
