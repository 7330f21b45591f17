CONSTANTS
  m1 = m1
  m2 = m2
  m3 = m3
  N = 3
  Self = 1
  Msg <- Messages
  Source <- Senders
  Null = Null
  Rendezvous <- OneLarge
  MaxToReceive = 3
SPECIFICATION Spec
CHECK_DEADLOCK FALSE
INVARIANTS
  EachMessageOnce
