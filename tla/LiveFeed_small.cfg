SPECIFICATION Spec
CONSTANTS
  Clients = {c1}
  Publishers = {p1, p2}
  Cap = 2
  SockCap = 1
  MaxEvents = 5
INVARIANTS
  NoSilentGap
  SnapshotCovers
PROPERTIES
  DeliveredOrEnded
  DeadSessionEnds
  ImplementsOrderedFeed
CHECK_DEADLOCK FALSE
