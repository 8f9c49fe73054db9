SPECIFICATION FairSpec
CONSTANTS
  Pthread = {p1, p2, p3}
  MaxBlock = 4
  MaxID = 3
  MaxMutex = 2
  MaxFails = 1
  FirstStays = TRUE
  OneStart = TRUE
INVARIANTS TypeOK RegistryExact OwnArgs SelfIsMine JoinWaits
PROPERTY CancelledJoinReturns
CHECK_DEADLOCK FALSE
