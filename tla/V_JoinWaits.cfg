SPECIFICATION Spec
CONSTANTS
  Pthread = {p1, p2, p3}
  MaxBlock = 4
  MaxID = 4
  MaxMutex = 1
  MaxFails = 0
  FirstStays = FALSE
  OneStart = TRUE
INVARIANT JoinWaits
CHECK_DEADLOCK FALSE
