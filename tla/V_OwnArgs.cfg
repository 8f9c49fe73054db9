SPECIFICATION Spec
CONSTANTS
  Pthread = {p1, p2, p3}
  MaxBlock = 4
  MaxID = 3
  MaxMutex = 1
  MaxFails = 0
  FirstStays = TRUE
  OneStart = FALSE
INVARIANT OwnArgs
CHECK_DEADLOCK FALSE
