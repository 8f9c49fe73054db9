SPECIFICATION Spec
CONSTANTS
  MaxFrames = 2
  Images = {i1, i2, i3}
  NULL = NULL
  EarlyAcquire = TRUE
INVARIANT RecordsIdleBuffer
CHECK_DEADLOCK FALSE
