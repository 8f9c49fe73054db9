SPECIFICATION FairSpec
CONSTANTS
  MaxFrames = 2
  Images = {i1, i2, i3}
  NULL = NULL
  EarlyAcquire = TRUE
INVARIANTS TypeOK FencesExact ImageExclusive SemaphoresFresh WaitsAreMet LeadBounded
  AbortsOnlyOnFailure
PROPERTY NeverStuck
CHECK_DEADLOCK FALSE
