SPECIFICATION MCSpec
CONSTANTS
  Ptr = {p1, p2, p3, p4}
  Size = {8, 16}
  Val = {v1, v2}
  NULL = NULL
  MaxBlocks = 4
SYMMETRY Symmetry
INVARIANTS TypeOK LedgerExact GrowsOnlyWithDemand
PROPERTY ImplementsContract
CHECK_DEADLOCK FALSE
