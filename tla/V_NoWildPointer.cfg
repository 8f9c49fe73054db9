SPECIFICATION Spec
CONSTANTS
  Ptr = {p1, p2, p3}
  Size = {8, 16}
  Val = {v1, v2}
  NULL = NULL
  MaxBlocks = 4
INVARIANT NoWildPointer
CHECK_DEADLOCK FALSE
