SPECIFICATION Spec
CONSTANTS
  Headers = {h1, h2}
  Allocators = {a1, a2}
  Freers = {f}
  HEAD = HEAD
  NULL = NULL
  JUNK = JUNK
INVARIANT OneOwner
CHECK_DEADLOCK FALSE
