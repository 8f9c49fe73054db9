SPECIFICATION FairSpec
CONSTANTS
  Headers = {h1, h2, h3}
  Allocators = {a}
  Freers = {f1, f2}
  HEAD = HEAD
  NULL = NULL
  JUNK = JUNK
INVARIANTS TypeOK OneOwner NoneLost WalksStayInList
PROPERTY CallsEnd
CHECK_DEADLOCK FALSE
