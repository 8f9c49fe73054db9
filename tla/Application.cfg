CONSTANTS
  Mods = {m1, m2}
  Main = main
  Workers = {w1}
  Allow = {}
  MaxImages = 2
  MaxSpare = 2
  DebugChanges = FALSE
  Codes = {c1}
  Keys = {c1, c2}
SPECIFICATION FairSpec
INVARIANTS TypeOK ExitsOnce NoneMissed FreedOnlyLogged ParentsOutlive OnlySemaphoresGoWrong StartsEmpty NothingLeft
PROPERTY Ends
CHECK_DEADLOCK FALSE
