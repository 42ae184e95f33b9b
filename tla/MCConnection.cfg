CONSTANTS
  c1 = c1
  c2 = c2
  Client = {c1, c2}
  STORE = TRUE
  Nobody = Nobody
  MaxDrops = 2
  MaxReloads = 2
SPECIFICATION FairSpec
INVARIANTS TypeInv OneLine OneGeneration
PROPERTIES LinesKept
CHECK_DEADLOCK FALSE
