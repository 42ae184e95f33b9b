CONSTANTS
  p1 = p1
  p2 = p2
  Contacts <- JustOne
  None = None
  CALLS = 2
  TOGGLES = 2
  UPSETS = 1
SPECIFICATION FairSpec
INVARIANTS TypeInv FramesOpen GhostSaved OfflineLast
PROPERTIES PresenceEnds
CHECK_DEADLOCK FALSE
