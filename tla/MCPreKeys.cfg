CONSTANTS
  p1 = p1
  p2 = p2
  None = None
  Peer = {p1, p2}
  OTP_POOL_SIZE = 2
  OTP_LOW_WATER = 1
  STORE = TRUE
  MaxFrames <- Uneven
  MaxReloads = 1
  MaxMounts = 1
  FAULTS = 1
SPECIFICATION FairSpec
INVARIANTS TypeInv ChatHandsOutOnce ChatOffersHeld SpentOnce
PROPERTY HandlersEnd
CHECK_DEADLOCK FALSE
