CONSTANTS
  a = a
  b = b
  i1 = i1
  i2 = i2
  snd = snd
  r1 = r1
  r2 = r2
  NoKey = NoKey
  NoSocket = NoSocket
  Key = {a, b}
  Instance = {i1}
  Socket = {snd, r1, r2}
  Msg = {m1, p1}
  Ephemeral = {p1}
  Home <- AllAtOne
  Wants <- OneSwitches
  To <- ToB
  REDIS = FALSE
  MAX_CONNECTIONS = 2
  FAULTS = 1
  MaxFlush <- R1Again
SPECIFICATION Spec
INVARIANTS MessageInOnePlace EntriesAreOwned NewestReachableAtFirst
CHECK_DEADLOCK FALSE
