CONSTANTS
  a = a
  b = b
  i1 = i1
  i2 = i2
  snd = snd
  r1 = r1
  NoKey = NoKey
  NoSocket = NoSocket
  Key = {a, b}
  Instance = {i1}
  Socket = {snd, r1}
  Msg = {m1}
  Ephemeral = {}
  Home <- AllAtOne
  Wants <- OneKey
  To <- ToB
  REDIS = TRUE
  MAX_CONNECTIONS = 3
  FAULTS = 1
  MaxFlush <- Once
  Stopping = {i1}
SPECIFICATION ServerFairSpec
INVARIANT CleanExitDrains
PROPERTIES ShutdownEnds DeadPeersLeave DeliveryEnds
CHECK_DEADLOCK FALSE
