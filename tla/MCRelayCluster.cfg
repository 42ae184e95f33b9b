CONSTANTS
  a = a
  b = b
  i1 = i1
  i2 = i2
  snd = snd
  r1 = r1
  r2 = r2
  NoKey = NoKey
  NoSocket = NoSocket
  Key = {a, b}
  Instance = {i1, i2}
  Socket = {snd, r1, r2}
  Msg = {m1}
  Ephemeral = {}
  Home <- TwoHomes
  Wants <- OneKey
  To <- ToB
  REDIS = TRUE
  MAX_CONNECTIONS = 3
  FAULTS = 1
  MaxFlush <- Once
SPECIFICATION Spec
INVARIANTS TypeOK DuplicatesBounded
CHECK_DEADLOCK FALSE
