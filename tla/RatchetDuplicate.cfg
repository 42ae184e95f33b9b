CONSTANTS
  Initiator = alice
  Responder = bob
  Null = Null
  MAX_SKIP_KEYS = 2
  MaxSent = 3
  MaxDup = 2
SPECIFICATION Spec
PROPERTY OutOfOrderTolerated
CHECK_DEADLOCK FALSE
