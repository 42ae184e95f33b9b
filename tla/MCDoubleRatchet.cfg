CONSTANTS
  Initiator = alice
  Responder = bob
  Null = Null
  MAX_SKIP_KEYS = 1
  MaxSent = 4
  MaxDup = 1
SPECIFICATION Spec
INVARIANTS TypeInv SendingChainKnown NoKeyReuse AtMostOnce ForwardSecrecy KeysSpentOnce
PROPERTIES ImplementsChannel GapsTolerated
CHECK_DEADLOCK FALSE
