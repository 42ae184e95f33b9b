CONSTANTS
  t1 = t1
  t2 = t2
  t3 = t3
  None = None
  Text = {t1, t2, t3}
  SENDS = 2
  HANDLERS = 1
  COPIES = 1
  MaxTroubles = 1
SPECIFICATION Spec
INVARIANT NumbersOnce
CHECK_DEADLOCK FALSE
