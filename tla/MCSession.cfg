CONSTANTS
  t1 = t1
  t2 = t2
  t3 = t3
  None = None
  Text = {t1, t2}
  SENDS = 1
  HANDLERS = 2
  COPIES = 2
  MaxTroubles = 3
SPECIFICATION FairSpec
INVARIANTS TypeInv NumbersOnceIfSaved OneSessionIfSaved ShownOnceIfSaved CanEstablishAtFirst
PROPERTY TextsRead
CHECK_DEADLOCK FALSE
