CONSTANTS
  f = f
  ann = ann
  kim = kim
  x = x
  y = y
  alice = alice
  bob = bob
  e1 = e1
  Hook = {f, ann, kim}
  Client = {ann, kim}
  Browser = {x, y}
  Home <- Places
  User = {alice, bob}
  Visitor <- First
  MaxRuns = 3
  Envelope = {e1}
SPECIFICATION Spec
INVARIANTS TypeInv OneIdentity EnvelopesOpen
CHECK_DEADLOCK FALSE
