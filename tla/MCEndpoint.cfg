SPECIFICATION Spec
CHECK_DEADLOCK FALSE
CONSTANTS
  a1 = a1
  b1 = b1
  c2 = c2
  d2 = d2
  x2 = x2
  y2 = y2
  z1 = z1
  NoMsg = NoMsg
  Msgs = {a1, b1, c2}
  InMsgs = {x2, y2}
  Qos <- Levels
  MaxId = 3
  CleanSession = FALSE
  PublishIn = {"down", "up"}
  SubscribeIn = {"up"}
  MaxSubs = 0
  MaxBreaks = 2
SYMMETRY Symmetric
INVARIANTS
  IdsAreUnique
  StoredUntilConfirmed
  ExactlyOnce
  OrderKept
  AckedIsHanded
