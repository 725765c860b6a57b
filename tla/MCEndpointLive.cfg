SPECIFICATION FairSpec
CHECK_DEADLOCK FALSE
CONSTANTS
  a1 = a1
  b1 = b1
  c2 = c2
  d2 = d2
  x2 = x2
  y2 = y2
  z1 = z1
  NoMsg = NoMsg
  Msgs = {a1, c2}
  InMsgs = {x2, y2}
  Qos <- Levels
  MaxId = 2
  CleanSession = FALSE
  PublishIn = {"down", "up"}
  SubscribeIn = {"up"}
  MaxSubs = 1
  MaxBreaks = 1
INVARIANTS
  IdsAreUnique
PROPERTIES
  Delivered
  Received
  AllReleased
