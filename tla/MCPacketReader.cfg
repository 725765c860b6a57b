SPECIFICATION Spec
CONSTANTS
  ToServer <- SentToServer
  ToClient <- SentToClient
  Followers <- Second
  PacketLimits = {0, 8, 256}
  PropsLimits = {0, 8, 256}
  Reasons = {0, 129}
INVARIANTS NeverRefused BoundaryKept Counted
PROPERTIES ImplementsChannel
CHECK_DEADLOCK FALSE
