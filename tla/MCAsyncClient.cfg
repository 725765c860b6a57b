SPECIFICATION FairSpec
CHECK_DEADLOCK FALSE
CONSTANTS
  MaxConns = 2
  MaxPubs = 2
  MaxDrops = 1
  MaxDisconnects = 1
  MaxReady = 1
  MaxPings = 1
  Size <- Sizes
  SmallSize = 1
  MaxCount = 2
  MaxSize = 2
INVARIANTS
  QueueIsServed
  EndReportedOnce
  SentInOrder
PROPERTIES
  HandlersCalled
  EndIsReported
  SilenceIsNoticed
  DisconnectEnds
