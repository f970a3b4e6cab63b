SPECIFICATION Spec
CONSTANTS
  MaxClients = 2
  MaxMissed = 2
  UCharMod = 3
  Names = {"q1"}
  Queues = {k1}
  NoQueue = NoQueue
  Filters <- FiltersDef
  Matching <- Pairs
  Requests <- FanOutRequests
  OpenMayFail = TRUE
  CtrlMax = 1
  QueueMax = 1
  MaxTopics = 2
INVARIANTS
  PublishedOnce
  PublishReachesAll
PROPERTIES
  EvictedIsTold
  PubSubSpec
SYMMETRY Symmetry
CHECK_DEADLOCK FALSE
