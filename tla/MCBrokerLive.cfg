SPECIFICATION FairSpec
CONSTANTS
  MaxClients = 2
  MaxMissed = 2
  UCharMod = 4
  Names = {"q1"}
  Queues = {k1}
  NoQueue = NoQueue
  Filters <- FiltersDef
  Matching <- Pairs
  Requests <- RefusedRequests
  OpenMayFail = TRUE
  CtrlMax = 1
  QueueMax = 1
  MaxTopics = 1
INVARIANTS
  TypeOK
  DescriptorsBalanced
  NothingHeldAtExit
PROPERTIES
  ShutdownCompletes
  AlwaysBack
CHECK_DEADLOCK FALSE
