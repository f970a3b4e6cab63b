SPECIFICATION SFairSpec
CONSTANTS
  MaxClients = 2
  MaxMissed = 1
  UCharMod = 2
  Names = {"q1", "q2"}
  Queues = {k1, k2}
  NoQueue = NoQueue
  Filters = {"/a"}
  Matching <- Pairs
  Requests <- ClientRequests
  OpenMayFail = FALSE
  CtrlMax = 1
  QueueMax = 1
  MaxTopics = 1
  Calls = {"cleanup", "unsubscribe"}
  Prios = {0}
PROPERTY CleanupReturns
CHECK_DEADLOCK FALSE
