SPECIFICATION SSpec
CONSTANTS
  MaxClients = 2
  MaxMissed = 2
  UCharMod = 3
  Names = {q1, q2}
  Queues = {k1, k2}
  NoQueue = NoQueue
  Filters = {"/a"}
  Matching <- Pairs
  Requests <- ClientRequests
  OpenMayFail = FALSE
  CtrlMax = 1
  QueueMax = 1
  MaxTopics = 1
  Calls = {"ioctl", "cleanup", "unsubscribe"}
  Prios = {0}
INVARIANT NeverWaitsUnasked
CHECK_DEADLOCK FALSE
