SPECIFICATION PFairSpec
CONSTANTS
  MaxClients = 2
  MaxMissed = 1
  UCharMod = 2
  Names = {"s", "p"}
  Queues = {k1, k2}
  NoQueue = NoQueue
  Filters = {"/a", "/+"}
  Matching <- Pairs
  Requests <- ClientRequests
  OpenMayFail = FALSE
  CtrlMax = 1
  QueueMax = 1
  MaxTopics = 2
  Calls = {"subscribe", "ioctl", "publish", "receive", "cleanup", "unlink"}
  Prios = {0}
  Subs = {"s"}
  Lines <- OneTopic
  Publishes <- OneMessage
  MaxRuns = 1
PROPERTIES RunsThrough
CHECK_DEADLOCK FALSE
