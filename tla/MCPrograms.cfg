SPECIFICATION PSpec
CONSTANTS
  MaxClients = 2
  MaxMissed = 1
  UCharMod = 2
  Names = {"s", "p"}
  Queues = {k1, k2, k3}
  NoQueue = NoQueue
  Filters = {"/a", "/+"}
  Matching <- Pairs
  Requests <- ClientRequests
  OpenMayFail = TRUE
  CtrlMax = 1
  QueueMax = 1
  MaxTopics = 2
  Calls = {"subscribe", "ioctl", "publish", "receive", "cleanup", "unlink", "crash", "timeout", "signal"}
  Prios = {0}
  Subs = {"s"}
  Lines <- AnyLine
  Publishes <- OneMessage
  MaxRuns = 1
INVARIANTS
  PTypeOK
  OnlyWhatWasAsked
  FirstAnswerFirst
  SubStopsSoon
  SlotsComeBack
SYMMETRY Symmetry
CHECK_DEADLOCK FALSE
