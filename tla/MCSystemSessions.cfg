SPECIFICATION SSpec
CONSTANTS
  MaxClients = 2
  MaxMissed = 2
  UCharMod = 3
  Names = {q1, q2}
  Queues = {k1, k2, k3}
  NoQueue = NoQueue
  Filters = {"/a"}
  Matching <- Pairs
  Requests <- ClientRequests
  OpenMayFail = TRUE
  CtrlMax = 1
  QueueMax = 1
  MaxTopics = 1
  Calls = {"cleanup", "unlink", "crash", "timeout", "signal"}
  Prios = {0}
INVARIANTS
  STypeOK
  SessionIsolated
SYMMETRY Symmetry
CHECK_DEADLOCK FALSE
