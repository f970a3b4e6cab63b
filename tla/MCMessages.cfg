SPECIFICATION MSpec
CONSTANTS
  Parts = {"", "a", "b", "+", "*"}
  MaxParts = 3
  MsgMax = 7
  MaxTopic = 7
  MaxPayload = 6
  MaxInput = 7
INVARIANTS
  MatchesAsDocumented
  GeneralisingLosesNothing
  PublishArrives
  RequestsArrive
  LinesArrive
  StreamArrives
  PrintedAsSent
CHECK_DEADLOCK FALSE
