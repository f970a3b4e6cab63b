SPECIFICATION Spec
CONSTANTS
  Daemons = {d1}
  Sessions = {c1, c2, c3}
  None = None
  Left = Left
  LeftNames <- NoneLeft
  Args <- OneArgs
  BrokerNames <- Names
  DefaultName = "/psmqd"
  MaxClients = 2
  ControlMax = 1
  MqMsgMax = 10
  IntMax = 20
  Tries = 2
CHECK_DEADLOCK FALSE
PROPERTIES NoSpaceMeansFull
