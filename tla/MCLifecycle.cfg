SPECIFICATION Spec
CONSTANTS
  Daemons = {d1, d2}
  Sessions = {c1, c2}
  None = None
  Left = Left
  LeftNames <- LeftDef
  Args <- AllArgs
  BrokerNames <- Names
  DefaultName = "/psmqd"
  MaxClients = 2
  ControlMax = 1
  MqMsgMax = 10
  IntMax = 20
  Tries = 2
SYMMETRY Symmetry
INVARIANTS TypeOK NameIsServed NoLeftover QueueIsOurs SlotIsOurs StopsSoon
CHECK_DEADLOCK FALSE
