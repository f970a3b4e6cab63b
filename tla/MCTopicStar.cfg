SPECIFICATION Spec
CONSTANTS
  Parts = {"a", "b", "*"}
  MaxParts = 3
INVARIANT StarInsideIsOrdinary
CHECK_DEADLOCK FALSE
