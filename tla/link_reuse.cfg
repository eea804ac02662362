SPECIFICATION Spec
CONSTANTS
  MaxId = 1
  MaxVolatile = 1
  MaxFaults = 1
  Faults = {"agent"}
  QueueCap = 2
  AuthBuffer = 4
  Legacy = 0
INVARIANTS NotLossy
CHECK_DEADLOCK FALSE
