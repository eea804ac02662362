SPECIFICATION Spec
CONSTANTS
  MaxId = 3
  MaxVolatile = 0
  MaxFaults = 1
  Faults = {"drop", "handler", "agent", "server"}
  QueueCap = 2
  AuthBuffer = 2
  Legacy = 1
INVARIANTS AckedMeansApplied NothingLost CursorBehindEffects
PROPERTIES ImplementsChannel
CHECK_DEADLOCK FALSE
