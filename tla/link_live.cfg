SPECIFICATION FairSpec
CONSTANTS
  MaxId = 1
  MaxVolatile = 1
  MaxFaults = 1
  Faults = {"drop", "handler", "agent", "server"}
  QueueCap = 2
  AuthBuffer = 3
  Legacy = 0
INVARIANTS CounterAboveLocal
PROPERTIES ImplementsCursor EventuallyApplied QueueDrains
CHECK_DEADLOCK FALSE
