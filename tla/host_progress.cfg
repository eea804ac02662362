SPECIFICATION BatcherFairSpec
CONSTANTS
  MaxSeq = 3
  MaxFailures = 2
  MaxCloses = 2
  MaxRestarts = 1
  MaxWaiters = 2
INVARIANTS ProgressKept NeverStranded
PROPERTIES BatcherImplementsCursor EventuallyPersisted
CHECK_DEADLOCK FALSE
