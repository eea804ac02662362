SPECIFICATION FairSpec
CONSTANTS
  Sockets = {i1, i2}
  i1 = i1
  i2 = i2
  Values <- SomeValues
  Writers = {"agent", "route"}
  MaxMoves = 2
  MaxAsks = 1
  MaxUnread = 1
  None = None
INVARIANTS OneSocket NeverGivesUp
 
CHECK_DEADLOCK FALSE
