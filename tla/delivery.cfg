SPECIFICATION Spec
CONSTANTS
  d1 = d1
  a1 = a1
  v1 = v1
  None = None
  Cmds = {a1, v1}
  Durable = {a1}
  OneWay = {a1}
  MaxSockets = 2
  MaxHellos = 2
  MaxRestarts = 1
  MaxLoad = 3
INVARIANTS SentAtMostOnce RefusedNeverSent NeverStranded
PROPERTIES SettledStays OnlyRequeuesStrand
CONSTRAINT WithinLoad
CHECK_DEADLOCK FALSE
