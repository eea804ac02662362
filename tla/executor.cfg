SPECIFICATION FairSpec
CONSTANTS
  c1 = c1
  c2 = c2
  c3 = c3
  c4 = c4
  s1 = s1
  s2 = s2
  s3 = s3
  w1 = w1
  w2 = w2
  w3 = w3
  None = None
  Cmds <- MCCmds
  Keys <- MCKeys
  KeyOf <- MCKeyOf
  Workers <- MCWorkers
  MaxDuplicates = 1
INVARIANTS OneInFlightPerKey SessionOrder NoSecondResult NoLostWakeup CloseDrains
PROPERTIES EventuallyReported
CHECK_DEADLOCK FALSE
