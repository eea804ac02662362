CONSTANTS
    Requests = {a1, a2}
    Operators = {o1, o2}
    MaxFaults = 1
    None = None
    a1 = a1
    a2 = a2
SPECIFICATION FairSpec
INVARIANTS AtMostOnePending
PROPERTIES ImplementsVerdict RequestedIsOffered EventuallySettled
CHECK_DEADLOCK FALSE
