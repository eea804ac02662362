CONSTANTS
    MaxPanes = 2
    None = None
    MaxSessions = 2
    MaxQueue = 2
    MaxMoves = 3
    Unused = Unused
    Closed = Closed
    Killed = Killed
    Gone = Gone
    Kept = Kept
SPECIFICATION FairSpec
INVARIANTS LiveIsComing
PROPERTIES ListComesRight
