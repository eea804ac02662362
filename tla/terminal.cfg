CONSTANTS
    Tabs = {t1, t2}
    MaxChannels = 3
    Panes = {p1, p2}
    Home = p1
    MaxAsked = 1
    MaxTold = 1
    MaxFaults = 1
    None = None
    t1 = t1
    t2 = t2
    p1 = p1
    p2 = p2
SPECIFICATION Spec
SYMMETRY TabSymmetry
INVARIANTS OneWriter RoleIsTold GhostIsLeaving
CHECK_DEADLOCK FALSE
