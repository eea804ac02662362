CONSTANTS
    MaxWakes = 3
    MaxRequests = 2
    MaxRuns = 2
    MaxSessions = 1
    Items = {i1}
    Policies = {"coalesce_if_active", "skip_if_active"}
    Repos = {FALSE}
    Outcomes = {"succeeded"}
    Ends = {"done"}
    Concurrency = 2
    MaxParallel = 1
    MaxWaits = 0
    MaxStalls = 0
    MaxRequeues = 0
    MaxFaults = 0
    None = None
    i1 = i1
SPECIFICATION Spec
PROPERTIES ReportWins
CHECK_DEADLOCK FALSE
