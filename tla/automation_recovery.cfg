CONSTANTS
    MaxWakes = 1
    MaxRequests = 1
    MaxRuns = 2
    MaxSessions = 1
    Items = {i1}
    Policies = {"coalesce_if_active"}
    Repos = {TRUE}
    Outcomes = {"succeeded", "failed", "blocked"}
    Ends = {"done", "error"}
    Concurrency = 2
    MaxParallel = 1
    MaxWaits = 1
    MaxStalls = 1
    MaxRequeues = 1
    MaxFaults = 1
    None = None
    i1 = i1
SPECIFICATION FairSpec
INVARIANTS ClaimKept ReportedIsOver
PROPERTIES OrphanRecovered OverIsSettled
CHECK_DEADLOCK FALSE
