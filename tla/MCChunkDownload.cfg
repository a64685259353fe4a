SPECIFICATION FairSpec
CONSTANTS
    Chunks = {c1, c2, c3}
    Active = {c1}
    Size = 2
    MaxAttempts = 3
    Parallel = 2
    MaxFaults = 3
INVARIANTS TypeOK FetchedIsRight
PROPERTIES Completes
CHECK_DEADLOCK FALSE
