SPECIFICATION FairSpec
CONSTANTS
    Keys = {k1, k2}
    First = k1
    k1 = k1
    Requests = {r1, r2}
    Slow = {r1}
    MaxMade = 2
    MaxFaults = 1
    None = None
INVARIANTS TypeOK SavedIsKept MergedAsConfirmed MergeTakesEverySave
PROPERTIES BegunIsSettled
CHECK_DEADLOCK FALSE
