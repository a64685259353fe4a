SPECIFICATION Spec
CONSTANTS
    Addresses = {old, new, other}
    Original = old
    Workers = {w1, w2}
    MaxAttempts = 2
    MaxRequests = 2
    MaxLinks = 2
SYMMETRY Interchangeable
INVARIANTS TypeOK DeadLinkErased
PROPERTIES ChangedIsVerified AskedOnce SettledIsFinal
CHECK_DEADLOCK FALSE
