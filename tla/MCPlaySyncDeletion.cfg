CONSTANTS
    Sessions = {s1}
    Refused = {}
    Credentials = {c1}
    NoCredential = NoCredential
    MaxRevision = 2
    MaxStarts = 1
    MaxRequests = 1
SPECIFICATION Spec
INVARIANT DeletionAnswerable
CHECK_DEADLOCK FALSE
