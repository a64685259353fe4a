CONSTANTS
    Sessions = {s1, s2}
    Refused = {s2}
    Credentials = {c1}
    NoCredential = NoCredential
    MaxRevision = 2
    MaxStarts = 1
    MaxRequests = 1
SPECIFICATION FairSpec
PROPERTIES
    Delivered
CHECK_DEADLOCK FALSE
