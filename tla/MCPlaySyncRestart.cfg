CONSTANTS
    Sessions = {s1}
    Refused = {}
    Credentials = {c1, c2}
    NoCredential = NoCredential
    MaxRevision = 3
    MaxStarts = 3
    MaxRequests = 2
SPECIFICATION Spec
SYMMETRY Interchangeable
INVARIANTS
    TypeOK
    DeletedStaysDeleted
    AcknowledgedIsStored
    NoSessionConflict
PROPERTY OnlyAgreedSent
CHECK_DEADLOCK FALSE
