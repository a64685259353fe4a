SPECIFICATION Spec
CONSTANTS
    a = a
    b = b
    c = c
    Games = {g1, g2}
    Versions = {1, 2, 3}
    Chunks = {a, b, c}
    Content <- Contents
    Rollback = TRUE
    MaxUploads = 4
    MaxCleanups = 2
SYMMETRY Interchangeable
INVARIANT TypeOK
INVARIANT LatestComplete
PROPERTY RollbackTargetKept
CHECK_DEADLOCK FALSE
