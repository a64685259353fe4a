CONSTANTS
    MaxVersion = 2
    Versions <- MCVersions
    NoVersion = NoVersion
    Operations = {"install", "locate", "media", "launch", "repair", "uninstall"}
    MaxPending = 2
    MaxStarts = 2
SPECIFICATION FairSpec
INVARIANTS
    TypeOK
    NoUpdateWhileRunning
    RecordAgrees
PROPERTIES
    BelievedReleaseSpared
    OperationEnds
    OnlyLaunchBlocksQuit
CHECK_DEADLOCK FALSE
