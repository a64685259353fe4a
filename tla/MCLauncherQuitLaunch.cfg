CONSTANTS
    MaxVersion = 2
    Versions <- MCVersions
    NoVersion = NoVersion
    Operations = {"install", "launch"}
    MaxPending = 1
    MaxStarts = 1
SPECIFICATION FairSpec
PROPERTIES
    QuitTerminates
CHECK_DEADLOCK FALSE
