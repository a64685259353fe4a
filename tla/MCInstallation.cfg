CONSTANTS
    MaxVersion = 2
    MaxCopies = 8
    Versions <- MCVersions
    NoVersion = NoVersion
    Copies <- MCCopies
    NoCopy <- MCNoCopy
    Kinds = {"download", "import"}
SPECIFICATION Spec
VIEW InstallationView
INVARIANTS
    TypeOK
    CommittedReleaseKept
    PreviousReleaseKept
PROPERTIES
    RootImplemented
