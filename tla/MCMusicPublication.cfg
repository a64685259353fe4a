SPECIFICATION FairSpec
CONSTANTS
    Tracks = {t1, t2}
    Handlers = {h1, h2}
    PublicAtFirst = {t1}
    MaxOps = 2
    MaxEdits = 1
    MaxFaults = 1
    Off = Off
    None = None
INVARIANTS TypeOK LiveIsConfirmed
PROPERTIES OthersKept LandedIsConfirmed
