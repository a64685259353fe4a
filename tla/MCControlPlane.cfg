SPECIFICATION ControlSpec
CONSTANTS
    MaxAttempts = 2
    MaxTries = 2
    MaxCalls = 2
VIEW ControlView
INVARIANTS ControlTypeOK NoBlindRetry NoStalePromotion
PROPERTIES DeploymentImplemented
CHECK_DEADLOCK FALSE
