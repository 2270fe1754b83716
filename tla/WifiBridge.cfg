SPECIFICATION Spec
CONSTANTS
    MaxTasks = 3
    MaxFaults = 1
    RetryThreshold = 2
    Requests = {"setup", "save", "restart"}
    MaxRequests = 2
\* With all its requests made and nothing lost the bridge waits for ever.
CHECK_DEADLOCK FALSE

INVARIANTS StatusTruthful NeverStranded PortalOnItsOwn RunningMeansServed
PROPERTIES Reachable StoppedStops
