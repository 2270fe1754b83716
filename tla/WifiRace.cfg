SPECIFICATION Spec
CONSTANTS
    MaxTasks = 2
    MaxFaults = 0
    RetryThreshold = 2
    Requests = {"setup"}
    MaxRequests = 2
\* With all its requests made and nothing lost the bridge waits for ever.
CHECK_DEADLOCK FALSE

INVARIANTS SetupHasAp
