CONSTANTS
    Requesters = {connect, web}
    NoOne = noone
    Kinds <- MCKinds
    MaxRequests = 3
SPECIFICATION Spec
\* The model ends when the requests are made and the last device has gone.
CHECK_DEADLOCK FALSE
INVARIANTS
    OkIsNotLeftOver
    InfoCatchesUp
