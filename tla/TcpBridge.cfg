CONSTANTS
    Capacity = 2
    SubnegMax = 4
    ProbeSize = 3
    MaxPop = 2
    MaxTransfer = 1
    BaudDefault = 115200
    Worlds <- MCWorlds
    Signature <- MCSignature
    Texts <- MCTexts
    Requests <- MCRequests
    Lines <- MCLines
SPECIFICATION Spec
\* The model ends when no client, no device and nothing on the way is left.
CHECK_DEADLOCK FALSE
INVARIANTS
    BytesAccounted
    NewDeviceNewBytes
    OwnSession
    SplitNeverMatters
    RoundTrip
    AnswersAreRequests
PROPERTIES
    RingsAreFifos
    ClosedIsNoticed
