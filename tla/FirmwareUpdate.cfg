SPECIFICATION Spec
CONSTANTS
    Tasks = {t1, t2}
    Families = {"rp2040"}
    Files <- MCFilesOneFamily
    Unknown = "unknown"
    Worker = Worker
    Free = Free
    Blocks = 2
    QueueLength = 1
    MaxPlugs = 2
SYMMETRY Symmetry
INVARIANTS OneOperation StagedStable DriveStays WaiterNotMissed StatusTruthful PauseHasReason NothingLeft
