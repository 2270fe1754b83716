SPECIFICATION Spec
CONSTANTS
    Tasks = {t1, t2}
    Families = {"rp2040", "rp2350"}
    Files <- MCFiles
    Unknown = "unknown"
    Worker = Worker
    Free = Free
    Blocks = 2
    QueueLength = 2
    MaxPlugs = 1
INVARIANTS NukeReenumerates
