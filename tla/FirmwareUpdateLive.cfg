SPECIFICATION Spec
CONSTANTS
    Tasks = {t1}
    Families = {"rp2040", "rp2350"}
    Files <- MCFiles
    Unknown = "unknown"
    Worker = Worker
    Free = Free
    Blocks = 2
    QueueLength = 2
    MaxPlugs = 1
PROPERTIES OperationsEnd DepartureNoticed
