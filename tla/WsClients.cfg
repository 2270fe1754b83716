SPECIFICATION Spec
CONSTANTS
    Slots = {0}
    Fds = {f1, f2}
    NoFd = NoFd
    Touch = Touch
    Capacity = 2
    MaxChunk = 2
    MaxPop = 2
    MaxBytes = 3
    MaxGenerations = 2
INVARIANTS DeliveredInOrder BytesAccounted CaptureFollowsClients
PROPERTIES FrameStaysPut StreamDrains
