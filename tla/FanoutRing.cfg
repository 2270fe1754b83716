SPECIFICATION Spec
CONSTANTS
    Clients = {c0, c1}
    Capacity = 3
    MaxChunk = 4
    MaxPop = 2
    MaxBytes = 5
SYMMETRY Symmetry
INVARIANTS UnreadIntact EveryByteAccounted StreamInOrder
PROPERTIES ImplementsLossyStream
