SPECIFICATION Spec
CONSTANTS
    MaxBufs = 1
    MinBufs4Enfill = 0
    BufSize = 2
    MaxRecvBufs = 2
    MaxOut = 4
    ChunkSizes = {1, 2}
    MaxIn = 2
    SndCap = 2
    Granulas = {0, 1, 4}
    Shutdowns = {{"in"}, {"out"}, {"in", "out"}}
INVARIANTS
    ClosedOnce NoLostWriteEdge NoLostReadEdge
    ReportedIsWired IInv
PROPERTIES
    NoGapOnWire SilentAfterClosed EofDeliversAll ImplementsByteStream
CHECK_DEADLOCK FALSE
