SPECIFICATION Spec
CONSTANTS
    MaxBufs = 2
    MinBufs4Enfill = 1
    BufSize = 2
    MaxRecvBufs = 2
    MaxOut = 1
    ChunkSizes = {1, 2}
    MaxIn = 1
    SndCap = 1
    Granulas = {0, 1}
    Shutdowns = {{"in"}}
INVARIANTS CalledOnlyConnected
CHECK_DEADLOCK FALSE
