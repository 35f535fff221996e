SPECIFICATION Spec
CONSTANTS
    MaxBufs = 2
    MinBufs4Enfill = 1
    BufSize = 2
    MaxRecvBufs = 2
    MaxOut = 1
    ChunkSizes = {1, 2}
    MaxIn = 2
    SndCap = 1
    Granulas = {0, 2}
    Shutdowns = {}
PROPERTIES ZeroReadMeansEnd
CHECK_DEADLOCK FALSE
