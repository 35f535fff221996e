SPECIFICATION FairSpec
CONSTANTS
    MaxBufs = 1
    MinBufs4Enfill = 1
    BufSize = 2
    MaxRecvBufs = 2
    MaxOut = 3
    ChunkSizes = {1, 2}
    MaxIn = 0
    SndCap = 3
    Granulas = {0}
    Shutdowns = {}
PROPERTIES AllSentEventually
CHECK_DEADLOCK FALSE
