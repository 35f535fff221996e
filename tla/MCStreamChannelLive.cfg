SPECIFICATION FairSpec
CONSTANTS
    MaxBufs = 1
    MinBufs4Enfill = 0
    BufSize = 2
    MaxRecvBufs = 2
    MaxOut = 3
    ChunkSizes = {1, 2}
    MaxIn = 1
    SndCap = 1
    Granulas = {0, 1}
    Shutdowns = {{"out"}}
PROPERTIES
    SentEventually ReceivedEventually EofEventuallyCloses ConnectResolves
CHECK_DEADLOCK FALSE
