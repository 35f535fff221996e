SPECIFICATION Spec
CONSTANTS
    MaxBufs = 3
    MinBufs4Enfill = 1
    MaxBytes = 7
    ChunkSizes = {1, 2, 3}
    BufSize = 3
    MaxRecvBufs = 3
    MaxGranula = 10
INVARIANTS
    IovecIsPrefix EmptyMeansSent DetachFindsTheData LimitIsExact
