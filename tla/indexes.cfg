SPECIFICATION Spec
CONSTANTS
    x = x
    y = y
    z = z
    Fp <- MCFp
    Files <- MCFiles
    Kinds <- MCKinds
    ChunkSize <- MCChunkSize
    HashVal <- MCHashVal
    Hooks <- MCHooks
    MIN_SEGMENT_SIZE = 3
    MAX_SEGMENT_SIZE = 4
    MaxSegmentChunkNum = 3
    DIVISOR = 3
    PATTERN = 1
    SPARSE_CHAMPION_NUM = 2
    SPARSE_MANIFIEST_CAP_NUM = 2
    SendChunkBatchSize = 2
    TopKParam = 1
    None = None
    MaxBoot = 3
    MaxUpload = 3
    MaxFault = 2
INVARIANTS
    RestorableAcrossRestarts
    IndexClosed
    SegmentWithinBuffer
PROPERTIES
    ReuploadStoresNothing
CHECK_DEADLOCK FALSE
