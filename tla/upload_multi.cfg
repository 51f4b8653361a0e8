SPECIFICATION Spec
CONSTANTS
    c1 = c1
    c2 = c2
    x = x
    y = y
    z = z
    Fp = {x, y, z}
    Row <- MCRow
    Width = 2
    Pos <- MCPos
    Client = {c1, c2}
    MULTI_CLIENT = TRUE
    TopThreshold = 2
    SendRecipeBatchSize = 2
    MaxContainerSize = 9
    BlockSize = 2
    ChunkLen <- MCChunkLen
    QueueSize = 1
    Batches <- MCBatches2
    NoAddr = NoAddr
    NoOwner = NoOwner
    MaxReceived = 4
    MaxSession = 2
    MaxAbort = 1
INVARIANTS
    AddrCorrect
    NothingLost
    HeapBacked
    HeapWithinEstimate
    NeverUnderestimates
