SPECIFICATION FairSpec
CONSTANTS
    c1 = c1
    c2 = c2
    x = x
    y = y
    z = z
    Fp = {x, y, z}
    Row <- MCRow
    Width = 2
    Pos <- MCPos
    Client = {c1}
    MULTI_CLIENT = FALSE
    TopThreshold = 2
    SendRecipeBatchSize = 2
    MaxContainerSize = 9
    BlockSize = 2
    ChunkLen <- MCChunkLen
    QueueSize = 2
    Batches <- MCBatches1
    NoAddr = NoAddr
    NoOwner = NoOwner
    MaxReceived = 7
    MaxSession = 2
    MaxAbort = 0
INVARIANTS
    TypeOK
    RestorableAtRest
    LowFreqNotInHeap
    StoredOnce
    SlotsDisjoint
PROPERTIES
    NeverStuck
