SPECIFICATION FairSpec
CONSTANTS
    a = a
    b = b
    nothing = nothing
    MaxFile = 10
    Byte <- MCByte
    Inputs <- MCInputs
    minChunkSize = 1
    avgChunkSize = 4
    maxChunkSize = 5
    readSize = 6
    GEAR <- MCGEAR
    UintMod = 16
    LineSize <- MCLineSize
    EmptyLine = nothing
    SendChunkBatchSize = 2
    QueueSize = 2
INVARIANTS
    UploadFaithful
PROPERTIES
    UploadEnds
CHECK_DEADLOCK FALSE
