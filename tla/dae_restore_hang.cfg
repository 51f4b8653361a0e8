SPECIFICATION FairSpec
CONSTANTS
    c1 = c1
    c2 = c2
    a = a
    b = b
    NoFile = NoFile
    Garbage = Garbage
    Client = {c1, c2}
    Chunk = {a, b}
    Deployments <- MCExactGroup
    sendChunkBatchSize = 2
    sendRecipeBatchSize = 2
    MAX_CONTAINER_SIZE = 2
    CONTAINER_CAPPING_VALUE = 2
    CONTAINER_QUEUE_SIZE = 1
    Row = {1, 2}
    SKETCH_WIDTH = 2
    ShortHash <- MCShortHash
    t = 2
PROPERTIES
    RestoresEnd
CHECK_DEADLOCK FALSE
