SPECIFICATION FairSpec
CONSTANTS
    a = a
    b = b
    c = c
    l = l
    x = x
    y = y
    z = z
    ContainerID = {a, b, c, l}
    Chunk = {x, y, z}
    NoChunk = NoChunk
    Body <- MCBody
    SlotNum = 2
    CacheSize = 2
    Lost = {l}
    Recipes <- MCRecipes
    Capping = 3
    SendRecipeBatchSize = 2
    SendChunkBatchSize = 3
    QueueSize = 1
    MayStop = {2, 3, 4}
INVARIANTS
    CacheSound
    RecoversRight
    Conservation
    HeadFirst
    BuffersBounded
PROPERTIES
    ImplementsFileRestore
    RestoreEnds
    IntactRestored
