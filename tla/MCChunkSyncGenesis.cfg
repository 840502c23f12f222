\* A requester still at genesis asks a responder at height 6 for chunks.
CONSTANTS
    g = g  b1 = b1  b2 = b2  b3 = b3  b4 = b4  b5 = b5  b6 = b6
    Genesis = g
    Blocks = {b1, b2, b3, b4, b5, b6}
    Parent <- MCLine
    NoBlock = NoBlock
    IntegrityOK = {b1, b2, b3, b4, b5, b6}
    Valid = {b1, b2, b3, b4, b5, b6}
    CacheSize = 3
    ChunkSize = 2
    Peers = {}
    NoSender = NoSender
    MaxSyncTasks = 1
    MaxChunkPerSyncRequest = 2
    Width = 8
    StartHeight = 0
SPECIFICATION ChunkSpec
INVARIANT HeadersCoverGap
