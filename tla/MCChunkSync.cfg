\* A requester at height 1 syncs from a responder at height 6, two blocks
\* per chunk and up to two chunks per request, while a peer gossips blocks.
CONSTANTS
    g = g  b1 = b1  b2 = b2  b3 = b3  b4 = b4  b5 = b5  b6 = b6
    Genesis = g
    Blocks = {b1, b2, b3, b4, b5, b6}
    Parent <- MCLine
    NoBlock = NoBlock
    IntegrityOK = {b1, b2, b3, b4, b5, b6}
    Valid = {b1, b2, b3, b4, b5, b6}
    CacheSize = 3
    ChunkSize = 2
    Peers = {peer}
    NoSender = NoSender
    MaxSyncTasks = 1
    MaxChunkPerSyncRequest = 2
    Width = 8
    StartHeight = 1
SPECIFICATION ChunkSpec
INVARIANT ChunkTypeOK
INVARIANT ChunkHeadersContiguous
