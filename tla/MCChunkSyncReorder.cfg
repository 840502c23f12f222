\* Chunk sync with no gossip, one block per chunk and up to three chunks
\* per request: chunk data may be processed in any order.
CONSTANTS
    g = g  b1 = b1  b2 = b2  b3 = b3  b4 = b4  b5 = b5  b6 = b6
    Genesis = g
    Blocks = {b1, b2, b3, b4, b5, b6}
    Parent <- MCLine
    NoBlock = NoBlock
    IntegrityOK = {b1, b2, b3, b4, b5, b6}
    Valid = {b1, b2, b3, b4, b5, b6}
    CacheSize = 3
    ChunkSize = 1
    Peers = {}
    NoSender = NoSender
    MaxSyncTasks = 1
    MaxChunkPerSyncRequest = 3
    Width = 8
    StartHeight = 1
SPECIFICATION FairChunkSpec
PROPERTY SyncReachesGossipRange
