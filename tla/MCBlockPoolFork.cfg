\* Two valid branches on genesis (b1 | b2 <- b3): does the height index
\* stay a chain when the blocks of both branches arrive?
CONSTANTS
    g = g  b1 = b1  b2 = b2  b3 = b3  b4 = b4  b5 = b5  b6 = b6  b7 = b7
    Genesis = g
    Blocks = {b1, b2, b3}
    Parent <- MCForkParent
    NoBlock = NoBlock
    IntegrityOK = {b1, b2, b3}
    Valid = {b1, b2, b3}
    CacheSize = 3
    ChunkSize = 1
    Peers = {peer}
    NoSender = NoSender
    MaxSyncTasks = 1
SPECIFICATION Spec
INVARIANT CanonicalIndexIsChain
