\* Block admission under fair gossip: orphans, eviction, a block failing
\* VerifyExecution and one failing VerifyIntegrity, relayed blocks far
\* above a missing parent starting an active sync.
CONSTANTS
    g = g  b1 = b1  b2 = b2  b3 = b3  b4 = b4  b5 = b5  b6 = b6  b7 = b7
    Genesis = g
    Blocks = {b1, b2, b3, b4, b5, b6, b7}
    Parent <- MCParent
    NoBlock = NoBlock
    IntegrityOK = {b1, b2, b3, b4, b5, b6}
    Valid = {b1, b2, b3, b4, b6, b7}
    CacheSize = 3
    ChunkSize = 1
    Peers = {peer}
    NoSender = NoSender
    MaxSyncTasks = 1
SPECIFICATION FairSpec
INVARIANT TypeOK
INVARIANT StoredChainVerified
INVARIANT OrphanLinksExact
INVARIANT NoStrandedOrphan
INVARIANT DetachedTailsAreLeaves
PROPERTY MiningEventuallyResumed
PROPERTY EventuallyAllStored
