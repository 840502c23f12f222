----------------------------- MODULE BlockPool ------------------------------
(***************************************************************************)
(* Block admission, core/block_pool.go: Push / PushAndBroadcast (local,   *)
(* sender = NoSender) and PushAndRelay (from a peer).  All of them take   *)
(* pool.mu and run push(), so one push is one atomic step.                 *)
(*                                                                         *)
(* The orphan cache is the hashicorp LRU of linkedBlocks: cache is its key *)
(* order, oldest first, and link[b] is b's parentBlock pointer (NoBlock    *)
(* when nil).  A linkedBlock's childBlocks map is the inverse of link: the *)
(* code keeps both sides together in LinkParent and Dispose, so children   *)
(* are derived.  Every removal from the LRU (eviction on Add, Remove)     *)
(* runs the eviction callback, Dispose.                                    *)
(*                                                                         *)
(* VerifyIntegrity (chain id, tx signatures, hash, consensus.VerifyBlock) *)
(* and VerifyExecution (state and txs roots after replay on a clone of    *)
(* the parent's state) depend only on the block and its parent, so their *)
(* outcomes are the constant sets IntegrityOK and Valid.                   *)
(***************************************************************************)
EXTENDS BlockChain, ActiveSync, Sequences, SequencesExt

CONSTANTS
    IntegrityOK,    \* blocks that pass VerifyIntegrity
    Valid,          \* blocks whose VerifyExecution succeeds on their parent
    CacheSize,      \* NewBlockPool(size): the LRU capacity (128 in the code)
    ChunkSize,      \* core.ChunkSize (32 in the code)
    Peers,          \* senders of relayed blocks
    NoSender        \* the local origin, "" in the code

ASSUME /\ IntegrityOK \subseteq Blocks /\ Valid \subseteq Blocks
       /\ CacheSize \in Nat \ {0} /\ ChunkSize \in Nat
       /\ NoSender \notin Peers

VARIABLES
    cache,      \* LRU key order of the orphan cache, oldest first
    link,       \* link[b]: the parentBlock of b's linkedBlock, or NoBlock
    requested   \* <<peer, block>>: ParentBlockDownloadRequests sent (downloadParent)

poolVars == <<cache, link, requested>>
vars == <<poolVars, chainVars, syncVars>>

Cached == ToSet(cache)

TypeOK ==
    /\ ChainTypeOK
    /\ SyncTypeOK
    /\ cache \in Seq(Blocks) /\ Len(cache) <= CacheSize
    /\ link \in [Blocks -> Blocks \cup {NoBlock}]
    /\ requested \subseteq Peers \X Blocks

Init ==
    /\ ChainInit
    /\ SyncInit
    /\ cache = <<>>
    /\ link = [b \in Blocks |-> NoBlock]
    /\ requested = {}

\* Mutation: the eviction callback only clears the block's own pointer.
Dispose_KeepsChildPointers(l, R) == [x \in Blocks |-> IF x \in R THEN NoBlock ELSE l[x]]

\* linkedBlock.Dispose, for every block of R leaving the cache: cut the
\* pointers from its children and its own pointer to its parent.
Dispose(l, R) == [x \in Blocks |-> IF x \in R \/ l[x] \in R THEN NoBlock ELSE l[x]]

\* Walking parentBlock pointers up from b: the top unlinked ancestor and
\* the number of pointers followed (the "gap" of push).
RECURSIVE RootOf(_, _)
RootOf(l, b) == IF l[b] = NoBlock THEN b ELSE RootOf(l, l[b])

RECURSIVE Gap(_, _)
Gap(l, b) == IF l[b] = NoBlock THEN 0 ELSE 1 + Gap(l, l[b])

\* linkedBlock.travelToLinkAndReturnAllValidBlocks: LinkParentBlock and
\* VerifyExecution on b, then depth first into its linked children; a
\* child that fails is dropped with its whole subtree, an error at b is
\* the caller's.  Returns the verified blocks ({} when b fails).
RECURSIVE Travel(_, _, _)

\* Mutation: a child's VerifyExecution error is ignored.
Travel_IgnoresChildErrors(l, S, b) ==
    {b} \cup UNION {Travel(l, S, c) : c \in {x \in S : l[x] = b}}

\* Mutation: the depth-first walk does not descend into linked children.
Travel_RootOnly(l, S, b) == IF b \in Valid THEN {b} ELSE {}

Travel(l, S, b) ==
    IF b \in Valid
    THEN {b} \cup UNION {Travel(l, S, c) : c \in {x \in S : l[x] = b}}
    ELSE {}

\* Mutation: every verified block is reported as a tail.
TailsOf_AllVerified(l, S, verified) == verified

\* The verified blocks that have no linked child: the tails of the batch.
TailsOf(l, S, verified) == {v \in verified : \A x \in S : l[x] # v}

\* Mutation: the LRU removes its oldest entry one Add too late.
Evicted_OffByOne(added) == IF Len(added) > CacheSize + 1 THEN {Head(added)} ELSE {}

\* lru.Cache.Add in push: adding to a full cache evicts the oldest key.
Evicted(added) == IF Len(added) > CacheSize THEN {Head(added)} ELSE {}

\* Mutation: the "find child block in pool" loop is left out.
LinkChildren_Skipped(l, C, b) == l

\* The "find child block in pool" loop of push: every cached block whose
\* parent hash is b's hash is linked to b.  (Its cache.Get calls touch the
\* keys in their LRU order, which leaves that order as it was.)
LinkChildren(l, C, b) == [x \in Blocks |-> IF x \in C /\ Parent[x] = b THEN b ELSE l[x]]

\* BlockPool.downloadParent: send sender a ParentBlockDownloadRequest
\* for b (its hash and signature).
DownloadParent(sender, b) == requested' = requested \cup {<<sender, b>>}

\* Block.VerifyIntegrity: chain id, each transaction's integrity, the hash
\* against calcHash and consensus.VerifyBlock.  Which blocks pass is the
\* constant IntegrityOK.
VerifyIntegrity(b) == b \in IntegrityOK

\* linkedBlock.LinkParent: b's parentBlock pointer is set to p (p's
\* childBlocks map is the inverse of the pointers).
LinkParent(l, b, p) == [l EXCEPT ![b] = p]

(***************************************************************************)
(* push(sender, b).  The first two disjuncts are the early returns        *)
(* ErrDuplicatedBlock and the VerifyIntegrity error; the rest insert b    *)
(* into the cache (evicting the oldest entry when full), link cached      *)
(* children to b, link b to a cached parent, and then decide on the root  *)
(* of b's cached ancestry.                                                 *)
(***************************************************************************)
push(sender, b) ==
    \/ /\ b \in Cached \/ GetBlock(b)
       /\ UNCHANGED vars
    \/ /\ ~(b \in Cached \/ GetBlock(b))
       /\ ~VerifyIntegrity(b)
       /\ UNCHANGED vars
    \/ /\ ~(b \in Cached \/ GetBlock(b))
       /\ VerifyIntegrity(b)
       /\ LET added   == Append(cache, b)
              evicted == Evicted(added)
              cache1  == IF evicted = {} THEN added ELSE Tail(added)
              link1   == Dispose(link, evicted)
              link2   == LinkChildren(link1, ToSet(cache1), b)
              \* "find parent block in cache"; cache.Get makes it the newest
              p       == Parent[b]
              pCached == p \in ToSet(cache1)
              link3   == IF pCached THEN LinkParent(link2, b, p) ELSE link2
              cache2  == IF pCached THEN Append(Remove(cache1, p), p) ELSE cache1
              S       == ToSet(cache2)
              root    == RootOf(link3, b)
              gap     == Gap(link3, b)
              verified == Travel(link3, S, root)
          IN
          \/ \* a local block with a cached parent: ErrMissingParentBlock
             /\ pCached /\ sender = NoSender
             /\ cache' = cache2 /\ link' = link3
             /\ UNCHANGED <<requested, chainVars, syncVars>>
          \/ \* the root's parent is not on the chain either
             /\ ~(pCached /\ sender = NoSender)
             /\ ~GetBlock(Parent[root])
             /\ cache' = cache2 /\ link' = link3
             /\ UNCHANGED chainVars
             /\ \/ /\ sender = NoSender      \* ErrMissingParentBlock
                   /\ UNCHANGED <<requested, syncVars>>
                \/ /\ sender # NoSender     \* too far behind: try sync
                   /\ gap > ChunkSize
                   /\ StartActiveSync
                   /\ UNCHANGED requested
                \/ /\ sender # NoSender     \* try download, unless syncing
                   /\ gap <= ChunkSize
                   /\ IF IsActiveSyncing THEN UNCHANGED requested
                                         ELSE DownloadParent(sender, root)
                   /\ UNCHANGED syncVars
          \/ \* the root's parent is on the chain: link, verify, store
             /\ ~(pCached /\ sender = NoSender)
             /\ GetBlock(Parent[root])
             /\ UNCHANGED <<requested, syncVars>>
             /\ IF root \notin Valid
                THEN \* travel fails at the root: cache.Remove(root)
                     /\ cache' = Remove(cache2, root)
                     /\ link' = Dispose(link3, {root})
                     /\ UNCHANGED chainVars
                ELSE /\ PutVerifiedNewBlocks(Parent[root], verified,
                                             TailsOf(link3, S, verified))
                     /\ cache' = SelectSeq(cache2, LAMBDA x : x \notin verified)
                     /\ link' = Dispose(link3, verified)
                     /\ SetTailBlock(b)

\* Push: takes pool.mu and pushes with no sender (chunk sync's
\* processChunkData).
Push(b) == push(NoSender, b)

\* PushAndBroadcast: a block the node made itself; it takes pool.mu,
\* round-trips the block through its protobuf form (mockBlockFromNetwork)
\* and broadcasts it, which changes nothing here, before push.
PushAndBroadcast(b) == push(NoSender, b)

\* PushAndRelay: a block from a peer.
PushAndRelay(s, b) == push(s, b)

\* handleReceivedBlock: a NewBlock or BlockDownloadResponse message from
\* peer s (the loop hands each to its own goroutine, which then waits for
\* pool.mu); its block goes to PushAndRelay.
handleReceivedBlock(s, b) == PushAndRelay(s, b)

\* handleParentDownloadRequest, run by the peer s our request for b went
\* to: a request for genesis is ignored; otherwise s looks b up in its
\* chain (peers hold every block of the tree, and b's signature matches)
\* and answers with b's parent as a BlockDownloadResponse, which we
\* handle as any received block.  The network may deliver the answer
\* late, more than once (the request stays in requested) or never.
ParentDownloadResponse(s, b) ==
    /\ <<s, b>> \in requested
    /\ b # Genesis
    /\ handleReceivedBlock(s, Parent[b])

\* BlockPool.loop: every NewBlock or BlockDownloadResponse message goes to
\* a new handleReceivedBlock goroutine, every ParentBlockDownloadRequest
\* (on the peer it was sent to) to handleParentDownloadRequest.
loop ==
    \/ \E s \in Peers, b \in Blocks : handleReceivedBlock(s, b)
    \/ \E <<s, b>> \in requested : ParentDownloadResponse(s, b)

Next ==
    \/ \E b \in Blocks : PushAndBroadcast(b)
    \/ loop
    \/ SyncStep /\ UNCHANGED <<poolVars, chainVars>>

Spec == Init /\ [][Next]_vars

\* Peers keep gossiping and answering download requests, and chunk sync
\* re-pushes canonical blocks: every block that could change the pool's
\* state is eventually pushed.  The sync task and the waiting goroutine
\* are not starved by the Go scheduler.
Fairness ==
    /\ \A s \in Peers, b \in Blocks : WF_vars(PushAndRelay(s, b))
    /\ WF_vars(SyncStep /\ UNCHANGED <<poolVars, chainVars>>)

FairSpec == Spec /\ Fairness


-----------------------------------------------------------------------------
(* Properties *)

\* Blocks whose whole ancestry passes both verifications: what the pool
\* can accept once it has seen them.
Acceptable == {b \in Blocks :
                 ({b} \cup Ancestors(b)) \ {Genesis} \subseteq Valid \cap IntegrityOK}

\* Spec 5 ordering guarantee: a block is only stored after its whole
\* ancestor path was verified, parent before child.  Every stored block
\* passed both verifications and its parent is stored too.  (Travel drops
\* a failing child with its subtree; putVerifiedNewBlocks stores the rest.)
StoredChainVerified ==
    \A b \in stored \ {Genesis} :
        /\ b \in Valid \cap IntegrityOK
        /\ Parent[b] \in stored

\* Spec design note on the orphan cache: "eviction ... never leaving
\* dangling keys".  The parentBlock pointers are exactly the parent
\* relation restricted to the cached blocks, whatever mix of LRU evictions
\* (Dispose), child scans, parent look-ups and removals after a travel
\* came before; and the cache holds each block once and no stored block.
OrphanLinksExact ==
    /\ \A i, j \in DOMAIN cache : i # j => cache[i] # cache[j]
    /\ Cached \cap stored = {}
    /\ \A b \in Blocks :
        link[b] = IF b \in Cached /\ Parent[b] \in Cached THEN Parent[b] ELSE NoBlock

\* Spec 8: "a later push of the actual parent must successfully link and
\* verify the originally-orphaned child".  No block that would verify is
\* left in the orphan cache once its parent is on the chain.
NoStrandedOrphan ==
    \A b \in Cached : b \in Valid => Parent[b] \notin stored

\* Spec 6: the pipeline "only guarantees that everything it reports as a
\* tip is individually valid and connected".  Every block in
\* detachedTailBlocks is a stored block with no stored child: a tip that
\* a later batch extends is removed (putVerifiedNewBlocks' Remove(parent)),
\* and a block the travel reports as a tail has no linked child at all.
DetachedTailsAreLeaves ==
    \A t \in detachedTails :
        /\ t \in stored
        /\ \A c \in stored \ {Genesis} : Parent[c] # t

\* Spec 5: mining suspended for an active sync is "resumed automatically
\* when the sync task's completion signal fires": whenever a push has
\* suspended mining, the waiting goroutine eventually resumes it.
MiningEventuallyResumed == miningSuspended ~> ~miningSuspended

\* Spec 8: an orphaned block is admitted once its parent arrives.  With
\* peers gossiping fairly, whatever evictions, failed verifications and
\* syncs happen on the way, every block whose ancestry verifies ends up
\* stored and stays stored.
EventuallyAllStored == <>[](Acceptable \subseteq stored)

\* Glossary: "Canonical chain: the single linear sequence of accepted
\* blocks from genesis to the current tail, indexed by height."  Every
\* indexed block up to the tail is the child of the block indexed one
\* height below.  SetTailBlock only compares heights.
CanonicalIndexIsChain ==
    \A h \in 1..Height(tail) :
        /\ heightIdx[h] \in Blocks
        /\ Parent[heightIdx[h]] = heightIdx[h - 1]

=============================================================================
