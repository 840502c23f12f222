----------------------------- MODULE ChunkSync ------------------------------
(***************************************************************************)
(* Chunk sync between a lagging requester and a responder whose canonical *)
(* chain holds every block of a line, sync/chunk.go and the request        *)
(* handlers of sync/sync_service.go.  The requester's chain and block pool *)
(* are those of BlockPool: processChunkData feeds each block to Push.       *)
(*                                                                         *)
(* A block hash is the block; the merkle tries built over hashes (keyed by *)
(* the hash, value the hash) have a root that depends only on the set of   *)
(* keys, so a chunk root is the set of its hashes and the overall root the *)
(* set of chunk roots.  Heights are uint64 in the code: the chunk index    *)
(* arithmetic is done modulo 2^Width.                                       *)
(*                                                                         *)
(* The sync Task (request, response matching, chunk scheduling) is not in *)
(* the sources; its steps are modelled from the spec: it asks for headers  *)
(* from its tail, accepts verified headers, asks for each chunk, and hands *)
(* verified data to processChunkData, one chunk at a time, all on the sync *)
(* service's message loop.  Messages are sets: a message, once sent, may be *)
(* delivered any number of times, in any order, or never.                   *)
(***************************************************************************)
EXTENDS BlockPool

CONSTANTS
    MaxChunkPerSyncRequest, \* sync/type.go: 10
    Width,                  \* bit width of the height arithmetic (64 in the code)
    StartHeight             \* the requester's tail height when sync begins

ASSUME /\ ChunkSize \in Nat \ {0} /\ MaxChunkPerSyncRequest \in Nat \ {0}
       /\ Width \in Nat \ {0} /\ StartHeight \in Heights
       /\ \A h \in Heights : \E b \in AllBlocks : Height(b) = h
       /\ \A a, b \in AllBlocks : Height(a) = Height(b) => a = b

\* uint64 arithmetic, at width Width.
UInt(x) == x % (2 ^ Width)

\* The responder's canonical chain: one block per height up to its tail.
SrvTail == MaxHeight
CanonAt(h) == CHOOSE b \in AllBlocks : Height(b) = h

\* GetBlockOnCanonicalChainByHash != nil on the responder: the block is
\* known and is the canonical block at its height.
GetBlockOnCanonicalChainByHash(b) == Height(b) <= SrvTail /\ CanonAt(Height(b)) = b

\* Merkle roots over hashes.
ChunkRoot(hashes) == ToSet(hashes)
HeadersRoot(chunks) == {ChunkRoot(c.headers) : c \in ToSet(chunks)}

VARIABLES
    hdrReqs,    \* ChunkHeadersRequest messages: sync-point blocks
    hdrResps,   \* ChunkHeadersResponse messages
    dataReqs,   \* ChunkDataRequest messages: chunk headers
    dataResps,  \* ChunkDataResponse messages
    pending,    \* the Task's chunks of this round whose data it awaits
    processing  \* blocks of the chunk processChunkData has still to push

netVars == <<hdrReqs, hdrResps, dataReqs, dataResps>>
taskVars == <<pending, processing>>
allVars == <<vars, netVars, taskVars>>

------------------------------------------------------------------------------
(* The code. *)

\* Mutation: the chunk's last height is left out.
ChunkHeights_Short(cur) == [i \in 1..ChunkSize - 1 |-> cur * ChunkSize + 1 + i]

\* One iteration of generateChunkHeaders' loop: the heights from
\* startHeight = curChunk*ChunkSize+2 up to, not including,
\* endHeight = (curChunk+1)*ChunkSize+2.
ChunkHeights(cur) == [i \in 1..ChunkSize |-> cur * ChunkSize + 1 + i]

\* The ChunkHeader of chunk cur: the canonical hashes at its heights and
\* the root of the blocksTrie built over them.
ChunkHeaderAt(cur) ==
    LET hs == [k \in DOMAIN ChunkHeights(cur) |-> CanonAt(ChunkHeights(cur)[k])]
    IN [headers |-> hs, root |-> ChunkRoot(hs)]

\* The loop's chunk indexes: from startChunk while below endChunk and
\* fewer than MaxChunkPerSyncRequest (unsigned difference).
RECURSIVE ChunkLoop(_, _, _)
ChunkLoop(cur, start, end) ==
    IF cur < end /\ UInt(cur - start) < MaxChunkPerSyncRequest
    THEN <<cur>> \o ChunkLoop(cur + 1, start, end)
    ELSE <<>>

\* generateChunkHeaders(syncpointHash).  The sync point is on the
\* responder's canonical chain (it holds every block).  Each chunk's
\* hashes come from GetBlockOnCanonicalChainByHeight; a height past the
\* tail is ErrCannotFindBlockByHeight.
GenerateChunkHeaders(sp) ==
    LET startChunk == UInt(Height(sp) - 1) \div ChunkSize
        endChunk   == UInt(SrvTail - 1) \div ChunkSize
        idx        == ChunkLoop(startChunk, startChunk, endChunk)
        chunks     == [i \in DOMAIN idx |-> ChunkHeaderAt(idx[i])]
    IN CASE ~GetBlockOnCanonicalChainByHash(sp) ->
              [err |-> "ErrCannotFindBlockByHash", chunks |-> <<>>, root |-> {}]
         [] SrvTail - Height(sp) <= ChunkSize ->
              [err |-> "ErrTooSmallGapToSync", chunks |-> <<>>, root |-> {}]
         [] \E i \in DOMAIN idx : \E k \in DOMAIN ChunkHeights(idx[i]) :
                ChunkHeights(idx[i])[k] > SrvTail ->
              [err |-> "ErrCannotFindBlockByHeight", chunks |-> <<>>, root |-> {}]
         [] OTHER ->
              [err |-> "none", chunks |-> chunks, root |-> HeadersRoot(chunks)]

\* verifyChunkHeaders: the fast quit on an empty message, else the
\* recomputed overall root must equal the one received.
VerifyChunkHeaders(m) ==
    \/ m.chunks = <<>> /\ m.root = {}
    \/ HeadersRoot(m.chunks) = m.root

\* generateChunkData: every hash must be a canonical block, and the root
\* recomputed over them must match the header's.
GenerateChunkData(h) ==
    IF ChunkRoot(h.headers) # h.root
    THEN [err |-> "ErrWrongChunkHeaderRootHash", blocks |-> <<>>, root |-> {}]
    ELSE [err |-> "none", blocks |-> h.headers, root |-> ChunkRoot(h.headers)]

\* verifyChunkData: as many blocks as hashes, each block's hash the one at
\* its position, and the recomputed root the header's root.
VerifyChunkData(h, d) ==
    /\ Len(h.headers) = Len(d.blocks)
    /\ \A k \in DOMAIN d.blocks : d.blocks[k] = h.headers[k]
    /\ ChunkRoot(d.blocks) = h.root

\* onChunkHeadersRequest: answer unless generateChunkHeaders failed with
\* another error than ErrTooSmallGapToSync (the responder is not syncing).
OnChunkHeadersRequest(sp) ==
    /\ sp \in hdrReqs
    /\ LET r == GenerateChunkHeaders(sp)
       IN /\ r.err \in {"none", "ErrTooSmallGapToSync"}
          /\ hdrResps' = hdrResps \cup {[sp |-> sp, chunks |-> r.chunks, root |-> r.root]}
    /\ UNCHANGED <<vars, hdrReqs, dataReqs, dataResps, taskVars>>

\* onChunkDataRequest: answer with the chunk's blocks, or drop the request
\* (and close the peer) when the header does not match its root.
OnChunkDataRequest(h) ==
    /\ h \in dataReqs
    /\ LET r == GenerateChunkData(h)
       IN /\ r.err = "none"
          /\ dataResps' = dataResps \cup {[blocks |-> r.blocks, root |-> r.root]}
    /\ UNCHANGED <<vars, hdrReqs, hdrResps, dataReqs, taskVars>>

\* processChunkData, one loop iteration: Push the next block (Push turns
\* ErrDuplicatedBlock into nil); any other error ends the chunk.
ProcessChunkStep ==
    /\ processing # <<>>
    /\ LET b == Head(processing)
       IN /\ Push(b)
          /\ processing' = IF b \in Cached \cup stored \/ b \in stored'
                           THEN Tail(processing) ELSE <<>>
    /\ UNCHANGED <<netVars, pending>>

------------------------------------------------------------------------------
(* The sync Task, from the spec. *)

\* A round starts: ask for chunk headers from the current tail.
TaskRequestHeaders ==
    /\ pending = {} /\ processing = <<>>
    /\ hdrReqs' = hdrReqs \cup {tail}
    /\ UNCHANGED <<vars, hdrResps, dataReqs, dataResps, taskVars>>

\* A headers response for the current sync point that verifies: request
\* the data of every chunk it names.
TaskProcessHeaders(m) ==
    /\ pending = {} /\ processing = <<>>
    /\ m \in hdrResps
    /\ m.sp = tail
    /\ VerifyChunkHeaders(m)
    /\ pending' = ToSet(m.chunks)
    /\ dataReqs' = dataReqs \cup ToSet(m.chunks)
    /\ UNCHANGED <<vars, hdrReqs, hdrResps, dataResps, processing>>

\* A data response that verifies against a pending chunk header is handed
\* to processChunkData; whatever its outcome, the chunk leaves the round.
TaskProcessData(d) ==
    /\ processing = <<>>
    /\ d \in dataResps
    /\ \E h \in pending :
          /\ h.root = d.root
          /\ VerifyChunkData(h, d)
          /\ pending' = pending \ {h}
    /\ processing' = d.blocks
    /\ UNCHANGED <<vars, netVars>>

\* onChunkHeadersResponse and onChunkDataResponse, on the requester's sync
\* message loop: dropped when ss.activeTask is nil, otherwise handed to
\* the task's processChunkHeaders / processChunkData.
onChunkHeadersResponse(m) == IsActiveSyncing /\ TaskProcessHeaders(m)
onChunkDataResponse(d) == IsActiveSyncing /\ TaskProcessData(d)

------------------------------------------------------------------------------

\* The requester has stored every block up to StartHeight, as a run of
\* in-order pushes leaves it; its pool is empty, and BlockChain.
\* StartActiveSync has just started the first sync task: mining is
\* suspended and the waiting goroutine spawned.  The task lives for the
\* whole run (it never signals its end here).
ChunkInit ==
    /\ stored = {b \in AllBlocks : Height(b) <= StartHeight}
    /\ tail = CanonAt(StartHeight)
    /\ heightIdx = [h \in Heights |-> IF h <= StartHeight THEN CanonAt(h) ELSE NoBlock]
    /\ detachedTails = IF StartHeight = 0 THEN {} ELSE {CanonAt(StartHeight)}
    /\ activeTask = 1
    /\ taskState = [t \in Tasks |-> IF t = 1 THEN "running" ELSE "none"]
    /\ waiter = [t \in Tasks |-> IF t = 1 THEN "check" ELSE "idle"]
    /\ waitOn = [t \in Tasks |-> NoTask]
    /\ miningSuspended = TRUE
    /\ cache = <<>> /\ link = [b \in Blocks |-> NoBlock] /\ requested = {}
    /\ hdrReqs = {} /\ hdrResps = {} /\ dataReqs = {} /\ dataResps = {}
    /\ pending = {} /\ processing = <<>>

ChunkNext ==
    \/ TaskRequestHeaders
    \/ \E sp \in AllBlocks : OnChunkHeadersRequest(sp)
    \/ \E m \in hdrResps : onChunkHeadersResponse(m)
    \/ \E h \in dataReqs : OnChunkDataRequest(h)
    \/ \E d \in dataResps : onChunkDataResponse(d)
    \/ ProcessChunkStep
    \/ \E s \in Peers, b \in Blocks : PushAndRelay(s, b) /\ UNCHANGED <<netVars, taskVars>>

ChunkSpec == ChunkInit /\ [][ChunkNext]_allVars

\* Chunks whose heights all lie on the responder's chain, and the data
\* responses for them: the messages that can ever be in flight.
ChunkIdx == {c \in 0..MaxHeight : c * ChunkSize + 1 + ChunkSize <= MaxHeight}
DataOf(c) == [blocks |-> ChunkHeaderAt(c).headers, root |-> ChunkHeaderAt(c).root]

\* Peers answer and the Task keeps requesting (its timers are not in the
\* sources): every request and every response that stays deliverable is
\* eventually handled, and processChunkData runs to its end.
ChunkFairness ==
    /\ WF_allVars(TaskRequestHeaders)
    /\ \A sp \in AllBlocks :
          /\ WF_allVars(OnChunkHeadersRequest(sp))
          /\ WF_allVars(\E m \in hdrResps : m.sp = sp /\ onChunkHeadersResponse(m))
    /\ \A c \in ChunkIdx :
          /\ WF_allVars(OnChunkDataRequest(ChunkHeaderAt(c)))
          /\ WF_allVars(onChunkDataResponse(DataOf(c)))
    /\ WF_allVars(ProcessChunkStep)

FairChunkSpec == ChunkSpec /\ ChunkFairness

------------------------------------------------------------------------------
(* Properties *)

ChunkTypeOK ==
    /\ TypeOK
    /\ hdrReqs \subseteq AllBlocks
    /\ \A m \in hdrResps : m.sp \in AllBlocks /\ m.chunks \in Seq([headers : Seq(Blocks), root : SUBSET Blocks])
    /\ dataReqs \subseteq {ChunkHeaderAt(c) : c \in ChunkIdx}
    /\ dataResps \subseteq {DataOf(c) : c \in ChunkIdx}
    /\ pending \subseteq {ChunkHeaderAt(c) : c \in ChunkIdx}
    /\ processing \in Seq(Blocks) /\ Len(processing) <= ChunkSize

\* Spec 4.6: "A chunk is a contiguous run of exactly ChunkSize canonical
\* blocks beyond a sync-point", at most MaxChunkPerSyncRequest of them.
\* Every headers response generateChunkHeaders builds is such a run of
\* chunks, adjacent to one another, and the first one starts no higher
\* than the block after the sync point, so the requester can link it.
ChunkHeadersContiguous ==
    \A m \in hdrResps :
        /\ Len(m.chunks) <= MaxChunkPerSyncRequest
        /\ \A i \in DOMAIN m.chunks :
              LET hs == m.chunks[i].headers IN
              /\ Len(hs) = ChunkSize
              /\ \A k \in DOMAIN hs : Height(hs[k]) = Height(hs[1]) + k - 1
              /\ i > 1 => Height(hs[1]) = Height(m.chunks[i - 1].headers[ChunkSize]) + 1
        /\ m.chunks # <<>> => Height(m.chunks[1].headers[1]) <= Height(m.sp) + 1

\* Spec 4.6: generateChunkHeaders "fails with gap too small if the distance
\* is <= one chunk (falls back to per-block gossip)"; otherwise it walks
\* the chain from the sync point.  A response to a sync point more than a
\* chunk behind names at least one chunk.
HeadersCoverGap ==
    \A m \in hdrResps :
        SrvTail - Height(m.sp) > ChunkSize => m.chunks # <<>>

\* Spec 4.6 and 5: chunk sync catches a lagging node up in bulk until the
\* gap is at most one chunk, where gossip takes over.  Under fair delivery
\* the requester's tail eventually comes within ChunkSize of the
\* responder's.
SyncReachesGossipRange == <>(SrvTail - Height(tail) <= ChunkSize)

\* Every block of the responder's chain that chunk sync can deliver is
\* eventually stored by the requester.
ChunksEventuallyStored ==
    <>(\A c \in ChunkIdx : ToSet(ChunkHeaderAt(c).headers) \subseteq stored)

====
