# TLA+ models of go-gamc

This directory holds TLA+ models of the go-gamc node in `src/`. TLC checks each one. The models cover the parts of the node where concurrency, ordering and bounds make behaviour hard to test: block admission, the canonical chain, the hand-off between active sync and mining, chunk sync, the transaction pool, the world state's block and transaction scopes, the peer stream with its handshake, and the key manager.

## The system and its parts

| Part | Source | What it does |
|---|---|---|
| Block pool | `core/block_pool.go` | Admits blocks pushed by the local miner or by chunk sync (`Push`, `PushAndBroadcast`), and blocks relayed by peers (`PushAndRelay`). Blocks whose parent is unknown wait in an LRU orphan cache of `linkedBlock`s. Each cached block has a `parentBlock` pointer and a `childBlocks` map. When the root of a cached subtree has its parent on the chain, `push` walks the subtree depth first. The walk links each block to its parent and replays it (`VerifyExecution`). `push` then stores the verified blocks and moves the tail. |
| Blockchain | `core/blockchain.go` | Holds the stored blocks, the tail, the height → hash index written by `SetTailBlock`, and the detached tails. When a relayed block is more than `ChunkSize` blocks beyond anything known, `StartActiveSync` suspends mining. It then starts a goroutine that waits for the sync and resumes mining. |
| Sync service | `sync/sync_service.go`, `sync/chunk.go` | `StartActiveSync` creates the active task under `activeTaskMutex`. `WaitingForFinish` blocks on the task's status channel and then clears `activeTask`. The service also answers peers' chunk-header and chunk-data requests. `processChunkData` pushes the blocks of a chunk into the pool. The sync `Task` itself is not in `src/`. |
| Transaction pool | `core/tx_pool.go`, `core/tx_queue.go` | Two heaps: `pending` (local transactions) and `queued` (remote ones). `promote` moves transactions from `queued` to `pending`, and `Get` pops from `pending`. |
| World and account state | `core/world_state.go`, `core/account_state.go`, `core/block.go`, `core/genesis.go` | Per-block and per-transaction state views. A view is a dirty-account map over a trie, with Begin, Commit, RollBack, Prepare and CheckAndUpdate. The genesis block credits the configured token distribution. A new block's state is a clone of its parent's, executed and checked against the roots in its header (`VerifyExecution`). After a restart the tail's state is rebuilt from the roots stored in its header. |
| Peer stream and route table | `network/stream.go`, `network/route_table.go`, `network/gamc_message.go` | One `Stream` per peer runs two goroutines. `readLoop` connects and says HELLO on an outbound stream, then reads frames and calls `handleMessage`. `writeLoop` waits for the handshake (or a 30 s timeout) and then writes one queued message per notification, high priority first. `SendMessage` puts a message in one of three priority channels and then notifies. `close`, under `syncMutex`, removes the peer from the route table and tells `writeLoop` to quit. |
| Key manager | `core/address/address_manager.go`, `account/account_manager.go` | Keeps each key in three places: the keystore (`crypto/keystore`, not in `src/`), which holds it in memory encrypted under a passphrase and unlocked for a time; a file `keydir/<address>`; and `am.addresses`, a list of `{addr, path}` entries. `refreshAddresses` rebuilds the list from the directory at start and in every `Accounts` call. The `AccountManager` wrappers are the entry points the node uses. |
| Storage, crypto, address encoding, config, the libp2p host | `storage/`, `crypto/`, `core/address.go`, `util/`, `network/node.go`, `network/net_service.go` | I/O, encodings and cryptography. |

How the parts interact:

- A peer's block arrives through `handleReceivedBlock` and goes to `PushAndRelay` → `push`.
- `push` may ask the peer for the missing parent (`downloadParent`) or start an active sync. The peer answers a parent request with the parent block, which comes back through `handleReceivedBlock`.
- The sync task fetches chunks and pushes their blocks through `Push`.
- Every `push` runs under `pool.mu`, so pushes are atomic with respect to each other. The sync goroutines are not: they run concurrently with pushes.
- A stream's HELLO/OK exchange puts the peer in the route table (`AddPeerStream`). A SYNCROUTE is answered with a ROUTETABLE reply, and the peers of a ROUTETABLE are added (`AddPeers`). The route table's sync loop calls `SyncWithPeer`, which sends SYNCROUTE on the stream at high priority.

## Modules

| Module | Models | State ↔ code |
|---|---|---|
| `BlockChain` | The persisted chain (`blockchain.go`) | `stored` = blocks `GetBlock` finds. `tail` = `bc.tailBlock`. `heightIdx` = the height keys. `detachedTails` = `detachedTailBlocks`. `Height` is the height `LinkParentBlock` sets. Operations used by `push`: `SetTailBlock` and `PutVerifiedNewBlocks`. |
| `ActiveSync` | Sync coordination (`blockchain.go` `StartActiveSync`, `sync_service.go`) | `activeTask` = `ss.activeTask`. `taskState` is the task's life and its one status signal. `waiter` is the program counter of the goroutine spawned per task. `miningSuspended` is the consensus flag. Actions: `StartActiveSync`, `TaskFinish`, `WaitCheck`/`WaitReceive` (the two halves of `WaitingForFinish`) and `ResumeMining`. |
| `BlockPool` | The orphan pool and `push` (`block_pool.go`) | See below. Extends `BlockChain` and `ActiveSync`. |
| `ChunkSync` | Chunk sync (`sync/chunk.go`, the request handlers and `processChunkData` of `sync_service.go`) | Extends `BlockPool`. `hdrReqs`/`hdrResps`/`dataReqs`/`dataResps` are the messages, as sets (a sent message may be delivered any number of times, in any order, or never). `pending`/`processing` are the sync task's chunk queue. The run starts just after `StartActiveSync` created the task, which lives for the whole run; `onChunkHeadersResponse`/`onChunkDataResponse` keep the code's `activeTask == nil` guard. `GenerateChunkHeaders` is the chunk arithmetic with uint64 heights at width `Width`, after the responder's `GetBlockOnCanonicalChainByHash` look-up of the sync point. A merkle root over hashes is the set of its keys. |
| `TxPool` | The transaction pool (`tx_pool.go`, `tx_queue.go`) | `pending`, `queued` are the heaps as bags. `txFilter` is the dedup map's key set. `lockedBy` is `pool.rw` (only `Get` takes it). `proc[c]` is caller `c`'s call in progress: its operation, program counter, the transaction it carries, the pops left and the slice it read. Each `heap.Push`/`heap.Pop` is a read step and a write step, because the unlocked slice update is not atomic. `accepted` and `delivered` are history: what `add` accepted and what `Get` returned. |
| `Account` | An account value (`account_state.go`) | Balance, frozen and pledge funds; the guarded `Add*`/`Sub*` operations as `Apply`; `ToBytes`/`FromBytes` as the protobuf record the trie stores. |
| `WorldStateSpec` | What the world state promises (spec 4.1, 4.2) | Accounts and transaction hashes, the `saved` copy Begin takes, and per transaction scope the accounts it read and what it wrote. `Merge` only when no account the scope wrote has changed since `Prepare`. Initially each address holds the sum of its genesis allocations. `NextBlock` starts a block; `Restart` loses everything not committed, and `saved` (the accounts at the last Commit) is what survives. |
| `WorldState` | `world_state.go` and the dirty map of `account_state.go` | `ws` is `worldState.states`: the account trie (protobuf records), the dirty map, the transaction set. `snapshot` is `worldState.snapshot`. `inTx` is "the change log is in a transaction". `child[t]` is the `txWorldState` of `Prepare(t)`, plus the change-log facts `clog` (addresses it recorded) and `stale` (addresses the parent recorded since `Prepare`). `stored` is the pair of roots written into the tail block's header, what a restart reads back. `Abs` maps it onto `WorldStateSpec`. |
| `Stream` | One peer stream (`stream.go`) and the route-table calls it makes | `status` = `s.status`. `conn` = `s.stream` (nil, open or closed). `inbox` = what the peer wrote and `readLoop` has not read. `buf` = `messageBuffer`. `hsCh`, `quitCh`, `notif` and `queued` are the lengths of `handshakeSucceedCh`, `quitWriteCh`, `messageNotifChan` and the three priority channels. `compressed` = `reservedFlag` is `CompressionReserved`. `inRouteTable` and `learned` are the route table's view of this peer and of the peers it announced. `gr` holds the program counters of `readLoop` and `writeLoop`; `app` holds that of another goroutine calling `SendMessage`; `mutex` = `syncMutex`. |
| `AddressManager` | The key manager (`address_manager.go`, `account_manager.go`) | `ks` = the keystore: per address, the passphrase its entry decrypts under, or `NoKey`. `unlocked` = the keystore's unlocked aliases. `keyFile` = per address, the passphrase of `keydir/<address>`, or `NoKey`. `addresses` = `am.addresses`, whose paths are `keydir/<address>` or the empty path of an entry `LoadPrivate` appends. Each public method that changes state is one action. |
| `MCBlockPool`, `MCChunkSync`, `MCTxPool`, `MCWorldState`, `MCStream`, `MCAddressManager` | Instantiations for TLC | Model values and block trees, timestamps, and the account operations callers use. |

How `BlockPool` corresponds to the code:

- `cache` is the LRU key order, oldest first. `link[b]` is `b`'s `parentBlock`. `childBlocks` is the inverse of `link`: `LinkParent` and `Dispose` keep both sides together, so it is derived rather than stored.
- `requested` records the download requests sent.
- `push(sender, b)` is the whole of `push` as one step, because `pool.mu` is held throughout: the duplicate and integrity early returns; `cache.Add` with its eviction callback; the child scan and the parent look-up (which refreshes the parent in the LRU); the root walk; the three outcomes when the root's parent is missing (local error, sync, download); and when it is on the chain, the travel, `putVerifiedNewBlocks`, removing the verified blocks and `SetTailBlock(block)`.
- `VerifyIntegrity` and `VerifyExecution` depend only on a block and its parent. Their outcomes are the constant sets `IntegrityOK` and `Valid`.
- `loop` hands each received block to `handleReceivedBlock` and each parent request to the peer's `handleParentDownloadRequest`. `ParentDownloadResponse` is that peer's answer (the parent of the requested block) arriving back at `handleReceivedBlock`. Requests stay in `requested`, so an answer may come late, twice or never.
- `PushAndBroadcast` is the miner's push; `Push` is chunk sync's.

How `AddressManager` corresponds to the code:

- Keys and passphrases are model values. A key file or a keystore entry is the passphrase it decrypts under: encryption, JSON and address encoding are left out.
- `setKeyStore`, `getAddressInfo`, `updateAddressInfo`, `loadFile` (`loadFileOK`), `exportFile` and `refreshAddresses` (with `loadKeyFile` as `KeyDirFiles`, in `ReadDir` order) are operators. The methods are composed from them in the order the code calls them.
- `exportFile` includes the caller's `updateAddressInfo`, which every caller runs after a successful export. It writes to the path of the address's entry, or to `keydir/<address>` when the address is not listed. `util.FileWrite` is not in `src/`. Following its `overwrite` parameter, the model takes a write as failing on an existing file without `overwrite`, and on the empty path.
- `ImportByPrivateKey` (and `Import`, after `Load` decrypts) runs `LoadPrivate` and then `exportFile`. An export error returns without undoing `LoadPrivate`. For a key not yet listed, `LoadPrivate` appends an entry with the empty path, and `exportFile` then takes that path, so the import fails.
- `Unlock` loads the key from its file when the keystore lacks it. `UpdatePassphrase` does the same when the keystore does not hold the key under the old passphrase. `RemoveAddress` deletes only the keystore entry. `Lock` also stands for the keystore relocking an alias when its unlock duration ends, which has the same effect.
- `NewAddress` draws a key that no store knows: a fresh random key.
- The initial state is any key directory an earlier run left, with an empty keystore (`DefaultKS` lives in memory) and the list `NewAddressManager` builds.
- Each method is one step. This is the contract of one caller; concurrent callers are not modelled (see Not modelled).

How `WorldState` corresponds to the code:

- `Begin` is `worldState.Begin`: `states.Clone` for the snapshot, which copies the roots and not the dirty map.
- `Commit` and `RollBack` are the whole of `worldState.Commit`/`RollBack`, including the change log's "not in a transaction" error.
- `Update` and `ScopeUpdate` are `GetOrCreateAccount` followed by one account operation; the account is loaded from the dirty map, else read back from the trie with `FromBytes`. `Update` is enabled only inside Begin..Commit: `recordAccount`'s change-log Put needs a started transaction (the `mvccdb` package is not in `src/`). Outside one, the call fails after `getAccount` has recorded the account dirty with its stored values, which changes no balance; the model leaves that error path out.
- `Prepare` flushes the parent (through `ToBytes`) and starts the scope at the parent's roots.
- `CheckAndUpdate` refuses on a change-log conflict, and otherwise replays the scope's dirty accounts and transaction puts into the parent.
- The change log (`storage/mvccdb`) is not in `src/`. Its conflict check is modelled from spec 4.2 (`MarkStale`, `Conflicts`).
- `WorldStateInit` is `LoadGenesisFromStorage` on a fresh database: `NewGenesis` folds `processingDistributionFund` (`Credit`) over the `GenesisTokens` sequence and flushes.
- `VerifyExecution(claim)` is a block arriving with header roots `claim`: `LinkParentBlock` clones the tail's state, `execute` flushes it (the transaction replay is commented out in the code), and `verifyState` compares the roots. On success the block's state, committed, becomes the tail's, and its roots are stored.
- `Restart` is `LoadTailFromStorage`: `LoadBlockFromStorage` builds a new state from the stored roots only (`LoadAccountsRoot`, `LoadTxsRoot`), so the snapshot, scopes and dirty accounts are gone.

How `Stream` corresponds to the code:

- Each blocking channel operation is a step boundary: the send of `finishHandshake` (`HsSend`), the send of `close` (`CloseQuit`), the high-priority send of `SendMessage` (`AppQueue`, `RtQueue`), and the selects of `writeLoop` (`WaitHs`, `WrLoop`). Between two such points a goroutine's code is one step. `close` is split at its channel send because it holds `syncMutex` across it.
- `Handle` is one pass of `readLoop`'s inner loop: parse one frame, check the chain id, `handleMessage`, and the `Bye` on `ErrShouldCloseConnectionAndExitLoop`. A frame is a record of what the handlers test: its name, whether the NodeId matches, the client version, the compression bit, and whether its payload decodes. A frame failing the header, chain-id or data checks is the name `"bad"`.
- `readLoop`'s start is two steps: `Connect` (an outbound stream dials, a failure closes the stream) and `Hello` (the HELLO write). The handshake timeout can therefore close the stream between them. The handlers are operators of their own: `onHello` and `onOk` are `Greet` with the reply they send, `onSyncRoute` queues the ROUTETABLE reply, and `SyncRoute` is the high-priority send `SyncWithPeer` makes.
- `CheckClientVersionCompatibility` is translated as written: both parts come from `v1`, so the check never fails.
- A `Write` fails exactly when the stream is nil or closed (`WriteOK`), and then calls `close`.
- Other goroutines send through `SyncRouteTable` → `SyncWithPeer` (the route table's periodic SYNCROUTE, high priority; from one stream's view its peer is either chosen or untouched) and `SendMessageToPeer` (any priority). `onRouteTable` decides a ROUTETABLE's fate: dropped when its payload does not decode, the stream closed when it is not data, otherwise `AddPeers` → `AddPeerInfo`.
- The peer (`PeerSend`, `PeerClose`) writes any message or closes the connection. The handshake timer may fire whenever `writeLoop` waits in its first select.

## Runs

| Run | Config | Expect | What it shows |
|---|---|---|---|
| `block_admission` | `MCBlockPool.cfg` | pass | Every order of local and relayed pushes of a seven-block tree keeps the stored chain verified (`StoredChainVerified`), the orphan links exactly the parent relation (`OrphanLinksExact`), no verifiable orphan stranded (`NoStrandedOrphan`) and every tip in `detachedTailBlocks` a stored block with no stored child (`DetachedTailsAreLeaves`, spec §6: every reported tip is valid and connected). Under fair gossip, a sync always ends with mining resumed (`MiningEventuallyResumed`), and every block whose ancestry verifies is eventually stored (`EventuallyAllStored`). |
| `canonical_index_fork` | `MCBlockPoolFork.cfg` | violation | `CanonicalIndexIsChain`: on two branches, `SetTailBlock`'s height-only check lets the tail jump across branches. |
| `sync_mining_race` | `ActiveSync.cfg` | violation | `SyncSuspendsMining`: after `WaitingForFinish` clears `activeTask`, a second sync starts, and then the first goroutine resumes mining. |
| `chunk_sync_gossip` | `MCChunkSync.cfg` | pass | While a peer gossips blocks into the same pool, every chunk-headers response is a run of adjacent full chunks starting no higher than the block after the sync point (`ChunkHeadersContiguous`). |
| `chunk_reorder_stall` | `MCChunkSyncReorder.cfg` | violation | `SyncReachesGossipRange`: chunk data processed out of order leave the tail below blocks already stored, and the node never gets within a chunk of its peer. |
| `chunk_genesis_underflow` | `MCChunkSyncGenesis.cfg` | violation | `HeadersCoverGap`: for a sync point at genesis, `(height-1)/ChunkSize` underflows and the responder answers with no chunks. |
| `txpool_sequential` | `MCTxPool.cfg` | pass | With one caller, pending, queued and what `Get` returned are exactly what `add` accepted (`Conservation`). |
| `txpool_race` | `MCTxPoolRace.cfg` | violation | `Conservation`: two concurrent `AddRemote` calls both write back their copy of the queued slice, and an accepted transaction is lost. |
| `world_state_refinement` | `MCWorldState.cfg` | pass | The world state implements `WorldStateSpec` (`Refines`): RollBack restores what Begin saw, Flush and Commit keep every balance, a scope starts from the parent's current accounts, and CheckAndUpdate never merges over an account changed since the scope read it. The genesis state holds the configured allocations, a block whose header roots match is accepted and stored, and a restart returns the state of the last stored block. |
| `stream_handshake` | `MCStream.cfg` | pass | For an outbound stream whose peer sends any two messages while other goroutines send two of any priority, every queued message has exactly one notification whenever no sender or the writer is between its two channel operations (`QueuedMessagesNotified`). This holds through handshake timeouts, failed writes and closes. |
| `address_manager` | `MCAddressManager.cfg` | pass | From any key directory, every sequence of one caller's calls keeps `am.addresses` free of duplicates (`NoDuplicateEntries`), and lists every key file with its path (`KeyFilesListed`), so `loadFile` can read it back. This holds although imports leave path-less entries behind and `RemoveAddress` leaves files. |
| `stream_stuck` | `MCStreamStuck.cfg` | violation | `NoStuckGoroutine`: the handshake timer fires, then the peer sends OK twice. The first OK fills `handshakeSucceedCh`, which `writeLoop` no longer reads, and the second blocks `readLoop` forever. |

Every module also has a type invariant checked by its passing run. Every property of a passing run has a mutant in `PROJECT.json`: a plausible bug in a mapped definition (for example `Conflicts_Never`, `HeapPop_Keep`, `RollBack_NoTxCheck`) under which TLC finds the property violated.

## Findings

- `blockchain.go:205` — `SetTailBlock` checks heights only, so a fork makes the height index stop being a chain (`canonical_index_fork`).
- `sync_service.go:353` — the sync goroutine clears `activeTask` before it resumes mining, so mining can run during a second sync (`sync_mining_race`).
- `sync_service.go:186` — `generateChunkHeaders` underflows at a genesis sync point (`chunk_genesis_underflow`).
- `block_pool.go:424` — `push` sets the tail to the pushed block only; chunks processed out of order stall sync (`chunk_reorder_stall`).
- `stream.go:362` — `finishHandshake` sends on the one-slot `handshakeSucceedCh` for every valid greeting, but `writeLoop` receives from it only once; a repeated or late greeting blocks `readLoop` for good (`stream_stuck`). The same state is reached when the handshake timeout closes the stream while a HELLO is in the read buffer. `onHello` then brings the closed stream back to `succeed`, the OK write fails, and the second `close` blocks on the full `quitWriteCh` while holding `syncMutex`.
- `block.go:430` — `execute` only flushes: the transaction replay is commented out. `VerifyExecution` therefore accepts exactly the blocks whose roots equal their parent's, whatever transactions they list. Spec 4.3 says execute replays the transactions. This is a hazard in `PROJECT.json`; the world-state run includes it as the code does.
- `genesis.go:177` — the genesis hash is computed before the roots are set: a hazard, not checked. `genesis.go:140` accepts a negative genesis amount from the configuration.
- `tx_pool.go:152` — `txFilter` is never written, so dedup never rejects. Adding the same transaction twice queues it twice, one step in `TxPool`. It has no run of its own: the run count is bounded, and that slot went to the stream.
- `tx_queue.go:52`, `tx_pool.go:180` — `PopTxs` and `promote` pop exactly `size` times and panic on a short heap. A single `Get(1)` on an empty pool reaches this, so it is a hazard without a run. `TxPool` still models the panic.
- `address_manager.go:197` — `ImportByPrivateKey` of a key the manager does not list fails: `LoadPrivate` appends an entry with the empty path, and `exportFile` writes to that path. The key is nevertheless in the keystore, and unlocks and signs until the next restart. `AccountManager.ImportAccount` is this call.
- `address_manager.go:206`, `address_manager.go:350` — `ImportByPrivateKey` and `UpdatePassphrase` store the key under the new passphrase before the export, and a failed export does not undo it. For example, importing a listed key under another passphrase fails because its file exists, but the key then unlocks with the new passphrase until restart.
- `address_manager.go:159`, `address_manager.go:326` — `Accounts` refreshes the list without `am.mu`, and `LoadPrivate` checks and appends under two separate locks. With concurrent callers, a listed key can be lost or a key listed twice. These are hazards; the run has one caller.
- `tx_pool.go:149` — `add` and `promote` change the heaps without a lock (`txpool_race`).
- `stream.go:660` — `CheckClientVersionCompatibility` splits `v1` twice and never reads the peer's version; `MCStream` lets the peer announce 2.0.0 and the handshake succeeds.
- `stream.go:242`, `stream.go:351`, `gamc_message.go:245` — OK written after queued messages, `AddPeers` given our own id, the chain id cut to three bytes: hazards in `PROJECT.json`, not checked.
- `account_state.go:110` — `ToBytes` writes the frozen fund into `PledgeFund`. With frozen and pledge operations in `MCOps`, `Refines` fails at the first Commit. No caller in `src/` uses those operations, so this is a hazard in `PROJECT.json` and not a run.

## Bounds

- **Block tree in `block_admission`** (seven blocks): the line g ← b1 ← b2 ← b3 ← b4; b5, a child of b4 that fails `VerifyExecution`; b6, a valid fork off b1; b7, a child of b1 that fails `VerifyIntegrity`. **`CacheSize` = 3**: with four possible orphans in a row, evictions happen, including of a block with cached children. **`ChunkSize` = 1**: a relayed block two links above a missing parent starts a sync; the code's 32 only scales that distance. One peer and the local origin: the code uses the sender only for the relay and the download request.
- **Chunk sync**: a line of six blocks, a requester at height 1 (or 0 for the genesis run), `ChunkSize` 2 (1 in the reorder run), up to 2 or 3 chunks per request, `Width` = 8. Heights stay far below 2^8, so only the genuine underflow wraps.
- **Transaction pool**: three transactions, two with the same timestamp so `heap.Pop`'s tie is nondeterministic; `MaxPending` = 2 so `ErrTxPoolFull` is reached; batches of up to 2 so `Get`/`Promote` loop; 5 calls for one caller, 3 calls for the two-caller race (enough for two adds to interleave).
- **World state**: one address, two transaction scopes, one transaction hash, funds 0..1, balance operations, and a genesis of two allocations to that address (1 and 0) so that `Credit` both creates and updates an account. Two scopes on one address are what a conflict needs; a second address multiplies the state space (over three million states a minute) without a new interleaving of the protocol.

- **Key manager**: three keys and two passphrases. Every initial key directory is explored (27), so the run covers keys with and without files, and files under either passphrase. Two passphrases are what wrong-passphrase unlocks and passphrase updates need. A third key gives a list with entries from both a refresh and an append. The run has 28,250 distinct states.
- **Stream**: `QueueCap` = 1 and `NotifCap` = 3 keep the code's ratio (2048 : 6144). A full channel is then reached with one message, and the notification channel is exactly as large as the three queues. The peer sends at most two messages in the passing run: a greeting and one request is the longest exchange any handler needs. The violation run allows three, so that both routes to a stuck `readLoop` are open: three greetings, or the timeout plus two greetings (the one TLC reports, being shortest). Other goroutines make two `SendMessage` calls, enough for two priorities to be queued at once. The passing run has about 1.13 million distinct states.

## Fairness

- `block_admission` (liveness part): weak fairness on every `PushAndRelay(s, b)`, because peers re-gossip new blocks and answer parent-download requests. Weak fairness on the sync steps, because Go's scheduler eventually runs a runnable goroutine, and the task (not in `src/`) is assumed to signal completion. Local pushes get no fairness: the miner is suspended during a sync.
- The other passing runs check safety only, with no fairness. The transaction-pool runs stop at their call bound `MaxCalls` (or at a panic), so their configurations set `CHECK_DEADLOCK FALSE`. The stream runs also set it: a stream ends when both loops have returned, and the stuck states the violation run looks for have no successor. Every other run checks deadlock; in `address_manager`, `Accounts` is always enabled.

## Not modelled

- **Peer-to-peer network** (`network/`): under the block pool it is a transport that may lose, duplicate or reorder blocks, which is what free choice of the pushed block and sets of messages give. `Stream` models one stream. Left out: `StreamManager` (not in `src/`), the libp2p host and `NetService` dispatch (`node.go`, `net_service.go`: I/O), the route table's peer contents, sync timer and file persistence, and frame encoding (byte layout, CRC32, snappy) beyond its valid/bad verdict.
- **Storage**: Put and Get always succeed. A failed `StoreBlockToStorage` inside `putVerifiedNewBlocks` leaves a block in `cachedBlocks` that is not on disk; it is a hazard in `PROJECT.json`. So is the height-index Put of `SetTailBlock` (`blockchain.go:210`), whose error is only logged: the tail then moves to a block the index lacks. Without storage faults the tail is always the pushed block, stored by the same push, so no run checks the tail against storage.
- **Hashing, signatures, protobuf and address encodings**: data conversions with no control of interest; the one conversion a property depends on (`account.ToBytes`) is modelled by what it does.
- **Key manager**: concurrent callers. The model makes each method one step; `Accounts`' unlocked `refreshAddresses` and `LoadPrivate`'s two lock sections would need the methods split at their lock boundaries and a run of two callers. `SignHash`, `SignBlock`, `GetMnemonic`, `Export` and `Contains` change no state. The keystore's internals, and `AccountManager.Verify` (it calls itself without end), are not modelled.
- **Metrics, pprof and config.**
- **The sync `Task`**: not in `src/`; its steps are modelled from the spec.
- **`StopActiveSync`**: only reached from `Service.Stop` at shutdown.
- **World state**: `worldState.Clone` as a second instance, the world state's own `Reset`, consensus state, nonces and variables. `states.Replay` is modelled, including `accountState.Replay`.
- **Credit index** (`core/credit_index.go`, `core/credit_set.go`): `calcIndex` and `Value` are pure `big.Int` arithmetic with no state, and no code in `src/` calls them, so no step of the system reaches them. `Block.execute`'s transaction replay is commented out in the code, so nothing of it is modelled.
- **Transaction pool**: `txFilter` insertion (the code has none), transaction validation, and `loop`: `recvMsgCh` is never made and `Start` is never called in `src/`, so it never receives.

## Plan

1. `BlockChain`, `ActiveSync`, `BlockPool`, with parent-download answers. Done.
2. `ChunkSync` on top of `BlockPool`, with the chunk arithmetic at reduced width. Done.
3. `TxPool`: add, addTxs, promote, Get/PopTxs, removeTx with the unlocked heap race. Done.
4. `Account`, `WorldStateSpec`, `WorldState` with the refinement, genesis, block verification and restart. Done.
5. `Stream`: the peer stream's two loops, handshake timeout and priority channels. Done.
6. `AddressManager`: the key manager's methods for one caller. Done.
7. Left:
   - concurrent callers of the key manager (two callers, methods split at `am.mu`);
   - the sync task's end composed into `ChunkSync`, so that chunk responses arriving after it are dropped by the `activeTask` guard;
   - storage faults in `putVerifiedNewBlocks`;
   - the map covers about 35% of the implementation. The number of runs is limited, so new passing runs come from merging configurations that ask the same question.
