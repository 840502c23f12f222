----------------------------- MODULE WorldState -----------------------------
(***************************************************************************)
(* The world state of core/world_state.go over the account state of       *)
(* core/account_state.go.  A states value is its account trie, its dirty  *)
(* account map and its transaction trie:                                  *)
(*   trie   address -> corepb.Account the state trie holds (or NoAcc);    *)
(*   dirty  address -> account loaded or created since the last Flush;    *)
(*   txs    the hashes the transaction trie holds.                        *)
(* A trie is content addressed (trie/ is not in src/), so a root hash is  *)
(* its content and Clone/NewAccountState(root) copy the content.          *)
(*                                                                         *)
(* The change log (storage/mvccdb, not in src/) is modelled from spec 4.2 *)
(* by what CheckAndUpdate needs of it: per prepared scope, the addresses  *)
(* it recorded (clog) and the addresses the parent's change log has       *)
(* recorded since Prepare (stale).  A scope conflicts when the two meet.  *)
(*                                                                         *)
(* One goroutine drives a world state (spec 5: it is not synchronized).   *)
(* It follows the spec's state machine: accounts are changed only between *)
(* Begin and Commit/RollBack, and a block ends only when no scope is open.*)
(***************************************************************************)
EXTENDS Account, SequencesExt

CONSTANTS
    Addrs,      \* account addresses
    TxIds,      \* txids callers pass to Prepare
    TxHashes,   \* transaction hashes PutTx may store
    None,       \* model value: a nil snapshot
    Ops,        \* the account operations callers apply
    GenesisTokens \* genesis.json's token list and five funds, in NewGenesis's order

VARIABLES
    ws,         \* worldState.states
    snapshot,   \* worldState.snapshot, or None
    inTx,       \* the change log and stateDB are inside Begin..Commit/RollBack
    child,      \* per txid: the txWorldState Prepare(txid) returned
    stored      \* the stateRoot and txsRoot the block's stored header records

vars == <<ws, snapshot, inTx, child, stored>>

NoEntries == [a \in Addrs |-> NoAcc]
PB == [Balance : Funds, FrozenFund : Funds, PledgeFund : Funds]
States == [trie : [Addrs -> PB \cup {NoAcc}], dirty : [Addrs -> Accounts \cup {NoAcc}],
           txs : SUBSET TxHashes]
Status == {"none", "prepared", "merged", "closed"}

WorldStateTypeOK ==
    /\ ws \in States
    /\ snapshot \in States \cup {None}
    /\ inTx \in BOOLEAN
    /\ \A t \in TxIds :
         /\ child[t].st \in Status
         /\ [trie |-> child[t].trie, dirty |-> child[t].dirty, txs |-> child[t].txs] \in States
         /\ child[t].txs0 \subseteq TxHashes
         /\ child[t].clog \subseteq Addrs /\ child[t].stale \subseteq Addrs
    /\ stored \in [trie : [Addrs -> PB \cup {NoAcc}], txs : SUBSET TxHashes]

\* newStates: empty tries, no dirty accounts.
EmptyStates == [trie |-> NoEntries, dirty |-> NoEntries, txs |-> {}]
NoChild == [st |-> "none", trie |-> NoEntries, dirty |-> NoEntries, txs |-> {},
            txs0 |-> {}, clog |-> {}, stale |-> {}]

\* accountState.Flush: every dirty account is written to the trie through
\* ToBytes, then the dirty map is emptied.
Flush(s) ==
    [s EXCEPT !.trie = [a \in Addrs |-> IF s.dirty[a] # NoAcc THEN ToBytes(s.dirty[a]) ELSE @[a]],
              !.dirty = NoEntries]

\* accountState.Abort: the dirty map is emptied.
Abort(s) == [s EXCEPT !.dirty = NoEntries]

\* accountState.getAccount / newAccount: the dirty entry, else the trie
\* value read back with FromBytes, else a zero account.
Loaded(s, a) ==
    IF s.dirty[a] # NoAcc THEN s.dirty[a]
    ELSE IF s.trie[a] # NoAcc THEN FromBytes(s.trie[a]) ELSE Zero

\* AccountsRoot and TxsRoot: the roots, which are the tries' contents.
Roots(s) == [trie |-> s.trie, txs |-> s.txs]

\* processingDistributionFund, and the body of NewGenesis's token loop:
\* GetOrCreateAccount, then AddBalance of the allocation (which, on a
\* *big.Int, never fails).
Credit(s, tok) ==
    [s EXCEPT !.dirty[tok.addr] = Apply("AddBalance", tok.value, Loaded(s, tok.addr))]

\* NewGenesis: NewWorldState, Begin, every allocation credited in order,
\* Commit (which flushes); the header's roots are read after the Commit.
NewGenesis == Flush(FoldLeft(Credit, EmptyStates, GenesisTokens))

\* The initial state is the genesis block's (BlockChain.Setup stores the
\* block NewGenesis returns).  NewGenesis's error paths (a bad address or
\* amount string) are configuration errors that stop Setup; the
\* allocations are taken to be valid and inside the fund bound.
WorldStateInit ==
    /\ ws = NewGenesis
    /\ snapshot = None
    /\ inTx = FALSE
    /\ child = [t \in TxIds |-> NoChild]
    /\ stored = Roots(ws)

\* states.Clone: a new states at the same roots.  Only the roots are
\* copied: NewAccountState(s.accState.RootHash(), ...) starts with an
\* empty dirty map.
Clone(s) == [trie |-> s.trie, dirty |-> NoEntries, txs |-> s.txs]

OpenScope == \E t \in TxIds : child[t].st = "prepared"

\* states.Begin: the change log's Begin, then the stateDB's; both fail
\* when already inside a transaction.
StatesBegin == ~inTx /\ inTx' = TRUE

\* states.RollBack: Abort, then the change log's and the stateDB's
\* RollBack, which fail outside a transaction.  worldState.RollBack
\* replaces these states by the snapshot, so the Abort is not visible.
StatesRollBack == inTx /\ inTx' = FALSE

\* worldState.Begin: Clone for the snapshot, then states.Begin, which
\* fails on a change log already inside a transaction.
Begin ==
    /\ snapshot' = Clone(ws)
    /\ StatesBegin
    /\ UNCHANGED <<ws, child, stored>>

\* worldState.Commit: states.Commit flushes, rolls the change log back
\* and commits the stateDB; the snapshot is dropped.  Its callers
\* (NewGenesis, Block.VerifyExecution) have the block's header record
\* AccountsRoot and TxsRoot as they are after the Commit.
Commit ==
    /\ inTx /\ ~OpenScope
    /\ ws' = Flush(ws)
    /\ snapshot' = None
    /\ inTx' = FALSE
    /\ stored' = Roots(Flush(ws))
    /\ UNCHANGED child

\* Mutation: the change log's "not in transaction" error is not checked,
\* so ws.states = ws.snapshot runs after a RollBack without Begin.
RollBack_NoTxCheck ==
    /\ ~OpenScope
    /\ ws' = snapshot
    /\ snapshot' = None
    /\ inTx' = FALSE
    /\ UNCHANGED <<child, stored>>

\* worldState.RollBack: states.RollBack aborts the dirty accounts and rolls
\* the change log and stateDB back; then the snapshot becomes the states.
RollBack ==
    /\ ~OpenScope
    /\ StatesRollBack
    /\ ws' = snapshot
    /\ snapshot' = None
    /\ UNCHANGED <<child, stored>>

\* worldState.Flush (Block.execute).
FlushAction ==
    /\ ws' = Flush(ws)
    /\ UNCHANGED <<snapshot, inTx, child, stored>>

\* The parent's change-log Put of addresses as: every open scope sees them.
MarkStale(c, as) ==
    [t \in TxIds |-> IF c[t].st = "prepared" THEN [c[t] EXCEPT !.stale = @ \cup as] ELSE c[t]]

\* states.GetOrCreateAccount on the world state, then an account operation:
\* the account is recorded dirty and its address Put in the change log.
Update(a, op, v) ==
    /\ inTx
    /\ InBounds(op, v, Loaded(ws, a))
    /\ ws' = [ws EXCEPT !.dirty[a] = Apply(op, v, Loaded(ws, a))]
    /\ child' = MarkStale(child, {a})
    /\ UNCHANGED <<snapshot, inTx, stored>>

\* states.PutTx.
PutTx(h) ==
    /\ inTx
    /\ ws' = [ws EXCEPT !.txs = @ \cup {h}]
    /\ UNCHANGED <<snapshot, inTx, child, stored>>

\* Mutation: the child is created from the parent's trie without the
\* parent's Flush.
PrepareRoot_NoFlush(s) == s
\* states.Prepare: the change log and stateDB are prepared (both fail
\* outside a transaction), the parent is flushed, and the child's
\* account and transaction tries start at the parent's roots.
PrepareRoot(s) == Flush(s)

Prepare(t) ==
    /\ inTx /\ child[t].st = "none"
    /\ ws' = PrepareRoot(ws)
    /\ child' = [child EXCEPT ![t] = [NoChild EXCEPT !.st = "prepared", !.trie = PrepareRoot(ws).trie,
                                                    !.txs = ws.txs, !.txs0 = ws.txs]]
    /\ UNCHANGED <<snapshot, inTx, stored>>

\* GetOrCreateAccount and an account operation on a transaction scope.
ScopeUpdate(t, a, op, v) ==
    /\ child[t].st = "prepared"
    /\ InBounds(op, v, Loaded(child[t], a))
    /\ child' = [child EXCEPT ![t].dirty[a] = Apply(op, v, Loaded(child[t], a)),
                              ![t].clog = @ \cup {a}]
    /\ UNCHANGED <<ws, snapshot, inTx, stored>>

ScopePutTx(t, h) ==
    /\ child[t].st = "prepared"
    /\ child' = [child EXCEPT ![t].txs = @ \cup {h}]
    /\ UNCHANGED <<ws, snapshot, inTx, stored>>

\* states.Reset(addr, isResetChangeLog): the stateDB is reset and the
\* dirty accounts aborted; with isResetChangeLog the change log is reset
\* and, for a non-nil addr, addr is recorded as a dependency.
StatesReset(c, addr, isResetChangeLog) ==
    [c EXCEPT !.dirty = Abort(c).dirty,
              !.clog = IF isResetChangeLog THEN addr ELSE @]

\* txWorldState.Reset: states.Reset on the scope.
ScopeReset(t, addr, isResetChangeLog) ==
    /\ child[t].st = "prepared"
    /\ child' = [child EXCEPT ![t] = StatesReset(@, addr, isResetChangeLog)]
    /\ UNCHANGED <<ws, snapshot, inTx, stored>>

\* accountState.Replay: every dirty account of the done scope overwrites
\* the parent's.
AccountStateReplay(dirty, done) ==
    [a \in Addrs |-> IF done[a] # NoAcc THEN done[a] ELSE dirty[a]]

\* states.Replay: accountState.Replay, then the transaction trie replays
\* the puts the scope made since Prepare.
Replay(s, done) ==
    [s EXCEPT !.dirty = AccountStateReplay(@, done.dirty),
              !.txs = @ \cup (done.txs \ done.txs0)]

\* Mutation: the change log's conflict check is skipped.
Conflicts_Never(c) == FALSE
\* The change log's CheckAndUpdate fails when an address the scope
\* recorded was recorded by the parent after Prepare.
Conflicts(c) == c.clog \cap c.stale # {}

\* states.CheckAndUpdateTo(parent): the change log and stateDB merge into
\* the parent's (the merge fails on Conflicts), then parent.Replay copies
\* the dirty accounts and replays the transaction puts.
CheckAndUpdateTo(c, parent) == Replay(parent, c)

\* txWorldState.CheckAndUpdate: CheckAndUpdateTo the parent, and the
\* scope's parent pointer is cleared.  A conflict returns the error
\* before anything changes.
CheckAndUpdate(t) ==
    /\ child[t].st = "prepared"
    /\ IF Conflicts(child[t])
       THEN UNCHANGED vars
       ELSE LET c == child[t] IN
            /\ ws' = CheckAndUpdateTo(c, ws)
            /\ child' = [MarkStale(child, c.clog) EXCEPT ![t].st = "merged"]
            /\ UNCHANGED <<snapshot, inTx, stored>>

\* txWorldState.Close: the change log and stateDB are closed and the dirty
\* accounts aborted.  Nothing uses a closed scope again, so the model
\* keeps only its status.
Close(t) ==
    /\ child[t].st \in {"prepared", "merged"}
    /\ child' = [child EXCEPT ![t] = [NoChild EXCEPT !.st = "closed"]]
    /\ UNCHANGED <<ws, snapshot, inTx, stored>>

\* Block.LinkParentBlock: the child block's world state is a Clone of the
\* parent's.
LinkParentBlock(s) == Clone(s)

\* Block.execute: the transaction replay (the DAG dispatcher) is
\* commented out, so executing a block only flushes its world state.
Execute(s) == Flush(s)

\* Block.Commit: WorldState().Commit on the block's own begun world
\* state, which flushes its account state.
BlockCommit(s) == Flush(s)

\* Block.verifyState: AccountsRoot and TxsRoot must equal the roots the
\* block header claims.
VerifyState(s, claim) == Roots(s) = claim

\* A child block with header roots claim is linked to this one (the chain
\* block, outside any Begin) and Block.VerifyExecution runs on its world
\* state: Begin, execute, verifyState, then Commit; on a mismatch RollBack
\* and the error, and the child is dropped with this block's state
\* untouched.  A verified child is stored and its world state is the one
\* the chain goes on with: no scope of it has been prepared.
VerifyExecution(claim) ==
    /\ ~inTx
    /\ LET s == Execute(LinkParentBlock(ws)) IN
       IF VerifyState(s, claim)
       THEN /\ ws' = BlockCommit(s)
            /\ stored' = Roots(BlockCommit(s))
            /\ child' = [t \in TxIds |-> NoChild]
            /\ UNCHANGED <<snapshot, inTx>>
       ELSE UNCHANGED vars

\* states.LoadAccountsRoot: a new account state (no dirty account) at root.
LoadAccountsRoot(s, root) == [s EXCEPT !.trie = root, !.dirty = NoEntries]

\* states.LoadTxsRoot: the transaction trie at root.
LoadTxsRoot(s, root) == [s EXCEPT !.txs = root]

\* Mutation: the transaction trie is not reloaded, so the loaded block's
\* world state keeps NewWorldState's empty one.
LoadBlockFromStorage_NoTxsRoot(r) == [trie |-> r.trie, dirty |-> NoEntries, txs |-> {}]
\* LoadBlockFromStorage: NewWorldState, then LoadAccountsRoot and
\* LoadTxsRoot at the header's stateRoot and txsRoot.
LoadBlockFromStorage(r) == LoadTxsRoot(LoadAccountsRoot(EmptyStates, r.trie), r.txs)

\* The node stops at any point and restarts: everything in memory (the
\* dirty accounts, the snapshot, the open change log and stateDB
\* transaction, the scopes) is gone, and BlockChain loads the block from
\* storage again.
Restart ==
    /\ ws' = LoadBlockFromStorage(stored)
    /\ snapshot' = None
    /\ inTx' = FALSE
    /\ child' = [t \in TxIds |-> NoChild]
    /\ UNCHANGED stored

WorldStateNext ==
    \/ Restart
    \/ \E claim \in [trie : [Addrs -> PB \cup {NoAcc}], txs : SUBSET TxHashes] : VerifyExecution(claim)
    \/ Begin \/ Commit \/ RollBack \/ FlushAction
    \/ \E a \in Addrs, op \in Ops, v \in Amounts : Update(a, op, v)
    \/ \E h \in TxHashes : PutTx(h)
    \/ \E t \in TxIds :
         \/ Prepare(t) \/ CheckAndUpdate(t) \/ Close(t)
         \/ \E h \in TxHashes : ScopePutTx(t, h)
         \/ \E a \in Addrs, op \in Ops, v \in Amounts : ScopeUpdate(t, a, op, v)
         \/ \E addr \in {{}} \cup {{a} : a \in Addrs}, r \in BOOLEAN : ScopeReset(t, addr, r)

WorldStateSpec == WorldStateInit /\ [][WorldStateNext]_vars

-----------------------------------------------------------------------------
\* The view a states gives of every account (GetOrCreateAccount's result).
View(s) == [a \in Addrs |-> Loaded(s, a)]

Abs == INSTANCE WorldStateSpec WITH
    accounts <- View(ws),
    txs <- ws.txs,
    saved <- IF snapshot = None THEN None
             ELSE [accounts |-> View(snapshot), txs |-> snapshot.txs],
    scope <- [t \in TxIds |-> [st |-> child[t].st,
                               base |-> View([child[t] EXCEPT !.dirty = NoEntries]),
                               local |-> child[t].dirty,
                               btxs |-> child[t].txs0, stxs |-> child[t].txs]]

\* Spec 4.1, 4.2 and 8: the world state implements the promise of
\* WorldStateSpec.  RollBack restores every account and the transaction
\* set as they were at Begin, Flush and Clone lose no account value, a
\* scope starts from the parent's current accounts, and CheckAndUpdate
\* never merges a scope over an account changed since it read it.
Refines == Abs!Spec

=============================================================================
