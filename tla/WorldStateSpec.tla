--------------------------- MODULE WorldStateSpec ---------------------------
(***************************************************************************)
(* What the World State promises (spec 4.1, 4.2), with no tries, dirty    *)
(* maps or change logs: a map from address to account and a set of        *)
(* transaction hashes.                                                    *)
(*   Begin saves both; RollBack restores them "as if Begin never ran";   *)
(*   Commit keeps them.                                                   *)
(*   Prepare(t) opens a transaction scope that reads the accounts as they *)
(*   are at that moment and writes into a private view; CheckAndUpdate    *)
(*   merges the view, and only when none of the accounts it wrote has     *)
(*   changed since the scope read it (no lost update).                    *)
(*   The chain starts from the genesis allocation (spec 6): each address *)
(*   holds the sum of what is allocated to it.  Commit is durable (spec  *)
(*   8): a restart loses what an unfinished block did, never what a      *)
(*   Commit kept.                                                         *)
(***************************************************************************)
EXTENDS Account, Functions

CONSTANTS
    Addrs,      \* account addresses
    TxIds,      \* transaction-scope ids passed to Prepare
    TxHashes,   \* transaction hashes PutTx may store
    None,       \* model value: no saved state
    GenesisTokens \* the genesis allocations: a sequence of [addr, value]

VARIABLES
    accounts,   \* address -> account
    txs,        \* the hashes in the transaction trie
    saved,      \* what Begin saved, or None outside a block
    scope       \* per scope id: status, the accounts and hashes it read, what it wrote

absVars == <<accounts, txs, saved, scope>>

NoWrites == [a \in Addrs |-> NoAcc]

\* A scope that is not open holds nothing.
Unopened(st) == [st |-> st, base |-> [a \in Addrs |-> Zero], local |-> NoWrites,
                 btxs |-> {}, stxs |-> {}]

\* What the genesis description allocates to a.
Allocated(a) ==
    SumFunctionOnSet([i \in DOMAIN GenesisTokens |-> GenesisTokens[i].value],
                     {i \in DOMAIN GenesisTokens : GenesisTokens[i].addr = a})

Init ==
    /\ accounts = [a \in Addrs |-> [Zero EXCEPT !.balance = Allocated(a)]]
    /\ txs = {}
    /\ saved = None
    /\ scope = [t \in TxIds |-> Unopened("none")]

InBlock == saved # None
NoOpenScope == \A t \in TxIds : scope[t].st # "prepared"

Begin ==
    /\ ~InBlock
    /\ saved' = [accounts |-> accounts, txs |-> txs]
    /\ UNCHANGED <<accounts, txs, scope>>

Commit ==
    /\ InBlock /\ NoOpenScope
    /\ saved' = None
    /\ UNCHANGED <<accounts, txs, scope>>

RollBack ==
    /\ InBlock /\ NoOpenScope
    /\ accounts' = saved.accounts /\ txs' = saved.txs
    /\ saved' = None
    /\ UNCHANGED scope

Update(a, op, v) ==
    /\ InBlock
    /\ accounts' = [accounts EXCEPT ![a] = Apply(op, v, @)]
    /\ UNCHANGED <<txs, saved, scope>>

PutTx(h) ==
    /\ InBlock
    /\ txs' = txs \cup {h}
    /\ UNCHANGED <<accounts, saved, scope>>

Prepare(t) ==
    /\ InBlock /\ scope[t].st = "none"
    /\ scope' = [scope EXCEPT ![t] = [st |-> "prepared", base |-> accounts,
                                      local |-> NoWrites, btxs |-> txs, stxs |-> txs]]
    /\ UNCHANGED <<accounts, txs, saved>>

\* The value scope t sees for a: its own write, else what it read.
ScopeView(t, a) == IF scope[t].local[a] # NoAcc THEN scope[t].local[a] ELSE scope[t].base[a]

ScopeUpdate(t, a, op, v) ==
    /\ scope[t].st = "prepared"
    /\ scope' = [scope EXCEPT ![t].local[a] = Apply(op, v, ScopeView(t, a))]
    /\ UNCHANGED <<accounts, txs, saved>>

ScopePutTx(t, h) ==
    /\ scope[t].st = "prepared"
    /\ scope' = [scope EXCEPT ![t].stxs = @ \cup {h}]
    /\ UNCHANGED <<accounts, txs, saved>>

\* A failed transaction's scope drops what it wrote.
ScopeReset(t) ==
    /\ scope[t].st = "prepared"
    /\ scope' = [scope EXCEPT ![t].local = NoWrites]
    /\ UNCHANGED <<accounts, txs, saved>>

Written(t) == {a \in Addrs : scope[t].local[a] # NoAcc}

Merge(t) ==
    /\ scope[t].st = "prepared"
    /\ \A a \in Written(t) : accounts[a] = scope[t].base[a]
    /\ accounts' = [a \in Addrs |-> IF a \in Written(t) THEN scope[t].local[a] ELSE accounts[a]]
    /\ txs' = txs \cup (scope[t].stxs \ scope[t].btxs)
    /\ scope' = [scope EXCEPT ![t].st = "merged"]
    /\ UNCHANGED saved

Close(t) ==
    /\ scope[t].st \in {"prepared", "merged"}
    /\ scope' = [scope EXCEPT ![t] = Unopened("closed")]
    /\ UNCHANGED <<accounts, txs, saved>>

NoScopes == [t \in TxIds |-> Unopened("none")]

\* A new block continues the chain from these accounts, with no scope.
NextBlock ==
    /\ ~InBlock
    /\ scope' = NoScopes
    /\ UNCHANGED <<accounts, txs, saved>>

\* A restart keeps what the last Commit kept: an open block is undone.
Restart ==
    /\ accounts' = IF InBlock THEN saved.accounts ELSE accounts
    /\ txs' = IF InBlock THEN saved.txs ELSE txs
    /\ saved' = None
    /\ scope' = NoScopes

Next ==
    \/ NextBlock \/ Restart
    \/ Begin \/ Commit \/ RollBack
    \/ \E a \in Addrs, op \in OpNames, v \in Amounts : Update(a, op, v)
    \/ \E h \in TxHashes : PutTx(h)
    \/ \E t \in TxIds :
         \/ Prepare(t) \/ ScopeReset(t) \/ Merge(t) \/ Close(t)
         \/ \E h \in TxHashes : ScopePutTx(t, h)
         \/ \E a \in Addrs, op \in OpNames, v \in Amounts : ScopeUpdate(t, a, op, v)

Spec == Init /\ [][Next]_absVars

=============================================================================
