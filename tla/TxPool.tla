------------------------------- MODULE TxPool -------------------------------
(***************************************************************************)
(* The transaction pool of core/tx_pool.go and core/tx_queue.go: two time *)
(* heaps, pending (local transactions) and queued (remote ones), and the   *)
(* txFilter dedup map.                                                     *)
(*                                                                         *)
(* Callers are goroutines that call AddLocal, AddRemote, Get, Promote and  *)
(* removeTx.  Only Get takes pool.rw, so a heap operation of add and       *)
(* promote can interleave with any other.  Each heap.Push and heap.Pop is  *)
(* split where Go's slice update is not atomic: it reads the slice         *)
(* (header and elements) and later writes the new slice back.  A data race *)
(* between two writers then ends with the last writer's slice, which is    *)
(* one of the outcomes the build can produce.                              *)
(*                                                                         *)
(* A heap is a bag of transactions; heap.Pop returns one of minimal        *)
(* Timestamp (Less in tx_queue.go).  A transaction model value stands for  *)
(* its (from address, nonce) pair, the txFilter key.                       *)
(***************************************************************************)
EXTENDS Naturals, Bags, BagsExt

CONSTANTS
    Txs,            \* transactions callers submit
    Timestamp,      \* Timestamp[t]: tx.Timestamp(), the heap order
    MaxPending,     \* maxPendingSize (4096 in the code)
    MaxBatch,       \* bound on the size argument of Get and Promote
    Callers,        \* goroutines that use the pool
    MaxCalls,       \* bound on the number of pool calls
    NoTx            \* model value: no transaction / no lock holder

ASSUME /\ NoTx \notin Txs \cup Callers
       /\ Timestamp \in [Txs -> Nat]
       /\ MaxPending \in Nat /\ MaxBatch \in Nat /\ MaxCalls \in Nat

VARIABLES
    pending,    \* pool.pending
    queued,     \* pool.queued
    txFilter,   \* pool.txFilter as the set of keys it holds
    lockedBy,   \* holder of pool.rw, or NoTx
    proc,       \* per caller: the call in progress and its locals
    accepted,   \* bag of transactions some add returned nil for
    delivered,  \* bag of transactions Get has returned
    calls,      \* pool calls made so far
    panicked    \* a goroutine panicked: the node process is gone

vars == <<pending, queued, txFilter, lockedBy, proc, accepted, delivered, calls, panicked>>

Ops == {"idle", "addLocal", "addRemote", "get", "promote"}
PCs == {"idle", "check", "pushRead", "pushWrite", "popRead", "popWrite"}

TxPoolTypeOK ==
    /\ IsABag(pending) /\ BagToSet(pending) \subseteq Txs
    /\ IsABag(queued) /\ BagToSet(queued) \subseteq Txs
    /\ txFilter \subseteq Txs
    /\ lockedBy \in Callers \cup {NoTx}
    /\ \A c \in Callers :
         /\ proc[c].op \in Ops /\ proc[c].pc \in PCs
         /\ proc[c].tx \in Txs \cup {NoTx}
         /\ proc[c].left \in 0..MaxBatch
         /\ IsABag(proc[c].snap) /\ BagToSet(proc[c].snap) \subseteq Txs
    /\ calls \in 0..MaxCalls
    /\ panicked \in BOOLEAN

Idle == [op |-> "idle", pc |-> "idle", tx |-> NoTx, left |-> 0, snap |-> EmptyBag]

TxPoolInit ==
    /\ pending = EmptyBag /\ queued = EmptyBag
    /\ txFilter = {}
    /\ lockedBy = NoTx
    /\ proc = [c \in Callers |-> Idle]
    /\ accepted = EmptyBag /\ delivered = EmptyBag
    /\ calls = 0
    /\ panicked = FALSE

\* The heap an in-progress step of caller c pushes to or pops from.
PushHeap(c) == IF proc[c].op = "addRemote" THEN "queued" ELSE "pending"
PopHeap(c) == IF proc[c].op = "get" THEN "pending" ELSE "queued"
HeapOf(h) == IF h = "pending" THEN pending ELSE queued

\* Write the slice of heap h.
SetHeap(h, v) == IF h = "pending" THEN pending' = v /\ UNCHANGED queued
                                  ELSE queued' = v /\ UNCHANGED pending

\* The elements heap.Pop may return: one of minimal Timestamp.
HeapMin(b) == {x \in BagToSet(b) : \A y \in BagToSet(b) : Timestamp[x] <= Timestamp[y]}

\* Mutation: Pop returns old[n-1] but leaves *h unshortened.
HeapPop_Keep(b, x) == b
\* timeHeap.Pop: *h = old[0 : n-1], the minimum having been swapped last.
HeapPop(b, x) == BagRemove(b, x)

\* Mutation: the PopTxs loop runs while count <= size.
MorePops_OffByOne(left) == left >= 0
\* The PopTxs loop condition count < size, with left = size - count.
MorePops(left) == left > 0

\* isExist: the (from, nonce) key is in txFilter.
isExist(t) == t \in txFilter

Call(c) == proc[c].op = "idle" /\ calls < MaxCalls /\ ~panicked

\* AddLocal / AddRemote with a one-transaction list: addTxs starts.
AddTxs(c, t, local) ==
    /\ Call(c)
    /\ proc' = [proc EXCEPT ![c] = [Idle EXCEPT !.op = IF local THEN "addLocal" ELSE "addRemote",
                                                !.pc = "check", !.tx = t]]
    /\ calls' = calls + 1
    /\ UNCHANGED <<pending, queued, txFilter, lockedBy, accepted, delivered, panicked>>

\* addTxs skips a transaction isExist finds; add returns ErrTxPoolFull when
\* len(pool.pending) >= maxPendingSize; otherwise add goes on to heap.Push.
AddCheck(c) ==
    /\ proc[c].pc = "check" /\ ~panicked
    /\ proc' = [proc EXCEPT ![c] =
                  IF isExist(proc[c].tx) \/ BagCardinality(pending) >= MaxPending
                  THEN Idle ELSE [@ EXCEPT !.pc = "pushRead"]]
    /\ UNCHANGED <<pending, queued, txFilter, lockedBy, accepted, delivered, calls, panicked>>

\* heap.Push / timeHeap.Push, first half: read the slice to append to.
PushRead(c) ==
    /\ proc[c].pc = "pushRead" /\ ~panicked
    /\ proc' = [proc EXCEPT ![c].pc = "pushWrite", ![c].snap = HeapOf(PushHeap(c))]
    /\ UNCHANGED <<pending, queued, txFilter, lockedBy, accepted, delivered, calls, panicked>>

\* heap.Push, second half: write the appended slice back.  For add this
\* ends the call with nil; for promote the loop goes on to the next Pop.
PushWrite(c) ==
    /\ proc[c].pc = "pushWrite" /\ ~panicked
    /\ SetHeap(PushHeap(c), BagAdd(proc[c].snap, proc[c].tx))
    /\ IF proc[c].op = "promote"
       THEN /\ proc' = [proc EXCEPT ![c] = IF MorePops(@.left) THEN [@ EXCEPT !.pc = "popRead"]
                                                            ELSE Idle]
            /\ UNCHANGED accepted
       ELSE /\ proc' = [proc EXCEPT ![c] = Idle]
            /\ accepted' = BagAdd(accepted, proc[c].tx)
    /\ UNCHANGED <<txFilter, lockedBy, delivered, calls, panicked>>

\* Get(size): takes pool.rw and calls pending.PopTxs(size), which returns
\* an empty list at once when size <= 0.
Get(c, n) ==
    /\ Call(c) /\ lockedBy = NoTx
    /\ IF MorePops(n)
       THEN /\ lockedBy' = c
            /\ proc' = [proc EXCEPT ![c] = [Idle EXCEPT !.op = "get", !.pc = "popRead", !.left = n]]
       ELSE UNCHANGED <<lockedBy, proc>>
    /\ calls' = calls + 1
    /\ UNCHANGED <<pending, queued, txFilter, accepted, delivered, panicked>>

\* Promote(size): promote's loop pops from queued and pushes to pending.
Promote(c, n) ==
    /\ Call(c)
    /\ proc' = IF MorePops(n)
               THEN [proc EXCEPT ![c] = [Idle EXCEPT !.op = "promote", !.pc = "popRead", !.left = n]]
               ELSE proc
    /\ calls' = calls + 1
    /\ UNCHANGED <<pending, queued, txFilter, lockedBy, accepted, delivered, panicked>>

\* heap.Pop, first half: read the slice.  On an empty slice heap.Pop's
\* Swap(0, -1) is an index out of range: the goroutine panics.
PopRead(c) ==
    /\ proc[c].pc = "popRead" /\ ~panicked
    /\ IF HeapOf(PopHeap(c)) = EmptyBag
       THEN panicked' = TRUE /\ UNCHANGED proc
       ELSE /\ proc' = [proc EXCEPT ![c].pc = "popWrite", ![c].snap = HeapOf(PopHeap(c))]
            /\ UNCHANGED panicked
    /\ UNCHANGED <<pending, queued, txFilter, lockedBy, accepted, delivered, calls>>

\* heap.Pop, second half: write the shortened slice back.  Get appends the
\* transaction to its result and loops or unlocks; promote pushes it.
PopWrite(c) ==
    /\ proc[c].pc = "popWrite" /\ ~panicked
    /\ \E x \in HeapMin(proc[c].snap) :
         /\ SetHeap(PopHeap(c), HeapPop(proc[c].snap, x))
         /\ LET left == proc[c].left - 1 IN
            IF proc[c].op = "get"
            THEN /\ delivered' = BagAdd(delivered, x)
                 /\ proc' = [proc EXCEPT ![c] = IF MorePops(left)
                                                THEN [@ EXCEPT !.pc = "popRead", !.left = left]
                                                ELSE Idle]
                 /\ lockedBy' = IF MorePops(left) THEN lockedBy ELSE NoTx
            ELSE /\ proc' = [proc EXCEPT ![c] = [@ EXCEPT !.pc = "pushRead", !.tx = x, !.left = left]]
                 /\ UNCHANGED <<delivered, lockedBy>>
    /\ UNCHANGED <<txFilter, accepted, calls, panicked>>

\* removeTx: returns unless isExist; otherwise deletes the key.
RemoveTx(c, t) ==
    /\ Call(c)
    /\ txFilter' = IF isExist(t) THEN txFilter \ {t} ELSE txFilter
    /\ calls' = calls + 1
    /\ UNCHANGED <<pending, queued, lockedBy, proc, accepted, delivered, panicked>>

TxPoolNext ==
    \E c \in Callers :
       \/ \E t \in Txs, local \in BOOLEAN : AddTxs(c, t, local)
       \/ AddCheck(c) \/ PushRead(c) \/ PushWrite(c)
       \/ \E n \in 0..MaxBatch : Get(c, n) \/ Promote(c, n)
       \/ PopRead(c) \/ PopWrite(c)
       \/ \E t \in Txs : RemoveTx(c, t)

TxPoolSpec == TxPoolInit /\ [][TxPoolNext]_vars

-----------------------------------------------------------------------------
AllIdle == \A c \in Callers : proc[c].op = "idle"

\* Spec 4.5: the pool's heaps hold exactly what was accepted and not yet
\* handed out.  Whenever no call is in progress, every transaction some
\* add accepted is in pending or queued or was returned by Get, exactly
\* once.  Go's heap.Push and heap.Pop rewrite the slice without a lock in
\* add and promote; a concurrent rewrite drops or duplicates an entry.
Conservation ==
    (AllIdle /\ ~panicked) => pending (+) queued (+) delivered = accepted


=============================================================================
