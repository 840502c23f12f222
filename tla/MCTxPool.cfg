\* One goroutine uses the pool: the sequential contract of add, Get and
\* Promote.  The run stops at the call bound or at a panic.
CONSTANTS
    Txs = {t1, t2, t3}
    t1 = t1  t2 = t2  t3 = t3  c1 = c1  c2 = c2  NoTx = NoTx
    Timestamp <- MCTimestamp
    MaxPending = 2
    MaxBatch = 2
    Callers = {c1}
    MaxCalls = 5
SPECIFICATION TxPoolSpec
INVARIANT TxPoolTypeOK
INVARIANT Conservation
CHECK_DEADLOCK FALSE
