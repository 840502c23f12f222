\* Two goroutines use the pool with no lock around add and promote: the
\* heap slice writes of concurrent calls interleave.
CONSTANTS
    Txs = {t1, t2, t3}
    t1 = t1  t2 = t2  t3 = t3  c1 = c1  c2 = c2  NoTx = NoTx
    Timestamp <- MCTimestamp
    MaxPending = 2
    MaxBatch = 2
    Callers = {c1, c2}
    MaxCalls = 3
SPECIFICATION TxPoolSpec
INVARIANT Conservation
CHECK_DEADLOCK FALSE
