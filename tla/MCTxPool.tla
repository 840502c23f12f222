------------------------------ MODULE MCTxPool ------------------------------
(* Instantiates TxPool: three transactions, two of them with the same     *)
(* timestamp so that heap.Pop's choice between equals is explored.        *)
EXTENDS TxPool

CONSTANTS t1, t2, t3, c1, c2

MCTimestamp == (t1 :> 1) @@ (t2 :> 2) @@ (t3 :> 2)
=============================================================================
