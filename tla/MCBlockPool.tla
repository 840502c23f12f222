---------------------------- MODULE MCBlockPool -----------------------------
(* Instances of BlockPool for TLC.  Main tree: b1..b4 form one chain on  *)
(* genesis, b5 extends b4 but fails VerifyExecution, b6 is a valid fork   *)
(* off b1 and b7 fails VerifyIntegrity.                                   *)
EXTENDS BlockPool, TLC

CONSTANTS g, b1, b2, b3, b4, b5, b6, b7

\* The block tree of the main run.
MCParent == (b1 :> g) @@ (b2 :> b1) @@ (b3 :> b2) @@ (b4 :> b3)
            @@ (b5 :> b4) @@ (b6 :> b1) @@ (b7 :> b1)

\* One chain of valid blocks, for the tail-progress run.
MCLineParent == (b1 :> g) @@ (b2 :> b1) @@ (b3 :> b2) @@ (b4 :> b3)

\* The line with a child of b4 that fails VerifyExecution, for the
\* liveness run.
MCSyncParent == MCLineParent @@ (b5 :> b4)

\* Two branches of valid blocks, for the canonical-index run.
MCForkParent == (b1 :> g) @@ (b2 :> g) @@ (b3 :> b2)
=============================================================================
