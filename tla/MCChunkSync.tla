---------------------------- MODULE MCChunkSync -----------------------------
(* Chunk sync over a line of six blocks on genesis. *)
EXTENDS ChunkSync, TLC

CONSTANTS g, b1, b2, b3, b4, b5, b6

MCLine == (b1 :> g) @@ (b2 :> b1) @@ (b3 :> b2) @@ (b4 :> b3) @@ (b5 :> b4) @@ (b6 :> b5)
=============================================================================
