----------------------------- MODULE BlockChain -----------------------------
(***************************************************************************)
(* The persisted chain of core/blockchain.go: the blocks in storage, the   *)
(* tail pointer, the height index ("height -> hash" keys written only by   *)
(* SetTailBlock) and the detachedTailBlocks cache.                         *)
(*                                                                         *)
(* Blocks are model values.  The block tree every producer builds on is    *)
(* the constant Parent; a block's hash covers its parent hash, so a block  *)
(* has exactly one parent.  Heights are the depth in that tree: the code   *)
(* sets height = parent height + 1 in LinkParentBlock (core/block.go),     *)
(* and honest producers put the same height on the wire.                   *)
(***************************************************************************)
EXTENDS Naturals, FiniteSets

CONSTANTS
    Genesis,    \* the genesis block, height 0, always in storage
    Blocks,     \* every other block some producer may send us
    Parent,     \* Parent[b]: the block b's header names as parent
    NoBlock     \* model value: a nil *Block / an absent key

AllBlocks == Blocks \cup {Genesis}

ASSUME /\ Genesis \notin Blocks
       /\ NoBlock \notin AllBlocks
       /\ Parent \in [Blocks -> AllBlocks]

RECURSIVE Height(_)
Height(b) == IF b = Genesis THEN 0 ELSE Height(Parent[b]) + 1

\* The strict ancestors of b, Genesis included.
RECURSIVE Ancestors(_)
Ancestors(b) == IF b = Genesis THEN {} ELSE {Parent[b]} \cup Ancestors(Parent[b])

MaxHeight == LET hs == {Height(b) : b \in AllBlocks}
             IN CHOOSE h \in hs : \A k \in hs : k <= h

Heights == 0..MaxHeight

VARIABLES
    stored,         \* blocks whose hash key is in storage (GetBlock # nil)
    tail,           \* bc.tailBlock, also persisted under "blockchain_tail"
    heightIdx,      \* the "height -> hash" index of the canonical chain
    detachedTails   \* bc.detachedTailBlocks

chainVars == <<stored, tail, heightIdx, detachedTails>>

ChainTypeOK ==
    /\ stored \subseteq AllBlocks
    /\ tail \in AllBlocks
    /\ heightIdx \in [Heights -> AllBlocks \cup {NoBlock}]
    /\ detachedTails \subseteq AllBlocks

\* Setup: LoadGenesisFromStorage stores genesis and indexes height 0;
\* LoadTailFromStorage finds no tail key and makes genesis the tail.
ChainInit ==
    /\ stored = {Genesis}
    /\ tail = Genesis
    /\ heightIdx = [h \in Heights |-> IF h = 0 THEN Genesis ELSE NoBlock]
    /\ detachedTails = {}

\* SetTailBlock: refuses (and the caller ignores the error) unless the new
\* tail is exactly one higher than the old one; otherwise writes the
\* height index and the tail.  Nothing checks newTail's parent.
SetTailBlock(newTail) ==
    IF Height(tail) + 1 = Height(newTail)
    THEN /\ heightIdx' = [heightIdx EXCEPT ![Height(newTail)] = newTail]
         /\ tail' = newTail
    ELSE UNCHANGED <<heightIdx, tail>>

\* GetBlock(hash) != nil: the block is in cachedBlocks or can be loaded
\* from storage.  Both hold exactly the blocks put on the chain.
GetBlock(b) == b \in stored

\* StoreBlockToStorage for each block of S, after cachedBlocks.Add.  The
\* db.Put is assumed to succeed.
StoreBlockToStorage(S) == stored' = stored \cup S

\* putVerifiedNewBlocks: store every verified block, add the new tips to
\* detachedTailBlocks and drop the parent the batch hangs from.
PutVerifiedNewBlocks(parent, allBlocks, tailBlocks) ==
    /\ StoreBlockToStorage(allBlocks)
    /\ detachedTails' = (detachedTails \cup tailBlocks) \ {parent}

=============================================================================
