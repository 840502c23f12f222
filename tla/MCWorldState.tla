---------------------------- MODULE MCWorldState ----------------------------
(* Instantiates WorldState: one address, two transaction scopes, one     *)
(* transaction hash.                                                        *)
EXTENDS WorldState

CONSTANTS a1, x1, x2, h1

\* The balance operations; frozen and pledge funds stay zero.
MCOps == {"AddBalance", "SubBalance"}

\* Two allocations to a1; the second finds a1 among the dirty accounts.
MCGenesisTokens == <<[addr |-> a1, value |-> 1], [addr |-> a1, value |-> 0]>>
=============================================================================
