\* A block's world state with two transaction scopes over one address;
\* callers change balances only.
CONSTANTS
    a1 = a1  x1 = x1  x2 = x2  h1 = h1
    Addrs = {a1}
    TxIds = {x1, x2}
    TxHashes = {h1}
    None = None
    NoAcc = NoAcc
    MaxAmount = 1
    Ops <- MCOps
    GenesisTokens <- MCGenesisTokens
SPECIFICATION WorldStateSpec
INVARIANT WorldStateTypeOK
PROPERTY Refines
