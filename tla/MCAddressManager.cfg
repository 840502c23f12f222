\* One caller of the account manager, starting from any key directory a
\* previous run can leave: every sequence of its calls.
CONSTANTS
    a1 = a1  a2 = a2  a3 = a3  p1 = p1  p2 = p2  NoKey = NoKey
    Addrs = {a1, a2, a3}
    Passphrases = {p1, p2}
    KeyDirOrder <- MCKeyDirOrder
SPECIFICATION AddressManagerSpec
INVARIANT AddressManagerTypeOK
INVARIANT NoDuplicateEntries
INVARIANT KeyFilesListed
