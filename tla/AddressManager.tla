--------------------------- MODULE AddressManager ---------------------------
(***************************************************************************)
(* The key manager of core/address/address_manager.go, entered through    *)
(* the wrappers of account/account_manager.go.  It keeps three stores of  *)
(* one key:                                                                *)
(*   - the keystore (crypto/keystore, DefaultKS): alias -> key, each key  *)
(*     encrypted under a passphrase, and the set of unlocked aliases;     *)
(*   - the key directory: one file keydir/<address> per key, the key      *)
(*     encrypted under a passphrase;                                      *)
(*   - am.addresses: a list of {addr, path} entries, rebuilt from the     *)
(*     directory by refreshAddresses and extended by updateAddressInfo    *)
(*     and LoadPrivate.                                                   *)
(*                                                                         *)
(* An address stands for its private key; passphrases are model values.  *)
(* The encryption, encodings and JSON are left out: a file or keystore    *)
(* entry is the passphrase it decrypts under.  Each method is one step:   *)
(* this is the sequential contract of one caller.  The keystore package   *)
(* and util.FileWrite are not part of src/ and are modelled from their    *)
(* use here.                                                              *)
(***************************************************************************)
EXTENDS Naturals, FiniteSets, Sequences, SequencesExt

CONSTANTS
    Addrs,          \* private keys, named by their addresses
    Passphrases,    \* passphrases callers pass
    KeyDirOrder,    \* the key files in ioutil.ReadDir order (by file name)
    NoKey           \* model value: no keystore entry / no key file

ASSUME /\ NoKey \notin Passphrases
       /\ KeyDirOrder \in Seq(Addrs) /\ ToSet(KeyDirOrder) = Addrs

VARIABLES
    ks,             \* keystore: alias -> passphrase of its entry, or NoKey
    unlocked,       \* keystore: aliases unlocked for signing
    keyFile,        \* key directory: address -> passphrase of keydir/addr
    addresses       \* am.addresses

vars == <<ks, unlocked, keyFile, addresses>>

\* The two paths an entry can hold: filepath.Join(am.keydir, addr) and the
\* zero value "" of an entry LoadPrivate appends.
KeyPath == "keydir/addr"
EmptyPath == ""

Entry == [addr : Addrs, path : {KeyPath, EmptyPath}]

\* Type invariant: the stores hold passphrases or NoKey, and the list holds
\* at most one entry per key.
AddressManagerTypeOK ==
    /\ ks \in [Addrs -> Passphrases \cup {NoKey}]
    /\ unlocked \subseteq Addrs
    /\ keyFile \in [Addrs -> Passphrases \cup {NoKey}]
    /\ addresses \in Seq(Entry)
    /\ Len(addresses) <= Cardinality(Addrs)

Listed(l) == {l[i].addr : i \in DOMAIN l}

\* getAddressInfo: the first entry of the list for addr.
getAddressInfo(l, a) == l[SelectInSeq(l, LAMBDA e : e.addr = a)]

updateAddressInfo_AlwaysAppend(l, a, path) == Append(l, [addr |-> a, path |-> path])
\* updateAddressInfo: set the path of addr's entry, or append one.
updateAddressInfo(l, a, path) ==
    IF a \in Listed(l)
    THEN [l EXCEPT ![SelectInSeq(l, LAMBDA e : e.addr = a)].path = path]
    ELSE Append(l, [addr |-> a, path |-> path])

LoadPrivateList_AlwaysAppend(l, a) == Append(l, [addr |-> a, path |-> EmptyPath])
\* LoadPrivate's list update: an entry with no path unless addr is listed.
LoadPrivateList(l, a) ==
    IF a \in Listed(l) THEN l ELSE Append(l, [addr |-> a, path |-> EmptyPath])

\* util.FileWrite(path, raw, overwrite): fails on the empty path, and on an
\* existing file unless overwrite is set.
FileWriteOK(a, path, overwrite) ==
    /\ path # EmptyPath
    /\ overwrite \/ keyFile[a] = NoKey

\* exportFile writes the key under passphrase p to the path of addr's
\* entry, or to keydir/addr when addr is not listed; every caller then
\* records the path with updateAddressInfo, or returns the error.
exportFile(a, p, overwrite, l) ==
    LET path == IF a \in Listed(l) THEN getAddressInfo(l, a).path ELSE KeyPath
    IN  IF FileWriteOK(a, path, overwrite)
        THEN /\ keyFile' = [keyFile EXCEPT ![a] = p]
             /\ addresses' = updateAddressInfo(l, a, path)
        ELSE /\ keyFile' = keyFile
             /\ addresses' = l

KeyDirFiles_OffByOne ==
    LET F == SelectSeq(KeyDirOrder, LAMBDA a : keyFile[a] # NoKey)
    IN  IF F = <<>> THEN F ELSE SubSeq(F, 1, Len(F) - 1)
\* The key files refreshAddresses reads, in ReadDir order.
KeyDirFiles == SelectSeq(KeyDirOrder, LAMBDA a : keyFile[a] # NoKey)

\* refreshAddresses: a new list with one entry per key file loadKeyFile
\* parses, replacing am.addresses.
refreshAddresses ==
    [i \in 1..Len(KeyDirFiles) |-> [addr |-> KeyDirFiles[i], path |-> KeyPath]]

\* loadFile: read addr's file at its entry's path and Load it, which
\* decrypts it with passphrase p.
loadFileOK(a, p) ==
    /\ a \in Listed(addresses)
    /\ getAddressInfo(addresses, a).path # EmptyPath
    /\ keyFile[a] = p

\* setKeyStore: ks.SetKey stores the key under the passphrase, replacing
\* an entry the alias had.
setKeyStore(a, p) == ks' = [ks EXCEPT ![a] = p]

\* Load: the key JSON, encrypted under q, decrypts with passphrase p.
Load(q, p) == q = p

\* A node starts with an empty in-memory keystore and the key directory
\* left by earlier runs; NewAddressManager lists it.
AddressManagerInit ==
    /\ keyFile \in [Addrs -> Passphrases \cup {NoKey}]
    /\ ks = [a \in Addrs |-> NoKey]
    /\ unlocked = {}
    /\ addresses = refreshAddresses

\* NewAddress: a new random key, never seen before, goes to the keystore
\* (setKeyStore) and to a new file.
NewAddress(a, p) ==
    /\ ks[a] = NoKey /\ keyFile[a] = NoKey /\ a \notin Listed(addresses)
    /\ setKeyStore(a, p)
    /\ exportFile(a, p, FALSE, addresses)
    /\ UNCHANGED unlocked

\* ImportByPrivateKey: LoadPrivate stores the key and lists addr, then
\* exportFile; an export error leaves what LoadPrivate did.
ImportByPrivateKey(a, p) ==
    /\ setKeyStore(a, p)
    /\ exportFile(a, p, FALSE, LoadPrivateList(addresses, a))
    /\ UNCHANGED unlocked

\* Import: Load decrypts the key JSON (encrypted under q) with p, then the
\* steps of ImportByPrivateKey.  No caller in the repository uses it.
Import(a, q, p) ==
    /\ Load(q, p)
    /\ ImportByPrivateKey(a, p)

\* Unlock: an alias the keystore lacks is first loaded from its file.
Unlock(a, p) ==
    IF ks[a] # NoKey
    THEN /\ ks[a] = p
         /\ unlocked' = unlocked \cup {a}
         /\ UNCHANGED <<ks, keyFile, addresses>>
    ELSE /\ loadFileOK(a, p)
         /\ setKeyStore(a, p)
         /\ unlocked' = unlocked \cup {a}
         /\ UNCHANGED <<keyFile, addresses>>

\* Lock: the keystore locks the alias again, as it does when the duration
\* Unlock gave ends.
Lock(a) ==
    /\ a \in unlocked
    /\ unlocked' = unlocked \ {a}
    /\ UNCHANGED <<ks, keyFile, addresses>>

\* UpdatePassphrase: get the key under old (loading the file if the
\* keystore does not have it so), store it under new, and rewrite the file.
UpdatePassphrase(a, old, new) ==
    /\ ks[a] = old \/ loadFileOK(a, old)
    /\ setKeyStore(a, new)
    /\ exportFile(a, new, TRUE, addresses)
    /\ UNCHANGED unlocked

\* RemoveAddress: delete the keystore entry; the file and the entry stay.
RemoveAddress(a, p) ==
    /\ ks[a] = p
    /\ ks' = [ks EXCEPT ![a] = NoKey]
    /\ unlocked' = unlocked \ {a}
    /\ UNCHANGED <<keyFile, addresses>>

\* Accounts: refreshAddresses, then a copy of the list.
Accounts ==
    /\ addresses' = refreshAddresses
    /\ UNCHANGED <<ks, unlocked, keyFile>>

\* The AccountManager entry points.
NewAccount(a, p) == NewAddress(a, p)
ImportAccount(a, p) == ImportByPrivateKey(a, p)
UpdateAccount(a, old, new) == UpdatePassphrase(a, old, new)
GetAllAddress == Accounts
UnLock(a, p) == Unlock(a, p)

AddressManagerNext ==
    \/ \E a \in Addrs, p \in Passphrases :
          \/ NewAccount(a, p)
          \/ ImportAccount(a, p)
          \/ UnLock(a, p)
          \/ RemoveAddress(a, p)
    \/ \E a \in Addrs, old, new \in Passphrases : UpdateAccount(a, old, new)
    \/ \E a \in Addrs, q, p \in Passphrases : Import(a, q, p)
    \/ \E a \in Addrs : Lock(a)
    \/ GetAllAddress

AddressManagerSpec == AddressManagerInit /\ [][AddressManagerNext]_vars
-----------------------------------------------------------------------------
(* Properties.                                                            *)

\* am.addresses never lists an address twice: getAddressInfo and
\* updateAddressInfo see one entry per key, whatever sequence of
\* NewAddress, Import, UpdatePassphrase and Accounts calls made the list.
NoDuplicateEntries ==
    \A i, j \in DOMAIN addresses :
        i # j => addresses[i].addr # addresses[j].addr

\* Every key file in keydir is listed, and its entry holds the file's path,
\* so loadFile (Unlock, UpdatePassphrase) can read it back: LoadPrivate's
\* path-less entries never stand for a key that has a file.
KeyFilesListed ==
    \A a \in Addrs :
        keyFile[a] # NoKey =>
            /\ a \in Listed(addresses)
            /\ getAddressInfo(addresses, a).path = KeyPath
=============================================================================
