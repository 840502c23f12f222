------------------------------ MODULE Account ------------------------------
(***************************************************************************)
(* An account of core/account_state.go as a value: its three funds, the   *)
(* guarded Add/Sub operations on them, and the protobuf conversion Flush  *)
(* and getAccount go through.  Funds are *big.Int in the code; they are   *)
(* kept in 0..MaxAmount here and an Add that would leave that range is   *)
(* not offered.  Nonce, credit index, variables and permissions are left  *)
(* out: no operation modelled here reads them.                            *)
(***************************************************************************)
EXTENDS Naturals

CONSTANTS
    MaxAmount,  \* bound on every fund
    NoAcc       \* model value: no account (absent map entry or trie key)

Funds == 0..MaxAmount
Amounts == 1..MaxAmount

Accounts == [balance : Funds, frozen : Funds, pledge : Funds]

\* newAccount: every fund zero.
Zero == [balance |-> 0, frozen |-> 0, pledge |-> 0]

\* The operations a caller applies to the account GetOrCreateAccount
\* returned; "Get" is GetOrCreateAccount alone.
OpNames == {"Get", "AddBalance", "SubBalance", "AddFrozenFund",
            "SubFrozenFund", "AddPledgeFund", "SubPledgeFund"}

FieldOf == [AddBalance |-> "balance", SubBalance |-> "balance",
            AddFrozenFund |-> "frozen", SubFrozenFund |-> "frozen",
            AddPledgeFund |-> "pledge", SubPledgeFund |-> "pledge"]

IsAdd(op) == op \in {"AddBalance", "AddFrozenFund", "AddPledgeFund"}
IsSub(op) == op \in {"SubBalance", "SubFrozenFund", "SubPledgeFund"}

\* account.Add*: the field grows by v.  account.Sub*: when the field is
\* below v the call returns Err*Insufficient and changes nothing;
\* otherwise the field shrinks by v.
Apply(op, v, acc) ==
    CASE IsAdd(op) -> [acc EXCEPT ![FieldOf[op]] = @ + v]
      [] IsSub(op) -> IF acc[FieldOf[op]] < v THEN acc
                      ELSE [acc EXCEPT ![FieldOf[op]] = @ - v]
      [] OTHER     -> acc

\* The operation stays inside the model's fund bound.
InBounds(op, v, acc) == Apply(op, v, acc) \in Accounts

\* account.ToBytes: the corepb.Account written into the state trie.  Its
\* PledgeFund field is filled from acc.frozenFund.  big.Int.Bytes and
\* SetBytes round-trip a non-negative value, so a fund is kept as is.
ToBytes(acc) ==
    [Balance |-> acc.balance, FrozenFund |-> acc.frozen, PledgeFund |-> acc.frozen]

\* account.FromBytes: the account read back from a trie value.
FromBytes(pb) ==
    [balance |-> pb.Balance, frozen |-> pb.FrozenFund, pledge |-> pb.PledgeFund]

=============================================================================
