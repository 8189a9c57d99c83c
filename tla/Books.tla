------------------------------- MODULE Books -------------------------------
(***************************************************************************)
(* What the ledger promises its callers: a posting is one indivisible      *)
(* event.  Either every leg of it is in the books, or none is, and a       *)
(* posting that would overdraw a merchant's wallet never happens.          *)
(*                                                                         *)
(* Module Ledger models how post_ledger_entries() does it (row locks, one  *)
(* leg at a time, a deferred balance check, deadlock victims) and is shown *)
(* to implement this module.                                               *)
(***************************************************************************)
EXTENDS Integers

CONSTANTS
  Merchants,    \* merchants, each with one wallet account
  Txns,         \* rows of the transactions table
  TxnMerchant,  \* [Txns -> Merchants]
  TxnType,      \* [Txns -> {"collection", "disbursement", "refund"}]
  Net,          \* [Txns -> amount without the fee]
  Fee           \* [Txns -> fee, possibly 0]

TxnTypes == {"collection", "disbursement", "refund"}

VARIABLES
  wallet,      \* [Merchants -> Int]  liability owed to the merchant
  settlement,  \* Int                 asset held with the provider
  revenue,     \* Int                 fees earned
  posted       \* [Txns -> [PostingKinds -> Nat]]  committed postings

vars == <<wallet, settlement, revenue, posted>>

\* The five public posting functions of services/ledger.py, by direction.
PostingKinds == {"post", "reverse"}

\* A refund has no reversal function; the other two have one.
Permitted(t, kind) == kind = "post" \/ TxnType[t] # "refund"

\* Signed effect of one posting of t on the merchant's wallet, on the
\* settlement account and on the fee revenue.
Sign(kind) == IF kind = "post" THEN 1 ELSE -1

WalletEffect(t, kind) ==
  Sign(kind) * (CASE TxnType[t] = "collection"   -> Net[t]
                  [] TxnType[t] = "disbursement" -> -(Net[t] + Fee[t])
                  [] TxnType[t] = "refund"       -> -Net[t])

SettlementEffect(t, kind) ==
  Sign(kind) * (CASE TxnType[t] = "collection"   -> Net[t] + Fee[t]
                  [] TxnType[t] = "disbursement" -> -Net[t]
                  [] TxnType[t] = "refund"       -> -Net[t])

RevenueEffect(t, kind) ==
  Sign(kind) * (IF TxnType[t] = "refund" THEN 0 ELSE Fee[t])

Init ==
  /\ wallet = [m \in Merchants |-> 0]
  /\ settlement = 0
  /\ revenue = 0
  /\ posted = [t \in Txns |-> [k \in PostingKinds |-> 0]]

\* One posting, whole or not at all, and only if the wallet can bear it.
Post(t, kind) ==
  LET m == TxnMerchant[t] IN
  /\ Permitted(t, kind)
  /\ WalletEffect(t, kind) < 0 => wallet[m] + WalletEffect(t, kind) >= 0
  /\ wallet' = [wallet EXCEPT ![m] = @ + WalletEffect(t, kind)]
  /\ settlement' = settlement + SettlementEffect(t, kind)
  /\ revenue' = revenue + RevenueEffect(t, kind)
  /\ posted' = [posted EXCEPT ![t][kind] = @ + 1]

Next == \E t \in Txns, kind \in PostingKinds : Post(t, kind)

Spec == Init /\ [][Next]_vars
=============================================================================
