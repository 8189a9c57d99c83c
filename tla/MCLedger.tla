------------------------------ MODULE MCLedger ------------------------------
(***************************************************************************)
(* Constants for the run of Ledger: one merchant with a collection that    *)
(* carries a fee, a withdrawal that does not, and a refund.  What is       *)
(* collected covers either debit, not both; each can be posted and the     *)
(* first two reversed; settlement and the wallet are locked in opposite    *)
(* orders.                                                                 *)
(***************************************************************************)
EXTENDS Ledger, TLC

CONSTANTS m1, c1, d1, r1

MCTxnMerchant == (c1 :> m1) @@ (d1 :> m1) @@ (r1 :> m1)
MCTxnType == (c1 :> "collection") @@ (d1 :> "disbursement") @@ (r1 :> "refund")
MCNet == (c1 :> 2) @@ (d1 :> 2) @@ (r1 :> 2)
MCFee == (c1 :> 1) @@ (d1 :> 0) @@ (r1 :> 0)
=============================================================================
