------------------------------ MODULE MCProvider ------------------------------
(* Three calls against two slots a window and one permit. *)
EXTENDS Provider, TLC
CONSTANTS c1, c2, c3
ThreeCalls == {c1, c2, c3}
Mix(a, b, c) == c1 :> a @@ c2 :> b @@ c3 :> c
\* Customers paying; a sweep asking; a lookup beside payouts.
FiveMixes == {
  Mix(CreateOrderMinimal, ProcessWalletPayment, SelcomPesaPayment),
  Mix(CreateOrderMinimal, GetOrderStatus, ProcessWalletPayment),
  Mix(GetOrderStatus, ResolveRecipientName, ProcessTransaction),
  Mix(ProcessWalletPayment, ResolveRecipientName, QueryTransaction),
  Mix(LegacyStatus, GetOrderStatus, ProcessTransaction)}
\* One push of the older client.
OldPush == {Mix(LegacyPush, ResolveRecipientName, QueryTransaction)}
=============================================================================
