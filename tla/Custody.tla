------------------------------ MODULE Custody ------------------------------
(***************************************************************************)
(* What a merchant may expect of every withdrawal, whatever the statuses   *)
(* and the interleavings: its money is in exactly one place.  It is in the *)
(* wallet, or held for the payout, or with the recipient; it leaves the    *)
(* wallet only by being held, reaches the recipient only from there, and   *)
(* goes back to the wallet only when no payment of it stands.              *)
(***************************************************************************)
EXTENDS Integers

CONSTANTS Withdrawals, Price, Opening

VARIABLES
  place,   \* [Withdrawals -> {"wallet", "held", "recipient"}]
  wallet   \* Nat

vars == <<place, wallet>>

Init == place = [w \in Withdrawals |-> "wallet"] /\ wallet = Opening

Move(w, from, to) == place[w] = from /\ place' = [place EXCEPT ![w] = to]

Reserve(w) ==
  Move(w, "wallet", "held") /\ Price[w] <= wallet /\ wallet' = wallet - Price[w]
Release(w) == Move(w, "held", "wallet") /\ wallet' = wallet + Price[w]
Pay(w)     == Move(w, "held", "recipient") /\ UNCHANGED wallet
Return(w)  == Move(w, "recipient", "held") /\ UNCHANGED wallet

Next == \E w \in Withdrawals : Reserve(w) \/ Release(w) \/ Pay(w) \/ Return(w)

Spec == Init /\ [][Next]_vars
=============================================================================
