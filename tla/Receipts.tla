------------------------------ MODULE Receipts ------------------------------
(***************************************************************************)
(* What a merchant may expect of every collection: it is credited once,    *)
(* and only if the customer paid; if the payment comes back afterwards the *)
(* credit is clawed back once, or, when the wallet cannot bear it, the     *)
(* merchant owes it.  Every collection is one unit of money.               *)
(***************************************************************************)
EXTENDS Integers

CONSTANT Collections

VARIABLES
  place,   \* [Collections -> {"open", "credited", "returned", "owed"}]
  wallet,  \* Nat
  paid,    \* SUBSET Collections  the customer did pay, as far as anyone knows
  back     \* SUBSET paid         and the payment was given back

vars == <<place, wallet, paid, back>>

Init ==
  /\ place = [c \in Collections |-> "open"] /\ wallet = 0
  /\ back = {} /\ paid \subseteq Collections

Move(c, from, to) == place[c] = from /\ place' = [place EXCEPT ![c] = to]

Credit(c) ==
  /\ c \in paid /\ Move(c, "open", "credited")
  /\ wallet' = wallet + 1 /\ UNCHANGED <<paid, back>>
ClawBack(c) ==
  /\ c \in back /\ Move(c, "credited", "returned")
  /\ wallet > 0 /\ wallet' = wallet - 1 /\ UNCHANGED <<paid, back>>
WriteOff(c) ==
  /\ c \in back /\ Move(c, "credited", "owed")
  /\ wallet = 0 /\ UNCHANGED <<wallet, paid, back>>
Withdraw == wallet > 0 /\ wallet' = wallet - 1 /\ UNCHANGED <<place, paid, back>>

\* The provider's side only ever learns more.
Learn ==
  /\ paid \subseteq paid' /\ paid' \subseteq Collections
  /\ back \subseteq back' /\ back' \subseteq paid'
  /\ UNCHANGED <<place, wallet>>

Next ==
  \/ \E c \in Collections : Credit(c) \/ ClawBack(c) \/ WriteOff(c)
  \/ Withdraw \/ Learn

Spec == Init /\ [][Next]_vars
=============================================================================
