------------------------ MODULE MCWithdrawalRequests ------------------------
(***************************************************************************)
(* Constants for the runs of WithdrawalRequests.                           *)
(***************************************************************************)
EXTENDS WithdrawalRequests, TLC

CONSTANTS s1, s2, k1

Portal == (s1 :> {"create", "verify", "resend"}) @@ (s2 :> {"verify", "direct"})
Edits  == (s1 :> {"direct", "policy"}) @@ (s2 :> {"policy"})

\* The portal with its codes beside an API client; two administrators beside it.
PortalAndEdits == {Portal, Edits}

\* An API client that sends its request again.
ApiOnly == {(s1 :> {"direct"}) @@ (s2 :> {"direct"})}

Large == [on |-> TRUE, max |-> 2, rolling |-> 3]
\* One that is off, one that is possible, one that is not.
SavedPolicies == {Off, Large, [on |-> TRUE, max |-> 2, rolling |-> 1]}
=============================================================================
