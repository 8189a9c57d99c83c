------------------------- MODULE MCWebhookDelivery -------------------------
(* Two replicas, two merchants and up to three events. *)
EXTENDS WebhookDelivery, TLC
CONSTANTS r1, r2, m1, m2, a1
TwoReplicas == {r1, r2}
TwoMerchants == {m1, m2}
\* A queue of three that works; two events, a change and a fault; one event, two of each.
ThreeStarts == {
  [legacy |-> {m1, m2}, events |-> 3, edits |-> 0, faults |-> 0],
  [legacy |-> {m1}, events |-> 2, edits |-> 1, faults |-> 1],
  [legacy |-> {m1}, events |-> 1, edits |-> 2, faults |-> 2]}
=============================================================================
