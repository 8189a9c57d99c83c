--------------------------- MODULE MCApiCollections ---------------------------
(* Two requests; a live and a sandbox key to begin with; three budgets. *)
EXTENDS ApiCollections, TLC
CONSTANTS r1, r2, t1, t2
K(live, limited, family) == [live |-> live, active |-> TRUE, limited |-> limited, family |-> family]
Budget(calls, admin, portal, deliveries, expiries, stops) ==
  [calls |-> calls, admin |-> admin, portal |-> portal, deliveries |-> deliveries,
   expiries |-> expiries, stops |-> stops]
TwoKeys == <<K(TRUE, TRUE, 1), K(FALSE, FALSE, 2)>>
OneEntry == <<[key |-> 1, address |-> 1, status |-> "active"]>>
\* The lists of keys under edit; a request under review; two requests and their outcome.
ThreeStarts == {
  [keys |-> TwoKeys, entries |-> OneEntry, left |-> Budget(0, 1, 3, 0, 0, 0)],
  [keys |-> TwoKeys, entries |-> OneEntry, left |-> Budget(1, 3, 1, 0, 0, 0)],
  [keys |-> TwoKeys, entries |-> OneEntry, left |-> Budget(2, 0, 0, 3, 1, 1)]}
Alike == Permutations({r1, r2}) \cup Permutations({t1, t2})
=============================================================================
