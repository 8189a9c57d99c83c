----------------------------- MODULE MCMessages -----------------------------
(* Two sweeps, two administrators; two of the merchants share a number, the  *)
(* third has none; one operator.                                             *)
EXTENDS Messages, TLC
CONSTANTS w1, w2, a1, a2, m1, m2, m3, o1, p1, p2, NoPhone
TwoWorkers == {w1, w2}
TwoAdmins == {a1, a2}
ThreeMerchants == {m1, m2, m3}
OneOperator == {o1}
OneShared == (m1 :> p1) @@ (m2 :> p1) @@ (m3 :> NoPhone) @@ (o1 :> p2)
Nothing == [alerts |-> 0, ops |-> 0, drafts |-> 0, edits |-> 0, retries |-> 0, limits |-> 0,
            reports |-> 0, days |-> 0, faults |-> 0]
\* An alert with reports and retries; two alerts; an operator's, asked for twice; an
\* announcement; the daily email.
FiveStarts == {
  [Nothing EXCEPT !.alerts = 1, !.retries = 1, !.reports = 2, !.faults = 1],
  [Nothing EXCEPT !.alerts = 2],
  [Nothing EXCEPT !.ops = 2, !.retries = 1, !.faults = 1],
  [Nothing EXCEPT !.drafts = 1, !.edits = 1, !.limits = 1],
  [Nothing EXCEPT !.days = 3]}
=============================================================================
