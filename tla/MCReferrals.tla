----------------------------- MODULE MCReferrals -----------------------------
(* Two identities, two phones, four people, two requests at a time.         *)
EXTENDS Referrals
CONSTANTS u1, u2, u3, n1, n2, p1, p2, t1, t2, c1, c2
FewUsers == {u1, u2, u3}
TwoNidas == {n1, n2}
TwoPhones == {p1, p2}
TwoCalculators == {c1, c2}
TwoThreads == {t1, t2}
Nothing == [begun |-> FALSE, signups |-> 0, accounts |-> 0, reviews |-> 0, corrections |-> 0,
            invites |-> 0, edits |-> 0, stops |-> 0, codes |-> 0, trades |-> 0,
            holds |-> 0, recalcs |-> 0, rulings |-> 0]
\* People applying and correcting addresses; one application under review and
\* submitted again; a team; a code, a business signing up with it; its window,
\* valued by two threads while administrators rule.
AllStarts == {
  [Nothing EXCEPT !.signups = 3], [Nothing EXCEPT !.signups = 2, !.corrections = 1],
  [Nothing EXCEPT !.signups = 1, !.accounts = 1, !.reviews = 2, !.corrections = 1, !.stops = 1],
  [Nothing EXCEPT !.signups = 1, !.accounts = 1, !.invites = 1, !.edits = 2],
  [Nothing EXCEPT !.begun = TRUE, !.signups = 1, !.codes = 2, !.reviews = 1],
  [Nothing EXCEPT !.begun = TRUE, !.reviews = 1, !.trades = 1, !.holds = 1, !.recalcs = 1],
  [Nothing EXCEPT !.begun = TRUE, !.reviews = 1, !.trades = 1, !.recalcs = 1, !.rulings = 2]}
\* A hold placed while a commission waits for its ruling.
HoldStarts == {
  [Nothing EXCEPT !.begun = TRUE, !.reviews = 1, !.trades = 1, !.holds = 1, !.rulings = 1]}
=============================================================================
