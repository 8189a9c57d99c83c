\* Sign-ups, reviews and a team; a request may be cut short.
SPECIFICATION Spec
CONSTANTS
  u1 = u1
  u2 = u2
  u3 = u3
  n1 = n1
  n2 = n2
  p1 = p1
  p2 = p2
  t1 = t1
  t2 = t2
  Users <- FewUsers
  Nidas <- TwoNidas
  Phones <- TwoPhones
  Threads <- TwoThreads
  Starts <- AllStarts
  c1 = c1
  c2 = c2
  Calculators <- TwoCalculators
  Loop = c1
  Faults = {"stop"}
\* Where the budget is spent and no referral is open, nothing is left to do.
CHECK_DEADLOCK FALSE
INVARIANTS OneUnverifiedApplication OneCommission
PROPERTY WindowIsValued
