\* The keys of a merchant are edited, requests are checked and carried out, customers
\* answer; calls fail or time out, inserts fail, callbacks come early, twice, or with a
\* signature that is not accepted, the process stops.
SPECIFICATION Spec
CONSTANTS
  r1 = r1
  r2 = r2
  t1 = t1
  t2 = t2
  Callers = {r1, r2}
  Clerks = {t1, t2}
  Addresses = {1, 2}
  Starts <- ThreeStarts
  Faults = {"refused", "timeout", "transaction", "stop", "unsigned", "early"}
SYMMETRY Alike
INVARIANTS CreditedOnce StandingWhenAccepted 
\* The budgets run out.
CHECK_DEADLOCK FALSE
