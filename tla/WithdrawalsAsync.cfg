SPECIFICATION FairSpec
CONSTANTS
  w1 = w1
  w2 = w2
  pA = pA
  pB = pB
  r1 = r1
  r2 = r2
  r3 = r3
  Withdrawals = {w1, w2}
  Price <- TwoPrices
  Opening = 2
  Replicas = {pA, pB}
  Requests = {r1, r2, r3}
  ReplicaOf <- OneLoop
  Ops <- AsyncOps
  PayAnswers <- AsyncAnswers
  QueryAnswers <- ClearQueries
  Faults = {"bounce"}
  MaxStarts = 2
  CrashPoints = {}
  MaxAborts = 0
  NoWithdrawal = NoWithdrawal
  NoRequest = NoRequest
INVARIANTS ReversedAtMostOnce SuccessWasPaid
PROPERTIES SettledStaysSettled ResolvedInTheEnd
\* A withdrawal may come to rest with nothing left to do within the bounds.
CHECK_DEADLOCK FALSE
