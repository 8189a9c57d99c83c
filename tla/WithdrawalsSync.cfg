SPECIFICATION Spec
CONSTANTS
  w1 = w1
  w2 = w2
  pA = pA
  pB = pB
  r1 = r1
  r2 = r2
  r3 = r3
  Withdrawals = {w1, w2}
  Price <- UnequalPrices
  Opening = 2
  Replicas = {pA, pB}
  Requests = {r1, r2, r3}
  ReplicaOf <- OneLoop
  Ops <- SyncOps
  PayAnswers <- SyncAnswers
  QueryAnswers <- HonestQueries
  Faults = {"phone", "standing", "bounce"}
  MaxStarts = 3
  CrashPoints <- Awaits
  MaxAborts = 1
  NoWithdrawal = NoWithdrawal
  NoRequest = NoRequest
INVARIANTS TypeOK NeverPaidTwice PayoutInFlightIsHeld
PROPERTIES ImplementsCustody
\* A withdrawal may come to rest with nothing left to do within the bounds.
CHECK_DEADLOCK FALSE
