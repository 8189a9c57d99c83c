SPECIFICATION Spec
CONSTANTS
  pA = pA
  r1 = r1
  r2 = r2
  r3 = r3
  Held = 0
  MaxPushes = 2
  Replicas = {pA}
  Requests = {r1, r2, r3}
  ReplicaOf <- OneLoop
  Ops <- AllOps
  Answers <- ClearAnswers
  KnownIds = {1}
  CalledBack = {2}
  Faults = {"spend", "cancel", "return"}
  CrashPoints = {"querying", "replied"}
  MaxAborts = 0
  NoRequest = NoRequest
INVARIANTS BooksFollowStatus
PROPERTIES ImplementsReceipts
\* All pushes may have been made and resolved: nothing is left to do.
CHECK_DEADLOCK FALSE
