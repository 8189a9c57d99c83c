SPECIFICATION FairSpec
CONSTANTS
  pA = pA
  r1 = r1
  r2 = r2
  r3 = r3
  Held = 1
  MaxPushes = 1
  Replicas = {pA}
  Requests = {r1, r2, r3}
  ReplicaOf <- OneLoop
  Ops <- AllOps
  Answers <- ClearAnswers
  KnownIds = {1}
  CalledBack = {}
  Faults = {"order", "push", "spend", "cancel", "return"}
  CrashPoints = {"querying", "replied"}
  MaxAborts = 1
  NoRequest = NoRequest
PROPERTIES PushEnds 
\* All pushes may have been made and resolved: nothing is left to do.
CHECK_DEADLOCK FALSE
