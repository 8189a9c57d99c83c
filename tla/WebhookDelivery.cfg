\* Two replicas sweep three events of two merchants; a replica may be killed, an
\* answer may not be recorded, a signing secret may not open, an administrator resends.
SPECIFICATION Spec
CONSTANTS
  r1 = r1
  r2 = r2
  m1 = m1
  m2 = m2
  NoReplica = NoReplica
  Replicas <- TwoReplicas
  Merchants <- TwoMerchants
  a1 = a1
  Admins = {a1}
  Starts <- ThreeStarts
  MaxAttempts = 2
  BatchSize = 2
  ScanLimit = 3
  Faults = {"crash", "db", "key"}
INVARIANTS AcceptedOnce
PROPERTIES EveryMerchantServed EventSettles
