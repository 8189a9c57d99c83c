SPECIFICATION Spec
CONSTANTS
  s1 = s1
  s2 = s2
  k1 = k1
  Slots = {s1, s2}
  Mixes <- PortalAndEdits
  Keys = {k1}
  Amounts = {1, 2}
  Wallet = 4
  DailyLimit = 3
  Allowed = TRUE
  HardMax = 2
  HardRolling = 2
  Policies <- SavedPolicies
  Stored <- Large
  MaxAttempts = 2
  MaxRows = 2
  MaxCodes = 1
  MaxEdits = 2
  Faults = {}
INVARIANTS OneWithdrawalPerKey DailyLimitHolds AutoWithinCeiling
PROPERTIES WideningConfirmed KeyIsSettled
