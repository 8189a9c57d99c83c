\* Two overlapping sweeps, two administrators; a sweep may be killed, an outcome
\* may not be written, a sweep may find no configuration.
SPECIFICATION SmsSpec
CONSTANTS
  w1 = w1
  w2 = w2
  a1 = a1
  a2 = a2
  m1 = m1
  m2 = m2
  m3 = m3
  o1 = o1
  p1 = p1
  p2 = p2
  NoPhone = NoPhone
  Workers <- TwoWorkers
  SuperAdmins <- TwoAdmins
  Owners <- ThreeMerchants
  Operators <- OneOperator
  Phone <- OneShared
  NoNumber = NoPhone
  SmsAttempts = 2
  MaxDrafts = 2
  SmsStarts <- FiveStarts
  SmsFaults = {"crash", "nosave", "noconfig"}
INVARIANT ToldOnce
PROPERTIES  QueuedIsDispatched
