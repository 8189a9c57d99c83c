\* Links, invoices, attempts of several methods, settlements and reversals.
SPECIFICATION CommerceSpec
CONSTANTS
  h1 = h1
  h2 = h2
  t1 = t1
  t2 = t2
  Nobody = Nobody
  Handlers <- TwoHandlers
  Threads <- OneThread
  MaxAmount = 2
  MaxAttempts = 2
  Starts <- AllStarts
  Faults = {"email", "order"}
\* Where every attempt is settled and the budget is spent, nothing is left to do.
CHECK_DEADLOCK FALSE
INVARIANTS InvoiceBooksPayments
 
