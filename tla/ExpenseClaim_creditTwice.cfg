\* Two clerks decide on one receipt at a time.
CONSTANTS
  c1 = c1
  c2 = c2
  i1 = i1
  i2 = i2
  Foreign = Foreign
  NoCfdi = NoCfdi
  Invoices = {i1}
  Blocks = TRUE
  UsersFollowPages = TRUE
  Callers = {c1, c2}
  MaxInFlight = 2
  MaxReceipts = 1
  MayCrash = FALSE
  Starts = {6}
SPECIFICATION Spec
INVARIANTS
  CreditedOnce
CHECK_DEADLOCK FALSE
