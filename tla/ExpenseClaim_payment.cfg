\* Two calls at a time and a crash, in an organisation that does not lock late claims.
CONSTANTS
  c1 = c1
  c2 = c2
  i1 = i1
  i2 = i2
  Foreign = Foreign
  NoCfdi = NoCfdi
  Invoices = {i1}
  Blocks = FALSE
  UsersFollowPages = TRUE
  Callers = {c1, c2}
  MaxInFlight = 2
  MaxReceipts = 2
  MayCrash = TRUE
  Starts = {6}
SPECIFICATION Spec
PROPERTIES
  ApprovedGetsPaid
CHECK_DEADLOCK FALSE
