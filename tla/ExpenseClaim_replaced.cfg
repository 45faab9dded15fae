\* A rejected receipt is replaced, one call at a time.
CONSTANTS
  c1 = c1
  c2 = c2
  i1 = i1
  i2 = i2
  Foreign = Foreign
  NoCfdi = NoCfdi
  Invoices = {i1, i2}
  Blocks = TRUE
  UsersFollowPages = TRUE
  Callers = {c1}
  MaxInFlight = 1
  MaxReceipts = 2
  MayCrash = FALSE
  Starts = {6}
SPECIFICATION Spec
INVARIANTS
  ReplacedIsGone
CHECK_DEADLOCK FALSE
