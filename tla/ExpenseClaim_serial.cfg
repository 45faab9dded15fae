\* One call at a time, through the pages.
CONSTANTS
  c1 = c1
  c2 = c2
  i1 = i1
  i2 = i2
  Foreign = Foreign
  NoCfdi = NoCfdi
  Invoices = {i1, i2}
  Blocks = TRUE
  UsersFollowPages = TRUE
  Callers = {c1}
  MaxInFlight = 1
  MaxReceipts = 3
  MayCrash = FALSE
  Starts = {4, 6}
SPECIFICATION Spec
INVARIANTS
  WalletMatchesVerdicts
  ApprovedKeepsFiles
PROPERTIES
  KeepsLedger
CHECK_DEADLOCK FALSE
