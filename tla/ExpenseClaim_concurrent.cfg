\* Two calls at a time, a crash, and every endpoint.
CONSTANTS
  c1 = c1
  c2 = c2
  i1 = i1
  i2 = i2
  Foreign = Foreign
  NoCfdi = NoCfdi
  Invoices = {i1}
  Blocks = TRUE
  UsersFollowPages = FALSE
  Callers = {c1, c2}
  MaxInFlight = 3
  MaxReceipts = 2
  MayCrash = TRUE
  Starts = {4, 6}
SPECIFICATION Spec
SYMMETRY MCSymmetry
INVARIANTS
  TypeOK
  PaidHasEvidence
  InvoicePaidOnce
  ApprovedIsPaid
CHECK_DEADLOCK FALSE
