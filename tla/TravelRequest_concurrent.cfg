\* Overlapping calls: two of users and cron jobs in flight on one request.
CONSTANTS
  emp = emp
  n1 = n1
  n2 = n2
  low = low
  high = high
  c1 = c1
  c2 = c2
  NoUser = NoUser
  Requests = {"r1"}
  Users = {emp, n1, n2}
  Fees = {low, high}
  Role <- MCRole
  Covers <- MCCovers
  LevelsFor <- MCLevelsTop
  Approver <- MCApprover
  Substitutes <- MCSubstitutes
  Manager <- MCManager
  UseHierarchy = FALSE
  UsersFollowPages = TRUE
  Callers = {c1, c2}
  MaxInFlight = 2
  MaxEntries = 2
SPECIFICATION Spec
SYMMETRY MCSymmetry
CONSTRAINT MCShortTrail
INVARIANTS
  TypeOK
  SpendingNeedsApproval
  SecondLevelSignsOff
  AdvanceNeedsApproval
  DeclinedStaysInactive
  SignedByEntitled
CHECK_DEADLOCK FALSE
