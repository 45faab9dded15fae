\* Nobody is designated: only escalationJob can hand a review up.
CONSTANTS
  emp = emp
  n1 = n1
  n2 = n2
  low = low
  high = high
  c1 = c1
  c2 = c2
  NoUser = NoUser
  Requests = {"r1"}
  Users = {emp, n1, n2}
  Fees = {low, high}
  Role <- MCRole
  Covers <- MCCovers
  LevelsFor <- MCLevelsTop
  Approver <- MCNoApprover
  Substitutes <- MCSubstitutes
  Manager <- MCManager
  UseHierarchy = FALSE
  UsersFollowPages = TRUE
  Callers = {c1}
  MaxInFlight = 4
  MaxEntries = 1
SPECIFICATION FairSpec
PROPERTIES
  UnansweredReviewsMove
CHECK_DEADLOCK FALSE
