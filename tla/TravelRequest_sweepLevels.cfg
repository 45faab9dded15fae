\* Rules that stop at level 1, and a first approver who is away.
CONSTANTS
  emp = emp
  n1 = n1
  n2 = n2
  low = low
  high = high
  c1 = c1
  c2 = c2
  NoUser = NoUser
  Requests = {"r1"}
  Users = {emp, n1, n2}
  Fees = {low, high}
  Role <- MCRoleBoss
  Covers <- MCCovers
  LevelsFor <- MCLevelsBand
  Approver <- MCApprover
  Substitutes <- MCSubstitutes
  Manager <- MCManager
  UseHierarchy = FALSE
  UsersFollowPages = TRUE
  Callers = {c1}
  MaxInFlight = 2
  MaxEntries = 2
SPECIFICATION Spec
INVARIANTS
  SecondReviewHasLevel
CHECK_DEADLOCK FALSE
