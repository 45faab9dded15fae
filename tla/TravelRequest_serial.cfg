\* One call at a time, in hierarchy mode, with rules that may stop at level 1.
CONSTANTS
  emp = emp
  n1 = n1
  n2 = n2
  low = low
  high = high
  c1 = c1
  c2 = c2
  NoUser = NoUser
  Requests = {"r1"}
  Users = {emp, n1, n2}
  Fees = {low, high}
  Role <- MCRole
  Covers <- MCCovers
  LevelsFor <- MCLevelsBand
  Approver <- MCApprover
  Substitutes <- MCSubstitutes
  Manager <- MCManager
  UseHierarchy = TRUE
  UsersFollowPages = TRUE
  Callers = {c1}
  MaxInFlight = 1
  MaxEntries = 6
SPECIFICATION Spec
PROPERTIES
  KeepsPromise
  
  
CHECK_DEADLOCK FALSE
