SPECIFICATION Spec
CONSTANTS
    t1 = t1  t2 = t2  x1 = x1  y1 = y1
    Updaters = {p1, p2}
    Budgets = {1, 2}
    MaxUpdates = 3
    Trips = {t1, t2}
    Receipts = {x1, y1}
    TripOf <- MCTripOf
    Advanced = {t1}
    Invoices <- MCInvoices
    Exporters = {p1, p2}
    LastDay = 2
    MaxEntries = 2
    Policies = {q1, q2}
    Forms <- MCForms
    Editors = {p1, p2}
    LastDate = 2
    MaxEdits = 3
    Claims = {r1, r2}
    Cases = {c1, c2}
    Approvers = {b1, b2}
    Deciders = {p1, p2}
    Logins = {l1, l2, l3}  l1 = l1  l2 = l2  l3 = l3
    Emails = {1, 2}
    Files <- MCFiles
    Actors = {w1}
    Tokens = {p1, p2}
    Admins = {f1, f2}
    MaxForms = 1
    Rules = {i1, i2, i3}
    Entries <- MCEntries
    Patches <- MCPatches
    Togglers = {p1, p2}
    Confirmed = {t1}
    Amounts = {0, 1, 2, 3}
    Chains <- MCChains  h1 = h1  h2 = h2  h3 = h3
    Fallbacks <- MCFallbacks
    TopLevel = 3
    MaxRuleEdits = 3
    CustomRoles = {r3}
    AdminRole = r0
    manage = manage  view = view  apply = apply
    Codes = {manage, view, apply}
    Manage = manage
    ApplicantCodes = {apply}
    Staff = {f1, f2}
    Pages = {p1, p2}
    MaxRoleCalls = 5
    Reviewers = {f1, f2}
    Applicant = e1
    LevelChoices = {{1}, {2}, {3}, {1, 2}, {2, 3}}
    MaxTrail = 4
SYMMETRY Interchangeable
INVARIANTS
    OfficeTypeOK
    ClosedIsQuiet AlertsAskForStatus WalletPaidFee
     ExportsAreComplete MarkedIsBooked BookedOnce
    NoOverlap 
    RefundFollowsRuling RuledByEntitled
    NobodyApprovesSelf DoneIsComplete ImportsSpareOthers
    DearerNeedsMore ListedIsDesignated
    RolesAsTicked KeepsARole
    ReviewersAreNamed 
CHECK_DEADLOCK FALSE
