---------------------------- MODULE RolePermissions ----------------------------
(***************************************************************************)
(* The roles of an organisation and what they permit: the page on which      *)
(* administrators create, change and delete roles, what a browser shows of   *)
(* them while others do the same, and the users who are given roles.  Groups *)
(* of permissions and grants to single users do not change: no page or route *)
(* reaches the calls that would.                                             *)
(***************************************************************************)
EXTENDS Integers, FiniteSets

CONSTANTS
    CustomRoles,     \* ids of roles that administrators may create
    AdminRole,       \* the role of administrators that comes with the organisation
    Codes,           \* permissions, all active
    Manage,          \* the one to manage roles
    ApplicantCodes,  \* what the two default groups of applicants permit
    Staff,           \* users
    Pages,           \* pages open at once
    MaxRoleCalls     \* bound: pages opened and calls begun

ASSUME CodesAssumption == ApplicantCodes \subseteq Codes /\ Manage \in Codes \ ApplicantCodes
ASSUME AdminRoleAssumption == AdminRole \notin CustomRoles
ASSUME RoleCallsAssumption == MaxRoleCalls \in Nat

VARIABLES
    tenantRoles,     \* per role, its own permissions and those of its groups
    staff,           \* per user, the role, if any, and whether the user is active
    pages,           \* per page, who sees it and what it shows of each role
    saves,           \* per page, the change or deletion in flight
    roleCalls,       \* how many pages were opened and calls begun
    wanted,          \* per role, what administrators ticked and nobody unticked since
    quirks           \* per role, what has happened that a lone administrator does not see

permissionVars == <<tenantRoles, staff, pages, saves, roleCalls, wanted, quirks>>

TenantRoles == CustomRoles \union {AdminRole}
Unborn == [is |-> "unborn"]
Deleted == [is |-> "deleted"]
TenantRole(direct) == [is |-> "role", direct |-> direct, groups |-> ApplicantCodes]
NoPage == [by |-> {}]
NoSave == [kind |-> "none"]
Existing == {r \in TenantRoles : tenantRoles[r].is = "role"}

\* collectStoredPermissionCodes; loadEffectivePermissions, where every active user may
\* do what applicants may.
Stored(row) == row.direct \union row.groups
Effective(u) ==
    IF ~staff[u].active THEN {}
    ELSE ApplicantCodes \union UNION {Stored(tenantRoles[r]) : r \in staff[u].role}

--------------------------------------------------------------------------------
\* serializeRoleRow, as an answer carries it to the page (wanted is for the ghosts).
RowOf(row, w) ==
    [codes |-> Stored(row), admin |-> Manage \in Stored(row), loaded |-> FALSE, wanted |-> w]
\* The page's loader sends the same rows through a mapping that expects objects where
\* there are strings: no code comes out, and no flag.
LoadedRow == [codes |-> {}, admin |-> FALSE, loaded |-> TRUE, wanted |-> {}]

Listed(p) == DOMAIN pages[p].rows
AdminCount(p) == Cardinality({r \in Listed(p) : pages[p].rows[r].admin})
MayManage(p) == pages[p].by # {} /\ \A u \in pages[p].by : Manage \in Effective(u)

CodesAsTicked(codes, admin) == codes         \* mutant: the flag is not looked at
\* The flag of an administrator's role and the permission go together.
CodesToStore(codes, admin) == IF admin THEN codes \union {Manage} ELSE codes \ {Manage}

MayChange(r) == r \in Existing \ {AdminRole}

DeletableAny(r) == MayChange(r)              \* mutant: the users are not counted
\* deleteTenantRole: nobody active has the role.
Deletable(r) == MayChange(r) /\ \A u \in Staff : r \in staff[u].role => ~staff[u].active

\* What the form of a row may hold: any codes, and the flag only with its permission.
RoleForms ==
    {f \in [codes : SUBSET Codes, admin : BOOLEAN] : f.admin => Manage \in f.codes}
\* What was shown is kept or unticked, what was not shown is left as others wanted it.
WantedAfter(w, shown, f) ==
    ((w \ shown) \union f.codes) \ (IF f.admin THEN {} ELSE {Manage})

--------------------------------------------------------------------------------
PermissionsInit ==
    /\ tenantRoles = [r \in TenantRoles |-> IF r = AdminRole THEN TenantRole({Manage}) ELSE Unborn]
    /\ staff = [u \in Staff |-> [role |-> {AdminRole}, active |-> TRUE]]
    /\ pages = [p \in Pages |-> NoPage]
    /\ saves = [p \in Pages |-> NoSave]
    /\ roleCalls = 0
    /\ wanted = [r \in TenantRoles |-> {}]
    /\ quirks = [r \in TenantRoles |-> {}]

Counted == roleCalls < MaxRoleCalls /\ roleCalls' = roleCalls + 1

\* Opened again, the page shows what the loader sends now.
OpenPage(p, u) ==
    /\ saves[p] = NoSave /\ Manage \in Effective(u) /\ Counted
    /\ pages' = [pages EXCEPT ![p] = [by |-> {u}, rows |-> [r \in Existing |-> LoadedRow]]]
    /\ UNCHANGED <<tenantRoles, staff, saves, wanted, quirks>>

\* createTenantRole: the role, its groups and its permissions in one transaction.
CreateRole(p, r) ==
    /\ saves[p] = NoSave /\ MayManage(p) /\ tenantRoles[r] = Unborn /\ Counted
    /\ \E f \in RoleForms :
         LET row == TenantRole(IF f.admin THEN f.codes \union {Manage} ELSE f.codes)
         IN  /\ tenantRoles' = [tenantRoles EXCEPT ![r] = row]
             /\ wanted' = [wanted EXCEPT ![r] = f.codes]
             /\ pages' = [pages EXCEPT ![p].rows =
                    [q \in DOMAIN @ \union {r} |-> IF q = r THEN RowOf(row, f.codes) ELSE @[q]]]
    /\ UNCHANGED <<staff, saves, quirks>>

\* updateTenantRole up to the deletion of the role's permissions, of which it sees
\* those there are when it begins.  The page refuses to unmake the last
\* administrators' role that it knows of.
BeginSave(p, r) ==
    /\ saves[p] = NoSave /\ MayManage(p) /\ r \in Listed(p) /\ MayChange(r) /\ Counted
    /\ LET row == pages[p].rows[r]
           odd == (IF ~row.loaded /\ row.wanted # wanted[r] THEN {"stale"} ELSE {})
                  \union {"overlap" : q \in {q \in Pages : saves[q].kind = "save" /\ saves[q].role = r}}
       IN  \E f \in RoleForms :
             /\ row.admin /\ ~f.admin => AdminCount(p) > 1
             /\ saves' = [saves EXCEPT ![p] =
                    [kind |-> "save", role |-> r, form |-> f, loaded |-> row.loaded,
                     shown |-> row.codes, seen |-> tenantRoles[r].direct]]
             /\ quirks' = [quirks EXCEPT ![r] = @ \union odd]
    /\ UNCHANGED <<tenantRoles, staff, pages, wanted>>

\* The rest of the transaction, and the answer that replaces the page's row.  Rows
\* written by another change since the deletion stay, also those of the same codes.
CommitSave(p) ==
    /\ saves[p].kind = "save"
    /\ LET s == saves[p]
           r == s.role
           new == CodesToStore(s.form.codes, s.form.admin)
           row == TenantRole((tenantRoles[r].direct \ s.seen) \union new)
           w == WantedAfter(IF s.loaded THEN {} ELSE wanted[r], s.shown, s.form)
       IN  IF r \in Existing
           THEN /\ tenantRoles' = [tenantRoles EXCEPT ![r] = row]
                /\ wanted' = [wanted EXCEPT ![r] = w]
                /\ pages' = [pages EXCEPT ![p].rows[r] = RowOf(row, w)]
                /\ saves' = [q \in Pages |->
                       IF q = p THEN NoSave
                       ELSE IF saves[q].kind = "save" /\ saves[q].role = r
                            THEN [saves[q] EXCEPT !.seen = @ \ new]
                            ELSE saves[q]]
           ELSE /\ saves' = [saves EXCEPT ![p] = NoSave]
                /\ UNCHANGED <<tenantRoles, pages, wanted>>
    /\ UNCHANGED <<staff, roleCalls, quirks>>

\* deleteTenantRole counts the active users who have the role, then deletes it.
BeginDelete(p, r) ==
    /\ saves[p] = NoSave /\ MayManage(p) /\ r \in Listed(p) /\ Deletable(r) /\ Counted
    /\ pages[p].rows[r].admin => AdminCount(p) > 1
    /\ saves' = [saves EXCEPT ![p] = [kind |-> "delete", role |-> r]]
    /\ UNCHANGED <<tenantRoles, staff, pages, wanted, quirks>>

\* The users who have the role by now are left without one.
EndDelete(p) ==
    /\ saves[p].kind = "delete"
    /\ LET r == saves[p].role
       IN  /\ tenantRoles' = [tenantRoles EXCEPT ![r] = Deleted]
           /\ staff' = [u \in Staff |-> [staff[u] EXCEPT !.role = @ \ {r}]]
           /\ pages' = IF r \in Existing
                       THEN [pages EXCEPT ![p].rows = [q \in DOMAIN @ \ {r} |-> @[q]]]
                       ELSE pages
    /\ saves' = [saves EXCEPT ![p] = NoSave]
    /\ UNCHANGED <<roleCalls, wanted, quirks>>

\* updateUserData and deactivateUser, by whoever may update users.
AssignRole(u, r) ==
    /\ r \in Existing \ staff[u].role
    /\ staff' = [staff EXCEPT ![u].role = {r}]
    /\ quirks' = [quirks EXCEPT ![r] = @ \union
           {"assigned" : q \in {q \in Pages : saves[q].kind = "delete" /\ saves[q].role = r}}]
    /\ UNCHANGED <<tenantRoles, pages, saves, roleCalls, wanted>>

DeactivateUser(u) ==
    /\ staff[u].active
    /\ staff' = [staff EXCEPT ![u].active = FALSE]
    /\ UNCHANGED <<tenantRoles, pages, saves, roleCalls, wanted, quirks>>

PermissionsNext ==
    \/ \E p \in Pages, u \in Staff : OpenPage(p, u)
    \/ \E p \in Pages, r \in TenantRoles :
         CreateRole(p, r) \/ BeginSave(p, r) \/ BeginDelete(p, r)
    \/ \E p \in Pages : CommitSave(p) \/ EndDelete(p)
    \/ \E u \in Staff : DeactivateUser(u) \/ \E r \in TenantRoles : AssignRole(u, r)

PermissionsSpec == PermissionsInit /\ [][PermissionsNext]_permissionVars

--------------------------------------------------------------------------------
PermissionsTypeOK ==
    /\ \A r \in Existing : Stored(tenantRoles[r]) \subseteq Codes /\ wanted[r] \subseteq Codes
    /\ \A u \in Staff : staff[u].role \subseteq Existing /\ Cardinality(staff[u].role) <= 1
    /\ roleCalls \in 0..MaxRoleCalls

\* A role permits what applicants may and what was ticked and not unticked since, on
\* whichever pages, unless a form showed what had changed since or two changes of the
\* role overlapped.  A form filled from a row that the loader sent begins anew: it
\* shows no permission, so saving it takes all those that are not ticked again.
RolesAsTicked ==
    \A r \in Existing \ {AdminRole} :
        \/ quirks[r] \intersect {"stale", "overlap"} # {}
        \/ Stored(tenantRoles[r]) = wanted[r] \union ApplicantCodes

\* An active user is never left without a role, unless the role was given while it
\* was being deleted.
KeepsARole ==
    \A u \in Staff : staff[u].active /\ staff[u].role = {} =>
        \E r \in TenantRoles : "assigned" \in quirks[r]
================================================================================
