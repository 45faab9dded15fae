------------------------------ MODULE UsersProofs ------------------------------
(***************************************************************************)
(* What holds of roles and their permissions, and of users that come from   *)
(* files and forms, for any codes, files and numbers of pages and imports.  *)
(***************************************************************************)
EXTENDS RolePermissions, UserImport, DataLemmas

\* Nothing that a lone administrator would not see has happened to role r.
Clean(r) == quirks[r] \intersect {"stale", "overlap"} = {}

\* A change in flight and a deletion in flight of a role that was created once.
Known(r) == r \in TenantRoles /\ tenantRoles[r].is # "unborn"
Born(r) == Known(r) /\ r # AdminRole
IsSave(x) ==
    /\ x = [kind |-> "save", role |-> x.role, form |-> x.form, loaded |-> x.loaded,
            shown |-> x.shown, seen |-> x.seen]
    /\ x.form \in RoleForms /\ Born(x.role)
IsDeletion(x) == x = [kind |-> "delete", role |-> x.role] /\ Born(x.role)

IsPage(g) == g = [by |-> g.by, rows |-> g.rows] /\ \A r \in DOMAIN g.rows : Known(r)

RoleTypeInv ==
    /\ DOMAIN tenantRoles = TenantRoles /\ DOMAIN wanted = TenantRoles
    /\ DOMAIN quirks = TenantRoles /\ DOMAIN saves = Pages /\ DOMAIN pages = Pages
    /\ \A r \in TenantRoles : tenantRoles[r] = Unborn \/ tenantRoles[r] = Deleted
                                \/ tenantRoles[r] = TenantRole(tenantRoles[r].direct)
    /\ DOMAIN staff = Staff
    /\ \A u \in Staff : staff[u] = [role |-> staff[u].role, active |-> staff[u].active]
    /\ \A p \in Pages : saves[p] = NoSave \/ IsSave(saves[p]) \/ IsDeletion(saves[p])
    /\ \A p \in Pages : pages[p] = NoPage \/ IsPage(pages[p])
    /\ \A p \in Pages : saves[p] # NoSave => IsPage(pages[p])

Saving(p) == saves[p].kind = "save"
\* A change that nobody crosses removes all there is, and its form showed all that
\* was wanted, or comes from the loader and begins anew.
SavesInv ==
    \A p \in Pages : Saving(p) =>
        LET r == saves[p].role
        IN  Clean(r) =>
              /\ r \in Existing => /\ saves[p].seen = tenantRoles[r].direct
                                   /\ saves[p].loaded \/ wanted[r] \subseteq saves[p].shown
              /\ \A q \in Pages \ {p} : ~(Saving(q) /\ saves[q].role = r)

\* A row from an answer shows what was wanted when it came.
RowsInv ==
    \A p \in Pages : pages[p] # NoPage => \A r \in Listed(p) :
        LET row == pages[p].rows[r]
        IN  ~row.loaded /\ Clean(r) => row.codes = row.wanted \union ApplicantCodes

\* While a role is being deleted, nobody active has it whom it was not given since.
DeletionsInv ==
    \A p \in Pages : saves[p].kind = "delete" =>
        LET r == saves[p].role
        IN  "assigned" \in quirks[r] \/ \A u \in Staff : r \in staff[u].role => ~staff[u].active

--------------------------------------------------------------------------------
\* What tells roles, pages and calls of one kind from those of another.
LEMMA Kinds ==
  /\ NoSave.kind = "none" /\ Unborn.is = "unborn" /\ Deleted.is = "deleted" /\ NoPage.by = {}
  /\ \A D : /\ TenantRole(D).is = "role" /\ TenantRole(D).direct = D
            /\ Stored(TenantRole(D)) = D \union ApplicantCodes
            /\ TenantRole(D) = TenantRole(TenantRole(D).direct)
  /\ \A x : IsSave(x) => x.kind = "save"
  /\ \A x : IsDeletion(x) => x.kind = "delete"
<1>1. NoSave.kind = "none" /\ Unborn.is = "unborn" /\ Deleted.is = "deleted" /\ NoPage.by = {}
  BY DEF NoSave, Unborn, Deleted, NoPage
<1>2. \A D : /\ TenantRole(D).is = "role" /\ TenantRole(D).direct = D
             /\ Stored(TenantRole(D)) = D \union ApplicantCodes
             /\ TenantRole(D) = TenantRole(TenantRole(D).direct)
  BY DEF TenantRole, Stored
<1>3. (\A x : IsSave(x) => x.kind = "save") /\ (\A x : IsDeletion(x) => x.kind = "delete")
  BY DEF IsSave, IsDeletion
<1> QED BY <1>1, <1>2, <1>3

\* What the form of a row stores and what it wants, but for what the groups permit.
LEMMA StoresWanted ==
  ASSUME NEW f \in RoleForms, NEW W, NEW S, W \subseteq S
  PROVE  /\ WantedAfter(W, S, f) = CodesToStore(f.codes, f.admin)
         /\ f.admin => f.codes \union {Manage} = f.codes
  BY DEF WantedAfter, CodesToStore, RoleForms

\* What a step may do to the roles without disturbing the pages and the changes.
LEMMA QuirksGrow ==
  ASSUME RoleTypeInv, [PermissionsNext]_permissionVars
  PROVE  \A r \in TenantRoles : quirks[r] \subseteq quirks'[r] /\ (Known(r) => Known(r)')
<1>1. \A r \in TenantRoles : quirks[r] \subseteq quirks'[r]
  <2>1. ASSUME NEW p \in Pages, NEW c \in TenantRoles, BeginSave(p, c)
        PROVE  \E Q : quirks' = [quirks EXCEPT ![c] = @ \union Q]
    BY <2>1 DEF BeginSave
  <2>2. ASSUME NEW u \in Staff, NEW c \in TenantRoles, AssignRole(u, c)
        PROVE  \E Q : quirks' = [quirks EXCEPT ![c] = @ \union Q]
    BY <2>2 DEF AssignRole
  <2>3. UNCHANGED quirks \/ \E c \in TenantRoles : \E Q : quirks' = [quirks EXCEPT ![c] = @ \union Q]
    BY <2>1, <2>2 DEF PermissionsNext, permissionVars, OpenPage, CreateRole, CommitSave,
         BeginDelete, EndDelete, DeactivateUser
  <2> QED BY <2>3 DEF RoleTypeInv
<1>2. CASE UNCHANGED tenantRoles
  BY <1>1, <1>2 DEF Known
<1>3. ASSUME NEW p \in Pages, NEW c \in TenantRoles, CreateRole(p, c) PROVE \A r \in TenantRoles : Known(r) => Known(r)'
  <2>1. PICK D : tenantRoles' = [tenantRoles EXCEPT ![c] = TenantRole(D)]
    BY <1>3 DEF CreateRole
  <2> QED BY <2>1, Kinds DEF Known, RoleTypeInv
<1>4. ASSUME NEW p \in Pages, CommitSave(p) PROVE \A r \in TenantRoles : Known(r) => Known(r)'
  <2>1. UNCHANGED tenantRoles \/ \E D : tenantRoles' = [tenantRoles EXCEPT ![saves[p].role] = TenantRole(D)]
    BY <1>4 DEF CommitSave
  <2> QED BY <2>1, Kinds DEF Known, RoleTypeInv
<1>5. ASSUME NEW p \in Pages, EndDelete(p) PROVE \A r \in TenantRoles : Known(r) => Known(r)'
  BY <1>5, Kinds DEF EndDelete, Known, RoleTypeInv
<1> QED
  BY <1>1, <1>2, <1>3, <1>4, <1>5 DEF PermissionsNext, permissionVars, OpenPage, BeginSave,
     BeginDelete, AssignRole, DeactivateUser

\* Calls and pages keep their shape: roles that are known stay known.
LEMMA ShapesKept ==
  ASSUME RoleTypeInv, [PermissionsNext]_permissionVars
  PROVE  \A x : /\ IsSave(x) => IsSave(x)'
                /\ IsDeletion(x) => IsDeletion(x)'
                /\ IsPage(x) => IsPage(x)'
<1>1. \A r : (Known(r) => Known(r)') /\ (Born(r) => Born(r)')
  BY QuirksGrow DEF Born, Known
<1> QED BY <1>1 DEF IsSave, IsDeletion, IsPage

\* What the end of a change of role r writes: the permissions D, the page's row y, what
\* is wanted w; the other changes of the role no longer see the new permissions.
Committed(p, r, D, y, w, new) ==
    /\ tenantRoles' = [tenantRoles EXCEPT ![r] = TenantRole(D)]
    /\ wanted' = [wanted EXCEPT ![r] = w]
    /\ pages' = [pages EXCEPT ![p].rows[r] = y]
    /\ saves' = [q \in Pages |->
           IF q = p THEN NoSave
           ELSE IF saves[q].kind = "save" /\ saves[q].role = r
                THEN [saves[q] EXCEPT !.seen = @ \ new]
                ELSE saves[q]]

\* A change of a role that is still there makes a write of this form.
LEMMA CommitMakes ==
  ASSUME NEW p \in Pages, CommitSave(p), saves[p].role \in Existing
  PROVE  LET s == saves[p]
             new == CodesToStore(s.form.codes, s.form.admin)
             D == (tenantRoles[s.role].direct \ s.seen) \union new
             w == WantedAfter(IF s.loaded THEN {} ELSE wanted[s.role], s.shown, s.form)
         IN  Committed(p, s.role, D, RowOf(TenantRole(D), w), w, new)
  BY DEF CommitSave, Committed

\* Every step leaves roles, users, pages and calls of the right shape.
LEMMA RoleTypeStep == RoleTypeInv /\ [PermissionsNext]_permissionVars => RoleTypeInv'
<1> SUFFICES ASSUME RoleTypeInv, [PermissionsNext]_permissionVars PROVE RoleTypeInv'
  OBVIOUS
<1>0. \A x : /\ IsSave(x) => IsSave(x)'
             /\ IsDeletion(x) => IsDeletion(x)'
             /\ IsPage(x) => IsPage(x)'
  BY ShapesKept
<1>1. ASSUME UNCHANGED staff, UNCHANGED tenantRoles, DOMAIN wanted' = TenantRoles, DOMAIN quirks' = TenantRoles,
             NEW p \in Pages, DOMAIN saves' = Pages, DOMAIN pages' = Pages,
             \A q \in Pages \ {p} : saves'[q] = saves[q] /\ pages'[q] = pages[q],
             saves'[p] = NoSave \/ IsSave(saves[p])' \/ IsDeletion(saves[p])',
             pages'[p] = NoPage \/ IsPage(pages[p])', saves'[p] # NoSave => IsPage(pages[p])'
      PROVE  RoleTypeInv'
  BY <1>0, <1>1 DEF RoleTypeInv
<1>2. ASSUME NEW p \in Pages, NEW u \in Staff, OpenPage(p, u) PROVE RoleTypeInv'
  <2>1. pages'[p] = [by |-> {u}, rows |-> [r \in Existing |-> LoadedRow]]
    BY <1>2 DEF OpenPage, RoleTypeInv
  <2>2. IsPage(pages[p])'
    <3>1. \A r \in Existing : Known(r)'
      BY <1>2 DEF OpenPage, Known, Existing
    <3> QED BY <2>1, <3>1 DEF IsPage
  <2> QED BY <1>1, <1>2, <2>2 DEF OpenPage, RoleTypeInv
<1>3. ASSUME NEW p \in Pages, NEW r \in TenantRoles, CreateRole(p, r) PROVE RoleTypeInv'
  <2>1. PICK f \in RoleForms :
          LET row == TenantRole(IF f.admin THEN f.codes \union {Manage} ELSE f.codes)
          IN  /\ tenantRoles' = [tenantRoles EXCEPT ![r] = row]
              /\ wanted' = [wanted EXCEPT ![r] = f.codes]
              /\ pages' = [pages EXCEPT ![p].rows =
                     [q \in DOMAIN @ \union {r} |-> IF q = r THEN RowOf(row, f.codes) ELSE @[q]]]
    BY <1>3 DEF CreateRole
  <2>2. IsPage(pages[p])
    BY <1>3, Kinds DEF CreateRole, MayManage, RoleTypeInv
  <2>3. PICK D, y : tenantRoles' = [tenantRoles EXCEPT ![r] = TenantRole(D)]
                    /\ pages' = [pages EXCEPT ![p].rows =
                           [q \in DOMAIN @ \union {r} |-> IF q = r THEN y ELSE @[q]]]
    BY <2>1
  <2>4. tenantRoles'[r] = TenantRole(tenantRoles'[r].direct) /\ Known(r)'
    BY <2>3, Kinds DEF RoleTypeInv, Known
  <2>5. IsPage(pages[p])'
    <3>1. pages'[p] = [by |-> pages[p].by, rows |->
              [q \in DOMAIN pages[p].rows \union {r} |-> IF q = r THEN y ELSE pages[p].rows[q]]]
      BY <2>2, <2>3 DEF RoleTypeInv, IsPage
    <3> QED BY <1>0, <2>2, <2>4, <3>1 DEF IsPage
  <2> QED BY <1>0, <1>3, <2>1, <2>3, <2>4, <2>5 DEF CreateRole, RoleTypeInv
<1>4. ASSUME NEW p \in Pages, NEW r \in TenantRoles, BeginSave(p, r) PROVE RoleTypeInv'
  <2>1. PICK f \in RoleForms : saves' = [saves EXCEPT ![p] =
           [kind |-> "save", role |-> r, form |-> f, loaded |-> pages[p].rows[r].loaded,
            shown |-> pages[p].rows[r].codes, seen |-> tenantRoles[r].direct]]
    BY <1>4 DEF BeginSave
  <2>2. IsPage(pages[p])
    BY <1>4, Kinds DEF BeginSave, MayManage, RoleTypeInv
  <2>3. Born(r)'
    BY <1>4 DEF BeginSave, MayChange, Existing, Born, Known
  <2>4. IsSave(saves[p])'
    BY <2>1, <2>3 DEF IsSave, RoleTypeInv
  <2>5. DOMAIN quirks' = TenantRoles
    BY <1>4 DEF BeginSave, RoleTypeInv
  <2> QED BY <1>0, <1>1, <1>4, <2>1, <2>2, <2>4, <2>5 DEF BeginSave, RoleTypeInv
<1>5. ASSUME NEW p \in Pages, CommitSave(p) PROVE RoleTypeInv'
  <2>1. CASE saves[p].role \notin Existing
    BY <1>0, <1>1, <1>5, <2>1 DEF CommitSave, RoleTypeInv
  <2>2. CASE saves[p].role \in Existing
    <3> DEFINE r == saves[p].role
    <3>1. IsSave(saves[p]) /\ IsPage(pages[p]) /\ r \in TenantRoles
      BY <1>5, Kinds DEF CommitSave, RoleTypeInv, IsSave, Born, Known
    <3>2. PICK D, y, w, new : Committed(p, r, D, y, w, new)
      BY <1>5, <2>2, CommitMakes
    <3> USE DEF Committed
    <3>3. tenantRoles'[r] = TenantRole(tenantRoles'[r].direct)
      BY <3>1, <3>2, Kinds DEF RoleTypeInv
    <3>4. IsPage(pages[p])'
      <4>1. pages'[p] = [by |-> pages[p].by, rows |-> [pages[p].rows EXCEPT ![r] = y]]
        BY <3>1, <3>2 DEF RoleTypeInv, IsPage
      <4> QED BY <1>0, <3>1, <4>1 DEF IsPage
    <3>5. ASSUME NEW q \in Pages \ {p}
          PROVE  /\ saves'[q] = NoSave \/ IsSave(saves[q])' \/ IsDeletion(saves[q])'
                 /\ saves'[q] # NoSave => saves[q] # NoSave
      <4>1. CASE saves'[q] = saves[q]
        BY <1>0, <4>1 DEF RoleTypeInv
      <4>2. CASE saves'[q] = [saves[q] EXCEPT !.seen = @ \ new] /\ saves[q].kind = "save"
        <5>1. IsSave(saves[q])
          BY <4>2, Kinds DEF RoleTypeInv
        <5>2. IsSave(saves[q])'
          BY <1>0, <4>2, <5>1 DEF IsSave
        <5> QED BY <4>2, <5>2, Kinds
      <4> QED BY <3>2, <4>1, <4>2
    <3> QED BY <1>0, <1>5, <3>1, <3>2, <3>3, <3>4, <3>5 DEF CommitSave, RoleTypeInv
  <2> QED BY <2>1, <2>2
<1>6. ASSUME NEW p \in Pages, NEW r \in TenantRoles, BeginDelete(p, r) PROVE RoleTypeInv'
  <2>1. IsPage(pages[p])
    BY <1>6, Kinds DEF BeginDelete, MayManage, RoleTypeInv
  <2>2. Born(r)
    BY <1>6 DEF BeginDelete, Deletable, MayChange, Existing, Born, Known
  <2>3. IsDeletion(saves[p])'
    BY <1>0, <1>6, <2>2 DEF BeginDelete, IsDeletion, RoleTypeInv
  <2> QED BY <1>0, <1>1, <1>6, <2>1, <2>3 DEF BeginDelete, RoleTypeInv
<1>7. ASSUME NEW p \in Pages, EndDelete(p) PROVE RoleTypeInv'
  <2> DEFINE r == saves[p].role
  <2>1. IsPage(pages[p])
    BY <1>7, Kinds DEF EndDelete, RoleTypeInv
  <2>2. IsPage(pages[p])' /\ DOMAIN pages' = Pages /\ \A q \in Pages \ {p} : pages'[q] = pages[q]
    <3>1. CASE r \notin Existing
      BY <1>0, <1>7, <2>1, <3>1 DEF EndDelete, RoleTypeInv
    <3>2. CASE r \in Existing
      <4>1. pages' = [pages EXCEPT ![p].rows = [q \in DOMAIN @ \ {r} |-> @[q]]]
        BY <1>7, <3>2 DEF EndDelete
      <4>2. pages'[p] = [by |-> pages[p].by, rows |-> [q \in DOMAIN pages[p].rows \ {r} |-> pages[p].rows[q]]]
        BY <2>1, <4>1 DEF RoleTypeInv, IsPage
      <4> QED BY <1>0, <2>1, <4>1, <4>2 DEF RoleTypeInv, IsPage
    <3> QED BY <3>1, <3>2
  <2>3. DOMAIN staff' = Staff /\ \A u \in Staff : staff'[u] = [role |-> staff'[u].role, active |-> staff'[u].active]
    BY <1>7 DEF EndDelete, RoleTypeInv
  <2> QED BY <1>0, <1>7, <2>1, <2>2, <2>3 DEF EndDelete, RoleTypeInv
<1>8. ASSUME NEW u \in Staff, NEW r \in TenantRoles, AssignRole(u, r) PROVE RoleTypeInv'
  <2>1. DOMAIN staff' = Staff /\ \A v \in Staff : staff'[v] = [role |-> staff'[v].role, active |-> staff'[v].active]
    BY <1>8 DEF AssignRole, RoleTypeInv
  <2>2. DOMAIN quirks' = TenantRoles
    BY <1>8 DEF AssignRole, RoleTypeInv
  <2> QED BY <1>0, <1>8, <2>1, <2>2 DEF AssignRole, RoleTypeInv
<1>9. ASSUME NEW u \in Staff, DeactivateUser(u) PROVE RoleTypeInv'
  <2>1. DOMAIN staff' = Staff /\ \A v \in Staff : staff'[v] = [role |-> staff'[v].role, active |-> staff'[v].active]
    BY <1>9 DEF DeactivateUser, RoleTypeInv
  <2> QED BY <1>0, <1>9, <2>1 DEF DeactivateUser, RoleTypeInv
<1>10. CASE UNCHANGED permissionVars
  BY <1>0, <1>10 DEF permissionVars, RoleTypeInv
<1> QED
  BY <1>2, <1>3, <1>4, <1>5, <1>6, <1>7, <1>8, <1>9, <1>10 DEF PermissionsNext

--------------------------------------------------------------------------------
\* Unless something has happened to its role, a change stores what is wanted.
LEMMA CommitsWanted ==
  ASSUME RoleTypeInv, SavesInv, NEW p \in Pages, CommitSave(p),
         saves[p].role \in Existing, Clean(saves[p].role)
  PROVE  /\ \A q \in Pages \ {p} : ~(Saving(q) /\ saves[q].role = saves[p].role)
         /\ \E D, new : Committed(p, saves[p].role, D, RowOf(TenantRole(D), D), D, new)
<1> DEFINE s == saves[p]
           new == CodesToStore(s.form.codes, s.form.admin)
           D == (tenantRoles[s.role].direct \ s.seen) \union new
           W == IF s.loaded THEN {} ELSE wanted[s.role]
           w == WantedAfter(W, s.shown, s.form)
<1>1. IsSave(s) /\ Saving(p)
  BY Kinds DEF CommitSave, RoleTypeInv, Saving
<1>2. /\ s.seen = tenantRoles[s.role].direct
      /\ s.loaded \/ wanted[s.role] \subseteq s.shown
      /\ \A q \in Pages \ {p} : ~(Saving(q) /\ saves[q].role = s.role)
  BY <1>1 DEF SavesInv
<1>3. D = new
  BY <1>2
<1>4. w = new
  <2>1. W \subseteq s.shown /\ s.form \in RoleForms
    BY <1>1, <1>2 DEF IsSave
  <2> HIDE DEF W, s
  <2> QED BY <2>1, StoresWanted
<1>5. Committed(p, s.role, D, RowOf(TenantRole(D), w), w, new)
  BY CommitMakes
<1> HIDE DEF D, w, new
<1> QED BY <1>2, <1>3, <1>4, <1>5

\* What a role created by the form stores is what it wants.
LEMMA CreatesWanted ==
  ASSUME NEW p \in Pages, NEW r \in TenantRoles, CreateRole(p, r)
  PROVE  \E D : /\ tenantRoles' = [tenantRoles EXCEPT ![r] = TenantRole(D)]
                /\ wanted' = [wanted EXCEPT ![r] = D]
                /\ pages' = [pages EXCEPT ![p].rows = [q \in DOMAIN @ \union {r} |->
                       IF q = r THEN RowOf(TenantRole(D), D) ELSE @[q]]]
<1>1. PICK f \in RoleForms :
          LET row == TenantRole(IF f.admin THEN f.codes \union {Manage} ELSE f.codes)
          IN  /\ tenantRoles' = [tenantRoles EXCEPT ![r] = row]
              /\ wanted' = [wanted EXCEPT ![r] = f.codes]
              /\ pages' = [pages EXCEPT ![p].rows =
                     [q \in DOMAIN @ \union {r} |-> IF q = r THEN RowOf(row, f.codes) ELSE @[q]]]
  BY DEF CreateRole
<1>2. (IF f.admin THEN f.codes \union {Manage} ELSE f.codes) = f.codes
  BY StoresWanted
<1> QED BY <1>1, <1>2

\* The permissions of a role stay those that were ticked.
LEMMA TickedStep ==
  RoleTypeInv /\ SavesInv /\ RolesAsTicked /\ [PermissionsNext]_permissionVars => RolesAsTicked'
<1> SUFFICES ASSUME RoleTypeInv, SavesInv, RolesAsTicked, [PermissionsNext]_permissionVars,
                    NEW r \in Existing' \ {AdminRole}, Clean(r)'
             PROVE  Stored(tenantRoles'[r]) = wanted'[r] \union ApplicantCodes
  BY DEF RolesAsTicked, Clean, Stored
<1>1. r \in TenantRoles /\ Clean(r)
  BY QuirksGrow DEF Clean, Existing
<1>2. CASE tenantRoles'[r] = tenantRoles[r] /\ wanted'[r] = wanted[r]
  BY <1>1, <1>2 DEF RolesAsTicked, Clean, Existing
<1>3. ASSUME NEW p \in Pages, NEW c \in TenantRoles, CreateRole(p, c)
      PROVE  Stored(tenantRoles'[r]) = wanted'[r] \union ApplicantCodes
  <2>1. PICK D : /\ tenantRoles' = [tenantRoles EXCEPT ![c] = TenantRole(D)]
                 /\ wanted' = [wanted EXCEPT ![c] = D]
                 /\ pages' = [pages EXCEPT ![p].rows = [q \in DOMAIN @ \union {c} |->
                        IF q = c THEN RowOf(TenantRole(D), D) ELSE @[q]]]
    BY <1>3, CreatesWanted
  <2>2. CASE r = c
    <3>1. tenantRoles'[r] = TenantRole(D) /\ wanted'[r] = D
      BY <1>1, <2>1, <2>2 DEF RoleTypeInv
    <3> QED BY <3>1, Kinds
  <2>3. CASE r # c
    BY <1>1, <1>2, <2>1, <2>3 DEF RoleTypeInv
  <2> QED BY <2>2, <2>3
<1>4. ASSUME NEW p \in Pages, CommitSave(p)
      PROVE  Stored(tenantRoles'[r]) = wanted'[r] \union ApplicantCodes
  <2>1. CASE r = saves[p].role /\ r \in Existing
    <3>1. PICK D : tenantRoles' = [tenantRoles EXCEPT ![r] = TenantRole(D)] /\ wanted' = [wanted EXCEPT ![r] = D]
      BY <1>1, <1>4, <2>1, CommitsWanted DEF Committed
    <3> QED BY <1>1, <3>1, Kinds DEF RoleTypeInv
  <2>2. CASE r # saves[p].role \/ r \notin Existing
    BY <1>1, <1>2, <1>4, <2>2, CommitMakes DEF CommitSave, Committed, RoleTypeInv
  <2> QED BY <2>1, <2>2
<1>5. ASSUME NEW p \in Pages, EndDelete(p)
      PROVE  Stored(tenantRoles'[r]) = wanted'[r] \union ApplicantCodes
  BY <1>1, <1>2, <1>5, Kinds DEF EndDelete, Existing, RoleTypeInv
<1> QED
  BY <1>2, <1>3, <1>4, <1>5 DEF PermissionsNext, permissionVars, OpenPage, BeginSave,
     BeginDelete, AssignRole, DeactivateUser

\* The rows a page shows stay true of what is wanted, or their role is marked.
LEMMA RowsStep ==
  RoleTypeInv /\ SavesInv /\ RowsInv /\ [PermissionsNext]_permissionVars => RowsInv'
<1> SUFFICES ASSUME RoleTypeInv, SavesInv, RowsInv, [PermissionsNext]_permissionVars,
                    NEW p \in Pages, pages'[p] # NoPage, NEW r \in DOMAIN pages'[p].rows,
                    ~pages'[p].rows[r].loaded, Clean(r)'
             PROVE  pages'[p].rows[r].codes = pages'[p].rows[r].wanted \union ApplicantCodes
  BY DEF RowsInv, Listed, Clean
<1>0. r \in TenantRoles /\ Clean(r)
  <2>1. RoleTypeInv'
    BY RoleTypeStep
  <2>2. r \in TenantRoles
    BY <2>1 DEF RoleTypeInv, IsPage, Known
  <2> QED BY <2>2, QuirksGrow DEF Clean
<1>1. CASE pages[p] # NoPage /\ r \in DOMAIN pages[p].rows /\ pages'[p].rows[r] = pages[p].rows[r]
  BY <1>0, <1>1 DEF RowsInv, Listed
<1>2. ASSUME NEW D, pages'[p].rows[r] = RowOf(TenantRole(D), D)
      PROVE  pages'[p].rows[r].codes = pages'[p].rows[r].wanted \union ApplicantCodes
  BY <1>2, Kinds DEF RowOf
<1>3. CASE pages'[p] = pages[p]
  BY <1>1, <1>3
<1>4. ASSUME NEW q \in Pages, NEW u \in Staff, OpenPage(q, u)
      PROVE  pages'[p].rows[r].codes = pages'[p].rows[r].wanted \union ApplicantCodes
  <2>1. CASE q = p
    <3>1. pages'[p] = [by |-> {u}, rows |-> [x \in Existing |-> LoadedRow]]
      BY <1>4, <2>1 DEF OpenPage, RoleTypeInv
    <3>2. pages'[p].rows[r].loaded
      BY <3>1 DEF LoadedRow
    <3> QED BY <3>2
  <2> QED BY <1>3, <1>4, <2>1 DEF OpenPage, RoleTypeInv
<1>5. ASSUME NEW q \in Pages, NEW c \in TenantRoles, CreateRole(q, c)
      PROVE  pages'[p].rows[r].codes = pages'[p].rows[r].wanted \union ApplicantCodes
  <2>1. PICK D : pages' = [pages EXCEPT ![q].rows = [x \in DOMAIN @ \union {c} |->
                       IF x = c THEN RowOf(TenantRole(D), D) ELSE @[x]]]
    BY <1>5, CreatesWanted
  <2>2. CASE q = p
    <3>1. IsPage(pages[p]) /\ pages[p] # NoPage
      BY <1>5, <2>2, Kinds DEF CreateRole, MayManage, RoleTypeInv
    <3>2. pages'[p].rows = [x \in DOMAIN pages[p].rows \union {c} |->
                       IF x = c THEN RowOf(TenantRole(D), D) ELSE pages[p].rows[x]]
      BY <2>1, <2>2, <3>1 DEF RoleTypeInv, IsPage
    <3> QED BY <1>1, <1>2, <3>1, <3>2
  <2> QED BY <1>3, <2>1, <2>2 DEF RoleTypeInv
<1>6. ASSUME NEW q \in Pages, CommitSave(q)
      PROVE  pages'[p].rows[r].codes = pages'[p].rows[r].wanted \union ApplicantCodes
  <2>1. CASE q = p /\ saves[p].role \in Existing
    <3>1. IsPage(pages[p]) /\ pages[p] # NoPage
      <4>1. saves[p] # NoSave /\ IsPage(pages[p])
        BY <1>6, <2>1, Kinds DEF CommitSave, RoleTypeInv
      <4>2. "rows" \in DOMAIN pages[p] /\ "rows" \notin DOMAIN NoPage
        BY <4>1 DEF IsPage, NoPage
      <4> QED BY <4>1, <4>2
    <3>2. PICK y : pages'[p].rows = [pages[p].rows EXCEPT ![saves[p].role] = y]
      <4>1. PICK y : pages' = [pages EXCEPT ![p].rows[saves[p].role] = y]
        BY <1>6, <2>1, CommitMakes DEF Committed
      <4>2. pages'[p] = [pages[p] EXCEPT !.rows[saves[p].role] = y]
        BY <4>1 DEF RoleTypeInv
      <4> QED BY <3>1, <4>2 DEF IsPage
    <3>3. CASE r # saves[p].role
      BY <1>1, <3>1, <3>2, <3>3
    <3>4. CASE r = saves[p].role
      <4>1. PICK D : pages' = [pages EXCEPT ![p].rows[r] = RowOf(TenantRole(D), D)]
        BY <1>0, <1>6, <2>1, <3>4, CommitsWanted DEF Committed
      <4>2. pages'[p].rows[r] = RowOf(TenantRole(D), D)
        BY <3>1, <3>2, <4>1 DEF RoleTypeInv, IsPage
      <4> QED BY <1>2, <4>2
    <3> QED BY <3>3, <3>4
  <2> QED BY <1>3, <1>6, <2>1, CommitMakes DEF Committed, CommitSave, RoleTypeInv
<1>7. ASSUME NEW q \in Pages, EndDelete(q)
      PROVE  pages'[p].rows[r].codes = pages'[p].rows[r].wanted \union ApplicantCodes
  <2>1. CASE q = p /\ saves[p].role \in Existing
    <3>1. IsPage(pages[p]) /\ pages[p] # NoPage
      <4>1. saves[p] # NoSave /\ IsPage(pages[p])
        BY <1>7, <2>1, Kinds DEF EndDelete, RoleTypeInv
      <4>2. "rows" \in DOMAIN pages[p] /\ "rows" \notin DOMAIN NoPage
        BY <4>1 DEF IsPage, NoPage
      <4> QED BY <4>1, <4>2
    <3>2. pages'[p].rows = [x \in DOMAIN pages[p].rows \ {saves[p].role} |-> pages[p].rows[x]]
      BY <1>7, <2>1, <3>1 DEF EndDelete, RoleTypeInv, IsPage
    <3> QED BY <1>1, <3>1, <3>2
  <2> QED BY <1>3, <1>7, <2>1 DEF EndDelete, RoleTypeInv
<1> QED
  BY <1>3, <1>4, <1>5, <1>6, <1>7 DEF PermissionsNext, permissionVars, BeginSave,
     BeginDelete, AssignRole, DeactivateUser

\* What a change read stays true until its write, or its role is marked.
LEMMA SavesStep ==
  RoleTypeInv /\ SavesInv /\ RowsInv /\ [PermissionsNext]_permissionVars => SavesInv'
<1> DEFINE Good(p) ==
        LET r == saves[p].role
        IN  /\ r \in Existing => /\ saves[p].seen = tenantRoles[r].direct
                                 /\ saves[p].loaded \/ wanted[r] \subseteq saves[p].shown
            /\ \A q \in Pages \ {p} : ~(Saving(q) /\ saves[q].role = r)
<1> SUFFICES ASSUME RoleTypeInv, SavesInv, RowsInv, [PermissionsNext]_permissionVars,
                    NEW p \in Pages, Saving(p)', Clean(saves[p].role)'
             PROVE  Good(p)'
  BY DEF SavesInv
<1>0. RoleTypeInv'
  BY RoleTypeStep
<1>1. IsSave(saves[p])' /\ \A q \in Pages : Saving(q) => IsSave(saves[q])
  BY <1>0, Kinds DEF RoleTypeInv, Saving, IsSave, IsDeletion
<1>2. \A r \in TenantRoles : Clean(r)' => Clean(r)
  BY QuirksGrow DEF Clean
<1>3. saves'[p].role \in TenantRoles \ {AdminRole} /\ Clean(saves'[p].role)
  BY <1>1, <1>2 DEF IsSave, Born, Known, Clean
<1>4. ASSUME saves'[p] = saves[p] PROVE Saving(p) /\ Good(p)
  BY <1>3, <1>4 DEF Saving, SavesInv
<1>5. CASE saves' = saves /\ tenantRoles' = tenantRoles /\ wanted' = wanted
  BY <1>4, <1>5 DEF Saving, Existing
<1>6. ASSUME NEW q \in Pages, NEW c \in TenantRoles, CreateRole(q, c) PROVE Good(p)'
  <2>1. PICK D : /\ tenantRoles' = [tenantRoles EXCEPT ![c] = TenantRole(D)]
                 /\ wanted' = [wanted EXCEPT ![c] = D]
                 /\ pages' = [pages EXCEPT ![q].rows = [x \in DOMAIN @ \union {c} |->
                        IF x = c THEN RowOf(TenantRole(D), D) ELSE @[x]]]
    BY <1>6, CreatesWanted
  <2>2. saves' = saves /\ tenantRoles[c] = Unborn
    BY <1>6 DEF CreateRole
  <2>3. Saving(p) /\ Good(p) /\ saves[p].role # c
    BY <1>1, <1>4, <2>2, Kinds DEF IsSave, Born, Known
  <2>4. tenantRoles'[saves[p].role] = tenantRoles[saves[p].role] /\ wanted'[saves[p].role] = wanted[saves[p].role]
    BY <2>1, <2>3 DEF RoleTypeInv
  <2> QED BY <2>2, <2>3, <2>4 DEF Saving, Existing
<1>7. ASSUME NEW q \in Pages, NEW c \in TenantRoles, BeginSave(q, c) PROVE Good(p)'
  <2> DEFINE row == pages[q].rows[c]
             odd == (IF ~row.loaded /\ row.wanted # wanted[c] THEN {"stale"} ELSE {})
                    \union {"overlap" : x \in {x \in Pages : saves[x].kind = "save" /\ saves[x].role = c}}
  <2>1. PICK f \in RoleForms :
           /\ saves' = [saves EXCEPT ![q] =
                  [kind |-> "save", role |-> c, form |-> f, loaded |-> row.loaded,
                   shown |-> row.codes, seen |-> tenantRoles[c].direct]]
           /\ quirks' = [quirks EXCEPT ![c] = @ \union odd]
    BY <1>7 DEF BeginSave
  <2>2. tenantRoles' = tenantRoles /\ wanted' = wanted /\ pages[q] # NoPage /\ c \in Listed(q)
    BY <1>7, Kinds DEF BeginSave, MayManage
  <2>3. /\ saves'[q].kind = "save" /\ saves'[q].role = c /\ saves'[q].loaded = row.loaded
        /\ saves'[q].shown = row.codes /\ saves'[q].seen = tenantRoles[c].direct
        /\ \A x \in Pages \ {q} : saves'[x] = saves[x]
        /\ quirks'[c] = quirks[c] \union odd
    BY <2>1 DEF RoleTypeInv
  <2>4. ASSUME Clean(c)'
        PROVE  /\ \A x \in Pages : ~(Saving(x) /\ saves[x].role = c)
               /\ row.loaded \/ row.wanted = wanted[c]
    <3>1. "stale" \notin odd /\ "overlap" \notin odd
      BY <2>3, <2>4 DEF Clean
    <3> QED BY <3>1 DEF Saving
  <2>5. CASE p = q
    <3>1. Clean(c)' /\ Clean(c)
      BY <1>2, <2>3, <2>5 DEF Clean
    <3>2. ~row.loaded => row.codes = row.wanted \union ApplicantCodes
      BY <2>2, <3>1 DEF RowsInv
    <3> HIDE DEF row, odd
    <3>3. row.loaded \/ wanted[c] \subseteq row.codes
      BY <2>4, <3>1, <3>2
    <3>4. saves'[p].loaded \/ wanted'[c] \subseteq saves'[p].shown
      BY <2>2, <2>3, <2>5, <3>3
    <3> QED BY <2>2, <2>3, <2>4, <2>5, <3>1, <3>4 DEF Saving, Existing
  <2>6. CASE p # q
    <3>1. saves'[p] = saves[p] /\ Saving(p) /\ Good(p)
      BY <1>4, <2>3, <2>6
    <3>2. saves[p].role # c
      BY <2>4, <3>1 DEF Clean
    <3> HIDE DEF row, odd
    <3> QED BY <2>2, <2>3, <3>1, <3>2 DEF Saving, Existing
  <2> QED BY <2>5, <2>6
<1>8. ASSUME NEW q \in Pages, CommitSave(q) PROVE Good(p)'
  <2>1. CASE saves[q].role \notin Existing
    <3>1. saves' = [saves EXCEPT ![q] = NoSave] /\ tenantRoles' = tenantRoles /\ wanted' = wanted
      BY <1>8, <2>1 DEF CommitSave
    <3> QED BY <1>4, <3>1, Kinds DEF Saving, Existing, RoleTypeInv
  <2>2. CASE saves[q].role \in Existing
    <3> DEFINE c == saves[q].role
    <3>1. PICK D, y, w, new : Committed(q, c, D, y, w, new)
      BY <1>8, <2>2, CommitMakes
    <3>2. p # q /\ saves'[q] = NoSave
      BY <3>1, Kinds DEF Committed, Saving
    <3>3. \A x \in Pages \ {q} : Saving(x)' => Saving(x) /\ saves'[x].role = saves[x].role
      <4> SUFFICES ASSUME NEW x \in Pages \ {q}, Saving(x)' PROVE Saving(x) /\ saves'[x].role = saves[x].role
        OBVIOUS
      <4>1. CASE saves'[x] = saves[x]
        BY <4>1 DEF Saving
      <4>2. CASE saves[x].kind = "save" /\ saves'[x] = [saves[x] EXCEPT !.seen = @ \ new]
        BY <1>1, <4>2 DEF Saving, IsSave
      <4> QED BY <3>1, <4>1, <4>2 DEF Committed
    <3>4. saves'[p].role # c
      <4>1. Saving(p) /\ saves'[p].role = saves[p].role
        BY <3>2, <3>3
      <4> QED BY <1>3, <1>8, <2>2, <3>2, <4>1, CommitsWanted
    <3>5. saves'[p] = saves[p]
      BY <3>1, <3>2, <3>3, <3>4 DEF Committed
    <3>6. /\ tenantRoles'[saves[p].role] = tenantRoles[saves[p].role]
          /\ wanted'[saves[p].role] = wanted[saves[p].role]
      BY <3>1, <3>4, <3>5 DEF Committed, RoleTypeInv
    <3> QED BY <1>4, <3>2, <3>3, <3>5, <3>6, Kinds DEF Saving, Existing
  <2> QED BY <2>1, <2>2
<1>9. ASSUME NEW q \in Pages, NEW c \in TenantRoles, BeginDelete(q, c) PROVE Good(p)'
  <2>1. /\ saves' = [saves EXCEPT ![q] = [kind |-> "delete", role |-> c]]
        /\ tenantRoles' = tenantRoles /\ wanted' = wanted
    BY <1>9 DEF BeginDelete
  <2>2. saves'[q].kind = "delete" /\ \A x \in Pages \ {q} : saves'[x] = saves[x]
    BY <2>1 DEF RoleTypeInv
  <2> QED BY <1>4, <2>1, <2>2 DEF Saving, Existing
<1>10. ASSUME NEW q \in Pages, EndDelete(q) PROVE Good(p)'
  <2>1. /\ saves' = [saves EXCEPT ![q] = NoSave] /\ wanted' = wanted
        /\ tenantRoles' = [tenantRoles EXCEPT ![saves[q].role] = Deleted]
    BY <1>10 DEF EndDelete
  <2>2. p # q /\ \A x \in Pages \ {q} : saves'[x] = saves[x]
    BY <2>1, Kinds DEF RoleTypeInv, Saving
  <2>3. saves'[p].role \in Existing' => saves'[p].role \in Existing /\ saves'[p].role # saves[q].role
    BY <2>1, Kinds DEF RoleTypeInv, Existing
  <2> QED BY <1>4, <2>1, <2>2, <2>3, Kinds DEF Saving, RoleTypeInv
<1>11. ASSUME NEW q \in Pages, NEW u \in Staff, OpenPage(q, u) PROVE Good(p)'
  BY <1>5, <1>11 DEF OpenPage
<1> QED
  BY <1>5, <1>6, <1>7, <1>8, <1>9, <1>10, <1>11
  DEF PermissionsNext, permissionVars, AssignRole, DeactivateUser

\* Once the users of a role were counted, only a user it is given to can be left by it.
LEMMA DeletionsStep == RoleTypeInv /\ DeletionsInv /\ [PermissionsNext]_permissionVars => DeletionsInv'
<1> SUFFICES ASSUME RoleTypeInv, DeletionsInv, [PermissionsNext]_permissionVars,
                    NEW p \in Pages, saves'[p].kind = "delete", "assigned" \notin quirks'[saves'[p].role],
                    NEW u \in Staff, saves'[p].role \in staff'[u].role
             PROVE  ~staff'[u].active
  BY DEF DeletionsInv
<1>0. IsDeletion(saves[p])' /\ saves'[p].role \in TenantRoles
  <2>1. RoleTypeInv'
    BY RoleTypeStep
  <2>2. saves'[p] # NoSave /\ ~IsSave(saves[p])'
    BY Kinds DEF IsSave
  <2>3. IsDeletion(saves[p])'
    BY <2>1, <2>2 DEF RoleTypeInv
  <2> QED BY <2>3 DEF IsDeletion, Born, Known
<1>1. "assigned" \notin quirks[saves'[p].role]
  BY <1>0, QuirksGrow
<1>2. CASE saves'[p] = saves[p] /\ staff' = staff
  BY <1>1, <1>2 DEF DeletionsInv
<1>3. ASSUME NEW q \in Pages, NEW c \in TenantRoles, BeginSave(q, c) PROVE ~staff'[u].active
  <2>1. saves'[q].kind = "save" /\ staff' = staff /\ \A x \in Pages \ {q} : saves'[x] = saves[x]
    BY <1>3 DEF BeginSave, RoleTypeInv
  <2> QED BY <1>2, <2>1
<1>4. ASSUME NEW q \in Pages, CommitSave(q) PROVE ~staff'[u].active
  <2>1. CASE saves[q].role \notin Existing
    BY <1>2, <1>4, <2>1, Kinds DEF CommitSave, RoleTypeInv
  <2>2. CASE saves[q].role \in Existing
    <3>1. PICK D, y, w, new : Committed(q, saves[q].role, D, y, w, new)
      BY <1>4, <2>2, CommitMakes
    <3>2. CASE saves[p].kind = "save" /\ saves'[p] = [saves[p] EXCEPT !.seen = @ \ new]
      <4>1. IsSave(saves[p])
        BY <3>2, Kinds DEF RoleTypeInv
      <4>2. saves'[p].kind = "save"
        BY <3>2, <4>1 DEF IsSave
      <4> QED BY <4>2
    <3>3. CASE saves'[p] = saves[p]
      BY <1>2, <1>4, <3>3 DEF CommitSave
    <3> QED BY <3>1, <3>2, <3>3, Kinds DEF Committed
  <2> QED BY <2>1, <2>2
<1>5. ASSUME NEW q \in Pages, NEW c \in TenantRoles, BeginDelete(q, c) PROVE ~staff'[u].active
  <2>1. CASE q = p
    <3>1. saves'[p].role = c /\ staff' = staff
      BY <1>5, <2>1 DEF BeginDelete, RoleTypeInv
    <3> QED BY <1>5, <3>1 DEF BeginDelete, Deletable
  <2> QED BY <1>2, <1>5, <2>1 DEF BeginDelete, RoleTypeInv
<1>6. ASSUME NEW q \in Pages, EndDelete(q) PROVE ~staff'[u].active
  <2>1. saves'[p] = saves[p]
    BY <1>6, Kinds DEF EndDelete, RoleTypeInv
  <2>2. staff'[u] = [staff[u] EXCEPT !.role = @ \ {saves[q].role}]
    BY <1>6 DEF EndDelete
  <2>3. saves[p].role \in staff[u].role /\ staff'[u].active = staff[u].active
    BY <2>1, <2>2 DEF RoleTypeInv
  <2> QED BY <1>1, <2>1, <2>3 DEF DeletionsInv
<1>7. ASSUME NEW v \in Staff, NEW c \in TenantRoles, AssignRole(v, c) PROVE ~staff'[u].active
  <2> DEFINE odd == {"assigned" : q \in {q \in Pages : saves[q].kind = "delete" /\ saves[q].role = c}}
  <2>1. saves' = saves /\ staff' = [staff EXCEPT ![v].role = {c}] /\ quirks' = [quirks EXCEPT ![c] = @ \union odd]
    BY <1>7 DEF AssignRole
  <2>2. saves[p].role # c
    <3>1. SUFFICES ASSUME saves[p].role = c PROVE FALSE
      OBVIOUS
    <3>2. "assigned" \in odd
      BY <2>1, <3>1
    <3> HIDE DEF odd
    <3>3. "assigned" \in quirks'[c]
      BY <2>1, <3>2 DEF RoleTypeInv
    <3> QED BY <2>1, <3>1, <3>3
  <2>3. u # v /\ staff'[u] = staff[u]
    BY <2>1, <2>2 DEF RoleTypeInv
  <2> QED BY <1>1, <2>1, <2>3 DEF DeletionsInv
<1>8. ASSUME NEW v \in Staff, DeactivateUser(v) PROVE ~staff'[u].active
  <2>1. saves' = saves /\ staff' = [staff EXCEPT ![v].active = FALSE]
    BY <1>8 DEF DeactivateUser
  <2>2. CASE u = v
    BY <2>1, <2>2 DEF RoleTypeInv
  <2>3. CASE u # v
    BY <1>1, <2>1, <2>3 DEF DeletionsInv, RoleTypeInv
  <2> QED BY <2>2, <2>3
<1> QED
  BY <1>2, <1>3, <1>4, <1>5, <1>6, <1>7, <1>8 DEF PermissionsNext, permissionVars, OpenPage, CreateRole

\* Deletions, assignments and deactivations leave every active user a role.
LEMMA KeepsStep ==
  RoleTypeInv /\ DeletionsInv /\ KeepsARole /\ [PermissionsNext]_permissionVars => KeepsARole'
<1> SUFFICES ASSUME RoleTypeInv, DeletionsInv, KeepsARole, [PermissionsNext]_permissionVars,
                    NEW u \in Staff, staff'[u].active, staff'[u].role = {}
             PROVE  \E r \in TenantRoles : "assigned" \in quirks'[r]
  BY DEF KeepsARole
<1>1. CASE staff[u].active /\ staff[u].role = {}
  BY <1>1, QuirksGrow DEF KeepsARole
<1>2. ASSUME NEW q \in Pages, EndDelete(q) PROVE \E r \in TenantRoles : "assigned" \in quirks'[r]
  <2>1. staff'[u] = [staff[u] EXCEPT !.role = @ \ {saves[q].role}]
    BY <1>2 DEF EndDelete
  <2>2. staff[u].active
    BY <2>1 DEF RoleTypeInv
  <2>3. CASE saves[q].role \in staff[u].role
    <3>1. "assigned" \in quirks[saves[q].role] /\ saves[q].role \in TenantRoles
      BY <1>2, <2>2, <2>3, Kinds DEF EndDelete, DeletionsInv, RoleTypeInv, IsDeletion, Born, Known
    <3> QED BY <3>1, QuirksGrow
  <2>4. CASE saves[q].role \notin staff[u].role
    BY <1>1, <2>1, <2>2, <2>4 DEF RoleTypeInv
  <2> QED BY <2>3, <2>4
<1>3. ASSUME NEW v \in Staff, NEW c \in TenantRoles, AssignRole(v, c)
      PROVE  \E r \in TenantRoles : "assigned" \in quirks'[r]
  BY <1>1, <1>3 DEF AssignRole, RoleTypeInv
<1>4. ASSUME NEW v \in Staff, DeactivateUser(v) PROVE \E r \in TenantRoles : "assigned" \in quirks'[r]
  <2>1. staff' = [staff EXCEPT ![v].active = FALSE]
    BY <1>4 DEF DeactivateUser
  <2>2. u # v
    BY <2>1 DEF RoleTypeInv
  <2> QED BY <1>1, <2>1, <2>2 DEF RoleTypeInv
<1> QED
  BY <1>1, <1>2, <1>3, <1>4 DEF PermissionsNext, permissionVars, OpenPage, CreateRole, BeginSave,
     CommitSave, BeginDelete

--------------------------------------------------------------------------------
\* The inductive invariant.
RoleInv == RoleTypeInv /\ SavesInv /\ RowsInv /\ RolesAsTicked /\ DeletionsInv /\ KeepsARole

\* The inductive invariant holds of the role that comes with the organisation.
LEMMA RoleInvAtFirst == PermissionsInit => RoleInv
<1> SUFFICES ASSUME PermissionsInit PROVE RoleInv
  OBVIOUS
<1>1. RoleTypeInv
  <2>1. \A r \in TenantRoles : tenantRoles[r] = Unborn \/ tenantRoles[r] = TenantRole(tenantRoles[r].direct)
    BY Kinds DEF PermissionsInit
  <2> QED BY <2>1 DEF PermissionsInit, RoleTypeInv
<1>2. SavesInv /\ DeletionsInv
  BY Kinds DEF PermissionsInit, SavesInv, DeletionsInv, Saving
<1>3. RowsInv
  BY DEF PermissionsInit, RowsInv
<1>4. RolesAsTicked
  BY Kinds DEF PermissionsInit, RolesAsTicked, Existing
<1>5. KeepsARole
  BY DEF PermissionsInit, KeepsARole
<1> QED BY <1>1, <1>2, <1>3, <1>4, <1>5 DEF RoleInv

\* The inductive invariant always holds.
LEMMA RoleInvHolds == PermissionsSpec => []RoleInv
<1>1. RoleInv /\ [PermissionsNext]_permissionVars => RoleInv'
  BY RoleTypeStep, SavesStep, RowsStep, TickedStep, DeletionsStep, KeepsStep DEF RoleInv
<1> QED BY <1>1, RoleInvAtFirst, PTL DEF PermissionsSpec

\* Whatever pages are open, a role permits what administrators ticked and nobody unticked
\* since, and what applicants may, unless a form showed what had changed since or two
\* changes of the role overlapped (updateTenantRole deletes only the permissions it sees).
THEOREM PermissionsAsTicked == PermissionsSpec => []RolesAsTicked
<1>1. RoleInv => RolesAsTicked
  BY DEF RoleInv
<1> QED BY <1>1, RoleInvHolds, PTL

\* An active user keeps a role through any creations, changes and deletions of roles,
\* unless it was given one while that one was being deleted (deleteTenantRole counts the
\* holders before it deletes).
THEOREM RolesKept == PermissionsSpec => []KeepsARole
<1>1. RoleInv => KeepsARole
  BY DEF RoleInv
<1> QED BY <1>1, RoleInvHolds, PTL

\* Permissions are stored, wanted and shown of those there are.
CodesInv ==
    /\ \A r \in TenantRoles : wanted[r] \subseteq Codes
    /\ \A r \in Existing : tenantRoles[r].direct \subseteq Codes
    /\ \A p \in Pages : Saving(p) => saves[p].shown \subseteq Codes
    /\ \A p \in Pages : pages[p] # NoPage =>
           \A r \in Listed(p) : pages[p].rows[r].codes \subseteq Codes
\* A user has one role or none, of those there are.
HoldersInv ==
    /\ \A u \in Staff : staff[u].role \subseteq Existing
    /\ \A u \in Staff : \A q, r \in staff[u].role : q = r
    /\ roleCalls \in 0..MaxRoleCalls

\* A page that somebody sees or changes a role on is one with rows.
LEMMA PageHasRows ==
  ASSUME RoleTypeInv, NEW p \in Pages, pages[p].by # {} \/ saves[p] # NoSave
  PROVE  IsPage(pages[p]) /\ pages[p] # NoPage
<1>1. IsPage(pages[p])
  BY Kinds DEF RoleTypeInv
<1>2. "rows" \in DOMAIN pages[p] /\ "rows" \notin DOMAIN NoPage
  BY <1>1 DEF IsPage, NoPage
<1> QED BY <1>1, <1>2

\* Roles, changes and pages go on naming permissions there are.
LEMMA CodesStep == RoleTypeInv /\ CodesInv /\ [PermissionsNext]_permissionVars => CodesInv'
<1> SUFFICES ASSUME RoleTypeInv, CodesInv, [PermissionsNext]_permissionVars PROVE CodesInv'
  OBVIOUS
<1>0. /\ DOMAIN tenantRoles = TenantRoles /\ DOMAIN wanted = TenantRoles
      /\ DOMAIN saves = Pages /\ DOMAIN pages = Pages
  BY DEF RoleTypeInv
<1>1. ASSUME UNCHANGED <<tenantRoles, wanted>>
      PROVE  /\ \A r \in TenantRoles : wanted'[r] \subseteq Codes
             /\ \A r \in Existing' : tenantRoles'[r].direct \subseteq Codes
  BY <1>1 DEF CodesInv, Existing
<1>2. ASSUME NEW r \in TenantRoles, NEW D \in SUBSET Codes, NEW W \in SUBSET Codes,
             tenantRoles' = [tenantRoles EXCEPT ![r] = TenantRole(D)], wanted' = [wanted EXCEPT ![r] = W]
      PROVE  /\ \A q \in TenantRoles : wanted'[q] \subseteq Codes
             /\ \A q \in Existing' : tenantRoles'[q].direct \subseteq Codes
  BY <1>0, <1>2, Kinds DEF CodesInv, Existing
<1>3. ASSUME UNCHANGED saves PROVE \A q \in Pages : Saving(q)' => saves'[q].shown \subseteq Codes
  BY <1>3 DEF CodesInv, Saving
<1>4. ASSUME UNCHANGED pages
      PROVE  \A q \in Pages : pages'[q] # NoPage => \A r \in DOMAIN pages'[q].rows : pages'[q].rows[r].codes \subseteq Codes
  BY <1>4 DEF CodesInv, Listed
<1>5. ASSUME NEW p \in Pages, DOMAIN pages' = Pages, \A q \in Pages \ {p} : pages'[q] = pages[q],
             \A r \in DOMAIN pages'[p].rows : pages'[p].rows[r].codes \subseteq Codes
      PROVE  \A q \in Pages : pages'[q] # NoPage => \A r \in DOMAIN pages'[q].rows : pages'[q].rows[r].codes \subseteq Codes
  BY <1>5 DEF CodesInv, Listed
<1>6. ASSUME NEW p \in Pages, NEW u \in Staff, OpenPage(p, u) PROVE CodesInv'
  <2>1. pages'[p].rows = [r \in Existing |-> LoadedRow] /\ DOMAIN pages' = Pages
        /\ \A q \in Pages \ {p} : pages'[q] = pages[q]
    BY <1>0, <1>6 DEF OpenPage
  <2>2. \A r \in DOMAIN pages'[p].rows : pages'[p].rows[r].codes \subseteq Codes
    BY <2>1 DEF LoadedRow
  <2> QED BY <1>1, <1>3, <1>5, <1>6, <2>1, <2>2 DEF OpenPage, CodesInv, Listed
<1>7. ASSUME NEW p \in Pages, NEW r \in TenantRoles, CreateRole(p, r) PROVE CodesInv'
  <2>1. PICK f \in RoleForms :
          LET row == TenantRole(IF f.admin THEN f.codes \union {Manage} ELSE f.codes)
          IN  /\ tenantRoles' = [tenantRoles EXCEPT ![r] = row]
              /\ wanted' = [wanted EXCEPT ![r] = f.codes]
              /\ pages' = [pages EXCEPT ![p].rows =
                     [q \in DOMAIN @ \union {r} |-> IF q = r THEN RowOf(row, f.codes) ELSE @[q]]]
    BY <1>7 DEF CreateRole
  <2> DEFINE D == IF f.admin THEN f.codes \union {Manage} ELSE f.codes
  <2>2. D \in SUBSET Codes /\ f.codes \in SUBSET Codes
    BY CodesAssumption DEF RoleForms
  <2>3. tenantRoles' = [tenantRoles EXCEPT ![r] = TenantRole(D)]
    BY <2>1
  <2>4. IsPage(pages[p]) /\ pages[p] # NoPage
    BY <1>7, PageHasRows DEF CreateRole, MayManage
  <2>5. pages'[p].rows = [q \in DOMAIN pages[p].rows \union {r} |->
                             IF q = r THEN RowOf(TenantRole(D), f.codes) ELSE pages[p].rows[q]]
        /\ DOMAIN pages' = Pages /\ \A q \in Pages \ {p} : pages'[q] = pages[q]
    BY <1>0, <2>1, <2>4 DEF IsPage
  <2> HIDE DEF D
  <2>6. RowOf(TenantRole(D), f.codes).codes \subseteq Codes
    BY <2>2, Kinds, CodesAssumption DEF RowOf
  <2>7. \A q \in DOMAIN pages'[p].rows : pages'[p].rows[q].codes \subseteq Codes
    BY <2>4, <2>5, <2>6 DEF CodesInv, Listed
  <2>8. \A q \in Pages : pages'[q] # NoPage => \A x \in DOMAIN pages'[q].rows : pages'[q].rows[x].codes \subseteq Codes
    BY <1>5, <2>5, <2>7
  <2>9. /\ \A q \in TenantRoles : wanted'[q] \subseteq Codes
        /\ \A q \in Existing' : tenantRoles'[q].direct \subseteq Codes
    BY <1>2, <2>1, <2>2, <2>3
  <2> QED BY <1>3, <1>7, <2>8, <2>9 DEF CreateRole, CodesInv, Listed
<1>8. ASSUME NEW p \in Pages, NEW r \in TenantRoles, BeginSave(p, r) PROVE CodesInv'
  <2>1. PICK f : saves' = [saves EXCEPT ![p] =
           [kind |-> "save", role |-> r, form |-> f, loaded |-> pages[p].rows[r].loaded,
            shown |-> pages[p].rows[r].codes, seen |-> tenantRoles[r].direct]]
    BY <1>8 DEF BeginSave
  <2>2. pages[p] # NoPage /\ r \in Listed(p)
    BY <1>8, PageHasRows DEF BeginSave, MayManage
  <2>3. \A q \in Pages : Saving(q)' => saves'[q].shown \subseteq Codes
    BY <1>0, <2>1, <2>2 DEF CodesInv, Saving
  <2> QED BY <1>1, <1>4, <1>8, <2>3 DEF BeginSave, CodesInv, Listed
<1>9. ASSUME NEW p \in Pages, CommitSave(p) PROVE CodesInv'
  <2>0. IsSave(saves[p]) /\ Saving(p) /\ saves[p] # NoSave
    BY <1>9, Kinds DEF CommitSave, RoleTypeInv, Saving
  <2>1. CASE saves[p].role \notin Existing
    <3>1. saves' = [saves EXCEPT ![p] = NoSave] /\ UNCHANGED <<tenantRoles, pages, wanted>>
      BY <1>9, <2>1 DEF CommitSave
    <3>2. \A q \in Pages : Saving(q)' => saves'[q].shown \subseteq Codes
      BY <1>0, <3>1, Kinds DEF CodesInv, Saving
    <3> QED BY <1>1, <1>4, <3>1, <3>2 DEF CodesInv, Listed
  <2>2. CASE saves[p].role \in Existing
    <3> DEFINE s == saves[p]
               r == s.role
               new == CodesToStore(s.form.codes, s.form.admin)
               D == (tenantRoles[r].direct \ s.seen) \union new
               w == WantedAfter(IF s.loaded THEN {} ELSE wanted[r], s.shown, s.form)
    <3>1. Committed(p, r, D, RowOf(TenantRole(D), w), w, new)
      BY <1>9, <2>2, CommitMakes
    <3>2. s.form.codes \subseteq Codes /\ s.shown \subseteq Codes /\ r \in TenantRoles
      BY <2>0, CodesAssumption DEF IsSave, RoleForms, CodesInv, Born, Known
    <3>3. new \subseteq Codes
      BY <3>2, CodesAssumption DEF CodesToStore
    <3>4. D \in SUBSET Codes
      BY <2>2, <3>3 DEF CodesInv
    <3>5. w \in SUBSET Codes
      BY <3>2 DEF WantedAfter, CodesInv
    <3>6. IsPage(pages[p]) /\ pages[p] # NoPage
      BY <2>0, PageHasRows
    <3> HIDE DEF D, w, new
    <3>7. RowOf(TenantRole(D), w).codes \subseteq Codes
      BY <3>4, Kinds, CodesAssumption DEF RowOf
    <3> DEFINE y == RowOf(TenantRole(D), w)
    <3> HIDE DEF y
    <3>8. pages'[p].rows = [pages[p].rows EXCEPT ![r] = y]
          /\ DOMAIN pages' = Pages /\ \A q \in Pages \ {p} : pages'[q] = pages[q]
      BY <1>0, <3>1, <3>6 DEF IsPage, Committed, y
    <3>9. \A q \in DOMAIN pages'[p].rows : pages'[p].rows[q].codes \subseteq Codes
      <4>1. y.codes \subseteq Codes
        BY <3>7 DEF y
      <4> QED BY <3>6, <3>8, <4>1 DEF CodesInv, Listed
    <3>10. \A q \in Pages : pages'[q] # NoPage => \A x \in DOMAIN pages'[q].rows : pages'[q].rows[x].codes \subseteq Codes
      BY <1>5, <3>8, <3>9
    <3>11. ASSUME NEW q \in Pages, Saving(q)' PROVE saves'[q].shown \subseteq Codes
      <4>1. q # p /\ (saves'[q] = saves[q] \/ (saves[q].kind = "save" /\ saves'[q] = [saves[q] EXCEPT !.seen = @ \ new]))
        BY <3>1, <3>11, Kinds DEF Committed, Saving
      <4>2. CASE saves'[q] = saves[q]
        BY <3>11, <4>2 DEF CodesInv, Saving
      <4>3. CASE saves[q].kind = "save" /\ saves'[q] = [saves[q] EXCEPT !.seen = @ \ new]
        <5>1. IsSave(saves[q]) /\ Saving(q)
          BY <4>3, Kinds DEF RoleTypeInv, Saving
        <5>2. saves'[q].shown = saves[q].shown
          BY <4>3, <5>1 DEF IsSave
        <5> QED BY <5>1, <5>2 DEF CodesInv
      <4> QED BY <4>1, <4>2, <4>3
    <3>12. /\ \A q \in TenantRoles : wanted'[q] \subseteq Codes
           /\ \A q \in Existing' : tenantRoles'[q].direct \subseteq Codes
      BY <1>2, <3>1, <3>2, <3>4, <3>5 DEF Committed
    <3> QED BY <3>10, <3>11, <3>12 DEF CodesInv, Listed
  <2> QED BY <2>1, <2>2
<1>10. ASSUME NEW p \in Pages, NEW r \in TenantRoles, BeginDelete(p, r) PROVE CodesInv'
  <2>1. \A q \in Pages : Saving(q)' => saves'[q].shown \subseteq Codes
    BY <1>0, <1>10 DEF BeginDelete, CodesInv, Saving
  <2> QED BY <1>1, <1>4, <1>10, <2>1 DEF BeginDelete, CodesInv, Listed
<1>11. ASSUME NEW p \in Pages, EndDelete(p) PROVE CodesInv'
  <2>1. IsPage(pages[p]) /\ pages[p] # NoPage
    BY <1>11, PageHasRows, Kinds DEF EndDelete
  <2>2. \A q \in Pages : Saving(q)' => saves'[q].shown \subseteq Codes
    BY <1>0, <1>11, Kinds DEF EndDelete, CodesInv, Saving
  <2>3. /\ \A q \in TenantRoles : wanted'[q] \subseteq Codes
        /\ \A q \in Existing' : tenantRoles'[q].direct \subseteq Codes
    BY <1>0, <1>11, Kinds DEF EndDelete, CodesInv, Existing
  <2>4. CASE saves[p].role \in Existing
    <3>1. pages'[p].rows = [q \in DOMAIN pages[p].rows \ {saves[p].role} |-> pages[p].rows[q]]
          /\ DOMAIN pages' = Pages /\ \A q \in Pages \ {p} : pages'[q] = pages[q]
      BY <1>0, <1>11, <2>1, <2>4 DEF EndDelete, IsPage
    <3>2. \A q \in DOMAIN pages'[p].rows : pages'[p].rows[q].codes \subseteq Codes
      BY <2>1, <3>1 DEF CodesInv, Listed
    <3> QED BY <1>5, <2>2, <2>3, <3>1, <3>2 DEF CodesInv, Listed
  <2>5. CASE saves[p].role \notin Existing
    <3>1. UNCHANGED pages
      BY <1>11, <2>5 DEF EndDelete
    <3> QED BY <1>4, <2>2, <2>3, <3>1 DEF CodesInv, Listed
  <2> QED BY <2>4, <2>5
<1>12. CASE UNCHANGED <<tenantRoles, wanted, saves, pages>>
  BY <1>1, <1>3, <1>4, <1>12 DEF CodesInv, Listed
<1> QED
  BY <1>6, <1>7, <1>8, <1>9, <1>10, <1>11, <1>12 DEF PermissionsNext, permissionVars,
     AssignRole, DeactivateUser

\* Users go on having one role there is, or none: who had a deleted one has none.
LEMMA HoldersStep == RoleTypeInv /\ HoldersInv /\ [PermissionsNext]_permissionVars => HoldersInv'
<1> SUFFICES ASSUME RoleTypeInv, HoldersInv, [PermissionsNext]_permissionVars PROVE HoldersInv'
  OBVIOUS
<1>1. /\ DOMAIN tenantRoles = TenantRoles /\ DOMAIN staff = Staff
      /\ \A u \in Staff : staff[u] = [role |-> staff[u].role, active |-> staff[u].active]
  BY DEF RoleTypeInv
<1>2. roleCalls' \in 0..MaxRoleCalls
  <2>1. UNCHANGED roleCalls \/ Counted
    BY DEF PermissionsNext, permissionVars, OpenPage, CreateRole, BeginSave, CommitSave, BeginDelete,
       EndDelete, AssignRole, DeactivateUser
  <2> QED BY <2>1, RoleCallsAssumption DEF Counted, HoldersInv
<1>3. CASE UNCHANGED <<tenantRoles, staff>>
  BY <1>2, <1>3 DEF HoldersInv, Existing
<1>4. ASSUME UNCHANGED staff, NEW r \in TenantRoles, NEW D, tenantRoles' = [tenantRoles EXCEPT ![r] = TenantRole(D)]
      PROVE  HoldersInv'
  <2>1. Existing \subseteq Existing'
    BY <1>1, <1>4, Kinds DEF Existing
  <2> QED BY <1>2, <1>4, <2>1 DEF HoldersInv
<1>5. ASSUME NEW p \in Pages, NEW r \in TenantRoles, CreateRole(p, r) PROVE HoldersInv'
  <2>1. \E D : tenantRoles' = [tenantRoles EXCEPT ![r] = TenantRole(D)]
    BY <1>5 DEF CreateRole
  <2> QED BY <1>4, <1>5, <2>1 DEF CreateRole
<1>6. ASSUME NEW p \in Pages, CommitSave(p) PROVE HoldersInv'
  <2>1. CASE saves[p].role \notin Existing
    BY <1>3, <1>6, <2>1 DEF CommitSave
  <2>2. CASE saves[p].role \in Existing
    <3>1. \E D : tenantRoles' = [tenantRoles EXCEPT ![saves[p].role] = TenantRole(D)]
      BY <1>6, <2>2, CommitMakes DEF Committed
    <3> QED BY <1>4, <1>6, <2>2, <3>1 DEF CommitSave, Existing
  <2> QED BY <2>1, <2>2
<1>7. ASSUME NEW p \in Pages, EndDelete(p) PROVE HoldersInv'
  <2> DEFINE r == saves[p].role
  <2>1. \A u \in Staff : staff'[u].role = staff[u].role \ {r}
    BY <1>1, <1>7 DEF EndDelete
  <2>2. Existing \ {r} \subseteq Existing'
    BY <1>1, <1>7 DEF EndDelete, Existing
  <2> QED BY <1>2, <2>1, <2>2 DEF HoldersInv
<1>8. ASSUME NEW u \in Staff, NEW r \in TenantRoles, AssignRole(u, r) PROVE HoldersInv'
  <2>1. \A v \in Staff : staff'[v].role = IF v = u THEN {r} ELSE staff[v].role
    BY <1>1, <1>8 DEF AssignRole
  <2>2. Existing' = Existing /\ r \in Existing
    BY <1>8 DEF AssignRole, Existing
  <2> QED BY <1>2, <2>1, <2>2 DEF HoldersInv
<1>9. ASSUME NEW u \in Staff, DeactivateUser(u) PROVE HoldersInv'
  <2>1. \A v \in Staff : staff'[v].role = staff[v].role
    BY <1>1, <1>9 DEF DeactivateUser
  <2>2. Existing' = Existing
    BY <1>9 DEF DeactivateUser, Existing
  <2> QED BY <1>2, <2>1, <2>2 DEF HoldersInv
<1> QED
  BY <1>3, <1>5, <1>6, <1>7, <1>8, <1>9 DEF PermissionsNext, permissionVars, OpenPage, BeginSave, BeginDelete

\* Roles permit what there is to permit, and every user has one role there is or none,
\* however deletions and assignments cross (deleteTenantRole, updateUserData).
THEOREM PermissionsTyped == PermissionsSpec => []PermissionsTypeOK
<1>1. PermissionsInit => CodesInv /\ HoldersInv
  <2> SUFFICES ASSUME PermissionsInit PROVE CodesInv /\ HoldersInv
    OBVIOUS
  <2>1. Existing = {AdminRole} /\ tenantRoles[AdminRole].direct = {Manage}
    BY Kinds DEF PermissionsInit, Existing, TenantRoles
  <2>2. CodesInv
    BY <2>1, CodesAssumption, Kinds DEF PermissionsInit, CodesInv, Saving
  <2>3. HoldersInv
    BY <2>1, RoleCallsAssumption DEF PermissionsInit, HoldersInv
  <2> QED BY <2>2, <2>3
<1>2. RoleInv => RoleTypeInv
  BY DEF RoleInv
<1>3. RoleTypeInv /\ CodesInv /\ HoldersInv => PermissionsTypeOK
  <2> SUFFICES ASSUME RoleTypeInv, CodesInv, HoldersInv PROVE PermissionsTypeOK
    OBVIOUS
  <2>1. \A r \in Existing : Stored(tenantRoles[r]) \subseteq Codes /\ wanted[r] \subseteq Codes
    <3>1. \A r \in Existing : r \in TenantRoles /\ tenantRoles[r] = TenantRole(tenantRoles[r].direct)
      BY Kinds DEF RoleTypeInv, Existing
    <3> QED BY <3>1, Kinds, CodesAssumption DEF CodesInv
  <2>2. ASSUME NEW u \in Staff PROVE Cardinality(staff[u].role) <= 1
    <3>1. \A q, r \in staff[u].role : q = r
      BY DEF HoldersInv
    <3> QED BY <3>1, AtMostOne
  <2> QED BY <2>1, <2>2 DEF HoldersInv, PermissionsTypeOK
<1>4. CodesInv /\ HoldersInv /\ RoleTypeInv /\ [PermissionsNext]_permissionVars => (CodesInv /\ HoldersInv)'
  BY CodesStep, HoldersStep
<1> QED BY <1>1, <1>2, <1>3, <1>4, RoleInvHolds, PTL DEF PermissionsSpec

--------------------------------------------------------------------------------
\* The rows of a preview, by place in the file: no two have the same login.
IsRow(r) ==
    /\ r.login \in Logins /\ r.number \in Nat /\ r.chief \in Nat
    /\ r.boss \subseteq Logins /\ \A b, c \in r.boss : b = c
IsRows(rows) ==
    /\ DOMAIN rows \subseteq Nat
    /\ \A i \in DOMAIN rows : IsRow(rows[i])
    /\ \A i, j \in DOMAIN rows : rows[i].login = rows[j].login => i = j

Steps == {"preview", "rows", "number", "byNumber", "byName", "done"}
Linking == {"byNumber", "byName"}
ImportFields == {"step", "by", "rows", "todo", "links", "seen"}
IsImport(x) ==
    /\ DOMAIN x = ImportFields
    /\ x.step \in Steps
    /\ IsRows(x.rows) /\ LoginsOf(x.rows) \intersect x.seen = {}
    /\ DOMAIN x.todo \subseteq DOMAIN x.rows
    /\ x.links \subseteq {i \in DOMAIN x.rows : x.rows[i].chief # 0}
    /\ x.step = "preview" => DOMAIN x.todo = DOMAIN x.rows
    /\ x.step = "number" => DOMAIN x.todo # {}
    /\ \A i \in DOMAIN x.todo :
         /\ x.step \in Linking => x.todo[i] # x.rows[i].login
         /\ x.step = "byNumber" => x.rows[i].chief # 0
         /\ x.step = "byName" => x.rows[i].boss = {x.todo[i]}

IsUser(u) ==
    u = [email |-> u.email, sealed |-> u.sealed, number |-> u.number, boss |-> u.boss, from |-> u.from]
IsForm(f, U) == \E p \in Logins : f.login = {p} /\ (~f.new => p \in U)

\* The users an import counts on are among U.
Placed(x, U) ==
    /\ x.seen \subseteq U
    /\ \A i \in x.links : x.rows[i].login \in U
    /\ x.step = "number" => x.rows[NextPlace(x.todo)].login \in U
    /\ x.step \in Linking => \A i \in DOMAIN x.todo : x.todo[i] \in U /\ x.rows[i].login \in U

NoRows == {NoImport, Over("expired"), Over("failed")}
ImportTypeInv ==
    /\ DOMAIN people = Logins /\ DOMAIN imports = Tokens /\ DOMAIN forms = Admins
    /\ \A p \in Logins : people[p] = Nobody \/ IsUser(people[p])
    /\ \A p \in Users : people[p].boss \subseteq Users
    /\ \A k \in Tokens : imports[k] \in NoRows \/ (IsImport(imports[k]) /\ Placed(imports[k], Users))
    /\ \A a \in Admins : forms[a] = NoForm \/ IsForm(forms[a], Users)

--------------------------------------------------------------------------------
\* What tells users from nobody and running imports from others.
LEMMA ImportKinds ==
  /\ ~IsUser(Nobody) /\ NoImport.step = "none"
  /\ \A h : Over(h).step = h
  /\ \A x \in NoRows : x.step \notin Steps
  /\ \A x : IsImport(x) => x.step \in Steps
<1>1. ~IsUser(Nobody)
  <2>1. "sealed" \notin DOMAIN Nobody
    BY DEF Nobody
  <2> QED BY <2>1 DEF IsUser
<1>2. NoImport.step = "none" /\ \A h : Over(h).step = h
  BY DEF NoImport, Over
<1> QED BY <1>1, <1>2 DEF Steps, IsImport, NoRows

\* The place that comes next is one of those left.
LEMMA NextIsLeft ==
  ASSUME NEW todo, DOMAIN todo \subseteq Nat, DOMAIN todo # {}
  PROVE  /\ NextPlace(todo) \in DOMAIN todo
         /\ DOMAIN Rest(todo) = DOMAIN todo \ {NextPlace(todo)}
         /\ \A i \in DOMAIN Rest(todo) : Rest(todo)[i] = todo[i]
<1>1. \E m \in DOMAIN todo : \A k \in DOMAIN todo : m <= k
  BY LeastOf
<1>2. NextPlace(todo) \in DOMAIN todo
  BY <1>1 DEF NextPlace
<1> QED BY <1>2 DEF Rest

\* What an import with rows left has.
LEMMA HasRow ==
  ASSUME ImportTypeInv, NEW k \in Tokens, imports[k].step \in Steps
  PROVE  /\ IsImport(imports[k]) /\ Placed(imports[k], Users)
         /\ LET x == imports[k]
                i == NextPlace(x.todo)
            IN  DOMAIN x.todo # {} =>
                  /\ i \in DOMAIN x.todo /\ i \in DOMAIN x.rows /\ IsRow(x.rows[i])
                  /\ x.rows[i].login \in Logins
                  /\ x.step \in Linking \union {"number"} => x.rows[i].login \in Users
                  /\ DOMAIN Rest(x.todo) = DOMAIN x.todo \ {i}
                  /\ \A j \in DOMAIN Rest(x.todo) : Rest(x.todo)[j] = x.todo[j]
<1>1. IsImport(imports[k]) /\ Placed(imports[k], Users)
  BY ImportKinds DEF ImportTypeInv
<1> DEFINE x == imports[k]
           i == NextPlace(x.todo)
<1>2. DOMAIN x.todo \subseteq DOMAIN x.rows /\ DOMAIN x.rows \subseteq Nat
  BY <1>1 DEF IsImport, IsRows
<1>3. ASSUME DOMAIN x.todo # {}
      PROVE  /\ i \in DOMAIN x.todo /\ DOMAIN Rest(x.todo) = DOMAIN x.todo \ {i}
             /\ \A j \in DOMAIN Rest(x.todo) : Rest(x.todo)[j] = x.todo[j]
  <2>1. DOMAIN x.todo \subseteq Nat
    BY <1>2
  <2> HIDE DEF x
  <2> QED BY <1>3, <2>1, NextIsLeft
<1>4. ASSUME DOMAIN x.todo # {}
      PROVE  /\ i \in DOMAIN x.rows /\ IsRow(x.rows[i]) /\ x.rows[i].login \in Logins
             /\ x.step \in Linking \union {"number"} => x.rows[i].login \in Users
  BY <1>1, <1>2, <1>3, <1>4 DEF IsImport, IsRows, IsRow, Placed
<1> QED BY <1>1, <1>3, <1>4

\* A row is skipped, or its user is created; one with a number is not done with yet.
SkipsRow(k) ==
    LET r == imports[k].rows[NextPlace(imports[k].todo)]
    IN  /\ r.login \in Users \/ r.email \in StoredTexts
        /\ imports' = [imports EXCEPT ![k] = [imports[k] EXCEPT !.todo = Rest(@)]]
        /\ oddities' = oddities \union IF r.login \in imports[k].seen THEN {} ELSE {"taken"}
        /\ UNCHANGED people
MakesRow(k) ==
    LET r == imports[k].rows[NextPlace(imports[k].todo)]
    IN  /\ r.login \notin Users
        /\ people' = [people EXCEPT ![r.login] =
               [email |-> {r.email}, sealed |-> FALSE, number |-> 0, boss |-> {}, from |-> {k}]]
        /\ \/ r.number = 0 /\ imports' = [imports EXCEPT ![k] = [imports[k] EXCEPT !.todo = Rest(@)]]
           \/ r.number # 0 /\ imports' = [imports EXCEPT ![k] = [imports[k] EXCEPT !.step = "number"]]
        /\ UNCHANGED oddities

\* CreateRow does one or the other.
LEMMA RowCases == \A k \in Tokens : CreateRow(k) => SkipsRow(k) \/ MakesRow(k)
  BY DEF CreateRow, SkipsRow, MakesRow

\* Only rows whose user and superior are there, and are two, are linked by name.
LEMMA NamedLinks ==
  ASSUME NEW rows, IsRows(rows)
  PROVE  LET T == LinksByName(rows)
         IN  /\ DOMAIN T = {i \in DOMAIN rows : /\ rows[i].login \in Users /\ rows[i].boss # {}
                                                /\ rows[i].boss \subseteq Users \ {rows[i].login}}
             /\ \A i \in DOMAIN T : rows[i].boss = {T[i]}
             /\ \A i \in DOMAIN T : /\ T[i] \in Users /\ rows[i].login \in Users
                                    /\ T[i] # rows[i].login /\ rows[i].boss = {T[i]}
<1> DEFINE D == {i \in DOMAIN rows : /\ rows[i].login \in Users /\ rows[i].boss # {}
                                    /\ rows[i].boss \subseteq Users \ {rows[i].login}}
           T == LinksByName(rows)
<1>1. T = [i \in D |-> CHOOSE b \in rows[i].boss : TRUE]
  BY DEF LinksByName, LinkedAmong
<1>2. DOMAIN T = D /\ \A i \in D : T[i] = CHOOSE b \in rows[i].boss : TRUE
  BY <1>1
<1> HIDE DEF T
<1>3. ASSUME NEW i \in D PROVE rows[i].boss = {T[i]}
  <2>1. T[i] \in rows[i].boss
    BY <1>2
  <2>2. \A b, c \in rows[i].boss : b = c
    BY DEF IsRows, IsRow
  <2> QED BY <2>1, <2>2
<1> QED BY <1>2, <1>3 DEF T

\* The rows of a preview have logins of their own, which nobody has.
LEMMA FileRows ==
  ASSUME NEW f \in Files
  PROVE  IsRows(ApplyableRows(f)) /\ LoginsOf(ApplyableRows(f)) \intersect Users = {}
<1> DEFINE n == Len(f)
           D == {i \in ValidRows(f) : ~Conflicts(f[i])}
<1>1. f \in Seq({f[i] : i \in DOMAIN f})
  BY FilesAssumption
<1>2. DOMAIN f = 1..n /\ n \in Nat
  BY <1>1
<1>3. /\ D \subseteq Nat /\ D \subseteq DOMAIN f
      /\ \A i, j \in D : i < j => f[i].login # f[j].login
  <2> HIDE DEF n
  <2> QED BY <1>2 DEF ValidRows
<1>4. \A i \in D : IsRow(f[i]) /\ f[i].login \notin Users
  BY <1>3, FilesAssumption DEF IsRow, Conflicts
<1>5. ApplyableRows(f) = [i \in D |-> f[i]]
  BY DEF ApplyableRows
<1> HIDE DEF D
<1>6. ASSUME NEW i \in D, NEW j \in D, f[i].login = f[j].login PROVE i = j
  <2>1. i \in Nat /\ j \in Nat
    BY <1>3
  <2>2. ~(i < j) /\ ~(j < i)
    BY <1>3, <1>6
  <2> QED BY <2>1, <2>2
<1> DEFINE rows == ApplyableRows(f)
<1>7. DOMAIN rows = D /\ \A i \in D : rows[i] = f[i]
  BY <1>5
<1> HIDE DEF rows
<1>8. IsRows(rows)
  BY <1>3, <1>4, <1>6, <1>7 DEF IsRows
<1>9. LoginsOf(rows) \intersect Users = {}
  BY <1>4, <1>7 DEF LoginsOf
<1> QED BY <1>8, <1>9 DEF rows

--------------------------------------------------------------------------------
\* Users are only ever added, without a superior; the number and the superior of one
\* are changed by the import that has a row for it.
LEMMA UsersStay ==
  ASSUME ImportTypeInv, [ImportNext]_importVars
  PROVE  /\ DOMAIN people' = Logins
         /\ \A p \in Logins : people'[p] = Nobody \/ IsUser(people'[p])
         /\ \A p \in Users : p \in Users' /\ people'[p].from = people[p].from
         /\ \A p \in Users' \ Users : people'[p].boss = {}
<1> DEFINE Goal == /\ DOMAIN people' = Logins
                   /\ \A p \in Logins : people'[p] = Nobody \/ IsUser(people'[p])
                   /\ \A p \in Users : p \in Users' /\ people'[p].from = people[p].from
                   /\ \A p \in Users' \ Users : people'[p].boss = {}
<1>1. CASE UNCHANGED people
  BY <1>1 DEF ImportTypeInv, Users
<1>2. ASSUME NEW p \in Logins, p \notin Users, NEW e, NEW s, NEW fr,
             people' = [people EXCEPT ![p] = [email |-> e, sealed |-> s, number |-> 0, boss |-> {}, from |-> fr]]
      PROVE  Goal
  <2>1. IsUser(people'[p]) /\ people'[p].boss = {}
    BY <1>2 DEF ImportTypeInv, IsUser
  <2> QED BY <1>2, <2>1, ImportKinds DEF ImportTypeInv, Users
<1>3. ASSUME NEW p \in Users, DOMAIN people' = Logins, \A q \in Logins \ {p} : people'[q] = people[q],
             IsUser(people'[p]), people'[p].from = people[p].from
      PROVE  Goal
  BY <1>3, ImportKinds DEF ImportTypeInv, Users
<1>4. ASSUME NEW k \in Tokens, CreateRow(k) PROVE Goal
  <2> DEFINE r == imports[k].rows[NextPlace(imports[k].todo)]
  <2>1. r.login \in Logins
    BY <1>4, HasRow DEF CreateRow, Steps
  <2>2. CASE UNCHANGED people
    BY <1>1, <2>2
  <2>3. CASE r.login \notin Users /\ people' = [people EXCEPT ![r.login] =
               [email |-> {r.email}, sealed |-> FALSE, number |-> 0, boss |-> {}, from |-> {k}]]
    BY <1>2, <2>1, <2>3
  <2> QED BY <1>4, <2>2, <2>3 DEF CreateRow
<1>5. ASSUME NEW k \in Tokens, NumberRow(k) PROVE Goal
  <2> DEFINE p == imports[k].rows[NextPlace(imports[k].todo)].login
             u == [people[p] EXCEPT !.number = imports[k].rows[NextPlace(imports[k].todo)].number]
  <2>1. p \in Users
    <3>1. imports[k].step \in Steps
      BY <1>5 DEF NumberRow, Steps
    <3>2. DOMAIN imports[k].todo # {}
      BY <1>5, <3>1, HasRow DEF NumberRow, IsImport
    <3> QED BY <1>5, <3>1, <3>2, HasRow DEF NumberRow
  <2>2. people' = [people EXCEPT ![p] = u]
    BY <1>5 DEF NumberRow
  <2>3. IsUser(u) /\ u.from = people[p].from
    BY <2>1 DEF IsUser, ImportTypeInv, Users
  <2> HIDE DEF p, u
  <2> QED BY <1>3, <2>1, <2>2, <2>3 DEF ImportTypeInv, Users
<1>6. ASSUME NEW k \in Tokens, WriteLink(k) PROVE Goal
  <2> DEFINE i == NextPlace(imports[k].todo)
             p == imports[k].rows[i].login
             u == [people[p] EXCEPT !.boss = {imports[k].todo[i]}]
  <2>1. p \in Users
    BY <1>6, HasRow DEF WriteLink, Linking, Steps
  <2>2. people' = [people EXCEPT ![p] = u]
    BY <1>6 DEF WriteLink
  <2>3. IsUser(u) /\ u.from = people[p].from
    BY <2>1 DEF IsUser, ImportTypeInv, Users
  <2> HIDE DEF p, u
  <2> QED BY <1>3, <2>1, <2>2, <2>3 DEF ImportTypeInv, Users
<1>7. ASSUME NEW a \in Admins, WriteForm(a) PROVE Goal
  <2>1. PICK p \in Logins : forms[a].login = {p} /\ (~forms[a].new => p \in Users)
    BY <1>7 DEF WriteForm, ImportTypeInv, IsForm
  <2>2. (CHOOSE q \in forms[a].login : TRUE) = p
    BY <2>1
  <2>3. CASE ~forms[a].new
    <3>1. people' = [people EXCEPT ![p].email = {forms[a].email}, ![p].sealed = TRUE]
      BY <1>7, <2>2, <2>3 DEF WriteForm
    <3>2. p \in Users
      BY <2>1, <2>3
    <3>3. IsUser(people[p])
      BY <3>2 DEF ImportTypeInv, Users
    <3>4. IsUser(people'[p]) /\ people'[p].from = people[p].from
      BY <2>1, <3>1, <3>3 DEF IsUser, ImportTypeInv
    <3>5. DOMAIN people' = Logins /\ \A q \in Logins \ {p} : people'[q] = people[q]
      BY <3>1 DEF ImportTypeInv
    <3> QED BY <1>3, <3>2, <3>4, <3>5
  <2>4. CASE forms[a].new /\ p \in Users
    <3>1. UNCHANGED people
      BY <1>7, <2>2, <2>4 DEF WriteForm
    <3> QED BY <1>1, <3>1
  <2>5. CASE forms[a].new /\ p \notin Users
    <3>1. people' = [people EXCEPT ![p] = [email |-> {forms[a].email}, sealed |-> TRUE,
                                           number |-> 0, boss |-> {}, from |-> {}]]
      BY <1>7, <2>2, <2>5 DEF WriteForm
    <3> QED BY <1>2, <2>1, <2>5, <3>1
  <2> QED BY <2>3, <2>4, <2>5
<1> QED
  BY <1>1, <1>4, <1>5, <1>6, <1>7 DEF ImportNext, importVars, PreviewImport, BeginApply, ExpirePreview,
     FindChiefs, FindBosses, FinishImport, FailImport, CheckForm

\* A link gives one user a superior and changes nothing else of users.
LEMMA LinkWrites ==
  ASSUME ImportTypeInv, NEW k \in Tokens, WriteLink(k)
  PROVE  LET i == NextPlace(imports[k].todo)
             p == imports[k].rows[i].login
         IN  /\ p \in Users /\ people'[p].boss = {imports[k].todo[i]}
             /\ people'[p].number = people[p].number
             /\ \A q \in Users \ {p} : people'[q] = people[q]
<1> DEFINE i == NextPlace(imports[k].todo)
           p == imports[k].rows[i].login
<1>1. p \in Users
  BY HasRow DEF WriteLink, Linking, Steps
<1>2. people' = [people EXCEPT ![p].boss = {imports[k].todo[i]}]
  BY DEF WriteLink
<1>3. IsUser(people[p]) /\ p \in Logins /\ Users \subseteq Logins
  BY <1>1 DEF ImportTypeInv, Users
<1> HIDE DEF p
<1>4. people'[p].boss = {imports[k].todo[i]} /\ people'[p].number = people[p].number
  BY <1>2, <1>3 DEF IsUser, ImportTypeInv
<1>5. \A q \in Users \ {p} : people'[q] = people[q]
  BY <1>2, <1>3 DEF ImportTypeInv
<1> QED BY <1>1, <1>4, <1>5 DEF p

\* A number is given to one user and changes nothing else of users.
LEMMA NumberWrites ==
  ASSUME ImportTypeInv, NEW k \in Tokens, NumberRow(k)
  PROVE  LET r == imports[k].rows[NextPlace(imports[k].todo)]
         IN  /\ r.login \in Users /\ people'[r.login].number = r.number
             /\ people'[r.login].boss = people[r.login].boss
             /\ \A q \in Users \ {r.login} : people'[q] = people[q]
<1> DEFINE r == imports[k].rows[NextPlace(imports[k].todo)]
           p == r.login
<1>1. p \in Users
  <2>1. imports[k].step \in Steps
    BY DEF NumberRow, Steps
  <2>2. DOMAIN imports[k].todo # {}
    BY <2>1, HasRow DEF NumberRow, IsImport
  <2> QED BY <2>1, <2>2, HasRow DEF NumberRow
<1>2. people' = [people EXCEPT ![p].number = r.number]
  BY DEF NumberRow
<1>3. IsUser(people[p]) /\ p \in Logins /\ Users \subseteq Logins
  BY <1>1 DEF ImportTypeInv, Users
<1> HIDE DEF p
<1>4. people'[p].number = r.number /\ people'[p].boss = people[p].boss
  BY <1>2, <1>3 DEF IsUser, ImportTypeInv
<1>5. \A q \in Users \ {p} : people'[q] = people[q]
  BY <1>2, <1>3 DEF ImportTypeInv
<1> QED BY <1>1, <1>4, <1>5 DEF p

\* No other step changes a number or a superior.
LEMMA RestStays ==
  ASSUME ImportTypeInv, [ImportNext]_importVars
  PROVE  /\ \A p \in Users : people'[p].boss = people[p].boss \/ \E k \in Tokens : WriteLink(k)
         /\ \A p \in Users : people'[p].number = people[p].number \/ \E k \in Tokens : NumberRow(k)
<1> DEFINE Same == \A p \in Users : people'[p].boss = people[p].boss /\ people'[p].number = people[p].number
<1>1. CASE UNCHANGED people
  BY <1>1
<1>2. ASSUME NEW k \in Tokens, CreateRow(k) PROVE Same
  <2>1. CASE MakesRow(k)
    BY <2>1 DEF MakesRow, ImportTypeInv, Users
  <2> QED BY <1>1, <1>2, <2>1, RowCases DEF SkipsRow
<1>3. ASSUME NEW a \in Admins, WriteForm(a) PROVE Same
  <2>1. PICK p \in Logins : forms[a].login = {p} /\ (~forms[a].new => p \in Users)
    BY <1>3 DEF WriteForm, ImportTypeInv, IsForm
  <2>2. (CHOOSE q \in forms[a].login : TRUE) = p
    BY <2>1
  <2>3. CASE ~forms[a].new
    <3>1. people' = [people EXCEPT ![p].email = {forms[a].email}, ![p].sealed = TRUE]
      BY <1>3, <2>2, <2>3 DEF WriteForm
    <3>2. p \in Users /\ IsUser(people[p])
      BY <2>1, <2>3 DEF ImportTypeInv, Users
    <3>3. people'[p].boss = people[p].boss /\ people'[p].number = people[p].number
      BY <2>1, <3>1, <3>2 DEF IsUser, ImportTypeInv
    <3>4. \A q \in Users \ {p} : people'[q] = people[q]
      BY <3>1 DEF ImportTypeInv, Users
    <3> QED BY <3>3, <3>4
  <2>4. CASE forms[a].new
    BY <1>3, <2>2, <2>4 DEF WriteForm, ImportTypeInv, Users
  <2> QED BY <2>3, <2>4
<1>4. ASSUME NEW k \in Tokens, NumberRow(k) PROVE \A p \in Users : people'[p].boss = people[p].boss
  BY <1>4, NumberWrites
<1>5. ASSUME NEW k \in Tokens, WriteLink(k) PROVE \A p \in Users : people'[p].number = people[p].number
  BY <1>5, LinkWrites
<1> QED
  BY <1>1, <1>2, <1>3, <1>4, <1>5 DEF ImportNext, importVars, PreviewImport, BeginApply, ExpirePreview,
     FindChiefs, FindBosses, FinishImport, FailImport, CheckForm

\* Every step leaves imports, users and forms of the right shape.
LEMMA ImportTypeStep == ImportTypeInv /\ [ImportNext]_importVars => ImportTypeInv'
<1> SUFFICES ASSUME ImportTypeInv, [ImportNext]_importVars PROVE ImportTypeInv'
  OBVIOUS
<1>1. /\ DOMAIN people' = Logins
      /\ \A p \in Logins : people'[p] = Nobody \/ IsUser(people'[p])
      /\ \A p \in Users : p \in Users' /\ people'[p].from = people[p].from
      /\ \A p \in Users' \ Users : people'[p].boss = {}
  BY UsersStay
<1>2. /\ \A x : Placed(x, Users) => Placed(x, Users')
      /\ \A f : IsForm(f, Users) => IsForm(f, Users')
  BY <1>1 DEF Placed, IsForm
<1>3. \A p \in Users' : people'[p].boss \subseteq Users'
  <2>1. ASSUME NEW p \in Users PROVE people'[p].boss \subseteq Users
    <3>1. CASE people'[p].boss = people[p].boss
      BY <3>1 DEF ImportTypeInv
    <3>2. ASSUME NEW k \in Tokens, WriteLink(k), people'[p].boss # people[p].boss PROVE people'[p].boss \subseteq Users
      <4>1. people'[p].boss = {imports[k].todo[NextPlace(imports[k].todo)]}
        BY <3>2, LinkWrites
      <4>2. imports[k].step \in Linking /\ imports[k].step \in Steps /\ DOMAIN imports[k].todo # {}
        BY <3>2 DEF WriteLink, Linking, Steps
      <4> QED BY <4>1, <4>2, HasRow DEF Placed
    <3> QED BY <3>1, <3>2, RestStays
  <2> QED BY <1>1, <2>1
<1>4. ASSUME NEW k \in Tokens, NEW x, imports' = [imports EXCEPT ![k] = x],
             x \in NoRows \/ (IsImport(x) /\ Placed(x, Users')), UNCHANGED forms
      PROVE  ImportTypeInv'
  BY <1>1, <1>2, <1>3, <1>4 DEF ImportTypeInv
<1>5. ASSUME NEW k \in Tokens, NEW a \in Actors, PreviewImport(k, a) PROVE ImportTypeInv'
  <2>1. PICK f \in Files : imports' = [imports EXCEPT ![k] =
             [step |-> "preview", by |-> a, rows |-> ApplyableRows(f),
              todo |-> ApplyableRows(f), links |-> {}, seen |-> Users]]
    BY <1>5 DEF PreviewImport
  <2> DEFINE rows == ApplyableRows(f)
             x == [step |-> "preview", by |-> a, rows |-> rows, todo |-> rows, links |-> {}, seen |-> Users]
  <2>2. IsRows(rows) /\ LoginsOf(rows) \intersect Users = {}
    BY FileRows
  <2> HIDE DEF rows
  <2>3. IsImport(x)
    BY <2>2 DEF IsImport, ImportFields, Steps, Linking
  <2>4. Placed(x, Users)
    BY DEF Placed, Linking
  <2> HIDE DEF x
  <2>6. imports' = [imports EXCEPT ![k] = x]
    BY <2>1 DEF x, rows
  <2> QED BY <1>2, <1>4, <1>5, <2>3, <2>4, <2>6 DEF PreviewImport
<1>6. ASSUME NEW k \in Tokens, NEW y \in Steps, y \notin Linking \union {"number", "preview"}, imports[k].step \in Steps,
             imports' = [imports EXCEPT ![k].step = y], UNCHANGED forms
      PROVE  ImportTypeInv'
  <2> DEFINE x == [imports[k] EXCEPT !.step = y]
  <2>1. IsImport(imports[k]) /\ Placed(imports[k], Users)
    BY <1>6, HasRow
  <2>2. IsImport(x) /\ Placed(x, Users)
    BY <1>6, <2>1 DEF IsImport, ImportFields, Placed, Linking
  <2>3. imports' = [imports EXCEPT ![k] = x]
    BY <1>6
  <2> HIDE DEF x
  <2> QED BY <1>2, <1>4, <1>6, <2>2, <2>3
<1>7. ASSUME NEW k \in Tokens, NEW a \in Actors, BeginApply(k, a) PROVE ImportTypeInv'
  BY <1>6, <1>7 DEF BeginApply, Steps, Linking
<1>8. ASSUME NEW k \in Tokens, ExpirePreview(k) \/ FailImport(k) PROVE ImportTypeInv'
  BY <1>4, <1>8 DEF ExpirePreview, FailImport, NoRows
<1>9. ASSUME NEW k \in Tokens, FinishImport(k) PROVE ImportTypeInv'
  BY <1>6, <1>9 DEF FinishImport, Steps, Linking
<1>11. ASSUME NEW k \in Tokens, CreateRow(k) PROVE ImportTypeInv'
  <2> DEFINE c == imports[k]
             i == NextPlace(c.todo)
             left == [c EXCEPT !.todo = Rest(@)]
             x == [c EXCEPT !.step = "number"]
  <2>1. /\ IsImport(c) /\ Placed(c, Users)
        /\ i \in DOMAIN c.todo /\ DOMAIN Rest(c.todo) = DOMAIN c.todo \ {i}
        /\ \A j \in DOMAIN Rest(c.todo) : Rest(c.todo)[j] = c.todo[j]
        /\ c.rows[i].login \in Logins
    BY <1>11, HasRow DEF CreateRow, Steps
  <2>2. c.step = "rows"
    BY <1>11 DEF CreateRow
  <2>3. CASE SkipsRow(k)
    <3>1. IsImport(left) /\ Placed(left, Users)
      BY <2>1, <2>2 DEF IsImport, ImportFields, Placed, Linking
    <3>2. imports' = [imports EXCEPT ![k] = left]
      BY <2>3 DEF SkipsRow
    <3> HIDE DEF left
    <3> QED BY <1>2, <1>4, <1>11, <3>1, <3>2 DEF CreateRow
  <2>4. CASE MakesRow(k)
    <3>1. c.rows[i].login \in Users'
      BY <2>1, <2>4, ImportKinds DEF MakesRow, Users, ImportTypeInv, Nobody
    <3>2. IsImport(left) /\ Placed(left, Users')
      BY <1>1, <2>1, <2>2 DEF IsImport, ImportFields, Placed, Linking
    <3>3. IsImport(x) /\ Placed(x, Users')
      BY <1>1, <2>1, <2>2, <3>1 DEF IsImport, ImportFields, Placed, Linking, Steps
    <3>4. imports' = [imports EXCEPT ![k] = left] \/ imports' = [imports EXCEPT ![k] = x]
      BY <2>4 DEF MakesRow
    <3> HIDE DEF left, x
    <3> QED BY <1>4, <1>11, <3>2, <3>3, <3>4 DEF CreateRow
  <2> QED BY <1>11, <2>3, <2>4, RowCases
<1>12. ASSUME NEW k \in Tokens, NumberRow(k) PROVE ImportTypeInv'
  <2> DEFINE c == imports[k]
             i == NextPlace(c.todo)
             L == IF c.rows[i].chief = 0 THEN c.links ELSE c.links \union {i}
             x == [c EXCEPT !.step = "rows", !.todo = Rest(@), !.links = IF c.rows[i].chief = 0 THEN @ ELSE @ \union {i}]
  <2>1. IsImport(c) /\ Placed(c, Users) /\ c.step = "number"
    BY <1>12, HasRow DEF NumberRow, Steps
  <2>2. /\ i \in DOMAIN c.todo /\ DOMAIN Rest(c.todo) = DOMAIN c.todo \ {i}
        /\ \A j \in DOMAIN Rest(c.todo) : Rest(c.todo)[j] = c.todo[j]
        /\ c.rows[i].login \in Users
    BY <2>1, HasRow DEF IsImport, Linking, Steps
  <2>3. imports' = [imports EXCEPT ![k] = x]
    BY <1>12 DEF NumberRow, ImportTypeInv
  <2>4. L \subseteq {j \in DOMAIN c.rows : c.rows[j].chief # 0} /\ \A j \in L : c.rows[j].login \in Users
    BY <2>1, <2>2 DEF IsImport, Placed
  <2>6. /\ x.step = "rows" /\ x.todo = Rest(c.todo) /\ x.rows = c.rows /\ x.links = L
        /\ x.seen = c.seen /\ DOMAIN x = ImportFields
    BY <2>1 DEF IsImport, ImportFields
  <2> HIDE DEF L, x
  <2>5. IsImport(x) /\ Placed(x, Users)
    BY <2>1, <2>2, <2>4, <2>6 DEF IsImport, ImportFields, Placed, Linking, Steps
  <2> QED BY <1>2, <1>4, <1>12, <2>3, <2>5 DEF NumberRow
<1>13. ASSUME NEW k \in Tokens, FindChiefs(k) PROVE ImportTypeInv'
  <2> DEFINE c == imports[k]
  <2>1. PICK g \in ChiefsOf(k) :
          imports' = [imports EXCEPT ![k].step = "byNumber", ![k].todo = LinksByNumber(k, g)]
    BY <1>13 DEF FindChiefs
  <2> DEFINE T == LinksByNumber(k, g)
             x == [c EXCEPT !.step = "byNumber", !.todo = T]
  <2>2. IsImport(c) /\ Placed(c, Users)
    BY <1>13, HasRow DEF FindChiefs, Steps
  <2>3. /\ DOMAIN T \subseteq c.links
        /\ \A i \in DOMAIN T : T[i] \in Users /\ T[i] # c.rows[i].login
    BY DEF LinksByNumber, ChiefsOf
  <2> HIDE DEF T
  <2>4. imports' = [imports EXCEPT ![k] = x]
    <3>1. imports' = [imports EXCEPT ![k].step = "byNumber", ![k].todo = T]
      BY <2>1 DEF T
    <3> QED BY <3>1 DEF ImportTypeInv
  <2>5. IsImport(x) /\ Placed(x, Users)
    BY <2>2, <2>3 DEF IsImport, ImportFields, Placed, Linking, Steps
  <2> HIDE DEF x
  <2> QED BY <1>2, <1>4, <1>13, <2>4, <2>5 DEF FindChiefs
<1>14. ASSUME NEW k \in Tokens, FindBosses(k) PROVE ImportTypeInv'
  <2> DEFINE c == imports[k]
             T == LinksByName(c.rows)
             x == [c EXCEPT !.step = "byName", !.todo = T]
  <2>1. IsImport(c) /\ Placed(c, Users)
    BY <1>14, HasRow DEF FindBosses, Steps
  <2>2. /\ DOMAIN T \subseteq DOMAIN c.rows
        /\ \A i \in DOMAIN T : /\ T[i] \in Users /\ c.rows[i].login \in Users
                               /\ T[i] # c.rows[i].login /\ c.rows[i].boss = {T[i]}
    BY <2>1, NamedLinks DEF IsImport
  <2>3. imports' = [imports EXCEPT ![k].step = "byName", ![k].todo = T]
    BY <1>14 DEF FindBosses
  <2> HIDE DEF T
  <2>4. imports' = [imports EXCEPT ![k] = x]
    BY <2>3 DEF ImportTypeInv
  <2>5. IsImport(x) /\ Placed(x, Users)
    BY <2>1, <2>2 DEF IsImport, ImportFields, Placed, Linking, Steps
  <2> HIDE DEF x
  <2> QED BY <1>2, <1>4, <1>14, <2>4, <2>5 DEF FindBosses
<1>15. ASSUME NEW k \in Tokens, WriteLink(k) PROVE ImportTypeInv'
  <2> DEFINE c == imports[k]
             x == [c EXCEPT !.todo = Rest(c.todo)]
  <2>1. IsImport(c) /\ Placed(c, Users) /\ c.step \in Linking
    BY <1>15, HasRow DEF WriteLink, Linking, Steps
  <2>2. /\ DOMAIN Rest(c.todo) \subseteq DOMAIN c.todo
        /\ \A j \in DOMAIN Rest(c.todo) : Rest(c.todo)[j] = c.todo[j]
    BY DEF Rest
  <2>3. imports' = [imports EXCEPT ![k] = x]
    BY <1>15 DEF WriteLink
  <2>4. IsImport(x) /\ Placed(x, Users)
    BY <2>1, <2>2 DEF IsImport, ImportFields, Placed, Linking
  <2> HIDE DEF x
  <2> QED BY <1>2, <1>4, <1>15, <2>3, <2>4 DEF WriteLink
<1>16. ASSUME NEW a \in Admins, CheckForm(a) \/ WriteForm(a) PROVE ImportTypeInv'
  <2>1. /\ UNCHANGED imports /\ DOMAIN forms' = Admins
        /\ \A b \in Admins : forms'[b] = forms[b] \/ forms'[b] = NoForm \/ IsForm(forms'[b], Users)
    <3>1. CASE CheckForm(a)
      <4>1. PICK p \in Logins, e \in Emails : forms' = [forms EXCEPT ![a] = [login |-> {p}, email |-> e, new |-> p \notin Users]]
        BY <3>1 DEF CheckForm
      <4>2. IsForm([login |-> {p}, email |-> e, new |-> p \notin Users], Users)
        BY Zenon DEF IsForm
      <4>3. forms'[a] = [login |-> {p}, email |-> e, new |-> p \notin Users]
        BY <4>1 DEF ImportTypeInv
      <4>4. IsForm(forms'[a], Users)
        BY <4>2, <4>3, Zenon
      <4> QED BY <3>1, <4>1, <4>4 DEF CheckForm, ImportTypeInv
    <3>2. CASE WriteForm(a)
      BY <3>2 DEF WriteForm, ImportTypeInv
    <3> QED BY <1>16, <3>1, <3>2
  <2> QED BY <1>1, <1>2, <1>3, <2>1 DEF ImportTypeInv
<1>17. CASE UNCHANGED importVars
  BY <1>1, <1>2, <1>3, <1>17 DEF ImportTypeInv, importVars
<1> QED
  BY <1>5, <1>7, <1>8, <1>9, <1>11, <1>12, <1>13, <1>14, <1>15, <1>16, <1>17 DEF ImportNext

--------------------------------------------------------------------------------
Begun == Steps \ {"preview"}
\* The places of the rows that are done with.
Processed(x) == DOMAIN x.rows \ (IF x.step \in {"rows", "number"} THEN DOMAIN x.todo ELSE {})

\* The rows done with, by an import that nobody crosses, are users it created, with the
\* number of the row.
OwnInv ==
    "taken" \notin oddities => \A k \in Tokens : imports[k].step \in Begun =>
        LET x == imports[k]
        IN  /\ \A i \in Processed(x) : LET p == x.rows[i].login
                                      IN  /\ p \in Users /\ people[p].from = {k}
                                          /\ people[p].number = x.rows[i].number
            /\ x.step = "number" => people[x.rows[NextPlace(x.todo)].login].from = {k}

\* Only an import that has begun has created users, and it has rows for them.
FromInv ==
    \A k \in Tokens : \A p \in Users : people[p].from = {k} =>
        \/ imports[k] = Over("failed")
        \/ imports[k].step \in Begun /\ p \in LoginsOf(imports[k].rows)

\* A row that names a superior who is there is linked by name in the end.
NamedInv ==
    "taken" \notin oddities => \A k \in Tokens : imports[k].step \in {"byName", "done"} =>
        LET x == imports[k]
        IN  \A i \in DOMAIN x.rows :
              LET r == x.rows[i]
              IN  r.boss # {} /\ r.boss \subseteq (x.seen \union LoginsOf(x.rows)) \ {r.login} =>
                    \/ people[r.login].boss = r.boss
                    \/ x.step = "byName" /\ i \in DOMAIN x.todo

AloneInv == "overlap" \notin oddities => \A k, l \in Applying : k = l
FilesInv == "cyclicFile" \notin oddities => \A k \in Applying : ~GoesRound(imports[k].rows)

\* The rows have the user b, by name or number, as superior of the user q.
Follows(rows, q, b) ==
    \E i, j \in DOMAIN rows :
        /\ rows[i].login = q /\ rows[j].login = b /\ b # q
        /\ b \in rows[i].boss \/ (rows[i].chief # 0 /\ rows[i].chief = rows[j].number)

\* While an import runs, superiors that it created are those of users that it created,
\* as its rows say.
ChainInv ==
    oddities \intersect {"overlap", "taken", "cyclicFile"} = {} => \A k \in Applying :
        LET x == imports[k]
        IN  /\ \A q \in Users : \A b \in people[q].boss :
                  people[b].from = {k} => people[q].from = {k} /\ Follows(x.rows, q, b)
            /\ x.step = "byNumber" =>
                  \A i \in DOMAIN x.todo : people[x.todo[i]].number = x.rows[i].chief

ActsOn(k) ==
    \/ \E a \in Actors : PreviewImport(k, a) \/ BeginApply(k, a)
    \/ ExpirePreview(k) \/ CreateRow(k) \/ NumberRow(k) \/ FindChiefs(k)
    \/ FindBosses(k) \/ WriteLink(k) \/ FinishImport(k) \/ FailImport(k)

\* An import changes only by a step of its own.
LEMMA OnlyOne ==
  ASSUME ImportTypeInv, [ImportNext]_importVars
  PROVE  \A k \in Tokens : imports'[k] = imports[k] \/ ActsOn(k)
<1> SUFFICES ASSUME NEW k \in Tokens, ~ActsOn(k) PROVE imports'[k] = imports[k]
  OBVIOUS
<1>1. ASSUME NEW l \in Tokens, ActsOn(l) PROVE imports'[k] = imports[k]
  <2>1. k # l
    BY <1>1
  <2> QED
    BY <1>1, <2>1, RowCases DEF ActsOn, ImportTypeInv, PreviewImport, BeginApply, ExpirePreview, SkipsRow, MakesRow,
       NumberRow, FindChiefs, FindBosses, WriteLink, FinishImport, FailImport
<1>2. CASE UNCHANGED imports
  BY <1>2
<1> QED BY <1>1, <1>2 DEF ImportNext, importVars, ActsOn, CheckForm, WriteForm

\* What the rows of an import are, and who was there at its preview, never changes.
LEMMA RowsStay ==
  ASSUME ImportTypeInv, [ImportNext]_importVars, NEW k \in Tokens
  PROVE  /\ imports[k].step \in Begun => imports'[k] = Over("failed") \/ imports'[k].step \in Begun
         /\ imports'[k].step \in Begun => /\ imports[k].step \in Steps
                                         /\ imports'[k].rows = imports[k].rows
                                         /\ imports'[k].seen = imports[k].seen
                                         /\ imports'[k].by = imports[k].by
         /\ imports'[k].step = "preview" => imports'[k] = imports[k] \/ \E a \in Actors : PreviewImport(k, a)
<1> USE DEF Begun, Steps
<1>1. CASE imports'[k] = imports[k]
  BY <1>1
<1>2. CASE imports[k].step \notin Steps /\ ActsOn(k)
  <2>1. PICK a \in Actors : PreviewImport(k, a)
    BY <1>2 DEF ActsOn, BeginApply, ExpirePreview, CreateRow, NumberRow, FindChiefs,
       FindBosses, WriteLink, FinishImport, FailImport, Applying
  <2>2. PICK f \in Files : imports' = [imports EXCEPT ![k] =
             [step |-> "preview", by |-> a, rows |-> ApplyableRows(f),
              todo |-> ApplyableRows(f), links |-> {}, seen |-> Users]]
    BY <2>1 DEF PreviewImport
  <2>3. imports'[k].step = "preview"
    BY <2>2 DEF ImportTypeInv
  <2> QED BY <1>2, <2>1, <2>3
<1>3. CASE imports[k].step \in Steps /\ ActsOn(k)
  <2>1. IsImport(imports[k])
    BY <1>3, HasRow
  <2>2. ~ \E a \in Actors : PreviewImport(k, a)
    BY <1>3, ImportKinds DEF PreviewImport, NoRows
  <2>3. CASE ExpirePreview(k) \/ FailImport(k)
    BY <2>3, ImportKinds DEF ExpirePreview, FailImport, ImportTypeInv, Applying
  <2>4. ASSUME NEW a \in Actors, BeginApply(k, a)
        PROVE  /\ imports'[k].step \in Begun /\ imports'[k].rows = imports[k].rows
               /\ imports'[k].seen = imports[k].seen /\ imports'[k].by = imports[k].by
    BY <2>1, <2>4 DEF BeginApply, ImportTypeInv, IsImport, ImportFields
  <2>5. CASE CreateRow(k)
    BY <2>1, <2>5, RowCases DEF CreateRow, SkipsRow, MakesRow, ImportTypeInv, IsImport, ImportFields
  <2>6. CASE NumberRow(k)
    BY <2>1, <2>6 DEF NumberRow, ImportTypeInv, IsImport, ImportFields
  <2>7. CASE FindChiefs(k)
    BY <2>1, <2>7 DEF FindChiefs, ImportTypeInv, IsImport, ImportFields
  <2>8. CASE FindBosses(k)
    BY <2>1, <2>8 DEF FindBosses, ImportTypeInv, IsImport, ImportFields
  <2>9. CASE WriteLink(k)
    BY <2>1, <2>9 DEF WriteLink, ImportTypeInv, IsImport, ImportFields
  <2>10. CASE FinishImport(k)
    BY <2>1, <2>10 DEF FinishImport, ImportTypeInv, IsImport, ImportFields
  <2> QED BY <1>3, <2>2, <2>3, <2>4, <2>5, <2>6, <2>7, <2>8, <2>9, <2>10 DEF ActsOn
<1> QED BY <1>1, <1>2, <1>3, OnlyOne

\* A new user is one of a form, or of the next row of an import.
LEMMA NewUsers ==
  ASSUME ImportTypeInv, [ImportNext]_importVars, NEW p \in Users' \ Users
  PROVE  \/ people'[p].from = {}
         \/ \E k \in Tokens : /\ CreateRow(k) /\ MakesRow(k) /\ people'[p].from = {k}
                              /\ p = imports[k].rows[NextPlace(imports[k].todo)].login
<1>1. p \in Logins /\ people'[p] # people[p] /\ people[p] = Nobody
  BY DEF Users
<1>2. ASSUME NEW k \in Tokens, CreateRow(k)
      PROVE  /\ MakesRow(k) /\ people'[p].from = {k}
             /\ p = imports[k].rows[NextPlace(imports[k].todo)].login
  BY <1>1, <1>2, RowCases DEF SkipsRow, MakesRow, ImportTypeInv
<1>3. ASSUME NEW k \in Tokens, NumberRow(k) \/ WriteLink(k) PROVE FALSE
  <2> DEFINE q == imports[k].rows[NextPlace(imports[k].todo)].login
  <2>1. q \in Users
    BY <1>3, NumberWrites, LinkWrites
  <2>2. people'[p] = people[p]
    BY <1>1, <1>3, <2>1 DEF NumberRow, WriteLink, ImportTypeInv, Users
  <2> QED BY <1>1, <2>2
<1>4. ASSUME NEW a \in Admins, WriteForm(a) PROVE people'[p].from = {}
  <2>1. PICK q \in Logins : forms[a].login = {q} /\ (~forms[a].new => q \in Users)
    BY <1>4 DEF WriteForm, ImportTypeInv, IsForm
  <2>2. (CHOOSE r \in forms[a].login : TRUE) = q
    BY <2>1
  <2>3. CASE ~forms[a].new
    <3>1. people' = [people EXCEPT ![q].email = {forms[a].email}, ![q].sealed = TRUE]
      BY <1>4, <2>2, <2>3 DEF WriteForm
    <3>2. q \in Users
      BY <2>1, <2>3
    <3> QED BY <1>1, <3>1, <3>2 DEF ImportTypeInv, Users
  <2>4. CASE forms[a].new
    BY <1>1, <1>4, <2>2, <2>4 DEF WriteForm, ImportTypeInv
  <2> QED BY <2>3, <2>4
<1> QED
  BY <1>1, <1>2, <1>3, <1>4 DEF ImportNext, importVars, PreviewImport, BeginApply, ExpirePreview,
     FindChiefs, FindBosses, FinishImport, FailImport, CheckForm

\* Users from an import are in its rows.
LEMMA FromStep == ImportTypeInv /\ FromInv /\ [ImportNext]_importVars => FromInv'
<1> SUFFICES ASSUME ImportTypeInv, FromInv, [ImportNext]_importVars,
                    NEW k \in Tokens, NEW p \in Users', people'[p].from = {k}
             PROVE  \/ imports'[k] = Over("failed")
                    \/ imports'[k].step \in Begun /\ p \in LoginsOf(imports'[k].rows)
  BY DEF FromInv
<1>1. CASE p \in Users
  <2>1. people[p].from = {k}
    BY <1>1, UsersStay
  <2>2. CASE imports[k] = Over("failed")
    <3>1. ~ActsOn(k)
      BY <2>2, ImportKinds DEF ActsOn, PreviewImport, BeginApply, ExpirePreview, CreateRow, NumberRow, FindChiefs,
         FindBosses, WriteLink, FinishImport, FailImport, Applying, NoImport, Over
    <3> QED BY <2>2, <3>1, OnlyOne
  <2>3. CASE imports[k].step \in Begun /\ p \in LoginsOf(imports[k].rows)
    BY <2>3, RowsStay
  <2> QED BY <1>1, <2>1, <2>2, <2>3 DEF FromInv
<1>2. CASE p \notin Users
  <2>1. PICK l \in Tokens : /\ CreateRow(l) /\ MakesRow(l) /\ people'[p].from = {l}
                            /\ p = imports[l].rows[NextPlace(imports[l].todo)].login
    BY <1>2, NewUsers
  <2>2. l = k /\ imports[k].step \in Begun
    BY <2>1 DEF CreateRow, Begun, Steps
  <2>3. p \in LoginsOf(imports[k].rows)
    BY <2>1, <2>2, HasRow DEF CreateRow, LoginsOf, Begun
  <2>4. imports'[k].step \in Begun
    <3>1. DOMAIN imports[k] = ImportFields
      BY <2>2, HasRow DEF IsImport, Begun
    <3>2. \/ imports' = [imports EXCEPT ![k] = [imports[k] EXCEPT !.todo = Rest(@)]]
          \/ imports' = [imports EXCEPT ![k] = [imports[k] EXCEPT !.step = "number"]]
      BY <2>1, <2>2 DEF MakesRow
    <3> QED BY <2>2, <3>1, <3>2 DEF ImportFields, ImportTypeInv, Begun, Steps
  <2> QED BY <2>3, <2>4, RowsStay
<1> QED BY <1>1, <1>2

\* What has happened is not forgotten.
LEMMA OdditiesGrow == [ImportNext]_importVars => oddities \subseteq oddities'
<1>1. \A k \in Tokens : CreateRow(k) => oddities \subseteq oddities'
  BY RowCases DEF SkipsRow, MakesRow
<1>2. \A k \in Tokens, a \in Actors : BeginApply(k, a) => oddities \subseteq oddities'
  BY DEF BeginApply
<1> QED
  BY <1>1, <1>2 DEF ImportNext, importVars, PreviewImport, ExpirePreview, NumberRow,
     FindChiefs, FindBosses, WriteLink, FinishImport, FailImport, CheckForm, WriteForm

\* The user who is given a superior is one that the import created.
LEMMA LinksOwn ==
  ASSUME ImportTypeInv, OwnInv, "taken" \notin oddities, NEW k \in Tokens, WriteLink(k)
  PROVE  LET x == imports[k]
             i == NextPlace(x.todo)
         IN  /\ x.step \in Linking /\ i \in DOMAIN x.todo /\ i \in DOMAIN x.rows
             /\ people[x.rows[i].login].from = {k}
             /\ Processed(x) = DOMAIN x.rows
<1>1. imports[k].step \in Begun /\ imports[k].step \in Steps /\ imports[k].step \in Linking
  BY DEF WriteLink, Begun, Linking, Steps
<1>2. NextPlace(imports[k].todo) \in DOMAIN imports[k].rows /\ NextPlace(imports[k].todo) \in DOMAIN imports[k].todo
  BY <1>1, HasRow DEF WriteLink
<1>3. Processed(imports[k]) = DOMAIN imports[k].rows
  BY <1>1 DEF Processed, Linking
<1> QED BY <1>1, <1>2, <1>3 DEF OwnInv

\* Nobody else numbers or links the users that an import created.
LEMMA OwnStays ==
  ASSUME ImportTypeInv, OwnInv, "taken" \notin oddities, [ImportNext]_importVars,
         NEW k \in Tokens, NEW p \in Users, people[p].from = {k}
  PROVE  /\ p \in Users' /\ people'[p].from = {k}
         /\ people'[p].number = people[p].number \/ NumberRow(k)
         /\ people'[p].boss = people[p].boss \/ WriteLink(k)
<1>1. p \in Users' /\ people'[p].from = {k}
  BY UsersStay
<1>2. ASSUME NEW l \in Tokens, NumberRow(l) \/ WriteLink(l), l # k
      PROVE  people'[p] = people[p]
  <2> DEFINE q == imports[l].rows[NextPlace(imports[l].todo)].login
  <2>1. people[q].from = {l}
    <3>1. CASE NumberRow(l)
      BY <3>1 DEF NumberRow, OwnInv, Begun, Steps
    <3>2. CASE WriteLink(l)
      BY <1>2, <3>2, LinksOwn
    <3> QED BY <1>2, <3>1, <3>2
  <2>2. p # q
    BY <1>2, <2>1
  <2> HIDE DEF q
  <2>3. \A r \in Users \ {q} : people'[r] = people[r]
    BY <1>2, NumberWrites, LinkWrites DEF q
  <2> QED BY <2>2, <2>3
<1> QED BY <1>1, <1>2, RestStays

\* The rows done with stay users that the import created.
LEMMA OwnStep == ImportTypeInv /\ OwnInv /\ [ImportNext]_importVars => OwnInv'
<1> SUFFICES ASSUME ImportTypeInv, OwnInv, [ImportNext]_importVars, "taken" \notin oddities',
                    NEW k \in Tokens, imports'[k].step \in Begun
             PROVE  LET x == imports'[k]
                    IN  /\ \A i \in Processed(x) : LET p == x.rows[i].login
                                                  IN  /\ p \in Users' /\ people'[p].from = {k}
                                                      /\ people'[p].number = x.rows[i].number
                        /\ x.step = "number" => people'[x.rows[NextPlace(x.todo)].login].from = {k}
  BY DEF OwnInv, Processed
<1> DEFINE c == imports[k]
           x == imports'[k]
           n == NextPlace(c.todo)
<1>1. "taken" \notin oddities
  BY OdditiesGrow
<1>2. /\ IsImport(c) /\ Placed(c, Users) /\ IsRows(c.rows)
      /\ x.rows = c.rows /\ x.seen = c.seen
  BY RowsStay, HasRow DEF IsImport
<1>3. ASSUME NEW i \in Processed(c), c.step \in Begun
      PROVE  LET p == c.rows[i].login
             IN  /\ p \in Users' /\ people'[p].from = {k}
                 /\ people'[p].number = c.rows[i].number \/ NumberRow(k)
  <2> DEFINE p == c.rows[i].login
  <2>1. p \in Users /\ people[p].from = {k} /\ people[p].number = c.rows[i].number
    BY <1>1, <1>3 DEF OwnInv
  <2> HIDE DEF p
  <2>2. p \in Users' /\ people'[p].from = {k} /\ (people'[p].number = people[p].number \/ NumberRow(k))
    BY <1>1, <2>1, OwnStays
  <2> QED BY <2>1, <2>2 DEF p
<1>4. ASSUME c.step = "number" PROVE people'[c.rows[n].login].from = {k}
  <2>1. people[c.rows[n].login].from = {k}
    BY <1>1, <1>4 DEF OwnInv, Begun, Steps
  <2>2. c.rows[n].login \in Users
    BY <1>2, <1>4 DEF Placed
  <2> QED BY <2>1, <2>2, UsersStay
<1>5. CASE x = c /\ ~NumberRow(k)
  BY <1>3, <1>4, <1>5
<1>6. CASE \E a \in Actors : BeginApply(k, a)
  <2>1. c.step = "preview" /\ x = [c EXCEPT !.step = "rows"]
    BY <1>6 DEF BeginApply, ImportTypeInv
  <2>2. Processed(x) = {} /\ x.step = "rows"
    BY <1>2, <2>1 DEF IsImport, ImportFields, Processed
  <2> QED BY <2>2
<1>7. CASE CreateRow(k)
  <2>1. c.step = "rows" /\ DOMAIN c.todo # {} /\ c.step \in Begun /\ c.step \in Steps
    BY <1>7 DEF CreateRow, Begun, Steps
  <2>2. /\ n \in DOMAIN c.todo /\ n \in DOMAIN c.rows
        /\ DOMAIN Rest(c.todo) = DOMAIN c.todo \ {n}
    BY <2>1, HasRow
  <2>3. MakesRow(k)
    <3>1. c.rows[n].login \notin c.seen
      BY <1>2, <2>2 DEF IsImport, LoginsOf
    <3> QED BY <1>7, <3>1, RowCases DEF SkipsRow
  <2> DEFINE p == c.rows[n].login
  <2>4. p \in Users' /\ people'[p].from = {k} /\ people'[p].number = 0
    <3>1. p \in Logins
      BY <2>1, HasRow
    <3> QED BY <2>3, <3>1, ImportKinds DEF MakesRow, ImportTypeInv, Users, Nobody
  <2>5. ~NumberRow(k)
    BY <2>1 DEF NumberRow
  <2>6. CASE c.rows[n].number = 0 /\ x = [c EXCEPT !.todo = Rest(@)]
    <3>1. x.step = "rows" /\ x.todo = Rest(c.todo)
      BY <1>2, <2>1, <2>6 DEF IsImport, ImportFields
    <3>2. Processed(x) = Processed(c) \union {n}
      BY <1>2, <2>1, <2>2, <3>1 DEF Processed
    <3> QED BY <1>2, <1>3, <2>1, <2>4, <2>5, <2>6, <3>1, <3>2
  <2>7. CASE x = [c EXCEPT !.step = "number"]
    <3>1. x.step = "number" /\ x.todo = c.todo
      BY <1>2, <2>1, <2>7 DEF IsImport, ImportFields
    <3>2. Processed(x) = Processed(c)
      BY <1>2, <2>1, <3>1 DEF Processed
    <3> QED BY <1>2, <1>3, <2>1, <2>4, <2>5, <3>1, <3>2
  <2> QED BY <2>3, <2>6, <2>7 DEF MakesRow, ImportTypeInv
<1>8. CASE NumberRow(k)
  <2>1. c.step = "number" /\ c.step \in Begun /\ c.step \in Steps /\ DOMAIN c.todo # {}
    BY <1>2, <1>8 DEF NumberRow, Begun, Steps, IsImport
  <2>2. /\ n \in DOMAIN c.todo /\ n \in DOMAIN c.rows
        /\ DOMAIN Rest(c.todo) = DOMAIN c.todo \ {n}
    BY <2>1, HasRow
  <2>3. x.step = "rows" /\ x.todo = Rest(c.todo)
    BY <1>2, <1>8 DEF NumberRow, IsImport, ImportFields, ImportTypeInv
  <2>4. Processed(x) = Processed(c) \union {n}
    BY <1>2, <2>1, <2>2, <2>3 DEF Processed
  <2>5. /\ c.rows[n].login \in Users' /\ people'[c.rows[n].login].number = c.rows[n].number
        /\ \A q \in Users \ {c.rows[n].login} : people'[q] = people[q]
    BY <1>8, NumberWrites, UsersStay
  <2>6. ASSUME NEW i \in Processed(c)
        PROVE  people'[c.rows[i].login].number = c.rows[i].number
    <3>1. c.rows[i].login \in Users /\ people[c.rows[i].login].number = c.rows[i].number
      BY <1>1, <2>1 DEF OwnInv
    <3>2. c.rows[i].login # c.rows[n].login
      BY <1>2, <2>1, <2>2 DEF IsRows, Processed
    <3> QED BY <2>5, <3>1, <3>2
  <2> QED BY <1>2, <1>3, <1>4, <2>1, <2>3, <2>4, <2>5, <2>6
<1>9. CASE FindChiefs(k) \/ FindBosses(k) \/ WriteLink(k) \/ FinishImport(k)
  <2>1. c.step \in Begun /\ Processed(c) = DOMAIN c.rows /\ c.step # "number"
    BY <1>9 DEF FindChiefs, FindBosses, WriteLink, FinishImport, Begun, Steps, Processed
  <2>2. x.step # "number"
    <3>1. DOMAIN c = ImportFields /\ c.step # "number"
      BY <1>2, <2>1 DEF IsImport
    <3>2. CASE FindChiefs(k)
      BY <3>1, <3>2 DEF FindChiefs, ImportTypeInv, ImportFields
    <3>3. CASE FindBosses(k)
      BY <3>1, <3>3 DEF FindBosses, ImportTypeInv, ImportFields
    <3>4. CASE WriteLink(k)
      BY <3>1, <3>4 DEF WriteLink, ImportTypeInv, ImportFields
    <3>5. CASE FinishImport(k)
      BY <3>1, <3>5 DEF FinishImport, ImportTypeInv, ImportFields
    <3> QED BY <1>9, <3>2, <3>3, <3>4, <3>5
  <2>3. ~NumberRow(k)
    BY <2>1 DEF NumberRow
  <2> QED BY <1>2, <1>3, <2>1, <2>2, <2>3 DEF Processed
<1>10. CASE ExpirePreview(k) \/ FailImport(k) \/ \E a \in Actors : PreviewImport(k, a)
  <2>1. ~ \E a \in Actors : PreviewImport(k, a)
    BY <1>2, ImportKinds DEF PreviewImport, Steps
  <2>2. x.step \notin Begun
    BY <1>10, <2>1, ImportKinds DEF ExpirePreview, FailImport, ImportTypeInv, Begun, Steps
  <2> QED BY <2>2
<1> QED BY <1>5, <1>6, <1>7, <1>8, <1>9, <1>10, OnlyOne DEF ActsOn

--------------------------------------------------------------------------------
\* No link reaches a user that no import created.
LEMMA SpareStep ==
  ImportTypeInv /\ OwnInv /\ ImportsSpareOthers /\ [ImportNext]_importVars => ImportsSpareOthers'
<1> SUFFICES ASSUME ImportTypeInv, OwnInv, ImportsSpareOthers, [ImportNext]_importVars, "taken" \notin oddities',
                    NEW p \in Users', people'[p].from = {}
             PROVE  people'[p].boss = {}
  BY DEF ImportsSpareOthers
<1>1. "taken" \notin oddities
  BY OdditiesGrow
<1>2. CASE p \in Users
  <2>1. people[p].from = {} /\ people[p].boss = {}
    BY <1>1, <1>2, UsersStay DEF ImportsSpareOthers
  <2>2. ASSUME NEW k \in Tokens, WriteLink(k) PROVE people'[p] = people[p]
    <3> DEFINE q == imports[k].rows[NextPlace(imports[k].todo)].login
    <3>1. people[q].from = {k}
      BY <1>1, <2>2, LinksOwn
    <3>2. p # q
      BY <2>1, <3>1
    <3>3. \A r \in Users \ {q} : people'[r] = people[r]
      BY <2>2, LinkWrites
    <3> HIDE DEF q
    <3> QED BY <1>2, <3>2, <3>3
  <2> QED BY <1>2, <2>1, <2>2, RestStays
<1>3. CASE p \notin Users
  BY <1>3, UsersStay
<1> QED BY <1>2, <1>3

\* Links by name are written one by one, and none is lost.
LEMMA NamedStep ==
  ImportTypeInv /\ OwnInv /\ NamedInv /\ [ImportNext]_importVars => NamedInv'
<1> SUFFICES ASSUME ImportTypeInv, OwnInv, NamedInv, [ImportNext]_importVars, "taken" \notin oddities',
                    NEW k \in Tokens, imports'[k].step \in {"byName", "done"},
                    NEW i \in DOMAIN imports'[k].rows,
                    imports'[k].rows[i].boss # {},
                    imports'[k].rows[i].boss \subseteq
                        (imports'[k].seen \union LoginsOf(imports'[k].rows)) \ {imports'[k].rows[i].login}
             PROVE  \/ people'[imports'[k].rows[i].login].boss = imports'[k].rows[i].boss
                    \/ imports'[k].step = "byName" /\ i \in DOMAIN imports'[k].todo
  BY DEF NamedInv
<1> DEFINE c == imports[k]
           x == imports'[k]
           n == NextPlace(c.todo)
           r == c.rows[i]
<1>1. "taken" \notin oddities
  BY OdditiesGrow
<1>2. x.step \in Begun /\ c.step \in Steps /\ x.rows = c.rows /\ x.seen = c.seen
  BY RowsStay DEF Begun, Steps
<1>3. IsImport(c) /\ Placed(c, Users) /\ IsRows(c.rows)
  BY <1>2, HasRow DEF IsImport
<1>4. ASSUME c.step \in {"byNumber", "byName", "done"}
      PROVE  \A j \in DOMAIN c.rows : c.rows[j].login \in Users /\ people[c.rows[j].login].from = {k}
  BY <1>1, <1>4 DEF OwnInv, Begun, Steps, Processed
<1>5. ASSUME c.step \in {"byNumber", "byName", "done"}, ~WriteLink(k)
      PROVE  people'[r.login].boss = people[r.login].boss
  <2>1. r.login \in Users /\ people[r.login].from = {k}
    BY <1>2, <1>4, <1>5
  <2> HIDE DEF r
  <2> QED BY <1>1, <1>5, <2>1, OwnStays
<1>6. CASE x = c /\ ~WriteLink(k)
  BY <1>1, <1>5, <1>6 DEF NamedInv
<1>7. CASE FindBosses(k)
  <2>1. c.step = "byNumber" /\ x.todo = LinksByName(c.rows) /\ x.step = "byName"
    BY <1>3, <1>7 DEF FindBosses, ImportTypeInv, IsImport, ImportFields
  <2>2. LoginsOf(c.rows) \subseteq Users /\ c.seen \subseteq Users
    BY <1>3, <1>4, <2>1 DEF LoginsOf, Placed
  <2>3. r.login \in Users /\ r.boss # {} /\ r.boss \subseteq Users \ {r.login}
    BY <1>2, <1>4, <2>1, <2>2
  <2>4. i \in DOMAIN LinksByName(c.rows)
    <3>1. DOMAIN LinksByName(c.rows) =
            {j \in DOMAIN c.rows : /\ c.rows[j].login \in Users /\ c.rows[j].boss # {}
                                  /\ c.rows[j].boss \subseteq Users \ {c.rows[j].login}}
      BY <1>3, NamedLinks
    <3> QED BY <1>2, <2>3, <3>1
  <2> QED BY <2>1, <2>4
<1>8. CASE WriteLink(k)
  <2>1. x.step = c.step /\ x.todo = Rest(c.todo)
    BY <1>3, <1>8 DEF WriteLink, ImportTypeInv, IsImport, ImportFields
  <2>2. c.step = "byName" /\ n \in DOMAIN c.todo /\ DOMAIN Rest(c.todo) = DOMAIN c.todo \ {n} /\ n \in DOMAIN c.rows
    BY <1>2, <1>8, <2>1, HasRow DEF WriteLink
  <2>3. /\ people'[c.rows[n].login].boss = {c.todo[n]}
        /\ \A q \in Users \ {c.rows[n].login} : people'[q] = people[q]
    BY <1>8, LinkWrites
  <2>4. CASE i = n
    BY <1>2, <1>3, <2>2, <2>3, <2>4 DEF IsImport
  <2>5. CASE i # n
    <3>1. r.login # c.rows[n].login /\ r.login \in Users
      BY <1>2, <1>3, <1>4, <2>2, <2>5 DEF IsRows
    <3>2. people[r.login].boss = r.boss \/ i \in DOMAIN c.todo
      BY <1>1, <1>2, <2>2 DEF NamedInv
    <3> QED BY <1>2, <2>1, <2>2, <2>3, <2>5, <3>1, <3>2
  <2> QED BY <2>4, <2>5
<1>9. CASE FinishImport(k)
  <2>1. c.step = "byName" /\ DOMAIN c.todo = {} /\ ~WriteLink(k)
    BY <1>9 DEF FinishImport, WriteLink
  <2>2. people[r.login].boss = r.boss
    BY <1>1, <1>2, <2>1 DEF NamedInv
  <2> QED BY <1>2, <1>5, <2>1, <2>2
<1>10. ~ \E a \in Actors : PreviewImport(k, a)
  BY <1>2, ImportKinds DEF PreviewImport, Steps
<1>11. ~ExpirePreview(k) /\ ~FailImport(k)
  BY ImportKinds DEF ExpirePreview, FailImport, ImportTypeInv
<1>12. ~ \E a \in Actors : BeginApply(k, a)
  BY <1>3 DEF BeginApply, ImportTypeInv, IsImport, ImportFields
<1>13. ~CreateRow(k)
  BY <1>3, RowCases DEF CreateRow, SkipsRow, MakesRow, ImportTypeInv, IsImport, ImportFields
<1>14. ~NumberRow(k)
  BY <1>3 DEF NumberRow, ImportTypeInv, IsImport, ImportFields
<1>15. ~FindChiefs(k)
  BY <1>3 DEF FindChiefs, ImportTypeInv, IsImport, ImportFields
<1> QED
  BY <1>6, <1>7, <1>8, <1>9, <1>10, <1>11, <1>12, <1>13, <1>14, <1>15, OnlyOne DEF ActsOn

--------------------------------------------------------------------------------
\* An import that runs ran before, or has just begun; its rows are the same.
LEMMA RunningBegan ==
  ASSUME ImportTypeInv, [ImportNext]_importVars, NEW k \in Tokens, k \in Applying'
  PROVE  /\ imports'[k].rows = imports[k].rows
         /\ k \in Applying \/ \E a \in Actors : BeginApply(k, a)
<1>1. imports'[k].step \in Begun /\ imports'[k].step # "done"
  BY DEF Applying, Begun, Steps
<1>2. imports[k].step \in Steps /\ imports'[k].rows = imports[k].rows
  BY <1>1, RowsStay
<1>3. CASE imports[k].step = "preview"
  <2>1. imports'[k] # imports[k]
    BY <1>1, <1>3 DEF Begun
  <2>2. \/ \E a \in Actors : BeginApply(k, a)
        \/ ExpirePreview(k) \/ FailImport(k) \/ \E a \in Actors : PreviewImport(k, a)
    BY <1>3, <2>1, OnlyOne DEF ActsOn, CreateRow, NumberRow, FindChiefs, FindBosses, WriteLink, FinishImport,
       Applying
  <2>3. ~ExpirePreview(k) /\ ~FailImport(k)
    BY <1>1, ImportKinds DEF ExpirePreview, FailImport, ImportTypeInv, Begun, Steps
  <2>4. ~ \E a \in Actors : PreviewImport(k, a)
    BY <1>3, ImportKinds DEF PreviewImport
  <2> QED BY <1>1, <1>2, <2>2, <2>3, <2>4
<1>4. CASE imports[k].step = "done"
  <2>1. imports'[k] # imports[k]
    BY <1>1, <1>4
  <2>2. FALSE
    BY <1>4, <2>1, OnlyOne, ImportKinds DEF ActsOn, PreviewImport, BeginApply, ExpirePreview, CreateRow, NumberRow,
       FindChiefs, FindBosses, WriteLink, FinishImport, FailImport, Applying
  <2> QED BY <2>2
<1> QED BY <1>1, <1>2, <1>3, <1>4 DEF Applying, Steps

\* As long as no two imports overlap, one runs at most; and a file that goes round is
\* noted when its import begins.
LEMMA RunningStep ==
  ImportTypeInv /\ AloneInv /\ FilesInv /\ [ImportNext]_importVars => AloneInv' /\ FilesInv'
<1> SUFFICES ASSUME ImportTypeInv, AloneInv, FilesInv, [ImportNext]_importVars PROVE AloneInv' /\ FilesInv'
  OBVIOUS
<1>2. ASSUME NEW k \in Tokens, k \in Applying'
      PROVE  /\ imports'[k].rows = imports[k].rows
             /\ k \in Applying \/ \E a \in Actors : BeginApply(k, a)
  BY <1>2, RunningBegan
<1>3. ASSUME NEW k \in Tokens, NEW a \in Actors, BeginApply(k, a)
      PROVE  /\ Applying # {} => "overlap" \in oddities'
             /\ GoesRound(imports[k].rows) => "cyclicFile" \in oddities'
             /\ \A l \in Tokens \ {k} : ~ \E b \in Actors : BeginApply(l, b)
  <2>1. \A l \in Tokens \ {k} : imports'[l] = imports[l]
    BY <1>3 DEF BeginApply, ImportTypeInv
  <2>2. ASSUME NEW l \in Tokens, l # k, NEW b \in Actors, BeginApply(l, b) PROVE FALSE
    <3>1. imports[l].step = "preview" /\ imports'[l].step = "rows"
      BY <2>2, HasRow DEF BeginApply, ImportTypeInv, Steps, IsImport, ImportFields
    <3> QED BY <2>1, <2>2, <3>1
  <2> QED BY <1>3, <2>2 DEF BeginApply
<1>4. AloneInv'
  <2>1. SUFFICES ASSUME "overlap" \notin oddities', NEW k \in Tokens, NEW l \in Tokens, k \in Applying', l \in Applying'
                PROVE  k = l
    BY DEF AloneInv, Applying
  <2>2. "overlap" \notin oddities
    BY <2>1, OdditiesGrow
  <2>3. k \in Tokens /\ l \in Tokens
    BY <2>1
  <2>4. CASE k \in Applying /\ l \in Applying
    BY <2>2, <2>4 DEF AloneInv
  <2>5. ASSUME k \notin Applying \/ l \notin Applying PROVE k = l
    <3>1. Applying = {}
      BY <1>2, <1>3, <2>1, <2>5
    <3>2. (\E a \in Actors : BeginApply(k, a)) /\ (\E a \in Actors : BeginApply(l, a))
      BY <1>2, <2>1, <3>1
    <3> QED BY <1>3, <2>3, <3>2
  <2> QED BY <2>4, <2>5
<1>5. FilesInv'
  <2>1. SUFFICES ASSUME "cyclicFile" \notin oddities', NEW k \in Tokens, k \in Applying'
                PROVE  ~GoesRound(imports'[k].rows)
    BY DEF FilesInv, GoesRound, LoginsOf, Applying
  <2>2. "cyclicFile" \notin oddities
    BY <2>1, OdditiesGrow
  <2>3. k \in Tokens /\ imports'[k].rows = imports[k].rows
    BY <1>2, <2>1
  <2>4. CASE k \in Applying
    BY <2>2, <2>3, <2>4 DEF FilesInv
  <2>5. CASE \E a \in Actors : BeginApply(k, a)
    BY <1>3, <2>1, <2>3, <2>5
  <2> QED BY <1>2, <2>1, <2>4, <2>5
<1> QED BY <1>4, <1>5

\* Chains stay as the rows say, through every row and link.
LEMMA ChainStep ==
  ImportTypeInv /\ OwnInv /\ FromInv /\ AloneInv /\ ChainInv /\ [ImportNext]_importVars => ChainInv'
<1> SUFFICES ASSUME ImportTypeInv, OwnInv, FromInv, AloneInv, ChainInv, [ImportNext]_importVars,
                    oddities' \intersect {"overlap", "taken", "cyclicFile"} = {},
                    NEW k \in Tokens, k \in Applying'
             PROVE  /\ \A q \in Users' : \A b \in people'[q].boss :
                          people'[b].from = {k} => people'[q].from = {k} /\ Follows(imports'[k].rows, q, b)
                    /\ imports'[k].step = "byNumber" =>
                          \A i \in DOMAIN imports'[k].todo :
                              people'[imports'[k].todo[i]].number = imports'[k].rows[i].chief
  BY DEF ChainInv, Applying, Follows
<1> DEFINE c == imports[k]
           x == imports'[k]
           n == NextPlace(c.todo)
<1>1. oddities \intersect {"overlap", "taken", "cyclicFile"} = {}
  BY OdditiesGrow
<1>2. x.rows = c.rows /\ (k \in Applying \/ \E a \in Actors : BeginApply(k, a))
  BY RunningBegan
<1>3. CASE \E a \in Actors : BeginApply(k, a)
  <2>1. imports[k].step = "preview" /\ UNCHANGED people /\ imports'[k].step # "byNumber"
    <3>1. imports[k].step = "preview" /\ UNCHANGED people /\ imports' = [imports EXCEPT ![k].step = "rows"]
      BY <1>3 DEF BeginApply
    <3>2. DOMAIN imports[k] = ImportFields
      BY <3>1, HasRow DEF Steps, IsImport
    <3> QED BY <3>1, <3>2 DEF ImportTypeInv, ImportFields
  <2>2. \A b \in Users : people[b].from # {k}
    BY <2>1, ImportKinds DEF FromInv, Begun
  <2>3. \A q \in Users' : q \in Users /\ people'[q] = people[q] /\ people[q].boss \subseteq Users
    BY <2>1 DEF Users, ImportTypeInv
  <2> QED BY <2>1, <2>2, <2>3
<1>4. CASE k \in Applying
  <2>1. \A l \in Tokens : CreateRow(l) \/ NumberRow(l) \/ WriteLink(l) => l = k
    BY <1>1, <1>4 DEF AloneInv, CreateRow, NumberRow, WriteLink, Applying
  <2>2. /\ IsImport(c) /\ Placed(c, Users) /\ IsRows(c.rows) /\ c.step \in Begun
    BY <1>4, HasRow DEF Applying, Steps, Begun, IsImport
  <2>3. ASSUME NEW q \in Users, people'[q].boss = people[q].boss, NEW b \in people[q].boss, people'[b].from = {k}
        PROVE  people'[q].from = {k} /\ Follows(c.rows, q, b)
    <3>1. b \in Users
      BY DEF ImportTypeInv
    <3>2. people[b].from = {k} /\ people'[q].from = people[q].from
      BY <2>3, <3>1, UsersStay
    <3> QED BY <1>1, <1>4, <3>2 DEF ChainInv
  <2>4. ASSUME NEW q \in Users, WriteLink(k), q = c.rows[n].login,
               NEW b \in people'[q].boss, people'[b].from = {k}
        PROVE  people'[q].from = {k} /\ Follows(c.rows, q, b)
    <3>1. /\ c.step \in Linking /\ n \in DOMAIN c.todo /\ n \in DOMAIN c.rows
          /\ people[q].from = {k} /\ Processed(c) = DOMAIN c.rows
      BY <1>1, <2>4, LinksOwn
    <3>2. b = c.todo[n] /\ b \in Users /\ b # q
      BY <2>2, <2>4, <3>1, LinkWrites DEF IsImport, Placed
    <3>3. people[b].from = {k} /\ people'[q].from = {k}
      BY <2>4, <3>1, <3>2, UsersStay
    <3>4. PICK j \in DOMAIN c.rows : c.rows[j].login = b
      BY <2>2, <3>2, <3>3, ImportKinds DEF FromInv, LoginsOf, Begun, Steps
    <3>5. CASE c.step = "byName"
      BY <2>2, <2>4, <3>1, <3>2, <3>3, <3>4, <3>5 DEF IsImport, Follows
    <3>6. CASE c.step = "byNumber"
      <4>1. c.rows[n].chief # 0 /\ people[b].number = c.rows[n].chief
        BY <1>1, <1>4, <2>2, <3>1, <3>2, <3>6 DEF IsImport, ChainInv
      <4>2. people[b].number = c.rows[j].number
        BY <1>1, <2>2, <3>1, <3>4 DEF OwnInv
      <4> QED BY <2>4, <3>1, <3>2, <3>3, <3>4, <4>1, <4>2 DEF Follows
    <3> QED BY <3>1, <3>5, <3>6 DEF Linking
  <2>5. ASSUME NEW q \in Users', NEW b \in people'[q].boss, people'[b].from = {k}
        PROVE  people'[q].from = {k} /\ Follows(c.rows, q, b)
    <3>1. q \in Users
      BY <2>5, UsersStay
    <3>2. CASE people'[q].boss = people[q].boss
      BY <2>3, <2>5, <3>1, <3>2
    <3>3. CASE people'[q].boss # people[q].boss
      <4>1. WriteLink(k)
        BY <2>1, <3>1, <3>3, RestStays
      <4>2. q = c.rows[n].login
        BY <3>1, <3>3, <4>1, LinkWrites
      <4> QED BY <2>4, <2>5, <3>1, <4>1, <4>2
    <3> QED BY <3>2, <3>3
  <2>6. ASSUME x.step = "byNumber", NEW i \in DOMAIN x.todo
        PROVE  people'[x.todo[i]].number = c.rows[i].chief
    <3>1. ASSUME c.step = "byNumber", i \in DOMAIN c.todo, x.todo[i] = c.todo[i]
          PROVE  people'[x.todo[i]].number = c.rows[i].chief
      <4>1. c.todo[i] \in Users
        BY <2>2, <3>1 DEF Placed, Linking
      <4>2. people[c.todo[i]].number = c.rows[i].chief
        BY <1>1, <1>4, <3>1 DEF ChainInv
      <4>3. ~NumberRow(k)
        BY <3>1 DEF NumberRow
      <4>4. people'[c.todo[i]].number = people[c.todo[i]].number
        BY <2>1, <4>1, <4>3, RestStays
      <4> QED BY <3>1, <4>2, <4>4
    <3>2. CASE x = c
      BY <2>6, <3>1, <3>2
    <3>3. CASE FindChiefs(k)
      <4>1. PICK g \in ChiefsOf(k) :
              imports' = [imports EXCEPT ![k].step = "byNumber", ![k].todo = LinksByNumber(k, g)]
        BY <3>3 DEF FindChiefs
      <4>2. x.todo = LinksByNumber(k, g)
        BY <2>2, <4>1 DEF IsImport, ImportFields, ImportTypeInv
      <4>3. people[x.todo[i]].number = c.rows[i].chief
        BY <2>6, <4>2 DEF LinksByNumber, ChiefsOf
      <4> QED BY <3>3, <4>3 DEF FindChiefs
    <3>4. CASE WriteLink(k)
      <4>1. x.step = c.step /\ x.todo = Rest(c.todo)
        BY <2>2, <3>4 DEF WriteLink, ImportTypeInv, IsImport, ImportFields
      <4>2. i \in DOMAIN c.todo /\ x.todo[i] = c.todo[i]
        BY <2>6, <4>1 DEF Rest
      <4> QED BY <2>6, <3>1, <4>1, <4>2
    <3>5. ~ \E a \in Actors : PreviewImport(k, a) \/ BeginApply(k, a)
      BY <2>2, ImportKinds DEF PreviewImport, BeginApply, Begun, Steps
    <3>6. ~ExpirePreview(k) /\ ~FailImport(k)
      BY <2>6, ImportKinds DEF ExpirePreview, FailImport, ImportTypeInv
    <3>7. ~CreateRow(k)
      BY <2>2, <2>6, RowCases DEF CreateRow, SkipsRow, MakesRow, ImportTypeInv, IsImport, ImportFields
    <3>8. ~NumberRow(k)
      BY <2>2, <2>6 DEF NumberRow, ImportTypeInv, IsImport, ImportFields
    <3>9. ~FindBosses(k) /\ ~FinishImport(k)
      BY <2>2, <2>6 DEF FindBosses, FinishImport, ImportTypeInv, IsImport, ImportFields
    <3> QED BY <3>2, <3>3, <3>4, <3>5, <3>6, <3>7, <3>8, <3>9, OnlyOne DEF ActsOn
  <2> QED BY <1>2, <2>5, <2>6
<1> QED BY <1>2, <1>3, <1>4

\* A round that a link closed would be one of users of its import alone, as a superior
\* whom the import created is never one of a user it found: then the file goes round.
LEMMA SelfStep ==
  /\ ImportTypeInv /\ OwnInv /\ FromInv /\ FilesInv /\ ChainInv /\ ChainInv'
  /\ NobodyApprovesSelf /\ [ImportNext]_importVars
  => NobodyApprovesSelf'
<1> SUFFICES ASSUME ImportTypeInv, OwnInv, FromInv, FilesInv, ChainInv, ChainInv', NobodyApprovesSelf,
                    [ImportNext]_importVars, oddities' \intersect {"overlap", "taken", "cyclicFile"} = {},
                    NEW S \in (SUBSET Users') \ {{}}, \A p \in S : people'[p].boss \intersect S # {}
             PROVE  FALSE
  BY DEF NobodyApprovesSelf, Users
<1>1. oddities \intersect {"overlap", "taken", "cyclicFile"} = {}
  BY OdditiesGrow
<1>2. S \subseteq Users
  BY UsersStay
<1>3. ASSUME NEW T \in SUBSET Users, T # {} PROVE \E p \in T : people[p].boss \intersect T = {}
  BY <1>1, <1>3 DEF NobodyApprovesSelf
<1>4. PICK k \in Tokens : WriteLink(k)
  <2>1. ~ \A p \in S : people'[p].boss = people[p].boss
    BY <1>2, <1>3
  <2> QED BY <1>2, <2>1, RestStays
<1> DEFINE c == imports[k]
           p == c.rows[NextPlace(c.todo)].login
           R == {q \in S : people[q].from # {k}}
<1>5. /\ people[p].from = {k} /\ k \in Applying /\ c.step \in Begun
  BY <1>1, <1>4, LinksOwn DEF WriteLink, Applying, Begun, Steps
<1>6. \A q \in S \ {p} : people'[q] = people[q]
  BY <1>2, <1>4, LinkWrites
<1>7. R = {}
  <2>1. ASSUME NEW q \in R PROVE people[q].boss \intersect R # {}
    <3>1. q # p /\ q \in S
      BY <1>5
    <3>2. PICK b \in people'[q].boss : b \in S
      BY <3>1
    <3>3. b \in people[q].boss
      BY <1>6, <3>1, <3>2
    <3>4. people[b].from # {k}
      BY <1>1, <1>2, <1>5, <3>1, <3>3 DEF ChainInv
    <3> QED BY <3>2, <3>3, <3>4
  <2>2. R \in SUBSET Users
    BY <1>2
  <2> HIDE DEF R
  <2> QED BY <1>3, <2>1, <2>2
<1>8. S \subseteq LoginsOf(c.rows)
  BY <1>2, <1>5, <1>7, ImportKinds DEF FromInv, Begun, Steps
<1>9. k \in Applying' /\ imports'[k].rows = c.rows
  <2>1. IsImport(c)
    BY <1>5, HasRow DEF Begun
  <2> QED BY <1>4, <2>1 DEF WriteLink, Applying, ImportTypeInv, IsImport, ImportFields
<1>10. ASSUME NEW q \in S PROVE \E b \in S : Follows(c.rows, q, b)
  <2>1. PICK b \in people'[q].boss : b \in S
    OBVIOUS
  <2>2. people'[b].from = {k}
    BY <1>2, <1>7, <2>1, UsersStay
  <2>3. Follows(imports'[k].rows, q, b)
    BY <1>9, <2>1, <2>2 DEF ChainInv
  <2> QED BY <1>9, <2>1, <2>3
<1>11. GoesRound(c.rows)
  <2> DEFINE rows == c.rows
  <2> HIDE DEF rows
  <2>1. S \in (SUBSET LoginsOf(rows)) \ {{}}
    BY <1>8 DEF rows
  <2>2. ASSUME NEW q \in S
        PROVE  \E i, j \in DOMAIN rows :
                 /\ rows[i].login = q /\ rows[j].login \in S \ {q}
                 /\ rows[j].login \in rows[i].boss \/ (rows[i].chief # 0 /\ rows[i].chief = rows[j].number)
    <3>1. PICK b \in S : Follows(rows, q, b)
      BY <1>10 DEF rows
    <3> QED BY <3>1 DEF Follows
  <2>3. GoesRound(rows)
    BY <2>1, <2>2 DEF GoesRound
  <2> QED BY <2>3 DEF rows
<1> QED BY <1>1, <1>5, <1>11 DEF FilesInv

--------------------------------------------------------------------------------
\* Users have what their columns hold, and a preview is applied by whoever may import.
PeopleInv ==
    /\ \A p \in Users : /\ \A b, c \in people[p].boss : b = c
                        /\ people[p].from \subseteq Tokens /\ people[p].sealed \in BOOLEAN
    /\ \A k \in Tokens : imports[k].step \in Steps => imports[k].by \in Actors
    /\ submitted \in 0..MaxForms

\* An address is sealed or not, whoever writes it.
LEMMA SealedOrNot ==
  ASSUME ImportTypeInv, [ImportNext]_importVars
  PROVE  \A p \in Users' : (p \in Users /\ people'[p].sealed = people[p].sealed) \/ people'[p].sealed \in BOOLEAN
<1> DEFINE Goal == \A p \in Users' :
              (p \in Users /\ people'[p].sealed = people[p].sealed) \/ people'[p].sealed \in BOOLEAN
<1>1. CASE UNCHANGED people
  BY <1>1 DEF Users
<1>2. ASSUME NEW p \in Logins, NEW e, NEW s \in BOOLEAN, NEW fr,
             people' = [people EXCEPT ![p] = [email |-> e, sealed |-> s, number |-> 0, boss |-> {}, from |-> fr]]
      PROVE  Goal
  BY <1>2 DEF ImportTypeInv, Users
<1>3. ASSUME NEW p \in Users, DOMAIN people' = Logins, \A q \in Logins \ {p} : people'[q] = people[q],
             people'[p].sealed = people[p].sealed \/ people'[p].sealed = TRUE
      PROVE  Goal
  BY <1>3 DEF Users
<1>4. ASSUME NEW k \in Tokens, CreateRow(k) PROVE Goal
  <2>1. imports[k].rows[NextPlace(imports[k].todo)].login \in Logins
    BY <1>4, HasRow DEF CreateRow, Steps
  <2>2. CASE MakesRow(k)
    <3> DEFINE r == imports[k].rows[NextPlace(imports[k].todo)]
    <3>1. people' = [people EXCEPT ![r.login] =
               [email |-> {r.email}, sealed |-> FALSE, number |-> 0, boss |-> {}, from |-> {k}]]
      BY <2>2 DEF MakesRow
    <3> QED BY <1>2, <2>1, <3>1
  <2>3. CASE SkipsRow(k)
    BY <1>1, <2>3 DEF SkipsRow
  <2> QED BY <1>4, <2>2, <2>3, RowCases
<1>5. ASSUME NEW k \in Tokens, NumberRow(k) \/ WriteLink(k) PROVE Goal
  <2> DEFINE p == imports[k].rows[NextPlace(imports[k].todo)].login
  <2>1. p \in Users
    BY <1>5, NumberWrites, LinkWrites
  <2>2. IsUser(people[p]) /\ p \in Logins
    BY <2>1 DEF ImportTypeInv, Users
  <2>3. \E v : people' = [people EXCEPT ![p].number = v] \/ people' = [people EXCEPT ![p].boss = v]
    BY <1>5 DEF NumberRow, WriteLink
  <2> HIDE DEF p
  <2>4. people'[p].sealed = people[p].sealed
    BY <2>2, <2>3 DEF IsUser, ImportTypeInv
  <2> QED BY <1>3, <2>1, <2>2, <2>3, <2>4 DEF ImportTypeInv
<1>6. ASSUME NEW a \in Admins, WriteForm(a) PROVE Goal
  <2>1. PICK p \in Logins : forms[a].login = {p} /\ (~forms[a].new => p \in Users)
    BY <1>6 DEF WriteForm, ImportTypeInv, IsForm
  <2>2. (CHOOSE q \in forms[a].login : TRUE) = p
    BY <2>1
  <2>3. CASE ~forms[a].new
    <3>1. people' = [people EXCEPT ![p].email = {forms[a].email}, ![p].sealed = TRUE]
      BY <1>6, <2>2, <2>3 DEF WriteForm
    <3>2. p \in Users /\ IsUser(people[p])
      BY <2>1, <2>3 DEF ImportTypeInv, Users
    <3>3. people'[p].sealed = TRUE
      BY <2>1, <3>1, <3>2 DEF IsUser, ImportTypeInv
    <3>4. DOMAIN people' = Logins /\ \A q \in Logins \ {p} : people'[q] = people[q]
      BY <3>1 DEF ImportTypeInv
    <3> QED BY <1>3, <3>2, <3>3, <3>4
  <2>4. CASE forms[a].new /\ p \in Users
    BY <1>1, <1>6, <2>2, <2>4 DEF WriteForm
  <2>5. CASE forms[a].new /\ p \notin Users
    <3>1. people' = [people EXCEPT ![p] = [email |-> {forms[a].email}, sealed |-> TRUE,
                                           number |-> 0, boss |-> {}, from |-> {}]]
      BY <1>6, <2>2, <2>5 DEF WriteForm
    <3> QED BY <1>2, <2>1, <3>1
  <2> QED BY <2>3, <2>4, <2>5
<1> QED
  BY <1>1, <1>4, <1>5, <1>6 DEF ImportNext, importVars, PreviewImport, BeginApply, ExpirePreview,
     FindChiefs, FindBosses, FinishImport, FailImport, CheckForm

\* A form or a row writes a user of the same shape.
LEMMA PeopleStep == ImportTypeInv /\ PeopleInv /\ [ImportNext]_importVars => PeopleInv'
<1> SUFFICES ASSUME ImportTypeInv, PeopleInv, [ImportNext]_importVars PROVE PeopleInv'
  OBVIOUS
<1>1. submitted' \in 0..MaxForms
  <2>1. UNCHANGED submitted \/ (submitted < MaxForms /\ submitted' = submitted + 1)
    BY DEF ImportNext, importVars, PreviewImport, BeginApply, ExpirePreview, CreateRow, NumberRow,
       FindChiefs, FindBosses, WriteLink, FinishImport, FailImport, CheckForm, WriteForm
  <2> QED BY <2>1, MaxFormsAssumption DEF PeopleInv
<1>2. ASSUME NEW k \in Tokens, imports'[k].step \in Steps PROVE imports'[k].by \in Actors
  <2>1. CASE imports'[k].step \in Begun
    BY <2>1, RowsStay DEF PeopleInv
  <2>2. ASSUME NEW a \in Actors, PreviewImport(k, a) PROVE imports'[k].by \in Actors
    BY <2>2 DEF PreviewImport, ImportTypeInv
  <2>3. CASE imports'[k] = imports[k]
    BY <1>2, <2>3 DEF PeopleInv
  <2> QED BY <1>2, <2>1, <2>2, <2>3, RowsStay DEF Begun
<1>3. \A p \in Users' : (p \in Users /\ people'[p].sealed = people[p].sealed) \/ people'[p].sealed \in BOOLEAN
  BY SealedOrNot
<1>4. ASSUME NEW p \in Users'
      PROVE  (\A b, c \in people'[p].boss : b = c) /\ people'[p].from \subseteq Tokens
  <2>1. CASE p \notin Users
    BY <2>1, NewUsers, UsersStay
  <2>2. CASE p \in Users
    <3>1. people'[p].from \subseteq Tokens
      BY <2>2, UsersStay DEF PeopleInv
    <3>2. people'[p].boss = people[p].boss \/ \E b : people'[p].boss = {b}
      BY <2>2, RestStays, LinkWrites
    <3> QED BY <2>2, <3>1, <3>2 DEF PeopleInv
  <2> QED BY <2>1, <2>2
<1>5. \A p \in Users' : people'[p].sealed \in BOOLEAN
  BY <1>3 DEF PeopleInv
<1> QED BY <1>1, <1>2, <1>4, <1>5 DEF PeopleInv

\* The inductive invariant.
ImportInv ==
    /\ ImportTypeInv /\ OwnInv /\ FromInv /\ NamedInv /\ AloneInv /\ FilesInv
    /\ ChainInv /\ NobodyApprovesSelf /\ ImportsSpareOthers

\* The inductive invariant holds before there are users.
LEMMA ImportInvAtFirst == ImportInit => ImportInv
<1> SUFFICES ASSUME ImportInit PROVE ImportInv
  OBVIOUS
<1>1. Users = {} /\ Applying = {} /\ \A k \in Tokens : imports[k] = NoImport /\ imports[k].step = "none"
  BY DEF ImportInit, Users, Applying, NoImport
<1>2. ImportTypeInv
  BY <1>1 DEF ImportInit, ImportTypeInv, NoRows
<1>3. OwnInv /\ FromInv /\ NamedInv /\ AloneInv /\ FilesInv /\ ChainInv /\ NobodyApprovesSelf
  BY <1>1 DEF OwnInv, FromInv, NamedInv, AloneInv, FilesInv, ChainInv, NobodyApprovesSelf, Begun, Steps
<1>4. ImportsSpareOthers
  BY <1>1 DEF ImportsSpareOthers
<1> QED BY <1>2, <1>3, <1>4 DEF ImportInv

\* The inductive invariant always holds.
LEMMA ImportInvHolds == ImportSpec => []ImportInv
<1>1. ImportInv /\ [ImportNext]_importVars => ImportInv'
  BY ImportTypeStep, OwnStep, FromStep, NamedStep, RunningStep, ChainStep, SelfStep, SpareStep DEF ImportInv
<1> QED BY <1>1, ImportInvAtFirst, PTL DEF ImportSpec

\* Over any number of files, forms and failures, no chain of superiors comes back to its
\* user, so nobody approves a request of its own, unless imports overlapped, a login was
\* taken after a preview, or a file went round by itself (applyImport checks none of these).
THEOREM NoRounds == ImportSpec => []NobodyApprovesSelf
<1>1. ImportInv => NobodyApprovesSelf
  BY DEF ImportInv
<1> QED BY <1>1, ImportInvHolds, PTL

\* An import that answers success created every row of its preview that nobody took, with
\* its number and the superior it names, whatever other imports and forms ran meanwhile.
THEOREM DoneImportsComplete == ImportSpec => []DoneIsComplete
<1>1. ImportInv => DoneIsComplete
  <2> SUFFICES ASSUME ImportInv, "taken" \notin oddities, NEW k \in Tokens, imports[k].step = "done"
               PROVE  \A i \in DOMAIN imports[k].rows :
                        LET r == imports[k].rows[i]
                            known == imports[k].seen \union LoginsOf(imports[k].rows)
                        IN  /\ people[r.login].from = {k} /\ people[r.login].number = r.number
                            /\ r.boss # {} /\ r.boss \subseteq known \ {r.login} => people[r.login].boss = r.boss
    BY DEF DoneIsComplete
  <2>1. \A i \in DOMAIN imports[k].rows : i \in Processed(imports[k])
    BY DEF Processed
  <2>2. imports[k].step \in Begun
    BY DEF Begun, Steps
  <2> QED BY <2>1, <2>2 DEF ImportInv, OwnInv, NamedInv
<1> QED BY <1>1, ImportInvHolds, PTL

\* No import gives a superior to a user that no import created, unless a login was taken
\* between its preview and its apply, overlapping or not.
THEOREM OthersSpared == ImportSpec => []ImportsSpareOthers
<1>1. ImportInv => ImportsSpareOthers
  BY DEF ImportInv
<1> QED BY <1>1, ImportInvHolds, PTL
\* Users have at most one superior, who is a user, and come from a form or one import,
\* whichever imports and forms write them at the same time (User.bossId).
THEOREM UsersTyped == ImportSpec => []ImportTypeOK
<1>1. ImportInit => PeopleInv
  <2> SUFFICES ASSUME ImportInit PROVE PeopleInv
    OBVIOUS
  <2>1. Users = {} /\ \A k \in Tokens : imports[k].step = "none"
    BY DEF ImportInit, Users, NoImport
  <2> QED BY <2>1, MaxFormsAssumption DEF ImportInit, PeopleInv, Steps
<1>2. ImportInv => ImportTypeInv
  BY DEF ImportInv
<1>3. ImportTypeInv /\ PeopleInv => ImportTypeOK
  <2> SUFFICES ASSUME ImportTypeInv, PeopleInv PROVE ImportTypeOK
    OBVIOUS
  <2>1. \A p \in Users : Cardinality(people[p].boss) <= 1
    BY AtMostOne DEF PeopleInv
  <2>2. \A k \in Applying : imports[k].by \in Actors
    BY DEF PeopleInv, Applying, Steps
  <2> QED BY <2>1, <2>2 DEF ImportTypeInv, PeopleInv, ImportTypeOK
<1>4. ImportTypeInv /\ PeopleInv /\ [ImportNext]_importVars => PeopleInv'
  BY PeopleStep
<1> QED BY <1>1, <1>2, <1>3, <1>4, ImportInvHolds, PTL DEF ImportSpec

================================================================================
