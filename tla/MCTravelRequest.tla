---------------------------- MODULE MCTravelRequest ----------------------------
(***************************************************************************)
(* The organisation in which TLC explores TravelRequest: an employee, a     *)
(* first-level and a second-level approver, who all submit requests.        *)
(***************************************************************************)
EXTENDS TravelRequest, TLC

CONSTANTS emp, n1, n2, low, high, c1, c2

MCRole == (emp :> "Solicitante") @@ (n1 :> "N1") @@ (n2 :> "N2")

\* The first-level approver is the employee's manager, who has no N1 role.
MCRoleBoss == (emp :> "Solicitante") @@ (n1 :> "Otro") @@ (n2 :> "N2")

\* n1's role has a limit, n2's has none.
MCCovers == [u \in Users |-> IF u = n1 THEN {low} ELSE {low, high}]

\* Rules that always end at level 2, and skip level 1 for the low fee.
MCLevelsTop == (low :> {2}) @@ (high :> {1, 2})

\* Rules that stop at level 1 for the low fee.
MCLevelsBand == (low :> {1}) @@ (high :> {1, 2})

\* Resolved by role: one designated approver per level.
MCApprover == [u \in Users |-> <<n1, n2>>]

\* Resolved to nobody: whoever has the role of the tier may act.
MCNoApprover == [u \in Users |-> <<NoUser, NoUser>>]

MCSubstitutes == [u \in Users |-> IF u = n1 THEN {n2} ELSE {}]

\* In hierarchy mode: the employee has a manager and no manager's manager.
MCManager == [u \in Users |-> <<IF u = emp THEN n1 ELSE NoUser, NoUser>>]

\* Bound: where a job or a call in flight has written a row over MaxEntries, TLC
\* checks the state and looks no further.
MCShortTrail == \A r \in Requests : Cardinality(historial[r]) <= MaxEntries

\* The callers are interchangeable.
MCSymmetry == Permutations({c1, c2})
=============================================================================
