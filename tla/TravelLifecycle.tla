---------------------------- MODULE TravelLifecycle ----------------------------
(***************************************************************************)
(* What the product promises about the life of a travel request: the        *)
(* stages of its journey and who moves it from one to the next, with one    *)
(* call at a time.  TravelRequest implements it when calls do not overlap   *)
(* and users act on the requests their pages list.                         *)
(***************************************************************************)
EXTENDS Integers

CONSTANTS Requests

VARIABLES
  stage,     \* requestStatusId, 0 before the request exists
  approved   \* somebody entitled to has approved it (or need not have)

vars == <<stage, approved>>

Move(r, from, to) ==
  /\ stage[r] \in from
  /\ \E t \in to : stage' = [stage EXCEPT ![r] = t]

Same == UNCHANGED approved

\* A draft, or a request submitted at once; who submits settles whether the
\* request needs an approval at all.
Open(r) ==
  /\ Move(r, {0}, {1, 2, 3, 4})
  /\ \E b \in BOOLEAN : approved' = [approved EXCEPT ![r] = b]
  /\ stage'[r] = 4 => approved'[r]

\* A draft is confirmed: into one of the reviews, or past them.
Submit(r) ==
  /\ Same
  /\ \/ Move(r, {1}, {2, 3})
     \/ approved[r] /\ Move(r, {1}, {4})

Approve(r) ==
  /\ Move(r, {2}, {3, 4}) \/ Move(r, {3}, {4})
  /\ approved' = [approved EXCEPT ![r] = TRUE]

\* Over the limit of the first level, or unanswered for 48 hours.
HandUp(r) == Move(r, {2}, {3}) /\ Same

Decline(r) == Move(r, {2, 3}, {10}) /\ Same

\* Until the agency has attended the request.
Cancel(r) == Move(r, 1..5, {9}) /\ Same

\* CxP fixes the budget; the agency books; the applicant hands in receipts;
\* CxP returns them or closes the trip.
Fund(r) == approved[r] /\ Move(r, {4}, {5, 6}) /\ Same
Book(r) == Move(r, {5}, {6}) /\ Same
HandIn(r) == Move(r, {6}, {7}) /\ Same
Check(r) == Move(r, {7}, {6, 8}) /\ Same

\* A receipt left undecided on a finished trip is rejected.
Reopen(r) == approved[r] /\ Move(r, {8}, {6}) /\ Same

\* The time to claim expenses has run out.
Expire(r) == Move(r, 2..7, {8}) /\ Same

Init ==
  /\ stage = [r \in Requests |-> 0]
  /\ approved = [r \in Requests |-> FALSE]

Step(r) ==
  \/ Open(r) \/ Submit(r) \/ Approve(r) \/ HandUp(r) \/ Decline(r) \/ Cancel(r)
  \/ Fund(r) \/ Book(r) \/ HandIn(r) \/ Check(r) \/ Reopen(r)
  \/ Expire(r)

Next == \E r \in Requests : Step(r)

Spec == Init /\ [][Next]_vars
=============================================================================
