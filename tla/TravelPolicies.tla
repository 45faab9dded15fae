----------------------------- MODULE TravelPolicies -----------------------------
(***************************************************************************)
(* The travel policies of an organisation, edited by administrators who read,*)
(* check for overlaps and write in three statements, and what one request     *)
(* sees of them: the policy frozen when it is submitted, and previews of       *)
(* receipts ever after.                                                       *)
(***************************************************************************)
EXTENDS Integers, FiniteSets

CONSTANTS
    Policies,      \* ids of policies
    Forms,         \* what an administrator may enter
    Editors,       \* administrators at work at once
    LastDate,      \* bound: days that pass
    MaxEdits       \* bound: edits by form

\* What identifies a policy, and the fields of a form; 0 stands for null, in
\* to for an open end.  scope is "any", "nacional" or "internacional".
Combination == {"category", "costs", "scope"}
Fields == Combination \union {"from", "to", "cap", "active"}

ASSUME FormsAssumption ==
    \A f \in Forms : /\ DOMAIN f = Fields
                     /\ f.from \in Nat /\ f.to \in Nat /\ (f.to = 0 \/ f.from <= f.to)

ASSUME DatesAssumption == MaxEdits \in Nat /\ LastDate \in Nat \ {0}

VARIABLES
    policies,      \* the rows of TravelPolicy; NoPolicy where there is none
    edits,         \* per administrator, the edit in flight
    edited,        \* how many edits by form were begun
    crowded,       \* whether two edits were ever in flight together
    date,
    traveller,     \* category and cost centre of the applicant, scope of the trip
    snapshot,      \* the policy frozen in the request
    ruling         \* ghost: the policies that ruled when it was submitted

policyVars == <<policies, edits, edited, crowded, date, traveller, snapshot, ruling>>

NoPolicy == [active |-> FALSE]
NoEdit == [step |-> "none"]
Written == {p \in Policies : policies[p] # NoPolicy}
Editing == {e \in Editors : edits[e] # NoEdit}
Pick(r, F) == [k \in F |-> r[k]]

--------------------------------------------------------------------------------
\* hasOverlap: another active policy of the same combination whose dates meet.
Meet(f, g) == (f.to = 0 \/ f.to >= g.from) /\ (g.to = 0 \/ g.to >= f.from)
OverlapsBounded(p, f) ==                     \* mutant: an open end never overlaps
    \E q \in Written \ {p} :
        /\ policies[q].active /\ Pick(policies[q], Combination) = Pick(f, Combination)
        /\ f.to >= policies[q].from /\ policies[q].to >= f.from
Overlaps(p, f) ==
    \E q \in Written \ {p} :
        /\ policies[q].active /\ Pick(policies[q], Combination) = Pick(f, Combination)
        /\ Meet(f, policies[q])

\* findApplicablePolicy, for the traveller of the request.
Matches(f, k) == f[k] # 0 /\ f[k] = traveller[k]
Score(f) ==
    IF Matches(f, "category") /\ Matches(f, "costs") THEN 4
    ELSE IF Matches(f, "category") THEN 3
    ELSE IF Matches(f, "costs") THEN 2
    ELSE IF f.category = 0 /\ f.costs = 0 THEN 1 ELSE 0
InForce(f) ==
    /\ f.active /\ f.from <= date /\ (f.to = 0 \/ date <= f.to)
    /\ f.scope \in {"any", traveller.scope} /\ Score(f) > 0
Before(f, g) == Score(f) > Score(g) \/ (Score(f) = Score(g) /\ f.from >= g.from)
Candidates == {policies[p] : p \in {q \in Written : InForce(policies[q])}}
\* The sort is stable on an unordered query: any of the first may come out.
Applicable == {f \in Candidates : \A g \in Candidates : Before(f, g)}

\* The policy by which a receipt of the request is judged.
PreviewLive ==                               \* mutant: the policies of today
    IF Applicable # {} THEN Applicable ELSE {NoPolicy}
Preview ==
    IF snapshot # NoPolicy THEN {snapshot}
    ELSE IF Applicable # {} THEN Applicable ELSE {NoPolicy}

--------------------------------------------------------------------------------
PolicyInit ==
    /\ policies = [p \in Policies |-> NoPolicy]
    /\ edits = [e \in Editors |-> NoEdit]
    /\ edited = 0
    /\ crowded = FALSE
    /\ date = 1
    /\ traveller = [category |-> 1, costs |-> 1, scope |-> "nacional"]
    /\ snapshot = NoPolicy
    /\ ruling = {}

\* ensureValidDates: an end that is left open is checked as the end it replaces.
InOrder(p, f) ==
    LET end == IF f.to = 0 /\ p \in Written THEN policies[p].to ELSE f.to
    IN  end = 0 \/ f.from <= end

\* createPolicy, and updatePolicy after it has read the row: which fields
\* are entered, and the row the others are taken from for the check.
BeginEdit(e) ==
    /\ edits[e] = NoEdit /\ edited < MaxEdits
    /\ edited' = edited + 1
    /\ \E p \in Policies, f \in Forms, F \in {Fields, Combination, {"from", "to"}, {"active"}} :
         /\ IF p \in Written THEN F # Fields
            ELSE F = Fields /\ f.active /\ p \notin {edits[d].policy : d \in Editing}
         /\ "from" \in F => InOrder(p, f)
         /\ LET merged == [k \in Fields |-> IF k \in F THEN f[k] ELSE policies[p][k]]
            IN  edits' = [edits EXCEPT ![e] =
                    [step |-> "check", policy |-> p, entered |-> Pick(f, F), merged |-> merged]]
    /\ crowded' = (crowded \/ Editing # {})
    /\ UNCHANGED <<policies, date, traveller, snapshot, ruling>>

CheckOverlap(e) ==
    /\ edits[e].step = "check"
    /\ edits' = [edits EXCEPT ![e] =
           IF Overlaps(@.policy, @.merged) THEN NoEdit ELSE [@ EXCEPT !.step = "write"]]
    /\ UNCHANGED <<policies, edited, crowded, date, traveller, snapshot, ruling>>

WritePolicy(e) ==
    /\ edits[e].step = "write"
    /\ LET p == edits[e].policy
           entered == edits[e].entered
       IN  policies' = [policies EXCEPT ![p] =
               [k \in Fields |-> IF k \in DOMAIN entered THEN entered[k] ELSE @[k]]]
    /\ edits' = [edits EXCEPT ![e] = NoEdit]
    /\ UNCHANGED <<edited, crowded, date, traveller, snapshot, ruling>>

\* Neither looks at other policies.
Deactivate(p) ==
    /\ p \in Written
    /\ policies' = [policies EXCEPT ![p].active = FALSE]
    /\ UNCHANGED <<edits, edited, crowded, date, traveller, snapshot, ruling>>

SetExpenseCaps(p) ==
    /\ p \in Written
    /\ \E f \in Forms : policies' = [policies EXCEPT ![p].cap = f.cap]
    /\ UNCHANGED <<edits, edited, crowded, date, traveller, snapshot, ruling>>

\* The request is submitted: its policy is frozen in the same transaction.
SubmitRequest ==
    /\ ruling = {} /\ Candidates # {}
    /\ \E f \in Applicable : snapshot' = f
    /\ ruling' = {f \in Candidates : \A g \in Candidates :
                     Score(g) <= Score(f) /\ (Score(g) = Score(f) => g.from <= f.from)}
    /\ UNCHANGED <<policies, edits, edited, crowded, date, traveller>>

NextDate ==
    /\ date < LastDate
    /\ date' = date + 1
    /\ UNCHANGED <<policies, edits, edited, crowded, traveller, snapshot, ruling>>

PolicyNext ==
    \/ \E e \in Editors : BeginEdit(e) \/ CheckOverlap(e) \/ WritePolicy(e)
    \/ \E p \in Policies : Deactivate(p) \/ SetExpenseCaps(p)
    \/ SubmitRequest
    \/ NextDate

PolicySpec == PolicyInit /\ [][PolicyNext]_policyVars

--------------------------------------------------------------------------------
PolicyTypeOK ==
    /\ \A p \in Written : DOMAIN policies[p] = Fields
    /\ \A e \in Editors : edits[e] # NoEdit => DOMAIN edits[e].merged = Fields
    /\ edited \in 0..MaxEdits /\ crowded \in BOOLEAN /\ date \in 1..LastDate

\* With one administrator at a time, whatever is created, moved, switched off and on
\* again, two active policies of one combination are never in force on one day.
NoOverlap ==
    ~crowded => \A p, q \in Written :
        p # q /\ policies[p].active /\ policies[q].active
              /\ Pick(policies[p], Combination) = Pick(policies[q], Combination)
            => ~Meet(policies[p], policies[q])

\* A receipt is judged by the most specific and most recent policy that was in force
\* when the request was submitted, however the policies were edited since.
NotRetroactive == ruling # {} => Preview \subseteq ruling
================================================================================
