----------------------------- MODULE RequestJourney -----------------------------
(***************************************************************************)
(* The journey of a request that the pages of applicants and approvers draw: *)
(* it is computed at every load from the status, the snapshot and the audit  *)
(* trail, whose rows do not say which step they are about.  Calls are one     *)
(* step here; what happens between their statements is in TravelRequest.      *)
(***************************************************************************)
EXTENDS Integers, Sequences, FiniteSets, Functions

CONSTANTS
    Reviewers,      \* users who decide, reassign or stand in
    Applicant,      \* the owner of the request
    LevelChoices,   \* sets of levels that the rules may give the request
    MaxTrail        \* bound: rows of the audit trail

ASSUME ApplicantAssumption == Applicant \notin Reviewers
ASSUME LevelChoicesAssumption == \A L \in LevelChoices : L # {} /\ L \subseteq 1..3
ASSUME MaxTrailAssumption == MaxTrail \in Nat

VARIABLES
    stage,          \* requestStatusId
    levels,         \* the levels of the snapshot, 1 and 2 before there is one
    needs,          \* what the routes need: a plane, a hotel
    trail,          \* solicitud_historial of the request, in order
    asked,          \* policy exceptions were asked for
    detours         \* what has happened that the page cannot tell

journeyVars == <<stage, levels, needs, trail, asked, detours>>

--------------------------------------------------------------------------------
\* approvalLevelsFromSnapshot and the status of each approval step, in order.
Shown(L) == IF L \intersect {1, 2} = {} THEN {1, 2} ELSE L \intersect {1, 2}
ReviewSteps ==
    (IF 1 \in Shown(levels) THEN <<2>> ELSE <<>>) \o (IF 2 \in Shown(levels) THEN <<3>> ELSE <<>>)

NeedsAgencyByPlane == "plane" \in needs      \* mutant: hotels are forgotten
\* routeNeedsAgency; the page of CxP computes the same by itself.
RouteNeedsAgency == needs # {}

\* buildJourneyStepDefinitions: a step is named by its status.
JourneySteps ==
    {1, 4, 6, 7, 8} \union Range(ReviewSteps) \union IF RouteNeedsAgency THEN {5} ELSE {}

\* What a filter of the trail keeps, as places in it, and the place of the n-th row kept.
PlacesOf(accion) == {j \in DOMAIN trail : trail[j].accion = accion}
Nth(accion, n) ==
    {j \in PlacesOf(accion) : Cardinality({k \in PlacesOf(accion) : k <= j}) = n}

FailedStepLast ==                            \* mutant: always the last review
    ReviewSteps[Len(ReviewSteps)]
\* inferFailedStepKey: the review after as many as there are approvals.
FailedStep ==
    LET approvals == Cardinality(PlacesOf("APROBADO"))
    IN  ReviewSteps[IF approvals < Len(ReviewSteps) THEN approvals + 1 ELSE Len(ReviewSteps)]

\* resolveStepStates.
StateOf(s) ==
    CASE stage = 9 -> IF s = 1 THEN "completed" ELSE "cancelled"
      [] stage = 10 -> IF s = FailedStep THEN "failed"
                       ELSE IF s < FailedStep THEN "completed" ELSE "cancelled"
      [] OTHER -> IF stage > s THEN "completed" ELSE IF stage = s THEN "current" ELSE "pending"

\* annotateStepsFromHistorial: the n-th approval belongs to the n-th review, and the
\* first rejection to the step that failed, or would have.
ActorAt(i) ==
    {trail[j].by : j \in IF PlacesOf("RECHAZADO") # {} /\ ReviewSteps[i] = FailedStep
                         THEN Nth("RECHAZADO", 1) ELSE Nth("APROBADO", i)}

--------------------------------------------------------------------------------
JourneyInit ==
    /\ stage = 1
    /\ levels = {1, 2}
    /\ needs \in SUBSET {"plane", "hotel"}
    /\ trail = <<>>
    /\ asked = FALSE
    /\ detours = {}

\* level is for the properties: the level a decision was taken at, or 0.
Record(accion, by, level) ==
    /\ Len(trail) < MaxTrail
    /\ trail' = Append(trail, [accion |-> accion, by |-> by, level |-> level])

\* Requests of approvers enter the flow late, whatever their levels.
SubmitJourney ==
    /\ stage = 1
    /\ levels' \in LevelChoices
    /\ stage' \in {3, 4} \union IF 1 \in levels' \/ 2 \notin levels' THEN {2} ELSE {}
    /\ detours' = detours \union {"jump" : n \in {n \in Shown(levels') : n + 1 < stage'}}
    /\ UNCHANGED <<needs, trail, asked>>

EditRoutes ==
    /\ stage \in {1, 2}
    /\ needs' \in SUBSET {"plane", "hotel"}
    /\ UNCHANGED <<stage, levels, trail, asked, detours>>

ApproveLevel(u) ==
    /\ stage \in {2, 3} /\ stage - 1 \in levels
    /\ stage' = IF stage = 2 /\ 2 \in levels THEN 3 ELSE 4
    /\ Record("APROBADO", u, stage - 1)
    /\ UNCHANGED <<levels, needs, asked, detours>>

DeclineLevel(u) ==
    /\ stage \in {2, 3} /\ stage - 1 \in levels
    /\ stage' = 10
    /\ Record("RECHAZADO", u, stage - 1)
    /\ UNCHANGED <<levels, needs, asked, detours>>

\* By the approver, or by the sweep in the name of the substitute.
ReassignLevel(u) ==
    /\ stage \in {2, 3}
    /\ Record("REASIGNADO", u, 0)
    /\ UNCHANGED <<stage, levels, needs, asked, detours>>

\* Over the approver's limit, or by the sweep.
EscalateLevel(u) ==
    /\ stage = 2
    /\ stage' = 3
    /\ Record("ESCALADO", u, 0)
    /\ detours' = detours \union {"jump"}
    /\ UNCHANGED <<levels, needs, asked>>

\* CxP, the agency, the applicant and the verdicts on receipts write no row.
ConfirmFee ==
    /\ stage = 4
    /\ stage' = IF "plane" \in needs \/ "hotel" \in needs THEN 5 ELSE 6
    /\ UNCHANGED <<levels, needs, trail, asked, detours>>

MoveOn ==
    /\ \/ stage = 5 /\ stage' = 6
       \/ stage = 6 /\ stage' = 7
       \/ stage \in {7, 8} /\ stage' \in {6, 8}
       \/ stage \in 1..5 /\ stage' = 9
    /\ UNCHANGED <<levels, needs, trail, asked, detours>>

\* The deadline lock writes its row as a rejection by the applicant.
LockJourney ==
    /\ stage \in 2..7
    /\ stage' = 8
    /\ Record("RECHAZADO", Applicant, 0)
    /\ detours' = detours \union {"rejection"}
    /\ UNCHANGED <<levels, needs, asked>>

\* With a receipt, which needs a request past its reviews.
AskException ==
    /\ stage \in 4..7 /\ ~asked
    /\ asked' = TRUE
    /\ UNCHANGED <<stage, levels, needs, trail, detours>>

\* A decision on a policy exception goes to the same trail.
RuleException(u) ==
    /\ asked
    /\ \E accion \in {"APROBADO", "RECHAZADO"} :
         /\ Record(accion, u, 0)
         /\ detours' = detours \union IF accion = "RECHAZADO" THEN {"rejection"} ELSE {}
    /\ UNCHANGED <<stage, levels, needs, asked>>

JourneyNext ==
    \/ SubmitJourney \/ EditRoutes \/ ConfirmFee \/ MoveOn \/ LockJourney \/ AskException
    \/ \E u \in Reviewers :
         \/ ApproveLevel(u) \/ DeclineLevel(u) \/ ReassignLevel(u) \/ EscalateLevel(u)
         \/ RuleException(u)

JourneySpec == JourneyInit /\ [][JourneyNext]_journeyVars

--------------------------------------------------------------------------------
JourneyTypeOK ==
    /\ stage \in 1..10 /\ asked \in BOOLEAN /\ levels \subseteq 1..3 /\ needs \subseteq {"plane", "hotel"}
    /\ \A r \in Range(trail) : r.by \in Reviewers \union {Applicant} /\ r.level \in 0..2
    /\ Len(trail) <= MaxTrail

\* As long as no review was jumped and nothing but a review was rejected: a review
\* that the page shows as completed, or as the one where the request failed, was
\* approved, or declined, at its own level by the user it names, and no other review
\* names anybody.  Neither reassignments nor approved exceptions mislead it.
ReviewersAreNamed ==
    detours = {} => \A i \in DOMAIN ReviewSteps :
        LET s == ReviewSteps[i]
            done == {r \in Range(trail) : r.level = s - 1}
        IN  /\ ActorAt(i) = {r.by : r \in done}
            /\ StateOf(s) = "completed" => \E r \in done : r.accion = "APROBADO"
            /\ (StateOf(s) = "failed") = (\E r \in done : r.accion = "RECHAZADO")

\* An open or finished request is in a step of its journey, whatever the routes were
\* when it was priced, unless it came to the second review without that level.
InAStep == stage \in 1..8 /\ (stage = 3 => 2 \in levels) => stage \in JourneySteps
================================================================================
