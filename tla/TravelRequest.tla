----------------------------- MODULE TravelRequest -----------------------------
(***************************************************************************)
(* The life of a travel request (table "Request"), from the draft to the   *)
(* closed trip, as every handler and cron job of apps/web writes it.        *)
(*                                                                         *)
(* The use cases of the slices read a request in one statement and write    *)
(* it in a later one that checks nothing: Prisma commits each of them on    *)
(* its own, the transaction of runInRls being opened on another client.     *)
(* So a handler is two actions here: a Begin... action reads, checks, and   *)
(* leaves in `calls` the write it has decided on; CommitWrite performs that *)
(* write on whatever the row has become.  A handler that is a single        *)
(* transaction, or that checks nothing, is one action.                      *)
(*                                                                         *)
(* Left to other modules: alerts and wallet (the rest of the Prisma         *)
(* trigger extension), receipts (here: whether one is undecided, and the    *)
(* verdict that reaches the request), policy exceptions (a pending one      *)
(* refuses an approval; the rows its decision adds to solicitud_historial   *)
(* are about the exception), routes, notifications.  A call refused by a    *)
(* guard changes nothing and is not a step.                                *)
(***************************************************************************)
EXTENDS Integers, FiniteSets

CONSTANTS
  Requests,          \* request ids
  Users, NoUser,     \* user ids, and the null of the nullable columns
  Role,              \* the role name of each user
  Fees,              \* requested fees (only comparisons with them matter)
  Covers,            \* Covers[u]: the fees within the maxApprovalAmount of u's role
  LevelsFor,         \* LevelsFor[f]: the approval levels the rules give fee f
  Approver,          \* Approver[u][k]: the approver of level k resolved for requester u
  Substitutes,       \* Substitutes[u]: who may stand in for approver u
  UseHierarchy,      \* WORKFLOW_APPROVAL_MODE = "hierarchy"
  Manager,           \* Manager[u][k]: the k-th manager above u, or NoUser
  UsersFollowPages,  \* users act only on the requests the pages list for them
  Callers,           \* bound: HTTP calls in flight, one per caller
  MaxInFlight,       \* bound: calls in flight, cron jobs included
  MaxEntries         \* bound: users write no audit row beyond this many

Status == 1..10
Draft == 1
FirstReview == 2
SecondReview == 3
Quote == 4
Agency == 5
Expenses == 6
Validation == 7
Finished == 8
Cancelled == 9
Rejected == 10
NoRequest == 0
Terminal == {Finished, Cancelled, Rejected}
Spending == {Quote, Agency, Expenses, Validation}
Pending == {FirstReview, SecondReview}

Jobs == {"escalation", "sweep", "deadline"}
Slots == Callers \cup Jobs
UserOrNull == Users \cup {NoUser}

Snapshots == [levels : SUBSET (1..3), n1 : UserOrNull, n2 : UserOrNull]
Rows == [accion : {"APROBADO", "RECHAZADO", "ESCALADO", "REASIGNADO"},
         usuario : UserOrNull, nivel : 0..2,
         motivo : {"actor", "inactividad", "48h", "plazo"}]
Calls == [slot : Slots, req : Requests, step : {"write", "anticipo", "cierre", "receipt"},
          to : Status, rows : SUBSET Rows, org : BOOLEAN, snap : Snapshots,
          trip : BOOLEAN, then : {"end", "write", "anticipo", "cierre"}]

ASSUME NoUserAssumption == NoUser \notin Users
ASSUME RoleAssumption == Role \in [Users -> {"Solicitante", "N1", "N2", "Otro"}]
ASSUME CoversAssumption == Covers \in [Users -> SUBSET Fees]
ASSUME LevelsAssumption ==
  LevelsFor \in [Fees -> (SUBSET (1..3)) \ {{}}]
ASSUME ApproverAssumption ==
  /\ Approver \in [Users -> [1..2 -> UserOrNull]]
  /\ Manager \in [Users -> [1..2 -> UserOrNull]]
  /\ Substitutes \in [Users -> SUBSET Users]
ASSUME ModeAssumption == UseHierarchy \in BOOLEAN /\ UsersFollowPages \in BOOLEAN
ASSUME BoundAssumption == MaxInFlight \in Nat /\ MaxEntries \in Nat
ASSUME FeesAssumption == Fees # {}

VARIABLES
  status,     \* requestStatusId, NoRequest while the row does not exist
  owner,      \* userId of the request
  fee,        \* requestedFee
  snap,       \* workflowPreSnapshot: levels, n1UserId, n2UserId
  active,     \* the active column
  historial,  \* rows of solicitud_historial about the request, without multiplicity
  poliza,     \* phases that have an anticipo_poliza_snapshot
  trip,       \* tripEndDate plus grace: "open" or "passed"; "none" without a date,
              \* or when the organisation does not block on expiry
  stale,      \* lastModDate is more than 48 hours old
  undecided,  \* the request has a receipt that nobody has decided on
  calls,      \* writes decided on by calls in flight
  up          \* the web process is running

request == <<status, owner, fee, snap, active, historial, poliza, trip, stale>>
vars == <<status, owner, fee, snap, active, historial, poliza, trip, stale,
          undecided, calls, up>>

-----------------------------------------------------------------------------
(* The pre-approval snapshot and what the handlers read from it. *)

\* A request saved as a draft has no snapshot: readers default to levels 1 and 2.
NoSnapshot == [levels |-> {1, 2}, n1 |-> NoUser, n2 |-> NoUser]

\* In a write: the column is not part of the patch.
KeepSnapshot == [levels |-> {}, n1 |-> NoUser, n2 |-> NoUser]

BuildSnapshot(u, f) ==
  LET levels == LevelsFor[f]
  IN  [levels |-> levels,
       n1 |-> IF 1 \in levels THEN Approver[u][1] ELSE NoUser,
       n2 |-> IF 2 \in levels THEN Approver[u][2] ELSE NoUser]

InitialStatusFromLevels(levels) ==
  IF 1 \notin levels /\ 2 \in levels THEN SecondReview ELSE FirstReview

\* Mutant: the second level is never asked.
StatusAfterN1Skipping(levels) == Quote

StatusAfterN1(levels) == IF 2 \in levels THEN SecondReview ELSE Quote

MaySubmit(u) == Role[u] \in {"Solicitante", "N1", "N2"}

\* The status in which u's request enters the flow.
SubmittedStatus(u, f) ==
  CASE Role[u] = "N1" -> SecondReview
    [] Role[u] = "N2" -> Quote
    [] OTHER -> InitialStatusFromLevels(LevelsFor[f])

Tier(r) == status[r] - 1

Designated(r) == IF Tier(r) = 1 THEN snap[r].n1 ELSE snap[r].n2

MatchesTier(r, u) ==
  IF Designated(r) # NoUser
  THEN Designated(r) = u
  ELSE Role[u] = (IF Tier(r) = 1 THEN "N1" ELSE "N2")

CanActOnTier(r, u) ==
  IF UseHierarchy /\ Manager[owner[r]][Tier(r)] # NoUser
  THEN Manager[owner[r]][Tier(r)] = u
  ELSE MatchesTier(r, u)

-----------------------------------------------------------------------------
(* Calls in flight. *)

CanRun == up /\ Cardinality(calls) < MaxInFlight

Free(s) == CanRun /\ \A c \in calls : c.slot # s

\* Page p of the web app lists (and offers its action on) requests in S only.
\* The handlers behind these pages do not check the status themselves.
OnPage(r, S) ==
  /\ status[r] # NoRequest
  /\ UsersFollowPages => status[r] \in S

Entry(accion, u, nivel, motivo) ==
  [accion |-> accion, usuario |-> u, nivel |-> nivel, motivo |-> motivo]

\* Room for one more row of a user in the audit trail of r.
MayLog(r) == Cardinality(historial[r]) < MaxEntries

\* A plain status update: no audit row, no snapshot, nothing after it.
StatusWrite(s, r, to) ==
  [slot |-> s, req |-> r, step |-> "write", to |-> to, rows |-> {}, org |-> TRUE,
   snap |-> KeepSnapshot, trip |-> FALSE, then |-> "end"]

\* applyWorkflowAction: the status and one audit row in one transaction.
WorkflowWrite(s, r, to, row) == [StatusWrite(s, r, to) EXCEPT !.rows = {row}]

Launch(c) == calls' = calls \cup {c} /\ UNCHANGED <<request, up>>

Begin(c) == Launch(c) /\ UNCHANGED undecided

-----------------------------------------------------------------------------
(* Mutants: each is an action below with one plausible bug in it.  No part of *)
(* the specification uses them; the runs show which property each one breaks. *)

\* Any open request is cancelled, as in the list of a naive page.
BeginCancelLate(s, r, legacy) ==
  /\ Free(s)
  /\ status[r] \in {Draft, FirstReview, SecondReview, Quote, Agency, Expenses}
  /\ Begin([StatusWrite(s, r, Cancelled)
              EXCEPT !.then = IF legacy THEN "write" ELSE "end"])

\* Receipts handed in without a look at the status of the request.
BeginSubmitReceiptsEarly(s, r) ==
  /\ Free(s)
  /\ status[r] # NoRequest
  /\ Begin(StatusWrite(s, r, Validation))

\* The limit of the approver is not compared with the fee.
BeginApproveUnlimited(s, r, u) ==
  /\ Free(s) /\ MayLog(r)
  /\ status[r] \in Pending
  /\ CanActOnTier(r, u) /\ Tier(r) \in snap[r].levels
  /\ LET to == IF Tier(r) = 1 THEN StatusAfterN1(snap[r].levels) ELSE Quote
     IN  Begin([WorkflowWrite(s, r, to, Entry("APROBADO", u, Tier(r), "actor"))
                  EXCEPT !.then = IF to = Quote THEN "anticipo" ELSE "end"])

\* The advance poliza goes out before the approval is written.
BeginApprovePayingFirst(s, r, u) ==
  /\ Free(s) /\ MayLog(r)
  /\ status[r] \in Pending
  /\ CanActOnTier(r, u) /\ Tier(r) \in snap[r].levels
  /\ fee[r] \in Covers[u]
  /\ LET to == IF Tier(r) = 1 THEN StatusAfterN1(snap[r].levels) ELSE Quote
     IN  Begin([WorkflowWrite(s, r, to, Entry("APROBADO", u, Tier(r), "actor"))
                  EXCEPT !.step = IF to = Quote THEN "anticipo" ELSE "write"])

\* The status id goes to the audit trail in place of the level.
BeginRejectLoggingStatus(s, r, u) ==
  /\ Free(s) /\ MayLog(r)
  /\ status[r] \in Pending
  /\ Role[u] \in {"N1", "N2"}
  /\ CanActOnTier(r, u)
  /\ ~UseHierarchy => Tier(r) \in snap[r].levels
  /\ Begin(WorkflowWrite(s, r, Rejected, Entry("RECHAZADO", u, status[r], "actor")))

\* The fee is confirmed whatever the status of the request.
BeginConfirmFeeUnchecked(s, r, needsAgency) ==
  /\ Free(s)
  /\ status[r] # NoRequest
  /\ Begin(StatusWrite(s, r, IF needsAgency THEN Agency ELSE Expenses))

\* The sweep forgets requests whose approver has no substitute.
BeginSweepSubstitutesOnly(r) ==
  /\ Free("sweep")
  /\ status[r] \in Pending /\ stale[r]
  /\ Designated(r) # NoUser
  /\ \E sub \in Substitutes[Designated(r)] :
       /\ Role[sub] \in {"N1", "N2"}
       /\ Begin([WorkflowWrite("sweep", r, status[r],
                               Entry("REASIGNADO", sub, Tier(r), "inactividad"))
                  EXCEPT !.snap = IF Tier(r) = 1 THEN [snap[r] EXCEPT !.n1 = sub]
                                                 ELSE [snap[r] EXCEPT !.n2 = sub]])

\* The substitute takes over without a row in the audit trail.
SweepReassignSilently(r, sub) ==
  [StatusWrite("sweep", r, status[r])
     EXCEPT !.snap = IF Tier(r) = 1 THEN [snap[r] EXCEPT !.n1 = sub]
                                    ELSE [snap[r] EXCEPT !.n2 = sub]]

\* The lock only looks at trips whose expenses are being claimed.
BeginDeadlineLockClaims(r) ==
  /\ Free("deadline")
  /\ status[r] \in {Expenses, Validation}
  /\ trip[r] = "passed"
  /\ Begin(WorkflowWrite("deadline", r, Finished, Entry("RECHAZADO", owner[r], 0, "plazo")))

\* Only a cancellation clears active.
DeactivatesCancelledOnly(to) == to = Cancelled

-----------------------------------------------------------------------------
(* The applicant: single transactions. *)

CreateRequest(r, u, f) ==
  /\ CanRun
  /\ status[r] = NoRequest /\ MaySubmit(u)
  /\ status' = [status EXCEPT ![r] = SubmittedStatus(u, f)]
  /\ owner' = [owner EXCEPT ![r] = u]
  /\ fee' = [fee EXCEPT ![r] = f]
  /\ snap' = [snap EXCEPT ![r] = BuildSnapshot(u, f)]
  /\ \E t \in {"none", "open"} : trip' = [trip EXCEPT ![r] = t]
  /\ UNCHANGED <<active, historial, poliza, stale, undecided, calls, up>>

CreateDraft(r, u, f) ==
  /\ CanRun
  /\ status[r] = NoRequest
  /\ status' = [status EXCEPT ![r] = Draft]
  /\ owner' = [owner EXCEPT ![r] = u]
  /\ fee' = [fee EXCEPT ![r] = f]
  /\ UNCHANGED <<snap, active, historial, poliza, trip, stale, undecided, calls, up>>

\* The new fee does not rebuild the snapshot taken when the request was submitted.
EditRequest(r, f) ==
  /\ CanRun
  /\ OnPage(r, {Draft, FirstReview})
  /\ fee' = [fee EXCEPT ![r] = f]
  /\ stale' = [stale EXCEPT ![r] = FALSE]
  /\ UNCHANGED <<status, owner, snap, active, historial, poliza, trip, undecided, calls, up>>

-----------------------------------------------------------------------------
(* The applicant: read, then write. *)

BeginConfirmDraft(s, r, u) ==
  /\ Free(s)
  /\ OnPage(r, {Draft}) /\ MaySubmit(u)
  /\ UsersFollowPages => u = owner[r]
  /\ Begin([StatusWrite(s, r, SubmittedStatus(u, fee[r]))
              EXCEPT !.snap = BuildSnapshot(u, fee[r]), !.trip = TRUE])

\* The legacy endpoint validates, cancels, and then cancels once more.
BeginCancel(s, r, legacy) ==
  /\ Free(s)
  /\ status[r] \in {Draft, FirstReview, SecondReview, Quote, Agency}
  /\ Begin([StatusWrite(s, r, Cancelled)
              EXCEPT !.then = IF legacy THEN "write" ELSE "end"])

\* assertRequestAllowsReceiptUpload; the rest of an upload is in ExpenseClaim.
BeginUpload(s, r) ==
  /\ Free(s)
  /\ status[r] \in Spending
  /\ trip[r] # "passed"
  /\ Begin([StatusWrite(s, r, status[r]) EXCEPT !.step = "receipt"])

BeginSubmitReceipts(s, r) ==
  /\ Free(s)
  /\ status[r] = Expenses
  /\ Begin(StatusWrite(s, r, Validation))

-----------------------------------------------------------------------------
(* The approvers. *)

BeginApprove(s, r, u) ==
  /\ Free(s) /\ MayLog(r)
  /\ status[r] \in Pending
  /\ CanActOnTier(r, u) /\ Tier(r) \in snap[r].levels
  /\ fee[r] \in Covers[u]
  /\ LET to == IF Tier(r) = 1 THEN StatusAfterN1(snap[r].levels) ELSE Quote
     IN  Begin([WorkflowWrite(s, r, to, Entry("APROBADO", u, Tier(r), "actor"))
                  EXCEPT !.then = IF to = Quote THEN "anticipo" ELSE "end"])

\* The fee is over the limit of the first approver: the second one decides.
BeginEscalateOverLimit(s, r, u) ==
  /\ Free(s) /\ MayLog(r)
  /\ status[r] = FirstReview
  /\ CanActOnTier(r, u) /\ {1, 2} \subseteq snap[r].levels
  /\ fee[r] \notin Covers[u]
  /\ Begin(WorkflowWrite(s, r, SecondReview, Entry("ESCALADO", u, 1, "actor")))

BeginReject(s, r, u) ==
  /\ Free(s) /\ MayLog(r)
  /\ status[r] \in Pending
  /\ Role[u] \in {"N1", "N2"}
  /\ CanActOnTier(r, u)
  /\ ~UseHierarchy => Tier(r) \in snap[r].levels
  /\ Begin(WorkflowWrite(s, r, Rejected, Entry("RECHAZADO", u, Tier(r), "actor")))

\* The snapshot read, with the new approver, and the status read are written back.
BeginReassign(s, r, u, target) ==
  /\ Free(s) /\ MayLog(r)
  /\ status[r] \in Pending
  /\ target # u /\ Role[target] \in {"N1", "N2"}
  /\ MatchesTier(r, u) /\ Tier(r) \in snap[r].levels
  /\ Begin([WorkflowWrite(s, r, status[r], Entry("REASIGNADO", u, Tier(r), "actor"))
              EXCEPT !.snap = IF Tier(r) = 1 THEN [snap[r] EXCEPT !.n1 = target]
                                             ELSE [snap[r] EXCEPT !.n2 = target]])

-----------------------------------------------------------------------------
(* Accounts payable and the travel agency. *)

\* Agency when a route needs a plane or a hotel.
BeginConfirmFee(s, r, needsAgency) ==
  /\ Free(s)
  /\ status[r] = Quote
  /\ Begin(StatusWrite(s, r, IF needsAgency THEN Agency ELSE Expenses))

BeginMarkAttended(s, r) ==
  /\ Free(s)
  /\ OnPage(r, {Agency})
  /\ Begin(StatusWrite(s, r, Expenses))

\* A receipt is decided: back to the applicant if one is rejected, finished if
\* all are approved.  The page of CxP lists finished requests too, and offers the
\* receipts on them that are undecided.
BeginReceiptSync(s, r, allApproved) ==
  /\ Free(s)
  /\ OnPage(r, {Validation, Finished})
  /\ UsersFollowPages => undecided[r] /\ (allApproved => trip[r] # "passed")
  /\ \E left \in {FALSE, undecided[r] /\ ~allApproved} :
       undecided' = [undecided EXCEPT ![r] = left]
  /\ Launch(IF allApproved THEN [StatusWrite(s, r, Finished) EXCEPT !.then = "cierre"]
                           ELSE StatusWrite(s, r, Expenses))

-----------------------------------------------------------------------------
(* The cron jobs, one candidate of their batch at a time. *)

\* escalationJob inserts its audit row without organizationId: it runs outside
\* any tenant context, so the Prisma extension cannot add it either.
BeginEscalation(r) ==
  /\ Free("escalation")
  /\ status[r] = FirstReview /\ stale[r]
  /\ 2 \in snap[r].levels
  /\ Begin([WorkflowWrite("escalation", r, SecondReview,
              Entry("ESCALADO", IF snap[r].n2 # NoUser THEN snap[r].n2 ELSE owner[r], 1, "48h"))
              EXCEPT !.org = FALSE])

SweepReassign(r, sub) ==
  [WorkflowWrite("sweep", r, status[r], Entry("REASIGNADO", sub, Tier(r), "inactividad"))
     EXCEPT !.snap = IF Tier(r) = 1 THEN [snap[r] EXCEPT !.n1 = sub]
                                    ELSE [snap[r] EXCEPT !.n2 = sub]]

SweepEscalate(r) ==
  WorkflowWrite("sweep", r, SecondReview, Entry("ESCALADO", Designated(r), 1, "inactividad"))

\* processStaleApprovals: to the substitute whose dates cover today, if there is
\* one (in \E: the dates are not modelled), or else to the second approver.
BeginSweep(r) ==
  /\ Free("sweep")
  /\ status[r] \in Pending /\ stale[r]
  /\ Designated(r) # NoUser
  /\ \/ \E sub \in Substitutes[Designated(r)] :
          /\ Role[sub] \in {"N1", "N2"}
          /\ Begin(SweepReassign(r, sub))
     \/ /\ status[r] = FirstReview
        /\ Begin(SweepEscalate(r))

BeginDeadlineLock(r) ==
  /\ Free("deadline")
  /\ status[r] \notin Terminal \cup {NoRequest}
  /\ trip[r] = "passed"
  /\ Begin(WorkflowWrite("deadline", r, Finished, Entry("RECHAZADO", owner[r], 0, "plazo")))

-----------------------------------------------------------------------------
(* What a call in flight does next. *)

\* The row as request.update leaves it; the trigger extension clears active.
Deactivates(to) == to \in {Cancelled, Rejected}

CommitWrite(c) ==
  /\ c.step = "write" /\ c.org
  /\ status' = [status EXCEPT ![c.req] = c.to]
  /\ active' = [active EXCEPT ![c.req] = @ /\ ~Deactivates(c.to)]
  /\ historial' = [historial EXCEPT ![c.req] = @ \cup c.rows]
  /\ snap' = [snap EXCEPT ![c.req] = IF c.snap = KeepSnapshot THEN @ ELSE c.snap]
  /\ \E t \in IF c.trip THEN {trip[c.req], "open"} ELSE {trip[c.req]} :
       trip' = [trip EXCEPT ![c.req] = t]
  /\ stale' = [stale EXCEPT ![c.req] = FALSE]
  /\ calls' = (calls \ {c}) \cup
       (IF c.then = "end" THEN {} ELSE {[c EXCEPT !.step = c.then, !.then = "end"]})
  /\ UNCHANGED <<owner, fee, poliza, undecided, up>>

\* solicitud_historial.organization_id is NOT NULL: the transaction rolls back.
AbortWrite(c) ==
  /\ c.step = "write" /\ ~c.org
  /\ calls' = calls \ {c}
  /\ UNCHANGED <<request, undecided, up>>

\* A zero fee emits nothing, and an error is logged and dropped.
EmitPoliza(c) ==
  /\ c.step \in {"anticipo", "cierre"}
  /\ \E p \in {{}, {c.step}} : poliza' = [poliza EXCEPT ![c.req] = @ \cup p]
  /\ calls' = calls \ {c}
  /\ UNCHANGED <<status, owner, fee, snap, active, historial, trip, stale, undecided, up>>

\* createExpenseBatch inserts the row of the receipt.
FileReceipt(c) ==
  /\ c.step = "receipt"
  /\ undecided' = [undecided EXCEPT ![c.req] = TRUE]
  /\ calls' = calls \ {c}
  /\ UNCHANGED <<request, up>>

Advance(c) == CommitWrite(c) \/ AbortWrite(c) \/ EmitPoliza(c) \/ FileReceipt(c)

\* The process dies: the calls in flight are lost, committed writes are not.
Crash ==
  /\ up /\ up' = FALSE
  /\ calls' = {}
  /\ UNCHANGED <<request, undecided>>

\* Nothing in the start-up looks for interrupted work.
Restart ==
  /\ ~up /\ up' = TRUE
  /\ UNCHANGED <<request, undecided, calls>>

-----------------------------------------------------------------------------
(* Time. *)

FortyEightHours(r) ==
  /\ status[r] \in Pending /\ ~stale[r]
  /\ stale' = [stale EXCEPT ![r] = TRUE]
  /\ UNCHANGED <<status, owner, fee, snap, active, historial, poliza, trip, undecided, calls, up>>

DeadlinePasses(r) ==
  /\ trip[r] = "open"
  /\ trip' = [trip EXCEPT ![r] = "passed"]
  /\ UNCHANGED <<status, owner, fee, snap, active, historial, poliza, stale, undecided, calls, up>>

-----------------------------------------------------------------------------
Init ==
  /\ status = [r \in Requests |-> NoRequest]
  /\ owner = [r \in Requests |-> NoUser]
  /\ fee \in [Requests -> {CHOOSE f \in Fees : TRUE}]
  /\ snap = [r \in Requests |-> NoSnapshot]
  /\ active = [r \in Requests |-> TRUE]
  /\ historial = [r \in Requests |-> {}]
  /\ poliza = [r \in Requests |-> {}]
  /\ trip = [r \in Requests |-> "none"]
  /\ stale = [r \in Requests |-> FALSE]
  /\ undecided = [r \in Requests |-> FALSE]
  /\ calls = {} /\ up = TRUE

ApplicantStep(r) ==
  \/ \E u \in Users, f \in Fees : CreateRequest(r, u, f) \/ CreateDraft(r, u, f)
  \/ \E f \in Fees : EditRequest(r, f)
  \/ \E s \in Callers :
       \/ \E u \in Users : BeginConfirmDraft(s, r, u)
       \/ \E legacy \in BOOLEAN : BeginCancel(s, r, legacy)
       \/ BeginUpload(s, r)
       \/ BeginSubmitReceipts(s, r)

ApproverStep(r) ==
  \E s \in Callers, u \in Users :
    \/ BeginApprove(s, r, u)
    \/ BeginEscalateOverLimit(s, r, u)
    \/ BeginReject(s, r, u)
    \/ \E target \in Users : BeginReassign(s, r, u, target)

BackOfficeStep(r) ==
  \E s \in Callers :
    \/ \E needsAgency \in BOOLEAN : BeginConfirmFee(s, r, needsAgency)
    \/ BeginMarkAttended(s, r)
    \/ \E allApproved \in BOOLEAN : BeginReceiptSync(s, r, allApproved)

JobStep(r) == BeginEscalation(r) \/ BeginSweep(r) \/ BeginDeadlineLock(r)

TimeStep(r) == FortyEightHours(r) \/ DeadlinePasses(r)

Next ==
  \/ \E r \in Requests :
       ApplicantStep(r) \/ ApproverStep(r) \/ BackOfficeStep(r) \/ JobStep(r) \/ TimeStep(r)
  \/ \E c \in calls : Advance(c)
  \/ Crash \/ Restart

Spec == Init /\ [][Next]_vars

\* node-cron fires each job again and again while the process is up, and every
\* statement of a call in flight returns.  Users and time owe nothing.
Fairness ==
  /\ \A r \in Requests :
       WF_vars(BeginEscalation(r)) /\ WF_vars(BeginSweep(r)) /\ WF_vars(BeginDeadlineLock(r))
  /\ \A s \in Slots : WF_vars(\E c \in calls : c.slot = s /\ Advance(c))

FairSpec == Spec /\ Fairness

-----------------------------------------------------------------------------
(* Properties. *)

\* Every variable has its type; in particular a call in flight writes one of the
\* ten statuses, and never takes a request back to the draft.
TypeOK ==
  /\ status \in [Requests -> Status \cup {NoRequest}]
  /\ owner \in [Requests -> UserOrNull]
  /\ fee \in [Requests -> Fees]
  /\ snap \in [Requests -> Snapshots]
  /\ active \in [Requests -> BOOLEAN]
  /\ historial \in [Requests -> SUBSET Rows]
  /\ poliza \in [Requests -> SUBSET {"anticipo", "cierre"}]
  /\ trip \in [Requests -> {"none", "open", "passed"}]
  /\ stale \in [Requests -> BOOLEAN]
  /\ undecided \in [Requests -> BOOLEAN]
  /\ calls \subseteq Calls
  /\ up \in BOOLEAN

ApprovalOnRecord(r) == \E row \in historial[r] : row.accion = "APROBADO"
TopApprovalOnRecord(r) ==
  \E row \in historial[r] : row.accion = "APROBADO" /\ row.nivel = 2
DeclineOnRecord(r) ==
  \E row \in historial[r] : row.accion = "RECHAZADO" /\ row.motivo = "actor"

\* The requests of a second-level approver enter the flow in Quote.
NeedsNoApproval(r) == owner[r] # NoUser /\ Role[owner[r]] = "N2"

\* Whatever calls cross each other, a request on which money is being committed
\* (quote, agency, expenses, their validation) has been approved by somebody, and
\* the audit trail says so: no stale write of CxP, the agency, the applicant or a
\* job moves a request past its review.
SpendingNeedsApproval ==
  \A r \in Requests :
    status[r] \in Spending => ApprovalOnRecord(r) \/ NeedsNoApproval(r)

\* Where the rules ask for the second level whatever the fee, the approval on
\* record is one of the second level: a first-level approval, a reassignment or a
\* sweep written late never replaces it.
SecondLevelSignsOff ==
  (\A f \in Fees : 2 \in LevelsFor[f]) =>
    \A r \in Requests :
      status[r] \in Spending => TopApprovalOnRecord(r) \/ NeedsNoApproval(r)

\* The advance poliza is only issued for a request whose approval is committed,
\* though it is emitted by a later statement of the approving call.
AdvanceNeedsApproval ==
  \A r \in Requests : "anticipo" \in poliza[r] => ApprovalOnRecord(r)

\* A declined request is never active again, not even when a write decided on
\* before the decline lands after it and moves the status on.
DeclinedStaysInactive ==
  \A r \in Requests : DeclineOnRecord(r) => ~active[r]

\* A request shown as rejected has, in the audit trail, the decline of an approver
\* (and not just the automatic closing of a trip, which is also a RECHAZADO row).
RejectionOnRecord ==
  \A r \in Requests : status[r] = Rejected => DeclineOnRecord(r)

ReassignedOnRecord(r, k) ==
  \E row \in historial[r] : row.accion = "REASIGNADO" /\ row.nivel = k

\* Who may decide on review k of r, as far as the organisation and the trail tell: the
\* manager, the approver resolved for the owner, anybody with the role of the tier if
\* there is none (or the tier is not among the levels, in hierarchy mode), and after a
\* reassignment on record whoever got the review.
Entitled(r, u, k) ==
  \/ UseHierarchy /\ Manager[owner[r]][k] = u
  \/ Approver[owner[r]][k] = u
  \/ /\ Approver[owner[r]][k] = NoUser \/ UseHierarchy
     /\ Role[u] = (IF k = 1 THEN "N1" ELSE "N2")
  \/ ReassignedOnRecord(r, k)

\* Every approval and every decline in the trail is by somebody entitled to it, for
\* reasons that the trail shows: snapshots are rewritten as a whole by reassignments,
\* the sweep and confirmations that read them long before, and none of these gets
\* anybody a review without a row about it.
SignedByEntitled ==
  \A r \in Requests : \A row \in historial[r] :
    row.accion \in {"APROBADO", "RECHAZADO"} /\ row.motivo = "actor" =>
      Entitled(r, row.usuario, row.nivel)

\* An approval is recorded only while the fee is within the limit of the approver
\* who signs it.  Holds when calls do not overlap; an edit between the read and
\* the write of an approval breaks it.
ApprovalWithinLimit ==
  [][\A r \in Requests : \A row \in historial'[r] \ historial[r] :
       row.accion = "APROBADO" => fee[r] \in Covers[row.usuario]]_vars

\* A request is cancelled only before the travel agency has attended it
\* (cancelTravelRequest.ts).  Holds when calls do not overlap.
CancelledBeforeExpenses ==
  [][\A r \in Requests :
       status'[r] = Cancelled /\ status[r] # Cancelled =>
         status[r] \in {Draft, FirstReview, SecondReview, Quote, Agency}]_vars

\* A request waits in the second review only if its rules have a second level:
\* without one nobody may approve it there (escalationJob.js, "sin N2 configurado,
\* no se puede escalar").
SecondReviewHasLevel ==
  \A r \in Requests : status[r] = SecondReview => 2 \in snap[r].levels

\* The process crashes finitely often and is started again after the last time.
StaysUp == <>[]up

\* A request whose time to claim expenses has run out ends, whatever calls on it
\* are in flight, unless a confirmation gives it a new date.
ExpiredTripsEnd ==
  StaysUp => \A r \in Requests :
    status[r] \in 2..7 /\ trip[r] = "passed"
      ~> status[r] \in Terminal \/ trip[r] # "passed"

\* A first review with a second level to go to, unanswered for 48 hours, is not
\* left where it is: a job hands it up or to a substitute.
UnansweredReviewsMove ==
  StaysUp => \A r \in Requests :
    status[r] = FirstReview /\ stale[r] /\ 2 \in snap[r].levels
      ~> status[r] # FirstReview \/ ~stale[r]

\* The promised lifecycle, with what a reader of the audit trail knows.
Promise == INSTANCE TravelLifecycle WITH
  stage <- status,
  approved <- [r \in Requests |-> ApprovalOnRecord(r) \/ NeedsNoApproval(r)]

\* When calls do not overlap, every step of every handler and job is a step of the
\* promised lifecycle: cancelled and rejected requests stay so, reviews end in an
\* approval, a decline, a cancellation or the second review, and nothing is skipped.
KeepsPromise == Promise!Spec
=============================================================================
