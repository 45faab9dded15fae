# Formal model of Coco

TLA+ specifications of the travel-request workflow of `apps/web`, model-checked with TLC
and, where it matters most, proved with TLAPS.  Paths below are relative to the repository;
`contexts/` stands for `src/apps/web/app/contexts/`, `platform/` for
`src/apps/web/app/platform/`.

## 1. The system and its parts

Coco is a multi-tenant web application (React Router 7, Prisma, PostgreSQL, GridFS for files).
An employee asks for a trip; approvers of one or two levels decide; accounts payable (CxP) fixes
the budget; the travel agency books; the employee claims the expenses with receipts; CxP checks
each receipt against the tax authority (SAT) and the request is finished.  The ten values of
`Request.request_status_id` are the spine of the program:

    1 Borrador   2 Primera Revisión   3 Segunda Revisión   4 Cotización   5 Agencia
    6 Comprobación   7 Validación   8 Finalizado   9 Cancelado   10 Rechazado

| component | state it keeps | operations | correct when |
|---|---|---|---|
| travel requests (`contexts/travel-requests`) | `Request`, `Route` | create, draft, confirm, edit, cancel, hand in receipts | nothing is skipped; no cancellation after the agency; closed stays closed |
| approvals (`contexts/approvals`) | `workflowPreSnapshot`, `solicitud_historial` | approve, reject, reassign, hand up over the limit | money only after an approval on record; limits respected; a decline sticks |
| substitutes (`approvalSubstituteService.ts`) | `approval_substitutes` | register, hourly sweep of stale reviews | an unanswered review moves, and only to somebody who may decide it |
| workflow engine (`contexts/workflow`) | `workflow_rules` | levels of a request, entry status, next status | levels are an interval; each level has somebody who can act |
| cron jobs (`platform/scheduler`) | none | 48-hour escalation, closing of expired trips | idempotent; every expired trip ends |
| refunds (`contexts/refunds`) | `tripEndDate`, time limits | lock expired, check a deadline | no receipt after the lock |
| accounts payable (`contexts/accounts-payable`) | `imposedFee`, polizas | confirm the fee, sync after a verdict, export | the wallet balances; a poliza is issued and exported once |
| travel agency (`contexts/travel-agency`) | none | mark attended | only from status 5 |
| expense claim (`contexts/receipts-cfdi`) | `Receipt`, `cfdi_comprobantes`, files | upload, resubmit, decide | finished means every receipt approved; one decision per receipt; each CFDI once |
| accounting export (`accountingExportService.ts`) | `AccountingPoliza`, `Request.isExported` | export a trip or a period, preview, nightly batch | debits equal credits; what is marked is booked, once |
| domain triggers (`platform/db/trigger-extension.server.ts`) | `User.wallet`, `Alert`, `Request.active` | run around `request.update`, `receipt.update` | wallet moved once per decision; alerts match the status |
| policies (`contexts/policies`) | `TravelPolicy`, `Request.policySnapshot`, `policy_exceptions` | edit, freeze, preview; ask for and decide an exception | one policy per day and combination; never retroactive; decided by whoever is designated |
| onboarding (`contexts/onboarding`), users (`contexts/identity`) | `User`, previews in memory | preview, apply, forms | chains of superiors never go round; success means complete |
| roles (`platform/permissions`, `shared/ui/RolesAdmin.tsx`) | `Role`, `RolePermission`, what a browser shows | create, change, delete, assign | a role permits what was ticked; somebody may manage roles |
| journey (`solicitudJourneyService.ts`) | none | drawn at every load | names who decided which review |
| tenant context (`src/packages/db`) | session settings of pooled connections | set, scope | a statement only sees its own organisation |

They interact through the database: no component calls another inside one transaction, except
the audit row written with a status (`applyWorkflowAction`).  Use cases of the hexagonal slices
read with one statement and write with a later one.  `runInRls` opens a transaction, but the
adapters use the global client, so the reads and writes of a use case commit separately
(`platform/session/requireUser.server.ts:214-236`, `PrismaAuthorizerRepository.ts:27,76`).

What is hard here, and listed line by line as `hazards` in `PROJECT.json`:

* read-check-write without a lock or a condition in the `WHERE` (approve, reject, reassign,
  cancel, confirm fee, hand in, decide a receipt, decide an exception);
* triggers that read the old row, update, and then move money, in three commits;
* three cron jobs over the same requests as the users, with lists read long before they are used;
* multi-step uploads over a row, its CFDI and a file store, with best-effort clean-up;
* what was read goes stale before it is written: the preview of an import, the form of a role, the
  receipts of an export, the overlap check of a policy, the old row of a trigger;
* a crash anywhere: nothing at start-up looks for interrupted work.

## 2. Modules

| module | what it is |
|---|---|
| `TravelRequest` | every write of a travel request by every handler and job; its properties |
| `TravelLifecycle` | the abstract specification: the journey of a request with one call at a time |
| `MCTravelRequest` | the small organisation in which TLC explores `TravelRequest` |
| `TravelRequestProofs` | theorems about `TravelRequest`, for every value of its constants |
| `ExpenseClaim` | the receipts of one request, statement by statement: upload, replacement, CFDI, decision, wallet, status |
| `ReceiptLedger` | the abstract specification: what becomes of a receipt and of the claim with one call at a time |
| `MCExpenseClaim` | the callers and invoices with which TLC explores `ExpenseClaim` |
| `ExpenseClaimProofs` | theorems about `ExpenseClaim`, for any number of callers, receipts, invoices and calls in flight |
| `RequestAlerts` | the client extension around each update of a request: alerts and the imposed fee |
| `AccountingExport` | polizas built from approved receipts, persisted, marked, swept by the nightly batch |
| `TravelPolicies` | policies edited by administrators, frozen in a request, used for previews |
| `PolicyExceptions` | exceptions asked for and decided while the designated approvers change |
| `UserImport` | users created by imports of files (preview, then apply) and by forms |
| `WorkflowRules` | rules, the levels they give an amount, and the snapshot of approvers |
| `RolePermissions` | roles, the page that edits them in several browsers at once, the users who have them |
| `RequestJourney` | the journey of a request as the pages infer it from the audit trail |
| `MCOffice` | small instances of these eight modules, one per behaviour |
| `PayablesProofs` | theorems about `RequestAlerts` and `AccountingExport` |
| `LevelsProofs` | theorems about `WorkflowRules` and `RequestJourney` |
| `PolicyProofs` | theorems about `TravelPolicies` and `PolicyExceptions` |
| `UsersProofs` | theorems about `RolePermissions` and `UserImport` |
| `OfficeProofs` | theorems about the eight modules together |
| `DataLemmas` | facts the proofs share: least and greatest elements, sums over a finite set |

`TravelRequest` and `ExpenseClaim` meet in status 4 to 8.  `TravelRequest` knows of receipts only
whether one is undecided and which status a verdict asks for; `ExpenseClaim` knows of the journey
only the statuses that allow uploads and decisions.  What one leaves free the other settles, and
both map the synchronisation after a verdict to the same lines.

### TravelRequest

State: the columns of `Request` that guards read (`status`, `owner`, `fee`, `snap`, `active`,
`trip`, `stale`), the audit trail `historial`, the polizas issued (`poliza`), whether a receipt
is waiting for its verdict (`undecided`), the calls in flight (`calls`) and whether the process
is up.

A handler that reads, checks and writes later is two actions.  `Begin...` takes the handler's
guards and puts the write it has decided on in `calls`; `CommitWrite` performs it on whatever the
row has become, including what the trigger extension adds (`active` cleared by 9 and 10) and what
the audit insert adds.  A handler that is one transaction without a check of the status
(`CreateRequest`, `CreateDraft`, `EditRequest`) is one action.  `then` in a call stands for the
statements that follow: the second cancellation of the legacy endpoint, the advance or closing
poliza (`EmitPoliza`), which may be lost by a crash or a dropped error.  `AbortWrite` is a
transaction that rolls back: only `escalationJob` causes one.

| action | code |
|---|---|
| `CreateRequest`, `CreateDraft`, `EditRequest`, `BeginConfirmDraft` | `applicantModel.ts` |
| `BeginCancel`, `BeginSubmitReceipts` | `cancelTravelRequest.ts` and its legacy twin, `submitReceiptsForValidation.ts` |
| `BeginUpload`, `FileReceipt` | `requestReceiptUploadPolicy.ts`, `createExpenseBatch`; the rest of an upload is in `ExpenseClaim` |
| `BeginApprove`, `BeginEscalateOverLimit` | `authorizeTravelRequest.ts` |
| `BeginReject`, `BeginReassign` | `rejectTravelRequest.ts`, `reassignApproval.ts` |
| `BeginConfirmFee`, `BeginMarkAttended`, `BeginReceiptSync` | `confirmImposedFee.ts`, `markAttended.ts`, `accountsPayableService.ts` |
| `BeginEscalation`, `BeginSweep`, `BeginDeadlineLock` | `escalationJob.js`, `approvalSubstituteService.ts`, `reimbursementTimeService.ts` |
| `CommitWrite`, `AbortWrite`, `EmitPoliza` | `applyWorkflowAction`, `trigger-extension.server.ts`, `anticipoPolizaLifecycleService.ts` |
| `Crash`, `Restart`, `FortyEightHours`, `DeadlinePasses` | the process and the clock |

Data is abstracted to what guards compare: a fee is a model value with, per user, the set of fees
within the limit of the role (`Covers`); the rules are the map `LevelsFor` from fees to levels;
approvers, managers and substitutes are maps.  The jobs handle one candidate of their batch at a
time.  `historial` has no multiplicity: a second identical row changes no guard and no property.

`UsersFollowPages`.  `confirmDraftTravelRequest`, `editTravelRequest`, `markAttended` and the sync
after a receipt decision check no status: only the page that offers the action does.  With
`UsersFollowPages = TRUE` such a handler starts when its page lists the request (and may still
write late); with `FALSE` it starts at any time.  Two theorems assume `TRUE`, and say so.  The
inbox of CxP lists finished requests besides those in validation (`comprobaciones.tsx:23`) and
offers the receipts on them that are undecided, so a trip that the deadline closed can be
reopened by a rejection: `BeginReceiptSync` starts in 7 and 8, and `TravelLifecycle` has `Reopen`.

### TravelLifecycle

Twelve moves over a stage and the flag "approved".  `TravelRequest!KeepsPromise` instantiates it
with `stage <- status` and `approved <- ` "an APROBADO row exists, or the owner needs none".

### ExpenseClaim

State: the rows of one request's receipts (`validation`, `cfdi`, `files`), how often the wallet
was credited for each (`credit`), the greatest id handed out, the status of the request, whether
the grace period is over, and for each caller the call in flight.  A call is a record whose `step`
names its next statement:

    create - find - [remove - drop] - store - readFiles - writeFiles - register - insert   upload
    readVerdict - writeVerdict - [credit] - sync - writeStatus                              decision

Statements of other calls fall between any two.  A `receipt.update` is three statements, as the
extension makes it: read the old validation (`ReadOld`), update, and credit when the update says
Aprobado and the old value did not (`AfterUpdate`, `CreditWallet`), also on updates that only
attach files.

| action | code |
|---|---|
| `BeginUpload`, `CreateRow`, `FindRow` | `createExpenseValidationBatch`, `createExpenseBatch`, `findLastReceiptId` in `subir-comprobante.server.ts` |
| `RemoveReplacedFiles`, `DropReplaced` | `deleteReceiptFile` in `uploadReceiptFile.ts`, its caller that swallows errors, `deleteReceipt` |
| `CheckFiles`, `WriteFiles`, `CheckRegister`, `InsertCfdi` | `uploadReceiptFile.ts`, `registerReceiptCfdi.ts`, `registerInternationalReceipt.ts`, `comprobantesQueries.ts` |
| `BeginDecision`, `WriteVerdict` | `validateReceiptDecision.ts`, `validateReceipt` in `accountsPayableModel.ts` |
| `ReadOld`, `CreditWallet` | trigger 5 in `trigger-extension.server.ts` |
| `ReadVerdicts`, `WriteStatus`, `BeginSync` | `validateReceiptsAndUpdateStatus`, `updateRequestStatus`, `PUT /validate-receipts` |
| `BeginHandIn`, `BeginLock`, `TripBooked` | `submitReceiptsForValidation.ts`, `lockExpiredRequests`, the trip until status 6 |
| `ApiDeleteReceipt` | `DELETE /delete-receipt`, which no page calls |

`Deletable` and `Insertable` are the database's part: a CFDI refers to its receipt without
`onDelete`, and is unique in the receipt and in the uuid.  A foreign receipt draws a fresh uuid,
so it is never a duplicate.  The SAT answers as it likes.  Left out: amounts (a credit is counted,
which is what can go wrong), comments, the stored SAT answer, the endpoint that registers a CFDI
without an upload.  `Blocks` is the organisation's `blockOnExpiry`; the refusal of late approvals
does not depend on it (`reimbursementTimeService.ts:95`).

`ReceiptLedger` has eleven moves over verdict, payments, stage of the claim and "late".
`KeepsLedger` instantiates it with `verdict <- validation`, `paid <- credit` and the stage that
the status stands for.

### RequestAlerts

State: the committed columns the extension compares (`row`), the statuses whose messages the
alerts show (`shown`), the wallet, the updates in flight with the old and new row each has seen,
and which transaction holds the row's lock.  An update is `BeginUpdate`, `ReadOldRow`, `UpdateRow`,
`ManageAlerts`, `DeductFee` and, inside a transaction, `Commit` or `Rollback`; then the sweep's own
`CreateAlert`.  `UpdatesAt(s)` is the union of what every handler may decide on in status `s`, one
operator per handler.  Only the update belongs to the enclosing transaction; alerts and wallet are
written through another connection and survive a rollback.  The triggers compare columns of the
result of the update: the sweep selects only the organisation (`approvalSubstituteModel.ts:128-132`),
so its escalation changes no alert, and the alert of the first review stays beside the new one.

### AccountingExport

State: per receipt the CFDI's amounts in cents, verdict and day of approval, the trips finished and
marked as exported, the `ledger` of persisted builds, and what each export in flight has read.
`ReadPeriod` and `ReadTrip` read, `WriteExport` persists and marks in one transaction, `FailExport`
is one trip that does not balance, which fails the whole range.  The single export does not look at
the mark.  A receipt approved after its trip was exported is never exported by range.  Preview rows
become exported by the batch (`MarkYesterdays`), which marks no trip.  The currency of a poliza is
that of its first CFDI; amounts here are in one currency.

### TravelPolicies

`BeginEdit`, `CheckOverlap`, `WritePolicy` are the three statements of `createPolicy` and
`updatePolicy`; `Deactivate` and `SetExpenseCaps` check nothing.  `SubmitRequest` freezes
`Applicable`, `Preview` judges a receipt.  Faithful but surprising: the overlap check is not
serialised; a policy of another category applies when the cost centre matches (`Score`); equal
scores and dates are decided by an unordered query; an end left open is checked as the end it
replaces (`InOrder`).

### PolicyExceptions

`BeginRuling` reads the exception and the designated approvers, `WriteRuling` is a transaction
without a condition.  `everEntitled` is a ghost: who could decide the exception at some time.
`ChangeApprovers` stands for every write of a snapshot.

### UserImport

`PreviewImport` validates and keeps the rows under a token; `BeginApply` consumes it; `CreateRow`
and `NumberRow` write row by row; `FindChiefs`, `FindBosses` and `WriteLink` are the two passes of
links; `FailImport` may come anywhere, and what was written stays, as the adapters use the global
client.  Imports store addresses as they are and forms encrypt them, so the import's check of
addresses sees only imported ones (`StoredTexts`).  What an import has left to do is a function on
places in its file, done least place first (`NextPlace`, `Rest`): the `for ... of` loops.  `oddities` records what a property excludes:
overlapping applies, a login taken between preview and apply, a file whose links go round by
themselves.  A taken row is skipped but its user still gets the superior of the
file; a repetition after a failure drops the rows as conflicts, and their superiors with them.

### WorkflowRules

`LevelsWith` is `computeLevelsFromRules`, by the set of levels rather than by its accumulators;
`BuildRuleSnapshot` is `buildSnapshot`, `ApproverIds` the completion of the chain of superiors by
the users of roles N1 and N2.  Levels above 2 never get a status of their own; a skip that starts
at level 3 leaves the request in status 2 with nobody designated.

### RolePermissions

A browser's page (`pages`) shows rows that came from the loader or from an answer.  The loader maps
permissions that are strings as if they were objects (`LegacyPermissionServiceAdapter.ts:74-99`),
so its rows have no codes and no flag (`LoadedRow`); saving such a form untouched erases the role's
own permissions.  `BeginSave` and `CommitSave` are the two halves of the transaction that replaces
the permissions: overlapping changes end with the union.  The check that a last administrators' role
remains is in the browser only (`AdminCount`); what keeps managers in any case is that the system's
role cannot be changed.  `wanted` and `quirks` are ghosts.

### RequestJourney

`FailedStep`, `StateOf` and `ActorAt` are the inference; the actions are the calls that write a
row of the trail, one step each (their interleavings are in `TravelRequest`).  `level` in a row is
known to the properties only.  A filter of the trail is the set of places it keeps (`PlacesOf`), the
row at an index of the filtered array the place with that many up to it (`Nth`).  `detours` records what misleads the page: a review that was jumped
(entry by an approver, the sweep, over the limit), and a rejection that is none of a review
(the deadline lock writes RECHAZADO in the name of the applicant, exceptions write theirs).

## 3. Runs

The runs of `TravelRequest` have one request, three users (`emp`, a first-level `n1` and a second-level `n2`
approver, who all submit requests), two fees (`low` within `n1`'s limit, `high` above it).  One
request is enough: no guard or write involves two.

| run | bounds | shows |
|---|---|---|
| `concurrent` | 2 calls in flight, 2 audit rows by users, rules that end at level 2 | type correctness; money only after an approval, and after the second level; the advance after the approval; a decline sticks; whoever signs was the approver of the request |
| `serial` | 1 call in flight, hierarchy mode, rules that may stop at level 1, 6 audit rows | implements `TravelLifecycle`; approvals within the limit; no cancellation after the agency |
| `jobs` | 1 caller and the 3 jobs at once, 1 audit row by users, `FairSpec` | expired trips end; unanswered first reviews with a designated approver move |
| `cancelRace` | as `concurrent` | **violated**: a cancellation overtaken by the agency lands after it |
| `sweepLevels` | rules that stop at level 1, a manager without the role N1 | **violated**: the sweep strands a request in a second review without second level |
| `escalation` | as `jobs`, nobody designated | **violated**: `escalationJob` rolls back for ever |

The runs of `ExpenseClaim` have one request and two national invoices, and foreign ones.

| run | bounds | shows |
|---|---|---|
| `claimConcurrent` | 2 callers and the deadline job at once, 2 receipts, 1 invoice, 1 crash, bare endpoints too | type correctness; what was paid keeps its row, its CFDI and a verdict; no invoice is paid through two receipts; without a crash no approved receipt is left unpaid |
| `claimPayment` | 2 callers at once, 2 receipts, 1 crash, no lock, pages only | every approval reaches the wallet, unless the process crashed |
| `claimSerial` | 1 call at a time, 3 receipts, 2 invoices, pages only | implements `ReceiptLedger`; the wallet agrees with the verdicts; approved receipts keep their files |
| `claimCreditTwice` | 2 callers at once, 1 receipt | **violated**: two overlapping approvals credit the wallet twice |
| `claimReplaced` | 1 call at a time, 2 receipts | **violated**: a rejected receipt with a CFDI survives its replacement |

The eight smaller modules share no variable and are checked in one run, `office`: `part` says which
of them a behaviour is about; the others stay in an initial state.  So its state space is the sum of
theirs, and each property is about the states of its own part.

| part | bounds | shows |
|---|---|---|
| `alerts` | 2 updates at once, 3 in all, 2 fees, 1 crash | a closed request shows no alert; alerts ask for the step; the wallet has paid the fee |
| `export` | 2 trips with a receipt each, 2 exporters, 2 days, 2 ledger entries, one CFDI a cent short | polizas balance, are complete, booked once; what is marked is booked |
| `policies` | 2 policies, 2 administrators at once, 3 edits, 3 forms (closed, open, another combination), 2 days | no two policies in force for one combination; nothing is retroactive |
| `exceptions` | 2 receipts, 2 exceptions, 2 approvers, 2 decisions at once | refund flag and decision agree; only the entitled decide |
| `import` | 2 previews, files of 2 and 3 rows whose links close a circle together, 1 form | no circles; success means complete; others are spared |
| `rules` | 3 rules of 6 kinds, 4 amounts, levels to 3, 3 edits, 2 toggles at once | dearer requests need at least as much; list and columns agree |
| `roles` | 1 role besides the system's, 2 pages, 2 users, 3 permissions, 5 calls | a role permits what was ticked; nobody is left without one |
| `journey` | 2 reviewers, every choice of levels to 3, 4 rows of the trail | the page names who decided; an open request is in a step |

Bounds of `office`.  Each race of these modules is between two calls, so two callers suffice.  With
two administrators at once `NoOverlap` does not hold, so it is about behaviours in which edits never
overlapped (`crowded`).  Three updates let a close follow a rollback.  Two days
separate a day from the next.  Interchangeable callers are called by the same two names in every
part, so that one symmetry set serves all; no liveness is checked under it.  Two ledger entries admit
a second booking; 4 rows of the trail admit two reviews, a reassignment and an exception.  Deadlock
checking is off: bounded calls run out.  A property with a premise such as `oddities` or `mishaps`
excludes what the code is known not to survive, named in the comment of the property.

Bounds of `TravelRequest`.  `MaxInFlight = 2` is where every race of this code appears: a write depends on the one
row, so a bad outcome needs one late write and one that it overtakes; the proofs cover any number.
`MaxEntries` stops users (never jobs) from writing more audit rows, so that the trail stays
finite; 2 admits an approval and a reassignment or a decline, and both reviews.
In `concurrent` the search also ends (`MCShortTrail`) at a state whose trail jobs or late writes
have made longer than that: the state is checked, its successors are not.  Symmetry (interchangeable callers)
is used in safety runs only.  Deadlock checking is off: a finished request with nothing in flight
and no crash left is a legitimate end, and users owe nothing.

Bounds of `ExpenseClaim`.  Two calls suffice for each of its races (two decisions, two uploads, an
upload and a decision); two receipts for the duplicate invoice, the wrong row found by greatest id
and the replacement, the third in `claimSerial` lets a replacement be replaced.  One crash, at any
statement, stands for any number: nothing of a call survives it.  `Starts` saves TLC the journey
before status 4 (or 6), in which no receipt exists.

Fairness.  `WF` on each job's action per request (node-cron fires hourly or daily as long as
the process lives, `platform/scheduler/index.js:16-17`) and on the next statement of a call in
flight.  Nothing is assumed of users or of the clock.  The liveness properties have the premise
`StaysUp`: from some point on the process is up.  A crash loses calls, never fairness.  The lock
is assumed to be on for organisations with a trip date (`blockOnExpiry`, true by default).
`ExpenseClaim` assumes `WF` on the next statement of each caller's call only; `ApprovedGetsPaid`
needs it from the update of the receipt to the increment of the wallet.

## 4. Findings

1. `cancelRace`: `cancelTravelRequest` checks the status and cancels in a later statement, so a
   request already attended becomes cancelled, against its own documentation.
2. `sweepLevels`: `processStaleApprovals` does not look at the levels of the snapshot;
   `escalationJob.js:33` does.
3. `escalation`: the audit row of `escalationJob` has no `organizationId`, outside any tenant
   context; the column is NOT NULL, so the transaction always rolls back and no request is ever
   escalated by it.
4. `claimCreditTwice`: two approvals of one receipt at once both read Pendiente, and the trigger
   of each reads the old validation before the other's update: the wallet is credited twice.
5. `claimReplaced`: the deletion of a replaced receipt fails when it has a CFDI, the error is
   swallowed, and the rejected row stays: its files are gone and its verdict keeps returning the
   request to status 6.

Each is quoted against the documentation or comment it contradicts in `PROJECT.json`.

## 5. Proofs

`TravelRequestProofs` proves, for every set of requests, users, fees, rules, approvers, and any
number of calls in flight:

| theorem | property | assumption |
|---|---|---|
| `TypeCorrect` | `TypeOK` | |
| `AdvancesApproved` | `AdvanceNeedsApproval` | |
| `DeclinesLast` | `DeclinedStaysInactive` | |
| `RejectionsRecorded` | `RejectionOnRecord` | |
| `SpendingApproved` | `SpendingNeedsApproval` | `UsersFollowPages` |
| `SecondLevelSigned` | `SecondLevelSignsOff` | `UsersFollowPages` |
| `SignaturesEntitled` | `SignedByEntitled` | `UsersFollowPages` |
| `SerialApprovalWithinLimit` | `ApprovalWithinLimit` | `MaxInFlight = 1` |
| `SerialCancelledBeforeExpenses` | `CancelledBeforeExpenses` | `MaxInFlight = 1` |
| `SerialKeepsPromise` | `KeepsPromise` (implements `TravelLifecycle`) | `MaxInFlight = 1`, `UsersFollowPages` |

The argument.  None of the invariants is inductive over the row alone, because a call in flight
may write anything a guard once allowed.  The strengthening says, of every call in flight, what
its write may rely on for ever: `historial` only grows, so a write into a spending stage either
carries its own APROBADO row or was decided on when one existed (a verdict on a finished trip
relies on its undecided receipt, which nobody could file without one); a write of 10 carries its
RECHAZADO row; a poliza waits behind a committed approval.  Lemma `Begins` states once that each
`Begin` leaves a well-typed write satisfying `Decision`; each invariant then has one step per
kind of step (a new decision, a commit, an abort, a poliza, a crash, time).  The serial theorems
use that with one call in flight nothing changes between its read and its write, except an edit,
which `CanRun` excludes.

`SignaturesEntitled` is about who signs.  A snapshot is written as a whole, by reassignments, the
sweep and confirmations, from what each read long before, so the last to write may bring back an
approver that another one replaced.  `EntitledInv` says why that entitles nobody to more than the
trail shows: every snapshot, stored or brought by a call in flight, gives each review to the
approver resolved for the owner, unless a REASIGNADO row of that review exists or comes with the
call (`Accounted`).  As `historial` only grows, a snapshot accounted for once stays so
(`MoreAccounted`); `EveryMove` says in which three ways a request moves at all.

`SerialKeepsPromise` is the refinement, crashes included.  A write that is in flight alone was decided
on the row as it still is, so `PromiseInv` says of it that it is a move of the lifecycle as the row
stands, plain or signed (`Kept`: `PlainMove`, `SignedMove`); the rest of the invariant is that a
draft has no date.  One lemma per group of `Begin`s shows that it establishes `Kept` (`ApplicantKept`,
`ApproverKept`, `BackOfficeKept`, `JobKept`); a commit of such a write then maps to that move of
`TravelLifecycle`, the opening of a draft to its own, and every other step to a stutter
(`PromisedSteps`).

The assumptions on constants are the named ASSUMEs of `TravelRequest`: types of the maps and
`NoUser \notin Users`; TLC evaluates them in every run.

`ExpenseClaimProofs` proves, for every set of callers and invoices, any number of receipts and,
where nothing else is assumed, any number of calls in flight, with and without crashes:

| theorem | property | assumption |
|---|---|---|
| `TypeCorrect` | `TypeOK` | |
| `EvidenceKept` | `PaidHasEvidence` | |
| `InvoicesPaidOnce` | `InvoicePaidOnce` | |
| `ApprovedArePaid` | `ApprovedIsPaid` | |
| `SerialFilesKept` | `ApprovedKeepsFiles` | `MaxInFlight = 1` |
| `SerialWalletMatches` | `WalletMatchesVerdicts` | `MaxInFlight = 1`, `~MayCrash` |
| `SerialCreditedOnce` | `CreditedOnce` | `MaxInFlight = 1`, `~MayCrash` |
| `SerialKeepsLedger` | `KeepsLedger` (implements `ReceiptLedger`) | `MaxInFlight = 1`, `~MayCrash`, `UsersFollowPages` |

The type of `created` needs a strengthening (`TypeInv`): an upload reserves its row id before it
inserts, so `created` plus the uploads about to insert stays within `MaxReceipts`; no row exists
above `created`; a call about to write a status has settled on one.  This is the only place where
the finiteness of `Callers` (`SlotAssumption`) is used.

`EvidenceKept` and `InvoicesPaidOnce` follow from `EvidenceInv`.  By itself a paid receipt might lose its evidence to a
call whose guard was evaluated long ago, so the invariant also says what each call in flight
counts on: a decision to approve, that the receipt has a CFDI; a pending credit, that the receipt
is decided and has one.  `RowsMove` states what no step does to the rows: a CFDI once registered
never changes, a decided receipt with a CFDI stays decided (it cannot be deleted, and a decision
only replaces a decision), and two rows never come to share a national uuid.  Lemmas `OnwardMove`,
`CreateMove` and `DeleteMove` show it for each step, `RowsMoveKeeps` and `OthersKeep` that it
carries the evidence of the rows and of every other call along; what remains is the call that
moved.

`ApprovedArePaid` is the half of the wallet's agreement that survives overlap: a receipt may be paid
twice (`claimCreditTwice`), never not at all.  Each trigger leaves the payment to others when it has read
Aprobado before its update, so the invariant (`OwedInv`) is about what a call has read: while an old
validation Aprobado is in some call's hands, the receipt has been credited, or a call is about to
credit it.  What has been read may no longer be so, as the receipt may be rejected meanwhile; that it
was approved once is enough, since nothing takes a payment back (`PaidStays`).

The serial theorems rest on `SerialInv`: with no other call to cross it, a call still finds what it
read.  Its parts: `FilesInv`, that a receipt with a CFDI has its files unless it is rejected;
`LoneFiles`, that a call which takes files away does so from a rejected or deleted receipt; `WalletInv`, that every approved receipt has been
credited once, except the one whose credit is the next statement; `ClosedInv` and `LoneStage`, that the
status a call is about to write follows from receipts as they are.  Crashes do not harm the files, so the
first theorem allows them; between a verdict and its credit they leave the wallet short.  For the
ledger each of the call's statements is shown to be one of the ledger's moves or to change nothing
the ledger sees.  `CreditedOnce` is violated in the run `creditTwice`, which has two calls in
flight: the theorem says that this is what it takes.

`PolicyProofs` proves, for all sets of receipts, exceptions, approvers, policies, combinations, days
and administrators, and any number of calls in flight:

| theorem | property |
|---|---|
| `RulingsEntitled` | `RuledByEntitled` |
| `RefundsFollow` | `RefundFollowsRuling` |
| `PoliciesApart` | `NoOverlap` |
| `PoliciesNotRetroactive` | `NotRetroactive` |

A decision is written without reading anything again, so the invariant `ExceptionInv` says what it
still relies on.  `EntitledInv`: whoever is designated now has been entitled to every exception asked
for, and whoever has a decision in flight was entitled to its exception; `AskedGrows`, that no step
takes an exception back, keeps that true while approvers change.  `ClaimInv`: a decision in flight
has read every receipt its exception still has, and a receipt it read that the exception has lost is
deleted, in which case the transaction fails as a whole.  Hence a write that succeeds sets the
flags of all receipts of its exception together with its status, whatever others wrote before.

`NoOverlap` is inductive only together with what an edit in flight has checked (`LoneEditInv`): what
it did not enter is still what the row says, and before its write no other policy overlaps the row
it will write.  Caps and the switch may change meanwhile, as they cannot make policies meet
(`Places`); another edit may not, and is what `crowded` records.

`PayablesProofs` proves of `AccountingExport`, for every finite set of trips, all amounts and any number of exports
in flight:

| theorem | property |
|---|---|
| `PersistedBooksBalance` | `BooksBalance` |
| `MarkedAreBooked` | `MarkedIsBooked` |
| `ReceiptsBookedOnce` | `BookedOnce` |
| `ExportsComplete` | `ExportsAreComplete` |

`ExportInv` adds to the first two `OnceInv` (until `retold`, entries that count belong to marked
trips, each to one; at most one export is in flight, and what it is about to book is not marked) and
`CompleteInv` (what `ExportsAreComplete` says of entries also holds of previews and of what an export
in flight has read).  A receipt approved on an earlier day has been approved all along
(`ApprovalsLast`), which is why a day is enough where moments would not be.  `ExportsTyped` and the
two lemmas on entries appended and entries marked are the rest.

and of `RequestAlerts`, for any finite set of updates in flight, in and outside transactions:

| theorem | property |
|---|---|
| `ClosedRequestsQuiet` | `ClosedIsQuiet` |
| `AlertsAsk` | `AlertsAskForStatus` |
| `WalletPaysFee` | `WalletPaidFee` |

The wallet is the interesting one.  Between the update of the row and the deduction any number of
other updates may run, so the invariant is about a sum: the wallet is the sum of the deductions that
calls in flight still owe, less the fee the row has or will have when the transaction that holds it
commits (`WalletInv`; `Pending`, `FeeToBe`).  `DataLemmas!AddsUp` defines the sum without recursion,
by an order of the set and its partial sums, and `SummandChanges` says how it moves when one call
moves.  `QuietInv`: while a closed request has alerts, the call that will delete them is in flight.
`LoneInv`: with one update at a time, what each step will do to the alerts.

`LevelsProofs` proves, for every set of rules and amounts, any highest level from 2 on, chains of
superiors of any length and any number of switches in flight, and for trails of any length:

| theorem | property |
|---|---|
| `DearerIsStricter` | `DearerNeedsMore` |
| `RangeOfLevels` | `LevelsAreARange` |
| `ListedAreDesignated` | `ListedIsDesignated` |
| `JourneyNamesReviewers` | `ReviewersAreNamed` |
| `JourneyHasItsStep` | `InAStep` |

Most of the first three is about operators, not steps: `RangeOfRules` shows that `LevelsWith` is an interval,
whatever rules apply, and `DearerLevels` that its two ends move the right way with the amount.
The state contributes that rules stay rules (`RulesTyped`).

The journey page counts rows of a filtered trail, so `JourneyInv` says what may be counted on while
nothing has misled it: the first m approvals are those of the first m reviews, in this order, each
at its level (`Passed`); m follows from the stage (`PassedAt`); approvals of exceptions come later
only; and there is one rejection, at the review where the request stopped (`Refused`), or none.
`NthGrows` says once how the n-th row kept by a filter behaves when the trail grows; every action
then either passes the next review (`PassedNext`), or leaves those passed alone (`PassedLater`).
`InAStep` follows from the levels and routes a stage can have (`JourneyTypeInv`).

`UsersProofs` proves, for all sets of roles, permissions, pages, users, files of any length, tokens
and forms:

| theorem | property |
|---|---|
| `PermissionsAsTicked` | `RolesAsTicked` |
| `RolesKept` | `KeepsARole` |
| `NoRounds` | `NobodyApprovesSelf` |
| `DoneImportsComplete` | `DoneIsComplete` |
| `OthersSpared` | `ImportsSpareOthers` |

For roles, `SavesInv` says what a change in flight that nobody crossed still sees, `RowsInv` what
the rows on a page show, and `DeletionsInv` that a role about to be deleted has no active holder but
those it was given since.

For imports, `OwnInv` says that the rows an import is done with are users it created itself, with the
number of their row: `FromInv` and the absence of `taken` exclude any other origin.  `NamedInv` then
carries each named superior to the end, which needs no assumption on overlaps, as links are written
in place order and each login has one row.  The chains of superiors are the hard part.  A link may
lead to any user, also to those of earlier imports, so the absence of rounds has to say which links
could close one.  `ChainInv`: while an import runs, a superior whom it created is the superior of
users it created only, and as its rows say.  A round that a new link closed would pass through a
user of this import; everybody below such a user is of this import too, so the whole round is, and
its links are those of the file: `GoesRound`, which `FilesInv` excludes.  The other way, into users
that were there before, never comes back.

`OfficeProofs` is about `MCOffice` itself, which runs the eight modules side by side:

| theorem | what it says |
|---|---|
| `OfficeActsByParts` | a behaviour of the office is a behaviour of each part: `Spec => AlertsSpec /\ ExportSpec /\ ...` |
| `OfficeTyped` | `OfficeTypeOK`, from the types of the eight parts |
| `OfficeKeepsParts` | every other invariant of the run `office` and `LevelsAreARange`, for the specification which that run explores |

The theorems above are about one part's specification, the run is about `Spec`; the first of these
joins them.  Types are proved with each part: `AlertsTyped` and `ExportsTyped` (`PayablesProofs`),
`PoliciesTyped` and `ExceptionsTyped` (`PolicyProofs`), `RulesTyped` and `JourneyTyped`
(`LevelsProofs`), `PermissionsTyped` and `UsersTyped` (`UsersProofs`).  Most of
them are not inductive alone.  That a user's role exists (`PermissionsTypeOK`) needs that deletions strip
their role from everybody; that roles permit only what there is needs the same of every form in
flight and every row shown on a page (`CodesInv`).  That a user has at most one superior, who is a
user, needs what each link still to be written says (`ImportTypeInv`, `PeopleInv`).  That an exception
is pending or has a decider needs that a decision in flight is about one that exists (`SettledInv`).

Assumptions on constants.  Each module names its own: finite `Trips` and `Updaters` (sums and
cardinalities), bounds that are natural numbers, `Budgets` and amounts that are numbers, a last day after none, rules that are records
of their fields, at most one fallback approver per level (`findFirst`), files that are sequences of
rows with at most one named superior.  TLC evaluates them in the runs of the module.

Only model-checked: liveness (`ExpiredTripsEnd`, `UnansweredReviewsMove`, `ApprovedGetsPaid`), which is
beyond the prover.  `ApprovedIsPaid` is the part of `ApprovedGetsPaid` that needs no time: whoever owes
the payment is always there to make it, and fairness does the rest.  Every invariant and every
refinement that a run checks is proved.  `RejectionOnRecord` and `LevelsAreARange` are the other way
round, proved and in no run: they are conjuncts of the inductive invariants above.

## 6. Not modelled, and the plan

Not proved yet, and worth it: what of the other serial theorems of `ExpenseClaim` survives calls in
flight for different receipts, as `ApprovedIsPaid` does; that two overlapping approvals are the only
way to pay twice.

Not modelled, and why:

* tenant context and row-level security: filters added to every query, and a session setting whose
  effect depends on Prisma's pool, which is not in the repository;
* sessions, tokens, CSRF, API keys: request-local checks; permission groups and grants to single
  users have calls but no route (`permissionApi.server.ts` is mounted nowhere);
* organisations, departments, cost centres, time limits of refunds, the catalogue of accounts:
  records written by single statements, or seeded and only read;
* notifications: best-effort inserts that nothing reads back to decide; exchange rates: a cache of
  an external service; flights and hotels: external searches (the choice of an offer is an update in
  `RequestAlerts`); comments;
* the batch scheduler's other jobs: `sat-validate-batch` selects rows that nothing creates,
  `exchange-rate-sync` writes a table that the schema lacks, `notification-flush` marks as read;
* imports that create an organisation, renames of users, `syncEmployee` (no route calls it), parsing;
* amounts of receipts and caps, formats of exported files, and the user interface beyond what its
  pages check before they call (`OnPage`, `AdminCount`, `RoleForms`).

Most of the repository's lines are of these kinds: pages, contracts, seeds, adapters and validation
without state; they are left out so that what is mapped is what a definition translates.
