------------------------------ MODULE ExpenseClaim ------------------------------
(***************************************************************************)
(* The receipts of one travel request, from their upload to the payment of  *)
(* the approved ones into the applicant's wallet, and what their verdicts   *)
(* do to the request while it is in status 4 to 8.                         *)
(*                                                                         *)
(* Every statement of Prisma commits on its own (the transaction that       *)
(* runInRls opens is on another client), so a call is a sequence of steps,  *)
(* `call[c].step` names the next one, and steps of other calls fall between *)
(* any two.  A receipt.update is three of them, because the trigger         *)
(* extension reads the old validation, updates, and then credits the wallet *)
(* in separate statements.  A read whose result only leads to an early      *)
(* return is joined to the next read of the call.                          *)
(*                                                                         *)
(* Not here: amounts (a credit is counted, not added), comments, the SAT    *)
(* acuse kept with the CFDI, polizas (TravelRequest), the trip's own       *)
(* progress from 4 to 6 (one action, see TravelRequest for its races).      *)
(***************************************************************************)
EXTENDS Integers, FiniteSets

CONSTANTS
  Invoices,          \* CFDI uuids of national invoices
  Foreign, NoCfdi,   \* a foreign invoice (its uuid is drawn anew), and none
  Blocks,            \* the organisation's blockOnExpiry
  UsersFollowPages,  \* users do only what the pages offer them
  Callers,           \* bound: HTTP calls in flight, one per caller
  MaxInFlight,       \* bound: calls in flight, the deadline job included
  MaxReceipts,       \* bound: receipt rows ever created
  Starts,            \* bound: statuses in which the exploration starts
  MayCrash           \* bound: the process may crash, once

Quote == 4
Agency == 5
Expenses == 6
Validation == 7
Finished == 8

Ids == 1..MaxReceipts
Decided == {"Aprobado", "Rechazado"}
Verdicts == {"none", "Pendiente"} \cup Decided
Slots == Callers \cup {"deadline"}
Steps == {"idle", "create", "find", "remove", "drop", "store", "readFiles", "writeFiles",
          "register", "readForeign", "insert", "readVerdict", "writeVerdict", "credit",
          "sync", "writeStatus"}

Calls == [step : Steps, receipt : 0..MaxReceipts,
          replaced : 0..MaxReceipts, invoice : Invoices \cup {Foreign, NoCfdi},
          verdict : Verdicts, old : Verdicts, to : {0, Expenses, Validation, Finished}]

ASSUME InvoicesAssumption == Foreign \notin Invoices /\ NoCfdi \notin Invoices \cup {Foreign}
ASSUME ModeAssumption == {Blocks, UsersFollowPages, MayCrash} \subseteq BOOLEAN
ASSUME BoundAssumption ==
  MaxInFlight \in Nat /\ MaxReceipts \in Nat \ {0} /\ Starts \subseteq Quote..Expenses
ASSUME SlotAssumption == "deadline" \notin Callers /\ IsFiniteSet(Callers)

VARIABLES
  status,      \* requestStatusId of the request
  validation,  \* validation of each receipt row, "none" where there is no row
  cfdi,        \* the CfdiComprobante of the receipt
  files,       \* the files its row refers to: "none", "kept", or "gone" from the store
  credit,      \* how often the wallet was credited for the receipt
  created,     \* greatest receiptId handed out
  late,        \* the grace period after the trip is over
  call,        \* per slot, the call in flight
  crashed      \* the process has crashed

rows == <<validation, cfdi, files>>
vars == <<status, rows, credit, created, late, call, crashed>>

-----------------------------------------------------------------------------
(* What the handlers read. *)

Exists(r) == r # 0 /\ validation[r] # "none"

\* The row with the greatest id.
Last(r) == Exists(r) /\ \A q \in Ids : Exists(q) => q <= r

\* assertRequestAllowsReceiptUpload
MayUpload == status \in Quote..Validation /\ ~(late /\ Blocks)

\* The uuid has a row in cfdi_comprobantes; a foreign receipt gets a fresh one.
Registered(inv) == inv # Foreign /\ \E r \in Ids : cfdi[r] = inv

OnPage(stages) == UsersFollowPages => status \in stages

-----------------------------------------------------------------------------
(* Calls in flight. *)

Idle == [step |-> "idle", receipt |-> 0, replaced |-> 0, invoice |-> NoCfdi,
         verdict |-> "none", old |-> "none", to |-> 0]

\* A call whose next step writes the status it has settled on.
StatusWrite(stage) == [Idle EXCEPT !.step = "writeStatus", !.to = stage]

Busy == {s \in Slots : call[s].step # "idle"}

Start(s, record) ==
  /\ call[s].step = "idle"
  /\ Cardinality(Busy) < MaxInFlight
  /\ call' = [call EXCEPT ![s] = record]

Go(s, step) == call' = [call EXCEPT ![s].step = step]

\* The handler returns, or throws.
End(s) == call' = [call EXCEPT ![s] = Idle]

Continue(s, ok, step) == IF ok THEN Go(s, step) ELSE End(s)

\* What a call keeps in mind when its update has returned.
After(s, step) ==
  call' = [call EXCEPT ![s].old = "none", ![s].replaced = 0, ![s].step = step]

\* Mutant: the trigger credits any decision on a pending receipt.
AfterUpdateDecided(s, verdict, then) ==
  After(s, IF verdict \in Decided /\ call[s].old = "Pendiente" THEN "credit" ELSE then)

\* Trigger 5, after the update: the wallet is credited when the row now says
\* Aprobado and the validation read before the update did not.
AfterUpdate(s, verdict, then) ==
  After(s, IF verdict = "Aprobado" /\ call[s].old # "Aprobado" THEN "credit" ELSE then)

-----------------------------------------------------------------------------
(* The applicant: upload of a receipt, in place of a rejected one or not. *)

\* Mutant: any receipt may be replaced.
ReplaceableAny == {r \in Ids : Exists(r)}

\* The pages offer to replace the rejected receipts.
Replaceable == {r \in Ids : validation[r] = "Rechazado"}

\* createExpenseValidationBatch up to its insert.
BeginUpload(s, inv, replaced) ==
  /\ MayUpload
  /\ ~Registered(inv)
  /\ replaced \in Replaceable \cup {0}
  /\ created + Cardinality({t \in Slots : call[t].step = "create"}) < MaxReceipts
  /\ Start(s, [Idle EXCEPT !.step = "create", !.invoice = inv, !.replaced = replaced])
  /\ UNCHANGED <<status, rows, credit, created, late, crashed>>

CreateRow(s) ==
  /\ call[s].step = "create"
  /\ created' = created + 1
  /\ validation' = [validation EXCEPT ![created'] = "Pendiente"]
  /\ Go(s, "find")
  /\ UNCHANGED <<status, cfdi, files, credit, late, crashed>>

\* Mutant: the lookup does not notice that it found nothing.
FindRowBlind(s) ==
  /\ call[s].step = "find"
  /\ \E r \in Ids \cup {0} :
       /\ Last(r) \/ (r = 0 /\ \A q \in Ids : ~Exists(q))
       /\ call' = [call EXCEPT ![s].receipt = r,
                     ![s].step = IF call[s].replaced = 0 THEN "store" ELSE "remove"]
  /\ UNCHANGED <<status, rows, credit, created, late, crashed>>

\* findLastReceiptId: the greatest id of the request is taken for the new row.
FindRow(s) ==
  /\ call[s].step = "find"
  /\ \/ /\ \A r \in Ids : ~Exists(r)
        /\ End(s)
     \/ \E r \in Ids :
          /\ Last(r)
          /\ call' = [call EXCEPT ![s].receipt = r,
                        ![s].step = IF call[s].replaced = 0 THEN "store" ELSE "remove"]
  /\ UNCHANGED <<status, rows, credit, created, late, crashed>>

\* deleteReceiptFile takes the files away first; whatever it throws is swallowed.
RemoveReplacedFiles(s) ==
  LET r == call[s].replaced
  IN  /\ call[s].step = "remove"
      /\ IF Exists(r) /\ MayUpload
         THEN /\ files' = [files EXCEPT ![r] = IF @ = "kept" THEN "gone" ELSE @]
              /\ Go(s, "drop")
         ELSE Go(s, "store") /\ UNCHANGED files
      /\ UNCHANGED <<status, validation, cfdi, credit, created, late, crashed>>

\* Mutant: the CFDI goes with its receipt.
DeletableWithCfdi(r) == Exists(r)

\* The row of a receipt: its CFDI refers to it and keeps it from being deleted.
Deletable(r) == Exists(r) /\ cfdi[r] = NoCfdi

Delete(r) ==
  /\ validation' = [validation EXCEPT ![r] = "none"]
  /\ cfdi' = [cfdi EXCEPT ![r] = NoCfdi]
  /\ files' = [files EXCEPT ![r] = "none"]

DropReplaced(s) ==
  /\ call[s].step = "drop"
  /\ IF Deletable(call[s].replaced) THEN Delete(call[s].replaced) ELSE UNCHANGED rows
  /\ Go(s, "store")
  /\ UNCHANGED <<status, credit, created, late, crashed>>

\* uploadReceiptFile, uploadInternationalReceiptImage: the checks.
CheckFiles(s) ==
  /\ call[s].step = "store"
  /\ Continue(s, Exists(call[s].receipt) /\ MayUpload /\ ~Registered(call[s].invoice),
              "readFiles")
  /\ UNCHANGED <<status, rows, credit, created, late, crashed>>

\* The row of the receipt is updated with the files stored meanwhile.
WriteFiles(s) ==
  LET r == call[s].receipt
  IN  /\ call[s].step = "writeFiles"
      /\ IF Exists(r)
         THEN /\ files' = [files EXCEPT ![r] = "kept"]
              /\ AfterUpdate(s, validation[r], "register")
         ELSE End(s) /\ UNCHANGED files
      /\ UNCHANGED <<status, validation, cfdi, credit, created, late, crashed>>

\* registerReceiptCfdi asks the SAT, which may refuse or not answer;
\* registerInternationalReceipt does not, but wants a receipt without CFDI.
CheckRegister(s) ==
  LET r == call[s].receipt
      inv == call[s].invoice
      admitted == Exists(r) /\ MayUpload
  IN  /\ call[s].step = "register"
      /\ IF inv = Foreign
         THEN Continue(s, admitted /\ cfdi[r] = NoCfdi, "readForeign")
         ELSE \E satAccepts \in BOOLEAN :
                Continue(s, admitted /\ ~Registered(inv) /\ satAccepts, "insert")
      /\ UNCHANGED <<status, rows, credit, created, late, crashed>>

\* Mutant: the uuid is not unique in the table.
InsertableAnywhere(r, inv) == Exists(r) /\ cfdi[r] = NoCfdi

\* The CFDI table is unique in the receipt and in the uuid.
Insertable(r, inv) == Exists(r) /\ cfdi[r] = NoCfdi /\ ~Registered(inv)

\* The row of the CFDI.  For a foreign one its transaction updates the receipt
\* first, and the trigger's credit stays even if the insert then fails.
InsertCfdi(s) ==
  LET r == call[s].receipt
      inv == call[s].invoice
      pays == /\ inv = Foreign
              /\ validation[r] = "Aprobado" /\ call[s].old # "Aprobado"
  IN  /\ call[s].step = "insert"
      /\ cfdi' = IF Insertable(r, inv) THEN [cfdi EXCEPT ![r] = inv] ELSE cfdi
      /\ credit' = IF pays THEN [credit EXCEPT ![r] = @ + 1] ELSE credit
      /\ End(s)
      /\ UNCHANGED <<status, validation, files, created, late, crashed>>

\* DELETE /delete-receipt checks nothing; no page calls it.
ApiDeleteReceipt(r) ==
  /\ ~UsersFollowPages
  /\ Deletable(r) /\ Delete(r)
  /\ UNCHANGED <<status, credit, created, late, call, crashed>>

\* submitReceiptsForValidation; the page asks for at least one receipt.
BeginHandIn(s) ==
  /\ status = Expenses
  /\ UsersFollowPages => \E r \in Ids : Exists(r)
  /\ Start(s, StatusWrite(Validation))
  /\ UNCHANGED <<status, rows, credit, created, late, crashed>>

-----------------------------------------------------------------------------
(* Accounts payable: the decision on a receipt. *)

\* validateReceiptDecision reads the row; an approval then waits for the SAT
\* (a refusal changes nothing here) before it goes on to the update.
BeginDecision(s, r, verdict) ==
  /\ OnPage({Validation, Finished})
  /\ validation[r] = "Pendiente"
  /\ verdict = "Aprobado" => ~late /\ cfdi[r] # NoCfdi
  /\ Start(s, [Idle EXCEPT !.step = "readVerdict", !.receipt = r, !.verdict = verdict])
  /\ UNCHANGED <<status, rows, credit, created, late, crashed>>

\* setValidation, whatever the row has become.
WriteVerdict(s) ==
  LET r == call[s].receipt
  IN  /\ call[s].step = "writeVerdict"
      /\ IF Exists(r)
         THEN /\ validation' = [validation EXCEPT ![r] = call[s].verdict]
              /\ AfterUpdate(s, call[s].verdict, "sync")
         ELSE End(s) /\ UNCHANGED validation
      /\ UNCHANGED <<status, cfdi, files, credit, created, late, crashed>>

\* Each receipt.update is preceded by the trigger's read of the old validation.
UpdateAfter == [readFiles |-> "writeFiles", readForeign |-> "insert",
                readVerdict |-> "writeVerdict"]

\* Mutant: the old validation is taken for what the update is about to write.
ReadOldTooLate(s) ==
  /\ call[s].step \in DOMAIN UpdateAfter
  /\ call' = [call EXCEPT ![s].step = UpdateAfter[@], ![s].old = call[s].verdict]
  /\ UNCHANGED <<status, rows, credit, created, late, crashed>>

ReadOld(s) ==
  /\ call[s].step \in DOMAIN UpdateAfter
  /\ call' = [call EXCEPT ![s].step = UpdateAfter[@], ![s].old = validation[call[s].receipt]]
  /\ UNCHANGED <<status, rows, credit, created, late, crashed>>

CreditWallet(s) ==
  /\ call[s].step = "credit"
  /\ credit' = [credit EXCEPT ![call[s].receipt] = @ + 1]
  /\ Go(s, IF call[s].verdict = "none" THEN "register" ELSE "sync")
  /\ UNCHANGED <<status, rows, created, late, crashed>>

\* Mutant: one approved receipt is enough.
AllApprovedSome == \E r \in Ids : validation[r] = "Aprobado"

\* Also true of a request without receipts.
AllApproved == \A r \in Ids : Exists(r) => validation[r] = "Aprobado"

\* validateReceiptsAndUpdateStatus reads the validations, and writes the status
\* they call for in a later statement.
ReadVerdicts(s) ==
  /\ call[s].step = "sync"
  /\ CASE \E r \in Ids : validation[r] = "Rechazado" ->
            call' = [call EXCEPT ![s] = StatusWrite(Expenses)]
       [] OTHER ->
            IF AllApproved
            THEN call' = [call EXCEPT ![s] = StatusWrite(Finished)]
            ELSE End(s)
  /\ UNCHANGED <<status, rows, credit, created, late, crashed>>

\* PUT /validate-receipts runs the synchronisation alone; no page calls it.
BeginSync(s) ==
  /\ ~UsersFollowPages
  /\ Start(s, [Idle EXCEPT !.step = "sync"])
  /\ UNCHANGED <<status, rows, credit, created, late, crashed>>

WriteStatus(s) ==
  /\ call[s].step = "writeStatus"
  /\ status' = call[s].to
  /\ End(s)
  /\ UNCHANGED <<rows, credit, created, late, crashed>>

-----------------------------------------------------------------------------
(* The deadline job, the trip, time and crashes. *)

BeginLock ==
  /\ late /\ Blocks
  /\ status # Finished
  /\ Start("deadline", StatusWrite(Finished))
  /\ UNCHANGED <<status, rows, credit, created, late, crashed>>

\* Accounts payable fixes the budget and the agency books.
TripBooked ==
  /\ status \in {Quote, Agency}
  /\ status' = Expenses
  /\ UNCHANGED <<rows, credit, created, late, call, crashed>>

DeadlinePasses ==
  /\ ~late /\ late' = TRUE
  /\ UNCHANGED <<status, rows, credit, created, call, crashed>>

\* Nothing of a call in flight survives, and nothing resumes it.
Crash ==
  /\ MayCrash /\ ~crashed /\ Busy # {}
  /\ crashed' = TRUE
  /\ call' = [s \in Slots |-> Idle]
  /\ UNCHANGED <<status, rows, credit, created, late>>

Init ==
  /\ status \in Starts
  /\ validation = [r \in Ids |-> "none"]
  /\ cfdi = [r \in Ids |-> NoCfdi]
  /\ files = [r \in Ids |-> "none"]
  /\ credit = [r \in Ids |-> 0]
  /\ created = 0
  /\ late = FALSE
  /\ call = [s \in Slots |-> Idle]
  /\ crashed = FALSE

Begin(s) ==
  \/ \E inv \in Invoices \cup {Foreign}, replaced \in 0..MaxReceipts :
       BeginUpload(s, inv, replaced)
  \/ \E r \in Ids, verdict \in Decided : BeginDecision(s, r, verdict)
  \/ BeginHandIn(s) \/ BeginSync(s)

UploadStep(s) ==
  \/ CreateRow(s) \/ FindRow(s) \/ RemoveReplacedFiles(s) \/ DropReplaced(s)
  \/ CheckFiles(s) \/ WriteFiles(s) \/ CheckRegister(s) \/ InsertCfdi(s)

Advance(s) ==
  \/ UploadStep(s)
  \/ ReadOld(s) \/ WriteVerdict(s) \/ CreditWallet(s) \/ ReadVerdicts(s) \/ WriteStatus(s)

Next ==
  \/ \E s \in Callers : Begin(s)
  \/ \E s \in Slots : Advance(s)
  \/ \E r \in Ids : ApiDeleteReceipt(r)
  \/ BeginLock \/ TripBooked \/ DeadlinePasses \/ Crash

\* Every statement of a call in flight returns.  Users and time owe nothing.
Spec == Init /\ [][Next]_vars /\ \A s \in Slots : WF_vars(Advance(s))

-----------------------------------------------------------------------------
(* Properties. *)

\* Every variable has its type, and a call that goes on after its lookup
\* (subir-comprobante, findLastReceiptId) has a row id that was handed out.
TypeOK ==
  /\ status \in Quote..Finished
  /\ validation \in [Ids -> Verdicts]
  /\ cfdi \in [Ids -> Invoices \cup {Foreign, NoCfdi}]
  /\ files \in [Ids -> {"none", "kept", "gone"}]
  /\ credit \in [Ids -> Nat]
  /\ created \in 0..MaxReceipts
  /\ {late, crashed} \subseteq BOOLEAN
  /\ call \in [Slots -> Calls]
  /\ \A s \in Slots :
       call[s].step \notin {"idle", "create", "find", "sync", "writeStatus"} =>
         call[s].receipt \in 1..created

\* Money that went into the wallet for a receipt can be justified for ever: the
\* row and its CFDI are still there, and somebody approved it, whatever decisions,
\* uploads, replacements and deletions overlap (trigger 5, validateReceiptDecision,
\* deleteReceiptFile).
PaidHasEvidence ==
  \A r \in Ids : credit[r] > 0 => validation[r] \in Decided /\ cfdi[r] # NoCfdi

\* No national invoice is paid through two receipts, although every check of its
\* uuid is made before somebody else's insert (registerReceiptCfdi, uploadReceiptFile,
\* createExpenseValidationBatch).
InvoicePaidOnce ==
  \A r, q \in Ids :
    credit[r] > 0 /\ credit[q] > 0 /\ r # q => cfdi[r] # cfdi[q] \/ cfdi[r] = Foreign

\* Unless the process crashes in between, an approval reaches the wallet: no
\* interleaving of two decisions, or of a decision with an upload, makes each
\* trigger believe that the other one pays (trigger 5).
ApprovedGetsPaid ==
  \A r \in Ids : validation[r] = "Aprobado" ~> credit[r] > 0 \/ crashed

\* The same without time: whatever decisions, uploads and replacements overlap, no
\* approved receipt is left without its payment once no call is about to make one,
\* unless the process crashed (trigger 5, validateReceiptDecision).
ApprovedIsPaid ==
  ~crashed => \A r \in Ids : validation[r] = "Aprobado" /\ credit[r] = 0 =>
    \E s \in Slots : call[s].step = "credit" /\ call[s].receipt = r

\* With one call at a time and nothing in flight the wallet agrees with the
\* verdicts: an approved receipt is paid once, any other never (trigger 5).
WalletMatchesVerdicts ==
  Busy = {} =>
    \A r \in Ids : credit[r] = IF validation[r] = "Aprobado" THEN 1 ELSE 0

\* An approved receipt keeps its files: the only call that takes files away is
\* the replacement of a rejected one (deleteReceiptFile).
ApprovedKeepsFiles ==
  \A r \in Ids : validation[r] = "Aprobado" => files[r] = "kept"

\* The comment of the trigger extension: it replicates the trigger that adds to
\* the wallet after the update that approves a receipt, once.
CreditedOnce == \A r \in Ids : credit[r] <= 1

\* The comment of resubir-comprobante: the action deletes the replaced receipt
\* before the new one is uploaded.
ReplacedIsGone ==
  \A s \in Slots : call[s].step = "store" /\ call[s].replaced # 0 => ~Exists(call[s].replaced)

-----------------------------------------------------------------------------
(* The promise this claim keeps when calls do not overlap. *)

Stage == CASE status = Finished -> "closed"
           [] status = Validation -> "checking"
           [] OTHER -> "claiming"

Ledger == INSTANCE ReceiptLedger
            WITH Ids <- Ids, verdict <- validation, paid <- credit, stage <- Stage, late <- late

KeepsLedger == Ledger!Spec
=============================================================================
