--------------------------- MODULE ExpenseClaimProofs ---------------------------
(***************************************************************************)
(* Proofs about ExpenseClaim, for any number of callers, receipts, invoices *)
(* and calls in flight.                                                    *)
(*                                                                         *)
(* Every step of a call replaces the record of one slot; the types are      *)
(* proved slot by slot, the evidence row by row.                           *)
(***************************************************************************)
EXTENDS ExpenseClaim, FiniteSetTheorems, TLAPS

-----------------------------------------------------------------------------
(* Types. *)

\* The steps at which a call has no receipt yet, or no longer.
Aimless == {"idle", "create", "find", "sync", "writeStatus"}

\* c is a call in an hour in which n receipt ids have been handed out.
Typed(c, n) ==
  /\ c \in Calls
  /\ c.step \notin Aimless => c.receipt \in 1..n
  /\ c.step = "writeStatus" => c.to # 0

\* A call about to write a status has settled on one.
Targets == \A t \in Slots : call[t].step = "writeStatus" => call[t].to # 0

Creating == {t \in Slots : call[t].step = "create"}

\* Every upload that is about to insert a row has an id reserved for it.
Reserved == created + Cardinality(Creating) <= MaxReceipts

\* A step of one slot: its call becomes c.
Becomes(s, c) == call' = [call EXCEPT ![s] = c]

LEMMA SlotsFinite == IsFiniteSet(Slots)
PROOF BY SlotAssumption, FS_Singleton, FS_Union DEF Slots

LEMMA CreatingFinite ==
  IsFiniteSet(Creating) /\ Cardinality(Creating) \in Nat
PROOF BY SlotsFinite, FS_Subset, FS_CardinalityType DEF Creating

LEMMA CallTyped ==
  ASSUME TypeOK, Targets, NEW s \in Slots
  PROVE  Typed(call[s], created)
BY DEF TypeOK, Targets, Typed, Aimless

LEMMA Stages == {Expenses, Validation, Finished} \subseteq Quote..Finished
PROOF BY DEF Expenses, Validation, Finished, Quote

\* The records a call starts or ends with.
LEMMA Records ==
  /\ Typed(Idle, created)
  /\ \A t \in {Expenses, Validation, Finished} : Typed(StatusWrite(t), created)
<1>1. Idle \in Calls /\ Idle.step = "idle"
  BY BoundAssumption DEF Idle, Calls, Steps, Verdicts, Decided
<1>2. ASSUME NEW t \in {Expenses, Validation, Finished}
      PROVE  StatusWrite(t) \in Calls /\ StatusWrite(t).step = "writeStatus"
  BY <1>1 DEF StatusWrite, Calls, Steps
<1>3. \A t \in {Expenses, Validation, Finished} : StatusWrite(t).to # 0
  BY DEF StatusWrite, Idle, Expenses, Validation, Finished
<1> QED BY <1>1, <1>2, <1>3 DEF Typed, Aimless

\* What a well-typed replacement in one slot leaves is well typed.
LEMMA OneSlot ==
  ASSUME TypeOK, Targets, NEW s \in Slots, NEW c, Typed(c, created'), Becomes(s, c),
         created \in Nat, created' \in Nat, created <= created'
  PROVE  /\ call' \in [Slots -> Calls]
         /\ \A t \in Slots : call'[t].step \notin Aimless => call'[t].receipt \in 1..created'
         /\ Targets'
<1>1. \A t \in Slots : call'[t] = IF t = s THEN c ELSE call[t]
  BY DEF Becomes, TypeOK
<1>2. call' \in [Slots -> Calls]
  BY DEF Becomes, TypeOK, Typed
<1>3. ASSUME NEW t \in Slots, call'[t].step \notin Aimless PROVE call'[t].receipt \in 1..created'
  BY <1>1, <1>3, CallTyped DEF Typed
<1>4. Targets'
  BY <1>1 DEF Targets, Typed
<1> QED BY <1>2, <1>3, <1>4

\* A call goes on to its next step, with the receipt it has.
LEMMA GoTyped ==
  ASSUME TypeOK, Targets, NEW s \in Slots, NEW step \in Steps \ {"writeStatus"}, Go(s, step),
         step \notin Aimless => call[s].step \notin Aimless
  PROVE  \E c : Becomes(s, c) /\ Typed(c, created) /\ c.step = step
<1> DEFINE c == [call[s] EXCEPT !.step = step]
<1>1. call[s] \in Calls
  BY DEF TypeOK
<1>2. c \in Calls /\ c.step = step /\ c.receipt = call[s].receipt
  BY <1>1 DEF Calls
<1>3. Typed(c, created)
  BY <1>2, CallTyped DEF Typed
<1>4. Becomes(s, c)
  BY DEF Go, Becomes
<1> QED BY <1>2, <1>3, <1>4

LEMMA EndTyped ==
  ASSUME TypeOK, Targets, NEW s \in Slots, End(s)
  PROVE  \E c : Becomes(s, c) /\ Typed(c, created) /\ c.step # "create"
<1>1. Idle.step # "create"
  BY DEF Idle
<1>2. Becomes(s, Idle)
  BY DEF End, Becomes
<1> QED BY <1>1, <1>2, Records

\* The update of a receipt has returned.
LEMMA AfterTyped ==
  ASSUME TypeOK, Targets, NEW s \in Slots, NEW verdict, NEW then \in {"register", "sync"},
         AfterUpdate(s, verdict, then), call[s].step \notin Aimless
  PROVE  \E c : Becomes(s, c) /\ Typed(c, created) /\ c.step # "create"
<1> DEFINE step == IF verdict = "Aprobado" /\ call[s].old # "Aprobado" THEN "credit" ELSE then
           c == [call[s] EXCEPT !.old = "none", !.replaced = 0, !.step = step]
<1>1. call[s] \in Calls
  BY DEF TypeOK
<1>2. step \in Steps /\ step \notin {"create", "writeStatus"}
  BY DEF Steps
<1>3. Becomes(s, c)
  BY DEF AfterUpdate, After, Becomes
<1> HIDE DEF step
<1>4. c \in Calls /\ c.step = step /\ c.receipt = call[s].receipt
  <2>1. 0 \in 0..MaxReceipts /\ "none" \in Verdicts
    BY BoundAssumption DEF Verdicts
  <2> QED BY <1>1, <1>2, <2>1 DEF Calls
<1>5. Typed(c, created)
  BY <1>2, <1>4, CallTyped DEF Typed
<1> HIDE DEF c
<1> QED BY <1>2, <1>3, <1>4, <1>5

CallsTyped ==
  /\ call \in [Slots -> Calls]
  /\ \A t \in Slots : call[t].step \notin Aimless => call[t].receipt \in 1..created

RowsTyped ==
  /\ status \in Quote..Finished
  /\ validation \in [Ids -> Verdicts]
  /\ cfdi \in [Ids -> Invoices \cup {Foreign, NoCfdi}]
  /\ files \in [Ids -> {"none", "kept", "gone"}]
  /\ credit \in [Ids -> Nat]
  /\ {late, crashed} \subseteq BOOLEAN

\* A row has an id that was handed out.
HandedOut == \A r \in Ids : Exists(r) => r \in 1..created

TypeInv == TypeOK /\ Targets /\ Reserved /\ HandedOut

\* TypeOK in its two halves, and the bound on the ids handed out.
LEMMA TypeParts == TypeOK <=> RowsTyped /\ CallsTyped /\ created \in 0..MaxReceipts
PROOF BY DEF TypeOK, RowsTyped, CallsTyped, Aimless

\* The same of the state after a step.
LEMMA TypePartsAfter ==
  RowsTyped' /\ CallsTyped' /\ created' \in 0..MaxReceipts => TypeOK'
PROOF BY DEF TypeOK, RowsTyped, CallsTyped, Aimless

\* A step of a call that hands out no id and reserves none.
LEMMA SlotStep ==
  ASSUME TypeInv, NEW s \in Slots, UNCHANGED created,
         \E c : Becomes(s, c) /\ Typed(c, created) /\ c.step # "create"
  PROVE  CallsTyped' /\ Targets' /\ Reserved' /\ created' \in 0..MaxReceipts
<1>1. PICK c : Becomes(s, c) /\ Typed(c, created) /\ c.step # "create"
  OBVIOUS
<1>2. created \in 0..MaxReceipts /\ created \in Nat /\ MaxReceipts \in Nat
  BY BoundAssumption DEF TypeInv, TypeOK
<1>3. CallsTyped' /\ Targets'
  BY <1>1, <1>2, OneSlot DEF TypeInv, CallsTyped
<1>4. Creating' \in SUBSET Creating
  BY <1>1 DEF Becomes, TypeInv, TypeOK, Creating
<1>5. Cardinality(Creating') <= Cardinality(Creating) /\ Cardinality(Creating') \in Nat
  BY <1>4, CreatingFinite, FS_Subset, FS_CardinalityType
<1>6. Reserved'
  BY <1>2, <1>5, CreatingFinite DEF TypeInv, Reserved
<1> QED BY <1>2, <1>3, <1>6

\* A call that starts from nothing, with anything but an upload.
LEMMA StartTyped ==
  ASSUME TypeInv, NEW s \in Slots, NEW c, Start(s, c), Typed(c, created), c.step # "create",
         UNCHANGED <<status, rows, credit, created, late, crashed>>
  PROVE  TypeInv'
<1>1. Becomes(s, c)
  BY DEF Start, Becomes
<1>2. CallsTyped' /\ Targets' /\ Reserved' /\ created' \in 0..MaxReceipts
  BY <1>1, SlotStep
<1>3. RowsTyped' /\ HandedOut'
  BY TypeParts DEF TypeInv, RowsTyped, HandedOut, Exists, rows
<1> QED BY <1>2, <1>3, TypePartsAfter DEF TypeInv

LEMMA UploadTyped ==
  ASSUME TypeInv, NEW s \in Callers, NEW inv \in Invoices \cup {Foreign},
         NEW replaced \in 0..MaxReceipts, BeginUpload(s, inv, replaced)
  PROVE  TypeInv'
<1> DEFINE c == [Idle EXCEPT !.step = "create", !.invoice = inv, !.replaced = replaced]
<1>1. s \in Slots
  BY DEF Slots
<1>2. Becomes(s, c) /\ call[s].step = "idle"
  BY DEF BeginUpload, Start, Becomes
<1>3. Typed(c, created) /\ c.step = "create"
  BY Records DEF Typed, Aimless, Calls, Steps
<1> HIDE DEF c
<1>4. created \in 0..MaxReceipts /\ created' = created /\ created \in Nat
  BY BoundAssumption DEF BeginUpload, TypeInv, TypeOK
<1>5. CallsTyped' /\ Targets'
  BY <1>1, <1>2, <1>3, <1>4, OneSlot DEF TypeInv, CallsTyped
<1>6. Creating' = Creating \cup {s} /\ s \notin Creating
  BY <1>1, <1>2, <1>3 DEF Becomes, TypeInv, TypeOK, Creating
<1>7. Cardinality(Creating') = Cardinality(Creating) + 1
  BY <1>6, CreatingFinite, FS_AddElement
<1>8. created + Cardinality(Creating) < MaxReceipts
  BY DEF BeginUpload, Creating
<1>9. Reserved'
  BY <1>4, <1>7, <1>8, CreatingFinite, BoundAssumption DEF Reserved
<1>10. RowsTyped' /\ HandedOut'
  BY TypeParts DEF BeginUpload, TypeInv, RowsTyped, HandedOut, Exists, rows
<1> QED BY <1>4, <1>5, <1>9, <1>10, TypePartsAfter DEF TypeInv

LEMMA CreateTyped ==
  ASSUME TypeInv, NEW s \in Slots, CreateRow(s)
  PROVE  TypeInv'
<1>1. /\ created \in Nat /\ created' = created + 1 /\ s \in Creating
      /\ MaxReceipts \in Nat
  BY BoundAssumption DEF CreateRow, TypeInv, TypeOK, Creating
<1>2. Cardinality(Creating) \in Nat /\ Cardinality(Creating) >= 1
  BY <1>1, CreatingFinite, FS_EmptySet
<1>3. created' \in 0..MaxReceipts /\ created' \in Nat /\ created' \in Ids
  BY <1>1, <1>2 DEF TypeInv, Reserved, Ids
<1>4. PICK c : Becomes(s, c) /\ Typed(c, created) /\ c.step = "find"
  BY GoTyped DEF CreateRow, TypeInv, Steps, Aimless
<1>5. Typed(c, created')
  BY <1>4 DEF Typed, Aimless
<1>6. CallsTyped' /\ Targets'
  BY <1>1, <1>3, <1>4, <1>5, OneSlot DEF TypeInv, CallsTyped
<1>7. Creating' = Creating \ {s}
  BY <1>4 DEF Becomes, TypeInv, TypeOK, Creating
<1>8. Cardinality(Creating') = Cardinality(Creating) - 1
  BY <1>1, <1>7, CreatingFinite, FS_RemoveElement
<1>9. Reserved'
  BY <1>1, <1>2, <1>8 DEF TypeInv, Reserved
<1>10. RowsTyped'
  BY <1>3, TypeParts DEF CreateRow, TypeInv, RowsTyped, Verdicts
<1>11. HandedOut'
  BY <1>1, <1>3 DEF CreateRow, TypeInv, TypeOK, HandedOut, Exists, Ids
<1> QED BY <1>3, <1>6, <1>9, <1>10, <1>11, TypePartsAfter DEF TypeInv

\* What Go, End and Continue leave.
LEMMA ContinueTyped ==
  ASSUME TypeOK, Targets, NEW s \in Slots, NEW ok,
         NEW step \in Steps \ {"create", "writeStatus"}, Continue(s, ok, step),
         call[s].step \notin Aimless
  PROVE  \E c : Becomes(s, c) /\ Typed(c, created) /\ c.step # "create"
<1>1. CASE ok
  BY <1>1, GoTyped DEF Continue
<1>2. CASE ~ok
  BY <1>2, EndTyped DEF Continue
<1> QED BY <1>1, <1>2

\* The steps of a call that hand out no id: all but CreateRow.
Onward(s) ==
  \/ FindRow(s) \/ RemoveReplacedFiles(s) \/ DropReplaced(s) \/ CheckFiles(s)
  \/ WriteFiles(s) \/ CheckRegister(s) \/ InsertCfdi(s) \/ ReadOld(s)
  \/ WriteVerdict(s) \/ CreditWallet(s) \/ ReadVerdicts(s) \/ WriteStatus(s)

LEMMA OnwardCall ==
  ASSUME TypeInv, NEW s \in Slots, Onward(s)
  PROVE  /\ UNCHANGED created
         /\ \E c : Becomes(s, c) /\ Typed(c, created) /\ c.step # "create"
<1> DEFINE Goal == \E c : Becomes(s, c) /\ Typed(c, created) /\ c.step # "create"
<1>1. UNCHANGED created
  BY DEF Onward, FindRow, RemoveReplacedFiles, DropReplaced, CheckFiles, WriteFiles,
     CheckRegister, InsertCfdi, ReadOld, WriteVerdict, CreditWallet, ReadVerdicts, WriteStatus
<1>2. TypeOK /\ Targets /\ call[s] \in Calls
  BY DEF TypeInv, TypeOK
<1>3. ASSUME FindRow(s) PROVE Goal
  <2>1. CASE End(s)
    BY <1>2, <2>1, EndTyped
  <2>2. ASSUME NEW r \in Ids, Last(r),
               call' = [call EXCEPT ![s].receipt = r,
                          ![s].step = IF call[s].replaced = 0 THEN "store" ELSE "remove"]
        PROVE  Goal
    <3> DEFINE step == IF call[s].replaced = 0 THEN "store" ELSE "remove"
               c == [call[s] EXCEPT !.receipt = r, !.step = step]
    <3>1. step \in Steps /\ step \notin {"create", "writeStatus"}
      BY DEF Steps
    <3>2. Becomes(s, c)
      BY <2>2 DEF Becomes
    <3>3. r \in 1..created /\ r \in 0..MaxReceipts
      BY <2>2 DEF TypeInv, HandedOut, Last, Ids
    <3> HIDE DEF step
    <3>4. c \in Calls /\ c.step = step /\ c.receipt = r
      BY <1>2, <3>1, <3>3 DEF Calls
    <3>5. Typed(c, created)
      BY <3>1, <3>3, <3>4 DEF Typed
    <3> HIDE DEF c
    <3> QED BY <3>1, <3>2, <3>4, <3>5
  <2> QED BY <1>3, <2>1, <2>2 DEF FindRow
<1>4. ASSUME RemoveReplacedFiles(s) PROVE Goal
  <2>1. Go(s, "drop") \/ Go(s, "store")
    BY <1>4 DEF RemoveReplacedFiles
  <2> QED BY <1>2, <1>4, <2>1, GoTyped DEF RemoveReplacedFiles, Steps, Aimless
<1>5. ASSUME DropReplaced(s) PROVE Goal
  BY <1>2, <1>5, GoTyped DEF DropReplaced, Steps, Aimless
<1>6. ASSUME CheckFiles(s) PROVE Goal
  <2>1. "readFiles" \in Steps \ {"create", "writeStatus"} /\ call[s].step \notin Aimless
    BY <1>6 DEF CheckFiles, Steps, Aimless
  <2> QED BY <1>2, <1>6, <2>1, ContinueTyped DEF CheckFiles
<1>7. ASSUME WriteFiles(s) PROVE Goal
  <2>1. End(s) \/ \E v : AfterUpdate(s, v, "register")
    BY <1>7 DEF WriteFiles
  <2>2. call[s].step \notin Aimless
    BY <1>7 DEF WriteFiles, Aimless
  <2> QED BY <1>2, <2>1, <2>2, EndTyped, AfterTyped
<1>8. ASSUME CheckRegister(s) PROVE Goal
  <2>1. /\ {"readForeign", "insert"} \subseteq Steps \ {"create", "writeStatus"}
        /\ call[s].step \notin Aimless
    BY <1>8 DEF CheckRegister, Steps, Aimless
  <2>2. \E ok : Continue(s, ok, "readForeign") \/ Continue(s, ok, "insert")
    <3>1. CASE call[s].invoice = Foreign
      BY <1>8, <3>1 DEF CheckRegister
    <3>2. CASE call[s].invoice # Foreign
      <4>1. PICK b \in BOOLEAN :
              Continue(s, Exists(call[s].receipt) /\ MayUpload /\ ~Registered(call[s].invoice)
                          /\ b, "insert")
        BY <1>8, <3>2 DEF CheckRegister
      <4> QED BY <4>1
    <3> QED BY <3>1, <3>2
  <2> QED BY <1>2, <2>1, <2>2, ContinueTyped
<1>9. ASSUME InsertCfdi(s) PROVE Goal
  BY <1>2, <1>9, EndTyped DEF InsertCfdi
<1>10. ASSUME ReadOld(s) PROVE Goal
  <2> DEFINE step == UpdateAfter[call[s].step]
             old == validation[call[s].receipt]
             c == [call[s] EXCEPT !.step = step, !.old = old]
  <2>1. /\ step \in Steps /\ step \notin {"create", "writeStatus"}
        /\ call[s].step \notin Aimless
    BY <1>10 DEF ReadOld, UpdateAfter, Steps, Aimless
  <2>2. old \in Verdicts /\ call[s].receipt \in 1..created
    <3>1. call[s].receipt \in 1..created
      BY <1>2, <2>1, CallTyped DEF Typed
    <3>2. created \in 0..MaxReceipts /\ validation \in [Ids -> Verdicts]
      BY <1>2 DEF TypeOK
    <3> QED BY <3>1, <3>2, BoundAssumption DEF Ids
  <2>3. Becomes(s, c)
    BY <1>2, <1>10 DEF ReadOld, Becomes, Calls
  <2> HIDE DEF step, old
  <2>4. c \in Calls /\ c.step = step /\ c.receipt = call[s].receipt
    BY <1>2, <2>1, <2>2 DEF Calls
  <2>5. Typed(c, created)
    BY <2>1, <2>2, <2>4 DEF Typed
  <2> HIDE DEF c
  <2> QED BY <2>1, <2>3, <2>4, <2>5
<1>11. ASSUME WriteVerdict(s) PROVE Goal
  <2>1. End(s) \/ AfterUpdate(s, call[s].verdict, "sync")
    BY <1>11 DEF WriteVerdict
  <2>2. call[s].step \notin Aimless
    BY <1>11 DEF WriteVerdict, Aimless
  <2> QED BY <1>2, <2>1, <2>2, EndTyped, AfterTyped
<1>12. ASSUME CreditWallet(s) PROVE Goal
  <2>1. Go(s, "register") \/ Go(s, "sync")
    BY <1>12 DEF CreditWallet
  <2> QED BY <1>2, <1>12, <2>1, GoTyped DEF CreditWallet, Steps, Aimless
<1>13. ASSUME ReadVerdicts(s) PROVE Goal
  <2>1. \/ End(s)
        \/ Becomes(s, StatusWrite(Expenses))
        \/ Becomes(s, StatusWrite(Finished))
    BY <1>13 DEF ReadVerdicts, Becomes
  <2>2. \A t : StatusWrite(t).step # "create"
    BY DEF StatusWrite, Idle
  <2> QED BY <1>2, <2>1, <2>2, EndTyped, Records
<1>14. ASSUME WriteStatus(s) PROVE Goal
  BY <1>2, <1>14, EndTyped DEF WriteStatus
<1> HIDE DEF Goal
<1>15. Goal
  BY <1>3, <1>4, <1>5, <1>6, <1>7, <1>8, <1>9, <1>10, <1>11, <1>12, <1>13, <1>14 DEF Onward
<1> QED BY <1>1, <1>15 DEF Goal

\* The deletion of a row.
LEMMA DeleteRows ==
  ASSUME RowsTyped, HandedOut, NEW r, Delete(r), UNCHANGED <<status, credit, created, late, crashed>>
  PROVE  RowsTyped' /\ HandedOut'
<1>1. RowsTyped'
  BY DEF Delete, RowsTyped, Verdicts
<1>2. \A q \in Ids : Exists(q)' => Exists(q)
  BY DEF Delete, RowsTyped, Exists
<1> QED BY <1>1, <1>2 DEF HandedOut

\* One more credit for a receipt.
LEMMA CreditedMore ==
  ASSUME credit \in [Ids -> Nat], NEW r, credit' = [credit EXCEPT ![r] = @ + 1]
  PROVE  credit' \in [Ids -> Nat]
<1>1. CASE r \in Ids
  <2>1. credit[r] + 1 \in Nat
    BY <1>1
  <2> QED BY <2>1
<1>2. CASE r \notin Ids
  BY <1>2
<1> QED BY <1>1, <1>2

LEMMA OnwardRows ==
  ASSUME TypeInv, NEW s \in Slots, Onward(s)
  PROVE  RowsTyped' /\ HandedOut'
<1>1. RowsTyped /\ HandedOut /\ call[s] \in Calls /\ UNCHANGED created
  BY TypeParts, OnwardCall DEF TypeInv, TypeOK
<1> DEFINE Goal == RowsTyped' /\ HandedOut'
<1>2. ASSUME UNCHANGED <<status, rows, credit, late, crashed>> PROVE Goal
  BY <1>1, <1>2 DEF RowsTyped, HandedOut, Exists, rows
<1>3. ASSUME FindRow(s) \/ CheckFiles(s) \/ CheckRegister(s) \/ ReadOld(s) \/ ReadVerdicts(s)
      PROVE  Goal
  BY <1>2, <1>3 DEF FindRow, CheckFiles, CheckRegister, ReadOld, ReadVerdicts
<1>4. ASSUME RemoveReplacedFiles(s) PROVE Goal
  <2>1. files' \in [Ids -> {"none", "kept", "gone"}]
    BY <1>1, <1>4 DEF RemoveReplacedFiles, RowsTyped
  <2> QED BY <1>1, <1>4, <2>1 DEF RemoveReplacedFiles, RowsTyped, HandedOut, Exists
<1>5. ASSUME DropReplaced(s) PROVE Goal
  <2>1. UNCHANGED <<status, credit, created, late, crashed>>
    BY <1>5 DEF DropReplaced
  <2>2. UNCHANGED rows \/ Delete(call[s].replaced)
    BY <1>5 DEF DropReplaced
  <2>3. CASE UNCHANGED rows
    BY <1>2, <2>1, <2>3
  <2>4. CASE Delete(call[s].replaced)
    BY <1>1, <2>1, <2>4, DeleteRows
  <2> QED BY <2>2, <2>3, <2>4
<1>6. ASSUME WriteFiles(s) PROVE Goal
  <2>1. files' \in [Ids -> {"none", "kept", "gone"}]
    BY <1>1, <1>6 DEF WriteFiles, RowsTyped
  <2> QED BY <1>1, <1>6, <2>1 DEF WriteFiles, RowsTyped, HandedOut, Exists
<1>7. ASSUME InsertCfdi(s) PROVE Goal
  <2>1. call[s].invoice \in Invoices \cup {Foreign, NoCfdi}
    BY <1>1 DEF Calls
  <2>2. cfdi' \in [Ids -> Invoices \cup {Foreign, NoCfdi}]
    BY <1>1, <1>7, <2>1 DEF InsertCfdi, RowsTyped
  <2>3. credit' \in [Ids -> Nat]
    <3>1. credit' = credit \/ credit' = [credit EXCEPT ![call[s].receipt] = @ + 1]
      BY <1>7 DEF InsertCfdi
    <3> QED BY <1>1, <3>1, CreditedMore DEF RowsTyped
  <2> QED BY <1>1, <1>7, <2>2, <2>3 DEF InsertCfdi, RowsTyped, HandedOut, Exists
<1>8. ASSUME WriteVerdict(s) PROVE Goal
  <2>1. UNCHANGED <<status, cfdi, files, credit, late, crashed>>
    BY <1>8 DEF WriteVerdict
  <2>2. \/ validation' = validation
        \/ /\ Exists(call[s].receipt)
           /\ validation' = [validation EXCEPT ![call[s].receipt] = call[s].verdict]
    BY <1>8 DEF WriteVerdict
  <2>3. validation' \in [Ids -> Verdicts]
    BY <1>1, <2>2 DEF RowsTyped, Calls
  <2>4. \A q \in Ids : Exists(q)' => Exists(q)
    BY <1>1, <2>2 DEF RowsTyped, Exists
  <2> QED BY <1>1, <2>1, <2>3, <2>4 DEF RowsTyped, HandedOut
<1>9. ASSUME CreditWallet(s) PROVE Goal
  <2>1. credit' \in [Ids -> Nat]
    BY <1>1, <1>9, CreditedMore DEF CreditWallet, RowsTyped
  <2> QED BY <1>1, <1>9, <2>1 DEF CreditWallet, RowsTyped, HandedOut, Exists, rows
<1>10. ASSUME WriteStatus(s) PROVE Goal
  <2>1. status' \in Quote..Finished
    BY <1>1, <1>10, Stages DEF WriteStatus, TypeInv, Targets, Calls
  <2> QED BY <1>1, <1>10, <2>1 DEF WriteStatus, RowsTyped, HandedOut, Exists, rows
<1> HIDE DEF Goal
<1>11. Goal
  BY <1>3, <1>4, <1>5, <1>6, <1>7, <1>8, <1>9, <1>10 DEF Onward
<1> QED BY <1>11 DEF Goal

LEMMA OnwardTyped ==
  ASSUME TypeInv, NEW s \in Slots, Onward(s)
  PROVE  TypeInv'
<1>1. CallsTyped' /\ Targets' /\ Reserved' /\ created' \in 0..MaxReceipts
  BY OnwardCall, SlotStep
<1>2. RowsTyped' /\ HandedOut'
  BY OnwardRows
<1> QED BY <1>1, <1>2, TypePartsAfter DEF TypeInv

\* A step outside the calls: the bare deletion, the trip, the clock.
LEMMA OutsideTyped ==
  ASSUME TypeInv, UNCHANGED <<call, created>>, RowsTyped', HandedOut'
  PROVE  TypeInv'
<1>1. CallsTyped' /\ Targets' /\ Reserved'
  BY TypeParts DEF TypeInv, CallsTyped, Targets, Reserved, Creating
<1> QED BY <1>1, TypePartsAfter DEF TypeInv, TypeOK

LEMMA BeginTyped ==
  ASSUME TypeInv, NEW s \in Callers, Begin(s)
  PROVE  TypeInv'
<1>1. s \in Slots
  BY DEF Slots
<1>2. ASSUME NEW r \in Ids, NEW verdict \in Decided, BeginDecision(s, r, verdict)
      PROVE  TypeInv'
  <2> DEFINE c == [Idle EXCEPT !.step = "readVerdict", !.receipt = r, !.verdict = verdict]
  <2>1. r \in 1..created
    <3>1. validation[r] = "Pendiente" /\ r # 0
      BY <1>2 DEF BeginDecision, Ids
    <3> QED BY <3>1 DEF TypeInv, HandedOut, Exists
  <2>2. c \in Calls /\ c.step = "readVerdict" /\ c.receipt = r
    <3>1. Idle \in Calls
      BY Records DEF Typed
    <3>2. r \in 0..MaxReceipts /\ verdict \in Verdicts /\ "readVerdict" \in Steps
      BY DEF Ids, Verdicts, Steps
    <3> QED BY <3>1, <3>2 DEF Calls
  <2>3. Typed(c, created)
    BY <2>1, <2>2 DEF Typed
  <2>4. Start(s, c) /\ UNCHANGED <<status, rows, credit, created, late, crashed>>
    BY <1>2 DEF BeginDecision
  <2> HIDE DEF c
  <2> QED BY <1>1, <2>2, <2>3, <2>4, StartTyped
<1>3. ASSUME BeginHandIn(s) PROVE TypeInv'
  <2>1. StatusWrite(Validation).step # "create"
    BY DEF StatusWrite, Idle
  <2> QED BY <1>1, <1>3, <2>1, Records, StartTyped DEF BeginHandIn
<1>4. ASSUME BeginSync(s) PROVE TypeInv'
  <2> DEFINE c == [Idle EXCEPT !.step = "sync"]
  <2>1. c \in Calls /\ c.step = "sync"
    BY Records DEF Typed, Calls, Steps
  <2>2. Typed(c, created)
    BY <2>1 DEF Typed, Aimless
  <2>3. Start(s, c) /\ UNCHANGED <<status, rows, credit, created, late, crashed>>
    BY <1>4 DEF BeginSync
  <2> HIDE DEF c
  <2> QED BY <1>1, <2>1, <2>2, <2>3, StartTyped
<1> QED BY <1>2, <1>3, <1>4, UploadTyped DEF Begin

\* The steps of Next.
LEMMA NextCases ==
  Next <=> \/ \E s \in Callers : Begin(s)
           \/ \E s \in Slots : CreateRow(s) \/ Onward(s)
           \/ \E r \in Ids : ApiDeleteReceipt(r)
           \/ BeginLock \/ TripBooked \/ DeadlinePasses \/ Crash
PROOF BY DEF Next, Advance, UploadStep, Onward

LEMMA TypeStep ==
  ASSUME TypeInv, [Next]_vars
  PROVE  TypeInv'
<1>1. RowsTyped /\ HandedOut
  BY TypeParts DEF TypeInv
<1>2. ASSUME NEW r \in Ids, ApiDeleteReceipt(r) PROVE TypeInv'
  BY <1>1, <1>2, DeleteRows, OutsideTyped DEF ApiDeleteReceipt
<1>3. ASSUME BeginLock PROVE TypeInv'
  <2>1. StatusWrite(Finished).step # "create" /\ "deadline" \in Slots
    BY DEF StatusWrite, Idle, Slots
  <2> QED BY <1>3, <2>1, Records, StartTyped DEF BeginLock
<1>4. ASSUME TripBooked PROVE TypeInv'
  <2>1. RowsTyped' /\ HandedOut'
    BY <1>1, <1>4, Stages DEF TripBooked, RowsTyped, HandedOut, Exists, rows
  <2> QED BY <1>4, <2>1, OutsideTyped DEF TripBooked
<1>5. ASSUME DeadlinePasses PROVE TypeInv'
  <2>1. RowsTyped' /\ HandedOut'
    BY <1>1, <1>5 DEF DeadlinePasses, RowsTyped, HandedOut, Exists, rows
  <2> QED BY <1>5, <2>1, OutsideTyped DEF DeadlinePasses
<1>6. ASSUME Crash PROVE TypeInv'
  <2>1. /\ \A t \in Slots : call'[t] = Idle
        /\ call' = [t \in Slots |-> Idle]
        /\ created' = created
    BY <1>6 DEF Crash
  <2>2. CallsTyped' /\ Targets' /\ Creating' = {}
    BY <2>1, Records DEF CallsTyped, Targets, Creating, Typed, Aimless, Idle
  <2>3. Reserved'
    BY <2>1, <2>2, FS_EmptySet, BoundAssumption DEF TypeInv, TypeOK, Reserved
  <2>4. RowsTyped' /\ HandedOut' /\ created' \in 0..MaxReceipts
    BY <1>1, <1>6 DEF Crash, RowsTyped, HandedOut, Exists, rows, TypeInv, TypeOK
  <2> QED BY <2>2, <2>3, <2>4, TypePartsAfter DEF TypeInv
<1>7. ASSUME UNCHANGED vars PROVE TypeInv'
  <2>1. RowsTyped' /\ HandedOut'
    BY <1>1, <1>7 DEF vars, RowsTyped, HandedOut, Exists, rows
  <2> QED BY <1>7, <2>1, OutsideTyped DEF vars
<1> QED BY <1>2, <1>3, <1>4, <1>5, <1>6, <1>7, BeginTyped, CreateTyped, OnwardTyped, NextCases

LEMMA TypeInvariant == Spec => []TypeInv
<1>1. Init => TypeInv
  <2> SUFFICES ASSUME Init PROVE TypeInv
    OBVIOUS
  <2>1. Creating = {} /\ CallsTyped /\ Targets
    <3>1. Idle \in Calls
      BY Records DEF Typed
    <3>2. Idle.step = "idle"
      BY DEF Idle
    <3> QED BY <3>1, <3>2 DEF Init, Creating, CallsTyped, Targets, Aimless
  <2>2. RowsTyped
    <3>1. status \in Quote..Finished
      BY BoundAssumption DEF Init, Quote, Expenses, Finished
    <3> QED BY <3>1 DEF Init, RowsTyped, Verdicts
  <2>3. HandedOut
    BY DEF Init, HandedOut, Exists
  <2>4. created = 0 /\ Reserved /\ created \in 0..MaxReceipts
    BY <2>1, FS_EmptySet, BoundAssumption DEF Init, Reserved
  <2> QED BY <2>1, <2>2, <2>3, <2>4, TypeParts DEF TypeInv
<1>2. TypeInv /\ [Next]_vars => TypeInv'
  BY TypeStep
<1> QED BY <1>1, <1>2, PTL DEF Spec

\* Every variable keeps its type, and a call past its lookup has a row id that was
\* handed out, however many calls there are.
THEOREM TypeCorrect == Spec => []TypeOK
<1>1. TypeInv => TypeOK
  BY DEF TypeInv
<1> QED BY <1>1, TypeInvariant, PTL

-----------------------------------------------------------------------------
(* Evidence. *)

\* Somebody has decided on the receipt, and its CFDI is in the table.
Proven(r) == validation[r] \in Decided /\ cfdi[r] # NoCfdi

\* What a call in flight has seen and still counts on.
CallEvidence(c) ==
  /\ c.step \in {"readVerdict", "writeVerdict"} =>
       c.verdict \in Decided /\ (c.verdict = "Aprobado" => cfdi[c.receipt] # NoCfdi)
  /\ c.step = "credit" => Proven(c.receipt)

\* No national invoice is in the table twice.
UniqueInvoices ==
  \A r, q \in Ids : r # q /\ cfdi[r] = cfdi[q] => cfdi[r] \in {Foreign, NoCfdi}

RowEvidence ==
  \A r \in Ids : /\ credit[r] > 0 => Proven(r)
                 /\ validation[r] = "Aprobado" => cfdi[r] # NoCfdi

EvidenceInv ==
  /\ RowEvidence
  /\ UniqueInvoices
  /\ \A t \in Slots : CallEvidence(call[t])

\* The receipt of a call that is past its lookup.
LEMMA ReceiptOf ==
  ASSUME TypeInv, NEW s \in Slots, call[s].step \notin Aimless
  PROVE  call[s].receipt \in Ids
<1>1. call[s].receipt \in 1..created
  BY CallTyped DEF TypeInv, Typed
<1>2. created \in 0..MaxReceipts /\ MaxReceipts \in Nat
  BY BoundAssumption DEF TypeInv, TypeOK
<1> QED BY <1>1, <1>2 DEF Ids

\* What becomes of the rows in one step, whoever takes it.
RowsMove ==
  /\ \A r \in Ids : cfdi[r] # NoCfdi => cfdi'[r] = cfdi[r]
  /\ \A r \in Ids : Proven(r) => validation'[r] \in Decided
  /\ \A r \in Ids : credit'[r] > 0 => credit[r] > 0 \/ Proven(r)
  /\ \A r \in Ids : validation'[r] = "Aprobado" => validation[r] = "Aprobado" \/ cfdi[r] # NoCfdi
  /\ \A r, q \in Ids : r # q /\ cfdi'[r] = cfdi'[q] =>
       (cfdi[r] = cfdi[q] /\ cfdi'[r] = cfdi[r]) \/ cfdi'[r] \in {Foreign, NoCfdi}

LEMMA RowsMoveKeeps ==
  ASSUME EvidenceInv, RowsMove
  PROVE  /\ RowEvidence' /\ UniqueInvoices'
         /\ \A r \in Ids : Proven(r) => Proven(r)'
<1>1. \A r \in Ids : Proven(r) => Proven(r)'
  BY DEF RowsMove, Proven
<1>2. RowEvidence'
  BY <1>1 DEF EvidenceInv, RowEvidence, RowsMove
<1>3. UniqueInvoices'
  <2> SUFFICES ASSUME NEW r \in Ids, NEW q \in Ids, r # q, cfdi'[r] = cfdi'[q],
                      cfdi'[r] \notin {Foreign, NoCfdi}
               PROVE  FALSE
    BY DEF UniqueInvoices
  <2>1. cfdi[r] = cfdi[q] /\ cfdi'[r] = cfdi[r]
    BY DEF RowsMove
  <2>2. cfdi[r] \in {Foreign, NoCfdi}
    BY <2>1 DEF EvidenceInv, UniqueInvoices
  <2> QED BY <2>1, <2>2
<1> QED BY <1>1, <1>2, <1>3

\* A step that leaves the rows and the wallet alone, or deletes a row without CFDI.
LEMMA PlainMove ==
  ASSUME UNCHANGED <<validation, cfdi, credit>>
  PROVE  RowsMove
BY DEF RowsMove, Proven

LEMMA DeleteMove ==
  ASSUME TypeInv, NEW r, Deletable(r), Delete(r), UNCHANGED credit
  PROVE  RowsMove
<1>1. validation \in [Ids -> Verdicts] /\ cfdi \in [Ids -> Invoices \cup {Foreign, NoCfdi}]
  BY DEF TypeInv, TypeOK
<1>2. /\ cfdi[r] = NoCfdi
      /\ validation' = [validation EXCEPT ![r] = "none"]
      /\ cfdi' = [cfdi EXCEPT ![r] = NoCfdi]
  BY DEF Deletable, Delete
<1>3. \A q \in Ids : q # r => validation'[q] = validation[q]
  BY <1>1, <1>2
<1>4. \A q \in Ids : cfdi'[q] = cfdi[q]
  BY <1>1, <1>2
<1>5. r \in Ids => validation'[r] = "none"
  BY <1>1, <1>2
<1> QED BY <1>2, <1>3, <1>4, <1>5 DEF RowsMove, Proven

LEMMA OnwardMove ==
  ASSUME TypeInv, EvidenceInv, NEW s \in Slots, Onward(s)
  PROVE  RowsMove
<1>1. /\ validation \in [Ids -> Verdicts] /\ cfdi \in [Ids -> Invoices \cup {Foreign, NoCfdi}]
      /\ credit \in [Ids -> Nat]
  BY DEF TypeInv, TypeOK
<1>2. CallEvidence(call[s])
  BY DEF EvidenceInv
<1>3. ASSUME \/ FindRow(s) \/ RemoveReplacedFiles(s) \/ CheckFiles(s) \/ WriteFiles(s)
             \/ CheckRegister(s) \/ ReadOld(s) \/ ReadVerdicts(s) \/ WriteStatus(s)
      PROVE  RowsMove
  <2>1. UNCHANGED <<validation, cfdi, credit>>
    BY <1>3 DEF FindRow, RemoveReplacedFiles, CheckFiles, WriteFiles, CheckRegister, ReadOld,
       ReadVerdicts, WriteStatus, rows
  <2> QED BY <2>1, PlainMove
<1>4. ASSUME DropReplaced(s) PROVE RowsMove
  <2>1. CASE UNCHANGED rows
    BY <1>4, <2>1, PlainMove DEF DropReplaced, rows
  <2>2. CASE Deletable(call[s].replaced) /\ Delete(call[s].replaced)
    BY <1>4, <2>2, DeleteMove DEF DropReplaced
  <2> QED BY <1>4, <2>1, <2>2 DEF DropReplaced
<1>5. ASSUME InsertCfdi(s) PROVE RowsMove
  <2> DEFINE r == call[s].receipt
             inv == call[s].invoice
  <2>1. r \in Ids
    BY <1>5, ReceiptOf DEF InsertCfdi, Aimless
  <2>2. \/ cfdi' = cfdi
        \/ Insertable(r, inv) /\ cfdi' = [cfdi EXCEPT ![r] = inv]
    BY <1>5 DEF InsertCfdi
  <2>3. \/ credit' = credit
        \/ validation[r] = "Aprobado" /\ credit' = [credit EXCEPT ![r] = @ + 1]
    BY <1>5 DEF InsertCfdi
  <2>4. validation' = validation
    BY <1>5 DEF InsertCfdi
  <2> HIDE DEF r, inv
  <2>5. \A q \in Ids : credit'[q] > 0 => credit[q] > 0 \/ Proven(q)
    <3>1. \A q \in Ids : q # r => credit'[q] = credit[q]
      BY <1>1, <2>3
    <3>2. validation[r] = "Aprobado" => Proven(r)
      BY <2>1 DEF EvidenceInv, RowEvidence, Proven, Decided
    <3>3. credit'[r] > 0 => credit[r] > 0 \/ Proven(r)
      BY <2>3, <3>2
    <3> QED BY <3>1, <3>3
  <2>6. CASE cfdi' = cfdi
    BY <2>4, <2>5, <2>6 DEF RowsMove, Proven
  <2>7. CASE Insertable(r, inv) /\ cfdi' = [cfdi EXCEPT ![r] = inv]
    <3>1. cfdi[r] = NoCfdi /\ (inv = Foreign \/ \A q \in Ids : cfdi[q] # inv)
      BY <2>7 DEF Insertable, Registered
    <3>2. cfdi'[r] = inv /\ \A q \in Ids : q # r => cfdi'[q] = cfdi[q]
      BY <1>1, <2>1, <2>7
    <3>3. ASSUME NEW q \in Ids, NEW p \in Ids, q # p, cfdi'[q] = cfdi'[p]
          PROVE  (cfdi[q] = cfdi[p] /\ cfdi'[q] = cfdi[q]) \/ cfdi'[q] \in {Foreign, NoCfdi}
      BY <3>1, <3>2, <3>3
    <3>4. \A q \in Ids : cfdi[q] # NoCfdi => cfdi'[q] = cfdi[q]
      BY <3>1, <3>2
    <3> QED BY <2>4, <2>5, <3>3, <3>4 DEF RowsMove, Proven
  <2> QED BY <2>2, <2>6, <2>7
<1>6. ASSUME WriteVerdict(s) PROVE RowsMove
  <2> DEFINE r == call[s].receipt
             v == call[s].verdict
  <2>1. r \in Ids /\ v \in Decided /\ (v = "Aprobado" => cfdi[r] # NoCfdi)
    BY <1>2, <1>6, ReceiptOf DEF WriteVerdict, Aimless, CallEvidence
  <2>2. validation' = validation \/ validation' = [validation EXCEPT ![r] = v]
    BY <1>6 DEF WriteVerdict
  <2>3. UNCHANGED <<cfdi, credit>>
    BY <1>6 DEF WriteVerdict
  <2> HIDE DEF r, v
  <2>4. \A q \in Ids : validation'[q] = validation[q] \/ (q = r /\ validation'[q] = v)
    BY <1>1, <2>1, <2>2
  <2> QED BY <2>1, <2>3, <2>4 DEF RowsMove, Proven
<1>7. ASSUME CreditWallet(s) PROVE RowsMove
  <2>1. Proven(call[s].receipt)
    BY <1>2, <1>7 DEF CreditWallet, CallEvidence
  <2>2. \A q \in Ids : credit'[q] = credit[q] \/ q = call[s].receipt
    BY <1>1, <1>7 DEF CreditWallet
  <2>3. UNCHANGED <<validation, cfdi>>
    BY <1>7 DEF CreditWallet, rows
  <2> QED BY <2>1, <2>2, <2>3 DEF RowsMove, Proven
<1> QED BY <1>3, <1>4, <1>5, <1>6, <1>7 DEF Onward

LEMMA CreateMove ==
  ASSUME TypeInv, EvidenceInv, NEW s \in Slots, CreateRow(s)
  PROVE  RowsMove
<1>1. created \in 0..MaxReceipts /\ validation \in [Ids -> Verdicts]
  BY DEF TypeInv, TypeOK
<1>2. \A r \in Ids : validation'[r] = validation[r] \/ (r = created + 1 /\ validation'[r] = "Pendiente")
  BY <1>1 DEF CreateRow
<1>3. created + 1 \in Ids => ~Proven(created + 1)
  <2>1. created + 1 \in Ids => ~Exists(created + 1)
    BY <1>1 DEF TypeInv, HandedOut
  <2> QED BY <1>1, <2>1 DEF Proven, Exists, Decided
<1>4. UNCHANGED <<cfdi, credit>>
  BY DEF CreateRow
<1> QED BY <1>2, <1>3, <1>4 DEF RowsMove, Proven

\* The steps at which a call counts on nothing.
Quiet == Steps \ {"readVerdict", "writeVerdict", "credit"}

LEMMA QuietSteps ==
  /\ {"idle", "create", "find", "remove", "drop", "store", "readFiles", "writeFiles", "register",
      "readForeign", "insert", "sync", "writeStatus"} = Quiet
  /\ Idle.step = "idle" /\ \A t : StatusWrite(t).step = "writeStatus"
<1>1. {"idle", "create", "find", "remove", "drop", "store", "readFiles", "writeFiles", "register",
       "readForeign", "insert", "sync", "writeStatus"} = Quiet
  BY DEF Quiet, Steps
<1>2. Idle.step = "idle" /\ \A t : StatusWrite(t).step = "writeStatus"
  BY DEF Idle, StatusWrite
<1> QED BY <1>1, <1>2

LEMMA QuietEvidence ==
  ASSUME NEW s, call'[s].step \in Quiet
  PROVE  CallEvidence(call[s])'
BY DEF CallEvidence, Quiet

\* A call about to credit counts on the evidence of its receipt.
LEMMA CreditEvidence ==
  ASSUME NEW s, NEW r, call'[s].step = "credit", call'[s].receipt = r, Proven(r)'
  PROVE  CallEvidence(call[s])'
BY DEF CallEvidence, Proven

\* A call goes on with the evidence it counts on.
LEMMA OnwardEvidence ==
  ASSUME TypeInv, EvidenceInv, RowsMove, NEW s \in Slots, Onward(s)
  PROVE  CallEvidence(call[s])'
<1>1. /\ call \in [Slots -> Calls] /\ call[s] \in Calls /\ CallEvidence(call[s])
      /\ \A r \in Ids : Proven(r) => Proven(r)'
  BY RowsMoveKeeps DEF TypeInv, TypeOK, EvidenceInv
<1>2. ASSUME \E step \in Quiet : Go(s, step) PROVE call'[s].step \in Quiet
  BY <1>1, <1>2 DEF Go, Calls
<1>3. ASSUME End(s) PROVE call'[s].step \in Quiet
  BY <1>1, <1>3, QuietSteps DEF End
<1>4. ASSUME NEW ok, \E step \in Quiet : Continue(s, ok, step) PROVE call'[s].step \in Quiet
  BY <1>2, <1>3, <1>4 DEF Continue
<1>5. ASSUME FindRow(s) PROVE call'[s].step \in Quiet
  <2>1. ASSUME NEW r, call' = [call EXCEPT ![s].receipt = r,
                        ![s].step = IF call[s].replaced = 0 THEN "store" ELSE "remove"]
        PROVE  call'[s].step \in Quiet
    <3>1. call'[s].step \in {"store", "remove"}
      BY <1>1, <2>1 DEF Calls
    <3> QED BY <3>1, QuietSteps
  <2> QED BY <1>3, <1>5, <2>1 DEF FindRow
<1>6. ASSUME RemoveReplacedFiles(s) \/ DropReplaced(s) \/ CreditWallet(s)
      PROVE  call'[s].step \in Quiet
  <2>1. Go(s, "drop") \/ Go(s, "store") \/ Go(s, "register") \/ Go(s, "sync")
    BY <1>6 DEF RemoveReplacedFiles, DropReplaced, CreditWallet
  <2> QED BY <1>2, <2>1, QuietSteps
<1>7. ASSUME CheckFiles(s) PROVE call'[s].step \in Quiet
  BY <1>4, <1>7, QuietSteps DEF CheckFiles
<1>8. ASSUME CheckRegister(s) PROVE call'[s].step \in Quiet
  <2>1. CASE call[s].invoice = Foreign
    BY <1>4, <1>8, <2>1, QuietSteps DEF CheckRegister
  <2>2. CASE call[s].invoice # Foreign
    <3>1. PICK b \in BOOLEAN :
            Continue(s, Exists(call[s].receipt) /\ MayUpload /\ ~Registered(call[s].invoice)
                        /\ b, "insert")
      BY <1>8, <2>2 DEF CheckRegister
    <3> QED BY <1>4, <3>1, QuietSteps
  <2> QED BY <2>1, <2>2
<1>9. ASSUME InsertCfdi(s) \/ WriteStatus(s) PROVE call'[s].step \in Quiet
  BY <1>3, <1>9 DEF InsertCfdi, WriteStatus
<1>10. ASSUME ReadVerdicts(s) PROVE call'[s].step \in Quiet
  <2>1. \/ End(s)
        \/ call' = [call EXCEPT ![s] = StatusWrite(Expenses)]
        \/ call' = [call EXCEPT ![s] = StatusWrite(Finished)]
    BY <1>10 DEF ReadVerdicts
  <2> QED BY <1>1, <1>3, <2>1, QuietSteps
<1>11. ASSUME ReadOld(s) PROVE CallEvidence(call[s])'
  <2>1. /\ call'[s].step = UpdateAfter[call[s].step]
        /\ call'[s].verdict = call[s].verdict /\ call'[s].receipt = call[s].receipt
    BY <1>1, <1>11 DEF ReadOld, Calls
  <2>2. \/ call[s].step = "readVerdict" /\ call'[s].step = "writeVerdict"
        \/ call'[s].step \in {"writeFiles", "insert"}
    BY <1>11, <2>1 DEF ReadOld, UpdateAfter
  <2>3. CASE call[s].step = "readVerdict" /\ call'[s].step = "writeVerdict"
    <3>1. call[s].receipt \in Ids
      BY <2>3, ReceiptOf DEF Aimless
    <3> QED BY <1>1, <2>1, <2>3, <3>1 DEF CallEvidence, RowsMove
  <2> QED BY <2>2, <2>3, QuietSteps, QuietEvidence
<1>12. ASSUME NEW v, NEW then \in Quiet, AfterUpdate(s, v, then)
       PROVE  /\ call'[s].step \in Quiet \/ (v = "Aprobado" /\ call'[s].step = "credit")
              /\ call'[s].receipt = call[s].receipt
  BY <1>1, <1>12 DEF AfterUpdate, After, Calls
<1>13. ASSUME WriteFiles(s) PROVE CallEvidence(call[s])'
  <2>1. PICK r \in Ids : r = call[s].receipt
    BY <1>13, ReceiptOf DEF WriteFiles, Aimless
  <2>2. End(s) \/ AfterUpdate(s, validation[r], "register")
    BY <1>13, <2>1 DEF WriteFiles
  <2>3. \/ call'[s].step \in Quiet
        \/ validation[r] = "Aprobado" /\ call'[s].step = "credit" /\ call'[s].receipt = r
    BY <1>3, <1>12, <2>1, <2>2, QuietSteps
  <2>4. ASSUME validation[r] = "Aprobado" PROVE Proven(r)'
    <3>1. Proven(r)
      BY <2>4 DEF EvidenceInv, RowEvidence, Proven, Decided
    <3> QED BY <1>1, <3>1
  <2> QED BY <2>3, <2>4, CreditEvidence, QuietEvidence
<1>14. ASSUME WriteVerdict(s) PROVE CallEvidence(call[s])'
  <2>1. PICK r \in Ids : r = call[s].receipt
    BY <1>14, ReceiptOf DEF WriteVerdict, Aimless
  <2>2. PICK v : v = call[s].verdict
    OBVIOUS
  <2>3. (v = "Aprobado" => cfdi[r] # NoCfdi) /\ cfdi' = cfdi
    BY <1>1, <1>14, <2>1, <2>2 DEF WriteVerdict, CallEvidence
  <2>4. \/ End(s)
        \/ validation' = [validation EXCEPT ![r] = v] /\ AfterUpdate(s, v, "sync")
    BY <1>14, <2>1, <2>2 DEF WriteVerdict
  <2>5. \/ call'[s].step \in Quiet
        \/ /\ v = "Aprobado" /\ call'[s].step = "credit" /\ call'[s].receipt = r
           /\ validation' = [validation EXCEPT ![r] = v]
    BY <1>3, <1>12, <2>1, <2>4, QuietSteps
  <2>6. ASSUME v = "Aprobado", validation' = [validation EXCEPT ![r] = v] PROVE Proven(r)'
    <3>1. validation'[r] = "Aprobado"
      BY <2>6 DEF TypeInv, TypeOK
    <3> QED BY <2>3, <2>6, <3>1 DEF Proven, Decided
  <2> QED BY <2>5, <2>6, CreditEvidence, QuietEvidence
<1> QED BY <1>5, <1>6, <1>7, <1>8, <1>9, <1>10, <1>11, <1>13, <1>14, QuietEvidence DEF Onward

\* A call that stays where it is keeps its evidence.
LEMMA OthersKeep ==
  ASSUME TypeInv, EvidenceInv, RowsMove, NEW t \in Slots, call'[t] = call[t]
  PROVE  CallEvidence(call[t])'
<1>1. call[t].step \in {"readVerdict", "writeVerdict", "credit"} => call[t].receipt \in Ids
  BY ReceiptOf DEF Aimless
<1>2. CallEvidence(call[t]) /\ \A r \in Ids : Proven(r) => Proven(r)'
  BY RowsMoveKeeps DEF EvidenceInv
<1> QED BY <1>1, <1>2 DEF CallEvidence, RowsMove, Proven

\* A step of a call leaves the calls of the other slots alone.
LEMMA OnwardOthers ==
  ASSUME TypeInv, NEW s \in Slots, Onward(s), NEW t \in Slots \ {s}
  PROVE  call'[t] = call[t]
<1>1. call \in [Slots -> Calls]
  BY DEF TypeInv, TypeOK
<1>2. PICK c : call' = [call EXCEPT ![s] = c]
  BY OnwardCall DEF Becomes
<1> QED BY <1>1, <1>2

\* A step of one slot, its own call being accounted for.
LEMMA OneSlotEvidence ==
  ASSUME TypeInv, EvidenceInv, RowsMove, NEW s \in Slots,
         \A t \in Slots \ {s} : call'[t] = call[t], CallEvidence(call[s])'
  PROVE  EvidenceInv'
<1>1. \A t \in Slots : CallEvidence(call[t])'
  BY OthersKeep
<1> QED BY <1>1, RowsMoveKeeps DEF EvidenceInv

\* A call that starts counts on what it has just read.
LEMMA BeginEvidence ==
  ASSUME TypeInv, EvidenceInv, NEW s \in Slots, Begin(s)
  PROVE  EvidenceInv'
<1>1. call \in [Slots -> Calls]
  BY DEF TypeInv, TypeOK
<1>2. UNCHANGED <<validation, cfdi, credit>>
  BY DEF Begin, BeginUpload, BeginDecision, BeginHandIn, BeginSync, rows
<1>3. PICK record : call' = [call EXCEPT ![s] = record]
  BY DEF Begin, BeginUpload, BeginDecision, BeginHandIn, BeginSync, Start
<1>4. call'[s] = record /\ \A t \in Slots \ {s} : call'[t] = call[t]
  BY <1>1, <1>3
<1>5. RowsMove
  BY <1>2, PlainMove
<1>6. CASE \E inv \in Invoices \cup {Foreign}, replaced \in 0..MaxReceipts :
             BeginUpload(s, inv, replaced)
  <2>1. call'[s].step = "create"
    BY <1>1, <1>6 DEF BeginUpload, Start, Idle
  <2> QED BY <1>4, <1>5, <2>1, QuietSteps, QuietEvidence, OneSlotEvidence
<1>7. CASE \E r \in Ids, verdict \in Decided : BeginDecision(s, r, verdict)
  <2>1. PICK r \in Ids, verdict \in Decided : BeginDecision(s, r, verdict)
    BY <1>7
  <2>2. /\ call'[s].step = "readVerdict"
        /\ call'[s].receipt = r /\ call'[s].verdict = verdict
        /\ verdict = "Aprobado" => cfdi[r] # NoCfdi
    BY <1>1, <2>1 DEF BeginDecision, Start, Idle
  <2>3. CallEvidence(call[s])'
    BY <1>2, <2>2 DEF CallEvidence
  <2> QED BY <1>4, <1>5, <2>3, OneSlotEvidence
<1>8. CASE BeginHandIn(s) \/ BeginSync(s)
  <2>1. call'[s].step \in {"sync", "writeStatus"}
    BY <1>1, <1>8 DEF BeginHandIn, BeginSync, Start, StatusWrite, Idle
  <2> QED BY <1>4, <1>5, <2>1, QuietSteps, QuietEvidence, OneSlotEvidence
<1> QED BY <1>6, <1>7, <1>8 DEF Begin

\* A step that leaves every call where it is.
LEMMA CallsKept ==
  ASSUME TypeInv, EvidenceInv, RowsMove, call' = call
  PROVE  EvidenceInv'
<1>1. \A t \in Slots : CallEvidence(call[t])'
  BY OthersKeep
<1> QED BY <1>1, RowsMoveKeeps DEF EvidenceInv

LEMMA EvidenceStep ==
  ASSUME TypeInv, EvidenceInv, [Next]_vars
  PROVE  EvidenceInv'
<1>1. call \in [Slots -> Calls]
  BY DEF TypeInv, TypeOK
<1>2. ASSUME NEW s \in Callers, Begin(s) PROVE EvidenceInv'
  BY <1>2, BeginEvidence DEF Slots
<1>3. ASSUME NEW s \in Slots, CreateRow(s) PROVE EvidenceInv'
  <2>1. call'[s].step = "find" /\ \A t \in Slots \ {s} : call'[t] = call[t]
    BY <1>1, <1>3 DEF CreateRow, Go, Calls
  <2> QED BY <1>3, <2>1, CreateMove, QuietSteps, QuietEvidence, OneSlotEvidence
<1>4. ASSUME NEW s \in Slots, Onward(s) PROVE EvidenceInv'
  <2>1. \A t \in Slots \ {s} : call'[t] = call[t]
    BY <1>4, OnwardOthers
  <2>2. RowsMove
    BY <1>4, OnwardMove
  <2> QED BY <1>4, <2>1, <2>2, OnwardEvidence, OneSlotEvidence
<1>5. ASSUME NEW r \in Ids, ApiDeleteReceipt(r) PROVE EvidenceInv'
  BY <1>5, DeleteMove, CallsKept DEF ApiDeleteReceipt
<1>6. ASSUME BeginLock PROVE EvidenceInv'
  <2>1. /\ call'["deadline"].step = "writeStatus" /\ "deadline" \in Slots
        /\ \A t \in Slots \ {"deadline"} : call'[t] = call[t]
    BY <1>1, <1>6, QuietSteps DEF BeginLock, Start, Slots
  <2>2. RowsMove
    BY <1>6, PlainMove DEF BeginLock, rows
  <2> QED BY <2>1, <2>2, QuietSteps, QuietEvidence, OneSlotEvidence
<1>7. ASSUME TripBooked \/ DeadlinePasses \/ UNCHANGED vars PROVE EvidenceInv'
  <2>1. UNCHANGED <<validation, cfdi, credit, call>>
    BY <1>7 DEF TripBooked, DeadlinePasses, vars, rows
  <2> QED BY <2>1, PlainMove, CallsKept
<1>8. ASSUME Crash PROVE EvidenceInv'
  <2>1. RowsMove
    BY <1>8, PlainMove DEF Crash, rows
  <2>2. \A t \in Slots : call'[t].step \in Quiet
    BY <1>8, QuietSteps DEF Crash
  <2>3. \A t \in Slots : CallEvidence(call[t])'
    BY <2>2, QuietEvidence
  <2> QED BY <2>1, <2>3, RowsMoveKeeps DEF EvidenceInv
<1> QED BY <1>2, <1>3, <1>4, <1>5, <1>6, <1>7, <1>8, NextCases

LEMMA EvidenceInvariant == Spec => []EvidenceInv
<1>1. Init => EvidenceInv
  <2> SUFFICES ASSUME Init PROVE EvidenceInv
    OBVIOUS
  <2>1. RowEvidence /\ UniqueInvoices
    BY DEF Init, RowEvidence, UniqueInvoices
  <2>2. \A t \in Slots : CallEvidence(call[t])
    BY QuietSteps DEF Init, CallEvidence
  <2> QED BY <2>1, <2>2 DEF EvidenceInv
<1>2. TypeInv /\ EvidenceInv /\ [Next]_vars => EvidenceInv'
  BY EvidenceStep
<1> QED BY <1>1, <1>2, TypeInvariant, PTL DEF Spec

\* Whatever has been paid into the wallet has its row, its decision and its CFDI,
\* for ever and under any interleaving (trigger 5, validateReceiptDecision,
\* deleteReceiptFile).
THEOREM EvidenceKept == Spec => []PaidHasEvidence
<1>1. EvidenceInv => PaidHasEvidence
  BY DEF EvidenceInv, RowEvidence, Proven, PaidHasEvidence
<1> QED BY <1>1, EvidenceInvariant, PTL

\* No national invoice is paid through two receipts (registerReceiptCfdi and the
\* unique uuid of cfdi_comprobantes).
THEOREM InvoicesPaidOnce == Spec => []InvoicePaidOnce
<1>1. EvidenceInv => InvoicePaidOnce
  BY DEF EvidenceInv, RowEvidence, UniqueInvoices, Proven, InvoicePaidOnce
<1> QED BY <1>1, EvidenceInvariant, PTL

-----------------------------------------------------------------------------
(* One call at a time. *)

AloneInv == \A s, t \in Busy : s = t

\* A row with a CFDI is there, and has its files unless it was rejected.
FilesInv ==
  \A r \in Ids : cfdi[r] # NoCfdi =>
    Exists(r) /\ (validation[r] # "Rechazado" => files[r] = "kept")

\* What a call that no other call crosses still finds: the receipt it replaces is
\* rejected or deleted, the one it has written files to has them, the one it decides
\* on is undecided.
LoneFiles(c) ==
  /\ c.step \in {"create", "find", "remove", "drop"} /\ c.replaced # 0 =>
       c.replaced \in 1..created /\ validation[c.replaced] \in {"none", "Rechazado"}
  /\ c.step \in {"register", "readForeign", "insert"} \/ (c.step = "credit" /\ c.verdict = "none") =>
       (Exists(c.receipt) => files[c.receipt] = "kept")
  /\ c.step \in {"readVerdict", "writeVerdict"} => validation[c.receipt] \in {"none", "Pendiente"}

Crediting(r) == \E s \in Slots : call[s].step = "credit" /\ call[s].receipt = r

\* An approved receipt has been paid once, unless a call is about to pay it.
WalletInv ==
  \A r \in Ids : credit[r] = IF validation[r] = "Aprobado" /\ ~Crediting(r) THEN 1 ELSE 0

\* The old validation that an update has read is still the one of the row.
LoneWallet(c) ==
  /\ c.step \in {"writeFiles", "writeVerdict"} \/ (c.step = "insert" /\ c.invoice = Foreign) =>
       validation[c.receipt] \in {"none", c.old}
  /\ c.step = "credit" => validation[c.receipt] = "Aprobado"

\* A claim closed before its time has no receipt that is not approved.
ClosedInv == status = Finished => late \/ AllApproved

\* The status that a call started from is still there, and what it read of the receipts.
Checking == status = Validation \/ (status = Finished /\ late)
LoneStage(c) ==
  /\ c.step = "create" => status # Finished
  /\ c.step \in {"readVerdict", "writeVerdict", "credit", "sync"} => Checking
  /\ c.step \in {"readVerdict", "writeVerdict"} /\ c.verdict = "Aprobado" => status = Validation
  /\ c.step = "writeStatus" =>
       /\ c.to = Expenses => Checking /\ \E r \in Ids : validation[r] = "Rechazado"
       /\ c.to = Validation => status = Expenses /\ \E r \in Ids : Exists(r)
       /\ c.to = Finished => late \/ (Checking /\ AllApproved)

\* The wallet needs that nothing crashed, the stages also that users follow the pages.
SerialRows ==
  /\ FilesInv
  /\ ~crashed => WalletInv
  /\ ~crashed /\ UsersFollowPages => ClosedInv
Lone(c) ==
  /\ LoneFiles(c)
  /\ ~crashed => LoneWallet(c)
  /\ ~crashed /\ UsersFollowPages => LoneStage(c)

SerialInv == AloneInv /\ SerialRows /\ \A s \in Slots : Lone(call[s])

\* A call that is over relies on nothing.
LEMMA IdleLone == \A c : c.step = "idle" => Lone(c)
PROOF BY DEF Lone, LoneFiles, LoneWallet, LoneStage

\* The same after a step.
LEMMA IdleLoneAfter == \A c : c.step = "idle" => Lone(c)'
PROOF BY DEF Lone, LoneFiles, LoneWallet, LoneStage

\* A step of the slot s, the only one with a call in flight.
Acts(s) ==
  /\ \A t \in Slots \ {s} : call[t].step = "idle" /\ call'[t] = call[t]
  /\ crashed' = crashed

\* Then s alone may be crediting a receipt.
LEMMA OnlyCredit ==
  ASSUME NEW s \in Slots, Acts(s)
  PROVE  \A r : /\ Crediting(r) <=> call[s].step = "credit" /\ call[s].receipt = r
                /\ Crediting(r)' <=> call'[s].step = "credit" /\ call'[s].receipt = r
BY DEF Acts, Crediting

\* What the only call leaves suffices.
LEMMA SerialSlot ==
  ASSUME NEW s \in Slots, Acts(s), SerialRows', Lone(call[s])'
  PROVE  SerialInv'
<1>1. \A t \in Slots : Lone(call[t])'
  BY IdleLoneAfter DEF Acts
<1>2. AloneInv'
  BY DEF Acts, AloneInv, Busy
<1> QED BY <1>1, <1>2 DEF SerialInv

\* A step that changes no row and no status, and is not about the wallet.
LEMMA RowsStay ==
  ASSUME NEW s \in Slots, Acts(s), SerialRows, UNCHANGED <<validation, cfdi, files, credit, status, late>>,
         call[s].step # "credit", call'[s].step # "credit"
  PROVE  SerialRows'
<1>1. \A r : ~Crediting(r) /\ ~Crediting(r)'
  BY OnlyCredit
<1>2. FilesInv => FilesInv'
  BY DEF FilesInv, Exists
<1>3. WalletInv => WalletInv'
  BY <1>1 DEF WalletInv
<1>4. ClosedInv => ClosedInv'
  BY DEF ClosedInv, Exists, AllApproved
<1> QED BY <1>2, <1>3, <1>4 DEF SerialRows, Acts

\* The fields of a call that goes on.
Same(s) ==
  /\ call'[s].receipt = call[s].receipt /\ call'[s].replaced = call[s].replaced
  /\ call'[s].invoice = call[s].invoice /\ call'[s].verdict = call[s].verdict

\* The fields after each way a call goes on.
LEMMA GoFields ==
  ASSUME TypeInv, NEW s \in Slots, NEW step, Go(s, step)
  PROVE  call'[s].step = step /\ Same(s)
<1>1. call \in [Slots -> Calls] /\ call[s] \in Calls
  BY DEF TypeInv, TypeOK
<1> QED BY <1>1 DEF Go, Calls, Same

\* A call that ends is idle.
LEMMA EndFields ==
  ASSUME TypeInv, NEW s \in Slots, End(s)
  PROVE  call'[s].step = "idle"
<1>1. call \in [Slots -> Calls]
  BY DEF TypeInv, TypeOK
<1> QED BY <1>1 DEF End, Idle

\* A call whose update has returned goes on to the credit, or does not.
LEMMA AfterFields ==
  ASSUME TypeInv, NEW s \in Slots, NEW verdict, NEW then, AfterUpdate(s, verdict, then)
  PROVE  /\ call'[s].step = IF verdict = "Aprobado" /\ call[s].old # "Aprobado" THEN "credit" ELSE then
         /\ call'[s].receipt = call[s].receipt /\ call'[s].verdict = call[s].verdict
<1>1. call \in [Slots -> Calls] /\ call[s] \in Calls
  BY DEF TypeInv, TypeOK
<1> QED BY <1>1 DEF AfterUpdate, After, Calls

\* A call that was checked ends or goes on.
LEMMA ContinueFields ==
  ASSUME TypeInv, NEW s \in Slots, NEW ok, NEW step, Continue(s, ok, step)
  PROVE  call'[s].step = "idle" \/ (ok /\ call'[s].step = step /\ Same(s))
BY GoFields, EndFields DEF Continue

\* What the steps of a call start from.
LoneCall(s) == TypeInv /\ EvidenceInv /\ SerialInv /\ Acts(s)

\* A receipt that a call replaces, if any, is one of the rows.
LEMMA ReplacedOf ==
  ASSUME NEW s \in Slots, LoneCall(s), call[s].step \in {"create", "find", "remove", "drop"},
         call[s].replaced # 0
  PROVE  /\ call[s].replaced \in Ids /\ call[s].replaced \in 1..created
         /\ validation[call[s].replaced] \in {"none", "Rechazado"}
<1>1. call[s].replaced \in 1..created /\ validation[call[s].replaced] \in {"none", "Rechazado"}
  BY DEF LoneCall, SerialInv, Lone, LoneFiles
<1>2. created \in 0..MaxReceipts /\ MaxReceipts \in Nat
  BY BoundAssumption DEF LoneCall, TypeInv, TypeOK
<1> QED BY <1>1, <1>2 DEF Ids

\* The new row is none that a call relies on, and has neither CFDI nor credit.
LEMMA CreateLone ==
  ASSUME NEW s \in Slots, LoneCall(s), CreateRow(s)
  PROVE  SerialRows' /\ Lone(call[s])'
<1> DEFINE n == created + 1
           c == call[s]
<1>1. /\ validation \in [Ids -> Verdicts] /\ cfdi \in [Ids -> Invoices \cup {Foreign, NoCfdi}]
      /\ created \in Nat /\ c \in Calls /\ 0 \notin Ids
  BY BoundAssumption DEF LoneCall, TypeInv, TypeOK, Ids
<1>2. created' = n /\ call'[s].step = "find" /\ Same(s) /\ c.step = "create"
  BY GoFields DEF CreateRow, LoneCall
<1>3. \A r \in Ids : validation'[r] = IF r = n THEN "Pendiente" ELSE validation[r]
  BY <1>1, <1>2 DEF CreateRow
<1>4. UNCHANGED <<status, cfdi, files, credit, late, crashed>>
  BY DEF CreateRow
<1>5. n \in Ids => ~Exists(n)
  BY <1>1 DEF LoneCall, TypeInv, HandedOut
<1>6. n \in Ids => cfdi[n] = NoCfdi /\ validation[n] = "none"
  BY <1>1, <1>5 DEF LoneCall, SerialInv, SerialRows, FilesInv, Exists
<1>7. c.replaced # 0 => c.replaced \in 1..created /\ c.replaced \in Ids
                        /\ validation[c.replaced] \in {"none", "Rechazado"}
  BY <1>2, ReplacedOf
<1> HIDE DEF n, c
<1>8. FilesInv'
  BY <1>3, <1>4, <1>6 DEF LoneCall, SerialInv, SerialRows, FilesInv, Exists
<1>9. ~crashed => WalletInv'
  BY <1>2, <1>3, <1>4, <1>6, OnlyCredit DEF LoneCall, SerialInv, SerialRows, WalletInv, c
<1>10. ~crashed /\ UsersFollowPages => status # Finished
  BY <1>2 DEF LoneCall, SerialInv, Lone, LoneStage, c
<1>11. LoneFiles(call[s])'
  <2>1. call'[s].replaced # 0 =>
          call'[s].replaced \in 1..created' /\ validation'[call'[s].replaced] \in {"none", "Rechazado"}
    BY <1>1, <1>2, <1>3, <1>7 DEF Same, n, c
  <2> QED BY <1>2, <2>1 DEF LoneFiles
<1> QED BY <1>2, <1>4, <1>8, <1>9, <1>10, <1>11 DEF SerialRows, ClosedInv, Lone, LoneWallet, LoneStage

\* The statements of an upload, one lemma each.
LEMMA FindLone ==
  ASSUME NEW s \in Slots, LoneCall(s), FindRow(s)
  PROVE  SerialRows' /\ Lone(call[s])'
<1> DEFINE c == call[s]
<1>1. /\ UNCHANGED <<status, validation, cfdi, files, credit, created, late, crashed>>
      /\ c.step = "find"
  BY DEF FindRow, rows
<1>2. \/ call'[s].step \in {"idle", "store"}
      \/ call'[s].step = "remove" /\ call'[s].replaced = c.replaced
  <2>1. CASE End(s)
    BY <2>1, EndFields DEF LoneCall
  <2>2. ASSUME NEW r, call' = [call EXCEPT ![s].receipt = r,
                        ![s].step = IF call[s].replaced = 0 THEN "store" ELSE "remove"]
        PROVE  \/ call'[s].step \in {"idle", "store"}
               \/ call'[s].step = "remove" /\ call'[s].replaced = c.replaced
    <3>1. call \in [Slots -> Calls] /\ c \in Calls
      BY DEF LoneCall, TypeInv, TypeOK
    <3> QED BY <2>2, <3>1 DEF Calls
  <2> QED BY <2>1, <2>2 DEF FindRow
<1>3. SerialRows'
  BY <1>1, <1>2, RowsStay DEF LoneCall, SerialInv
<1>4. CASE call'[s].step \in {"idle", "store"}
  BY <1>3, <1>4 DEF Lone, LoneFiles, LoneWallet, LoneStage
<1>5. CASE call'[s].step = "remove" /\ call'[s].replaced = c.replaced
  <2>1. LoneFiles(call[s])'
    BY <1>1, <1>5, ReplacedOf DEF LoneFiles
  <2> QED BY <1>3, <1>5, <2>1 DEF Lone, LoneWallet, LoneStage
<1> QED BY <1>2, <1>4, <1>5

\* Only the files of a rejected receipt are taken away.
LEMMA RemoveLone ==
  ASSUME NEW s \in Slots, LoneCall(s), RemoveReplacedFiles(s)
  PROVE  SerialRows' /\ Lone(call[s])'
<1> DEFINE r == call[s].replaced
<1>1. /\ UNCHANGED <<status, validation, cfdi, credit, created, late, crashed>>
      /\ call[s].step = "remove"
  BY DEF RemoveReplacedFiles
<1>2. CASE Exists(r) /\ MayUpload
  <2>1. r # 0 /\ r \in Ids /\ r \in 1..created /\ validation[r] = "Rechazado"
    BY <1>1, <1>2, ReplacedOf DEF Exists
  <2>2. call'[s].step = "drop" /\ call'[s].replaced = r
    BY <1>2, GoFields DEF RemoveReplacedFiles, LoneCall, Same
  <2>3. \A q \in Ids \ {r} : files'[q] = files[q]
    BY <1>2 DEF RemoveReplacedFiles, LoneCall, TypeInv, TypeOK
  <2> HIDE DEF r
  <2>4. FilesInv'
    BY <1>1, <2>1, <2>3 DEF LoneCall, SerialInv, SerialRows, FilesInv, Exists
  <2>5. \A q : ~Crediting(q) /\ ~Crediting(q)'
    BY <1>1, <2>2, OnlyCredit DEF LoneCall
  <2>6. ~crashed => WalletInv'
    BY <1>1, <2>5 DEF LoneCall, SerialInv, SerialRows, WalletInv
  <2>7. ~crashed /\ UsersFollowPages => ClosedInv'
    BY <1>1 DEF LoneCall, SerialInv, SerialRows, ClosedInv, AllApproved, Exists
  <2>8. LoneFiles(call[s])'
    BY <1>1, <2>1, <2>2 DEF LoneFiles
  <2> QED BY <1>1, <2>2, <2>4, <2>6, <2>7, <2>8 DEF SerialRows, Lone, LoneWallet, LoneStage
<1>3. CASE ~(Exists(r) /\ MayUpload)
  <2>1. UNCHANGED files /\ call'[s].step = "store"
    BY <1>3, GoFields DEF RemoveReplacedFiles, LoneCall
  <2>2. SerialRows'
    BY <1>1, <2>1, RowsStay DEF LoneCall, SerialInv
  <2> QED BY <2>1, <2>2 DEF Lone, LoneFiles, LoneWallet, LoneStage
<1> QED BY <1>2, <1>3

\* A receipt without CFDI is deleted, by a call or from outside.
LEMMA DeleteKeepsRows ==
  ASSUME TypeInv, EvidenceInv, SerialRows, NEW r \in Ids, Deletable(r), Delete(r),
         UNCHANGED <<status, credit, late, crashed>>, \A q : Crediting(q)' <=> Crediting(q)
  PROVE  /\ SerialRows'
         /\ \A q \in Ids : validation'[q] = IF q = r THEN "none" ELSE validation[q]
         /\ \A q \in Ids \ {r} : files'[q] = files[q]
<1>1. /\ validation \in [Ids -> Verdicts] /\ cfdi \in [Ids -> Invoices \cup {Foreign, NoCfdi}]
      /\ files \in [Ids -> {"none", "kept", "gone"}]
  BY DEF TypeInv, TypeOK
<1>2. \A q \in Ids : validation'[q] = IF q = r THEN "none" ELSE validation[q]
  BY <1>1 DEF Delete
<1>3. \A q \in Ids \ {r} : files'[q] = files[q]
  BY <1>1 DEF Delete
<1>4. \A q \in Ids : cfdi'[q] = cfdi[q]
  BY <1>1 DEF Delete, Deletable
<1>5. cfdi[r] = NoCfdi /\ validation[r] # "Aprobado"
  BY DEF Deletable, EvidenceInv, RowEvidence
<1>6. FilesInv => FilesInv'
  BY <1>2, <1>3, <1>4, <1>5 DEF FilesInv, Exists
<1>7. WalletInv => WalletInv'
  BY <1>2, <1>5 DEF WalletInv
<1>8. ClosedInv => ClosedInv'
  BY <1>2 DEF ClosedInv, AllApproved, Exists
<1> QED BY <1>2, <1>3, <1>6, <1>7, <1>8 DEF SerialRows

\* A rejected receipt without CFDI goes, and was never paid.
LEMMA DropLone ==
  ASSUME NEW s \in Slots, LoneCall(s), DropReplaced(s)
  PROVE  SerialRows' /\ Lone(call[s])'
<1> DEFINE r == call[s].replaced
<1>1. /\ UNCHANGED <<status, credit, created, late, crashed>>
      /\ call[s].step = "drop" /\ call'[s].step = "store"
  BY GoFields DEF DropReplaced, LoneCall
<1>2. SerialRows'
  <2>1. CASE UNCHANGED rows
    BY <1>1, <2>1, RowsStay DEF LoneCall, SerialInv, rows
  <2>2. CASE Deletable(r) /\ Delete(r)
    <3>1. r \in Ids
      BY <1>1, <2>2, ReplacedOf DEF Deletable, Exists
    <3>2. \A q : ~Crediting(q) /\ ~Crediting(q)'
      BY <1>1, OnlyCredit DEF LoneCall
    <3> QED BY <1>1, <2>2, <3>1, <3>2, DeleteKeepsRows DEF LoneCall, SerialInv
  <2> QED BY <2>1, <2>2 DEF DropReplaced
<1> QED BY <1>1, <1>2 DEF Lone, LoneFiles, LoneWallet, LoneStage

\* The checks before the files are stored read only.
LEMMA CheckFilesLone ==
  ASSUME NEW s \in Slots, LoneCall(s), CheckFiles(s)
  PROVE  SerialRows' /\ Lone(call[s])'
<1>1. /\ UNCHANGED <<status, validation, cfdi, files, credit, late, crashed>>
      /\ call[s].step = "store" /\ call'[s].step \in {"idle", "readFiles"}
  BY ContinueFields DEF CheckFiles, LoneCall, rows
<1>2. SerialRows'
  BY <1>1, RowsStay DEF LoneCall, SerialInv
<1> QED BY <1>1, <1>2 DEF Lone, LoneFiles, LoneWallet, LoneStage

\* The read of the trigger: from here on the old validation is known.
LEMMA ReadOldLone ==
  ASSUME NEW s \in Slots, LoneCall(s), ReadOld(s)
  PROVE  SerialRows' /\ Lone(call[s])'
<1> DEFINE c == call[s]
<1>1. call \in [Slots -> Calls] /\ c \in Calls
  BY DEF LoneCall, TypeInv, TypeOK
<1>2. /\ UNCHANGED <<status, validation, cfdi, files, credit, late, crashed>>
      /\ c.step \in {"readFiles", "readForeign", "readVerdict"}
  BY DEF ReadOld, UpdateAfter, rows
<1>3. /\ call'[s].step = UpdateAfter[c.step] /\ call'[s].old = validation[c.receipt] /\ Same(s)
  BY <1>1 DEF ReadOld, Calls, Same
<1>4. \/ c.step = "readFiles" /\ call'[s].step = "writeFiles"
      \/ c.step = "readForeign" /\ call'[s].step = "insert"
      \/ c.step = "readVerdict" /\ call'[s].step = "writeVerdict"
  BY <1>2, <1>3 DEF UpdateAfter
<1>5. SerialRows'
  BY <1>2, <1>4, RowsStay DEF LoneCall, SerialInv
<1>6. LoneFiles(c) /\ (~crashed /\ UsersFollowPages => LoneStage(c))
  BY DEF LoneCall, SerialInv, Lone
<1> HIDE DEF c
<1>7. LoneFiles(call[s])'
  BY <1>2, <1>3, <1>4, <1>6 DEF LoneFiles, Same, Exists, c
<1>8. LoneWallet(call[s])'
  BY <1>2, <1>3, <1>4 DEF LoneWallet, Same, c
<1>9. LoneStage(c) => LoneStage(call[s])'
  BY <1>2, <1>3, <1>4 DEF LoneStage, Checking, Same, c
<1> QED BY <1>2, <1>5, <1>6, <1>7, <1>8, <1>9 DEF Lone

\* The update with the files credits nothing: the validation is the one just read.
LEMMA WriteFilesLone ==
  ASSUME NEW s \in Slots, LoneCall(s), WriteFiles(s)
  PROVE  SerialRows' /\ Lone(call[s])'
<1> DEFINE c == call[s]
           r == c.receipt
<1>1. /\ UNCHANGED <<status, validation, cfdi, credit, created, late, crashed>>
      /\ c.step = "writeFiles" /\ r \in Ids
  BY ReceiptOf DEF WriteFiles, LoneCall, Aimless
<1>2. CASE ~Exists(r)
  <2>1. UNCHANGED files /\ call'[s].step = "idle"
    BY <1>2, EndFields DEF WriteFiles, LoneCall
  <2>2. SerialRows'
    BY <1>1, <2>1, RowsStay DEF LoneCall, SerialInv
  <2> QED BY <2>1, <2>2, IdleLoneAfter
<1>3. CASE Exists(r)
  <2>1. /\ call'[s].step = IF validation[r] = "Aprobado" /\ c.old # "Aprobado" THEN "credit" ELSE "register"
        /\ call'[s].receipt = r
    BY <1>3, AfterFields DEF WriteFiles, LoneCall
  <2>2. \A q \in Ids : files'[q] = IF q = r THEN "kept" ELSE files[q]
    BY <1>3 DEF WriteFiles, LoneCall, TypeInv, TypeOK
  <2>3. ~crashed => validation[r] = c.old
    BY <1>1, <1>3 DEF LoneCall, SerialInv, Lone, LoneWallet, Exists
  <2> HIDE DEF r, c
  <2>4. FilesInv'
    BY <1>1, <2>2 DEF LoneCall, SerialInv, SerialRows, FilesInv, Exists
  <2>5. ~crashed => call'[s].step = "register"
    BY <2>1, <2>3
  <2>6. ~crashed => WalletInv'
    <3>1. ~crashed => \A q : ~Crediting(q) /\ ~Crediting(q)'
      BY <1>1, <2>5, OnlyCredit DEF LoneCall, c
    <3> QED BY <1>1, <3>1 DEF LoneCall, SerialInv, SerialRows, WalletInv
  <2>7. ~crashed /\ UsersFollowPages => ClosedInv'
    BY <1>1 DEF LoneCall, SerialInv, SerialRows, ClosedInv, AllApproved, Exists
  <2>8. LoneFiles(call[s])'
    BY <1>1, <2>1, <2>2 DEF LoneFiles
  <2> QED BY <1>1, <2>4, <2>5, <2>6, <2>7, <2>8 DEF SerialRows, Lone, LoneWallet, LoneStage
<1> QED BY <1>2, <1>3

\* The SAT may refuse; only a foreign invoice updates the receipt again.
LEMMA CheckRegisterLone ==
  ASSUME NEW s \in Slots, LoneCall(s), CheckRegister(s)
  PROVE  SerialRows' /\ Lone(call[s])'
<1> DEFINE c == call[s]
<1>1. /\ UNCHANGED <<status, validation, cfdi, files, credit, late, crashed>>
      /\ c.step = "register"
  BY DEF CheckRegister, rows
<1>2. \/ call'[s].step = "idle"
      \/ call'[s].step = "readForeign" /\ Same(s)
      \/ call'[s].step = "insert" /\ Same(s) /\ c.invoice # Foreign
  <2>1. CASE c.invoice = Foreign
    BY <2>1, ContinueFields DEF CheckRegister, LoneCall
  <2>2. CASE c.invoice # Foreign
    <3>1. PICK ok : Continue(s, ok, "insert")
      BY <2>2 DEF CheckRegister
    <3> QED BY <2>2, <3>1, ContinueFields DEF LoneCall
  <2> QED BY <2>1, <2>2
<1>3. SerialRows'
  BY <1>1, <1>2, RowsStay DEF LoneCall, SerialInv
<1>4. LoneFiles(c)
  BY DEF LoneCall, SerialInv, Lone
<1> HIDE DEF c
<1>5. LoneFiles(call[s])'
  BY <1>1, <1>2, <1>4 DEF LoneFiles, Same, Exists, c
<1>6. LoneWallet(call[s])' /\ LoneStage(call[s])'
  BY <1>2 DEF LoneWallet, LoneStage, Same, c
<1> QED BY <1>3, <1>5, <1>6 DEF Lone

\* A CFDI is inserted for a receipt that has its files, and pays nothing.
LEMMA InsertLone ==
  ASSUME NEW s \in Slots, LoneCall(s), InsertCfdi(s)
  PROVE  SerialRows' /\ Lone(call[s])'
<1> DEFINE c == call[s]
           r == c.receipt
<1>1. /\ UNCHANGED <<status, validation, files, created, late, crashed>>
      /\ c.step = "insert" /\ r \in Ids /\ call'[s].step = "idle"
  BY ReceiptOf, EndFields DEF InsertCfdi, LoneCall, Aimless
<1>2. cfdi \in [Ids -> Invoices \cup {Foreign, NoCfdi}]
  BY DEF LoneCall, TypeInv, TypeOK
<1>3. \A q \in Ids \ {r} : cfdi'[q] = cfdi[q]
  BY <1>2 DEF InsertCfdi
<1>4. cfdi'[r] # NoCfdi => cfdi[r] # NoCfdi \/ Exists(r)
  BY <1>2 DEF InsertCfdi, Insertable
<1>5. Exists(r) => files[r] = "kept"
  BY <1>1 DEF LoneCall, SerialInv, Lone, LoneFiles
<1>6. ~crashed => credit' = credit
  <2>1. ~crashed /\ c.invoice = Foreign => validation[r] \in {"none", c.old}
    BY <1>1 DEF LoneCall, SerialInv, Lone, LoneWallet
  <2> QED BY <2>1 DEF InsertCfdi
<1> HIDE DEF c, r
<1>7. FilesInv'
  BY <1>1, <1>3, <1>4, <1>5 DEF LoneCall, SerialInv, SerialRows, FilesInv, Exists
<1>8. ~crashed => WalletInv'
  <2>1. \A q : ~Crediting(q) /\ ~Crediting(q)'
    BY <1>1, OnlyCredit DEF LoneCall, c
  <2> QED BY <1>1, <1>6, <2>1 DEF LoneCall, SerialInv, SerialRows, WalletInv
<1>9. ~crashed /\ UsersFollowPages => ClosedInv'
  BY <1>1 DEF LoneCall, SerialInv, SerialRows, ClosedInv, AllApproved, Exists
<1> QED BY <1>1, <1>7, <1>8, <1>9, IdleLoneAfter DEF SerialRows

\* The decided receipt was undecided; an approval goes on to the credit.
LEMMA VerdictLone ==
  ASSUME NEW s \in Slots, LoneCall(s), WriteVerdict(s)
  PROVE  SerialRows' /\ Lone(call[s])'
<1> DEFINE c == call[s]
           r == c.receipt
           v == c.verdict
<1>1. /\ UNCHANGED <<status, cfdi, files, credit, created, late, crashed>>
      /\ c.step = "writeVerdict" /\ r \in Ids
  BY ReceiptOf DEF WriteVerdict, LoneCall, Aimless
<1>2. v \in Decided
  BY <1>1 DEF LoneCall, EvidenceInv, CallEvidence
<1>3. LoneFiles(c) /\ (~crashed => LoneWallet(c)) /\ (~crashed /\ UsersFollowPages => LoneStage(c))
  BY DEF LoneCall, SerialInv, Lone
<1>4. CASE ~Exists(r)
  <2>1. UNCHANGED validation /\ call'[s].step = "idle"
    BY <1>4, EndFields DEF WriteVerdict, LoneCall
  <2>2. SerialRows'
    BY <1>1, <2>1, RowsStay DEF LoneCall, SerialInv
  <2> QED BY <2>1, <2>2, IdleLoneAfter
<1>5. CASE Exists(r)
  <2>1. /\ call'[s].step = IF v = "Aprobado" /\ c.old # "Aprobado" THEN "credit" ELSE "sync"
        /\ call'[s].receipt = r /\ call'[s].verdict = v
    BY <1>5, AfterFields DEF WriteVerdict, LoneCall
  <2>2. \A q \in Ids : validation'[q] = IF q = r THEN v ELSE validation[q]
    BY <1>5 DEF WriteVerdict, LoneCall, TypeInv, TypeOK
  <2>3. validation[r] = "Pendiente"
    BY <1>1, <1>3, <1>5 DEF LoneFiles, Exists
  <2>4. ~crashed => c.old = "Pendiente"
    BY <1>1, <1>3, <2>3 DEF LoneWallet
  <2>5. ~crashed /\ UsersFollowPages => Checking
    BY <1>1, <1>3 DEF LoneStage
  <2>6. ~crashed /\ UsersFollowPages /\ v = "Aprobado" => status = Validation
    BY <1>1, <1>3 DEF LoneStage
  <2> HIDE DEF r, v, c
  <2>7. FilesInv'
    BY <1>1, <1>2, <2>2, <2>3 DEF LoneCall, SerialInv, SerialRows, FilesInv, Exists, Decided
  <2>8. ~crashed => WalletInv'
    <3>1. ~crashed => \A q : /\ ~Crediting(q)
                             /\ Crediting(q)' <=> v = "Aprobado" /\ q = r
      BY <1>1, <2>1, <2>4, OnlyCredit DEF LoneCall, c
    <3> QED BY <1>1, <1>2, <2>2, <2>3, <3>1 DEF LoneCall, SerialInv, SerialRows, WalletInv, Decided
  <2>9. ~crashed /\ UsersFollowPages => ClosedInv'
    <3> SUFFICES ASSUME ~crashed, UsersFollowPages, status = Finished, ~late PROVE FALSE
      BY <1>1 DEF ClosedInv
    <3> QED BY <2>5 DEF Checking, Validation, Finished
  <2>10. LoneFiles(call[s])'
    BY <1>2, <2>1 DEF LoneFiles, Decided
  <2>11. LoneWallet(call[s])'
    BY <1>1, <2>1, <2>2 DEF LoneWallet
  <2>12. ~crashed /\ UsersFollowPages => LoneStage(call[s])'
    BY <1>1, <2>1, <2>5 DEF LoneStage, Checking
  <2> QED BY <1>1, <2>7, <2>8, <2>9, <2>10, <2>11, <2>12 DEF SerialRows, Lone
<1> QED BY <1>4, <1>5

\* The credit makes the wallet agree with the verdict.
LEMMA CreditLone ==
  ASSUME NEW s \in Slots, LoneCall(s), CreditWallet(s)
  PROVE  SerialRows' /\ Lone(call[s])'
<1> DEFINE c == call[s]
           r == c.receipt
<1>1. /\ UNCHANGED <<status, validation, cfdi, files, created, late, crashed>>
      /\ c.step = "credit" /\ r \in Ids
  BY ReceiptOf DEF CreditWallet, LoneCall, Aimless, rows
<1>2. call'[s].step = (IF c.verdict = "none" THEN "register" ELSE "sync") /\ Same(s)
  BY GoFields DEF CreditWallet, LoneCall
<1>3. \A q \in Ids : credit'[q] = IF q = r THEN credit[q] + 1 ELSE credit[q]
  BY DEF CreditWallet, LoneCall, TypeInv, TypeOK
<1>4. LoneFiles(c) /\ (~crashed => LoneWallet(c)) /\ (~crashed /\ UsersFollowPages => LoneStage(c))
  BY DEF LoneCall, SerialInv, Lone
<1>5. ~crashed => validation[r] = "Aprobado"
  BY <1>1, <1>4 DEF LoneWallet
<1> HIDE DEF c, r
<1>6. FilesInv'
  BY <1>1 DEF LoneCall, SerialInv, SerialRows, FilesInv, Exists
<1>7. ~crashed => WalletInv'
  <2>1. \A q : (Crediting(q) <=> q = r) /\ ~Crediting(q)'
    BY <1>1, <1>2, OnlyCredit DEF LoneCall, c, r
  <2> QED BY <1>1, <1>3, <1>5, <2>1 DEF LoneCall, SerialInv, SerialRows, WalletInv
<1>8. ~crashed /\ UsersFollowPages => ClosedInv'
  BY <1>1 DEF LoneCall, SerialInv, SerialRows, ClosedInv, AllApproved, Exists
<1>9. LoneFiles(call[s])'
  BY <1>1, <1>2, <1>4 DEF LoneFiles, Same, Exists, c, r
<1>10. LoneStage(c) => LoneStage(call[s])'
  BY <1>1, <1>2 DEF LoneStage, Checking
<1> QED BY <1>1, <1>2, <1>4, <1>6, <1>7, <1>8, <1>9, <1>10 DEF SerialRows, Lone, LoneWallet

\* The three stages a call may write are different.
LEMMA StagesDiffer ==
  /\ Expenses # Validation /\ Expenses # Finished /\ Validation # Finished
  /\ \A t : StatusWrite(t).step = "writeStatus" /\ StatusWrite(t).to = t
PROOF BY DEF Expenses, Validation, Finished, StatusWrite, Idle

\* The synchronisation settles on a status for what the receipts say now.
LEMMA ReadVerdictsLone ==
  ASSUME NEW s \in Slots, LoneCall(s), ReadVerdicts(s)
  PROVE  SerialRows' /\ Lone(call[s])'
<1>1. /\ UNCHANGED <<status, validation, cfdi, files, credit, late, crashed>>
      /\ call[s].step = "sync" /\ call \in [Slots -> Calls]
  BY DEF ReadVerdicts, rows, LoneCall, TypeInv, TypeOK
<1>2. \/ call'[s].step = "idle"
      \/ /\ call'[s].step = "writeStatus" /\ call'[s].to = Expenses
         /\ \E r \in Ids : validation[r] = "Rechazado"
      \/ call'[s].step = "writeStatus" /\ call'[s].to = Finished /\ AllApproved
  <2>1. CASE \E r \in Ids : validation[r] = "Rechazado"
    <3>1. call' = [call EXCEPT ![s] = StatusWrite(Expenses)]
      BY <2>1 DEF ReadVerdicts
    <3> QED BY <1>1, <2>1, <3>1, StagesDiffer
  <2>2. CASE ~\E r \in Ids : validation[r] = "Rechazado"
    <3>1. IF AllApproved THEN call' = [call EXCEPT ![s] = StatusWrite(Finished)] ELSE End(s)
      BY <2>2 DEF ReadVerdicts
    <3> QED BY <1>1, <3>1, StagesDiffer, EndFields DEF LoneCall
  <2> QED BY <2>1, <2>2
<1>3. SerialRows'
  BY <1>1, <1>2, RowsStay DEF LoneCall, SerialInv
<1>4. ~crashed /\ UsersFollowPages => Checking
  BY <1>1 DEF LoneCall, SerialInv, Lone, LoneStage
<1>5. Checking => LoneStage(call[s])'
  BY <1>1, <1>2, StagesDiffer DEF LoneStage, Checking, AllApproved, Exists
<1>6. LoneFiles(call[s])' /\ LoneWallet(call[s])'
  BY <1>2 DEF LoneFiles, LoneWallet
<1> QED BY <1>1, <1>3, <1>4, <1>5, <1>6 DEF Lone

\* The status that is written was settled on while nothing else ran.
LEMMA WriteStatusLone ==
  ASSUME NEW s \in Slots, LoneCall(s), WriteStatus(s)
  PROVE  SerialRows' /\ Lone(call[s])'
<1>1. /\ UNCHANGED <<validation, cfdi, files, credit, late, crashed>>
      /\ call[s].step = "writeStatus" /\ call'[s].step = "idle" /\ status' = call[s].to
  BY EndFields DEF WriteStatus, rows, LoneCall
<1>2. FilesInv'
  BY <1>1 DEF LoneCall, SerialInv, SerialRows, FilesInv, Exists
<1>3. ~crashed => WalletInv'
  <2>1. \A q : ~Crediting(q) /\ ~Crediting(q)'
    BY <1>1, OnlyCredit DEF LoneCall
  <2> QED BY <1>1, <2>1 DEF LoneCall, SerialInv, SerialRows, WalletInv
<1>4. ~crashed /\ UsersFollowPages => ClosedInv'
  <2>1. ~crashed /\ UsersFollowPages => LoneStage(call[s])
    BY DEF LoneCall, SerialInv, Lone
  <2> QED BY <1>1, <2>1 DEF LoneStage, ClosedInv, AllApproved, Exists
<1> QED BY <1>1, <1>2, <1>3, <1>4, IdleLoneAfter DEF SerialRows

\* A statement of the only call keeps what the call and the rows promise.
LEMMA AdvanceLone ==
  ASSUME NEW s \in Slots, LoneCall(s), CreateRow(s) \/ Onward(s)
  PROVE  SerialInv'
BY CreateLone, FindLone, RemoveLone, DropLone, CheckFilesLone, ReadOldLone, WriteFilesLone,
   CheckRegisterLone, InsertLone, VerdictLone, CreditLone, ReadVerdictsLone, WriteStatusLone,
   SerialSlot DEF Onward, LoneCall

-----------------------------------------------------------------------------
\* A call starts only when there is none.
LEMMA StartAlone ==
  ASSUME MaxInFlight = 1, TypeInv, NEW s \in Slots, NEW c, Start(s, c), UNCHANGED crashed
  PROVE  Acts(s) /\ call[s].step = "idle" /\ call'[s] = c
<1>1. call \in [Slots -> Calls] /\ call' = [call EXCEPT ![s] = c]
  BY DEF TypeInv, TypeOK, Start
<1>2. IsFiniteSet(Busy)
  BY SlotsFinite, FS_Subset DEF Busy
<1>3. Cardinality(Busy) \in Nat /\ Cardinality(Busy) < 1
  BY <1>2, FS_CardinalityType DEF Start
<1>4. Busy = {}
  BY <1>2, <1>3, FS_EmptySet
<1> QED BY <1>1, <1>4 DEF Acts, Busy

\* What a call that starts has just read.
LEMMA BeginLone ==
  ASSUME MaxInFlight = 1, TypeInv, SerialInv, NEW s \in Slots, NEW c, Start(s, c),
         UNCHANGED <<status, rows, credit, created, late, crashed>>,
         c.step # "credit", Lone(c)
  PROVE  SerialInv'
<1>1. Acts(s) /\ call[s].step = "idle" /\ call'[s] = c
  BY StartAlone
<1>2. SerialRows'
  BY <1>1, RowsStay DEF SerialInv, rows
<1>3. Lone(c)'
  BY DEF Lone, LoneFiles, LoneWallet, LoneStage, Checking, Exists, AllApproved, rows
<1>4. Lone(call[s])'
  BY <1>1, <1>3
<1> QED BY <1>1, <1>2, <1>4, SerialSlot

\* Each kind of call starts from what the page and the row show.
LEMMA BeginsLone ==
  ASSUME MaxInFlight = 1, TypeInv, SerialInv, NEW s \in Callers, Begin(s)
  PROVE  SerialInv'
<1>0. s \in Slots /\ 0 \notin Ids
  BY BoundAssumption DEF Slots, Ids
<1>1. ASSUME NEW inv \in Invoices \cup {Foreign}, NEW replaced \in 0..MaxReceipts,
             BeginUpload(s, inv, replaced)
      PROVE  SerialInv'
  <2> DEFINE c == [Idle EXCEPT !.step = "create", !.invoice = inv, !.replaced = replaced]
  <2>1. c.step = "create" /\ c.replaced = replaced
    BY DEF Idle
  <2>2. replaced # 0 => replaced \in 1..created /\ validation[replaced] = "Rechazado"
    BY <1>1 DEF BeginUpload, Replaceable, TypeInv, HandedOut, Exists, Ids
  <2>3. status # Finished
    BY <1>1 DEF BeginUpload, MayUpload, Validation, Finished
  <2>4. Start(s, c) /\ UNCHANGED <<status, rows, credit, created, late, crashed>>
    BY <1>1 DEF BeginUpload
  <2> HIDE DEF c
  <2>5. Lone(c)
    BY <2>1, <2>2, <2>3 DEF Lone, LoneFiles, LoneWallet, LoneStage
  <2> QED BY <1>0, <2>1, <2>4, <2>5, BeginLone
<1>2. ASSUME NEW r \in Ids, NEW verdict \in Decided, BeginDecision(s, r, verdict)
      PROVE  SerialInv'
  <2> DEFINE c == [Idle EXCEPT !.step = "readVerdict", !.receipt = r, !.verdict = verdict]
  <2>1. c.step = "readVerdict" /\ c.receipt = r /\ c.verdict = verdict
    BY DEF Idle
  <2>2. Start(s, c) /\ UNCHANGED <<status, rows, credit, created, late, crashed>>
    BY <1>2 DEF BeginDecision
  <2> HIDE DEF c
  <2>3. validation[r] = "Pendiente" /\ (verdict = "Aprobado" => ~late)
    BY <1>2 DEF BeginDecision
  <2>4. ASSUME ~crashed, UsersFollowPages PROVE Checking /\ (verdict = "Aprobado" => status = Validation)
    <3>1. status \in {Validation, Finished}
      BY <1>2, <2>4 DEF BeginDecision, OnPage
    <3>2. status = Finished => late
      BY <1>0, <2>3, <2>4 DEF SerialInv, SerialRows, ClosedInv, AllApproved, Exists
    <3> QED BY <2>3, <3>1, <3>2 DEF Checking
  <2>5. Lone(c)
    BY <2>1, <2>3, <2>4 DEF Lone, LoneFiles, LoneWallet, LoneStage
  <2> QED BY <1>0, <2>1, <2>2, <2>5, BeginLone
<1>3. ASSUME BeginHandIn(s) PROVE SerialInv'
  <2>1. /\ status = Expenses /\ (UsersFollowPages => \E r \in Ids : Exists(r))
        /\ Start(s, StatusWrite(Validation))
        /\ UNCHANGED <<status, rows, credit, created, late, crashed>>
    BY <1>3 DEF BeginHandIn
  <2>2. Lone(StatusWrite(Validation))
    BY <2>1, StagesDiffer DEF Lone, LoneFiles, LoneWallet, LoneStage
  <2> QED BY <1>0, <2>1, <2>2, StagesDiffer, BeginLone
<1>4. ASSUME BeginSync(s) PROVE SerialInv'
  <2> DEFINE c == [Idle EXCEPT !.step = "sync"]
  <2>1. c.step = "sync"
    BY DEF Idle
  <2>2. ~UsersFollowPages /\ Start(s, c) /\ UNCHANGED <<status, rows, credit, created, late, crashed>>
    BY <1>4 DEF BeginSync
  <2> HIDE DEF c
  <2>3. Lone(c)
    BY <2>1, <2>2 DEF Lone, LoneFiles, LoneWallet
  <2> QED BY <1>0, <2>1, <2>2, <2>3, BeginLone
<1> QED BY <1>1, <1>2, <1>3, <1>4 DEF Begin

\* The deadline job settles on closing a claim whose time is over.
LEMMA LockLone ==
  ASSUME MaxInFlight = 1, TypeInv, SerialInv, BeginLock
  PROVE  SerialInv'
<1>1. /\ late /\ Start("deadline", StatusWrite(Finished)) /\ "deadline" \in Slots
      /\ UNCHANGED <<status, rows, credit, created, late, crashed>>
  BY DEF BeginLock, Slots
<1>2. Lone(StatusWrite(Finished))
  BY <1>1, StagesDiffer DEF Lone, LoneFiles, LoneWallet, LoneStage
<1> QED BY <1>1, <1>2, StagesDiffer, BeginLone

\* No page deletes a receipt.  Where the endpoint is called all the same, it takes away
\* neither an approved receipt nor one that is about to be approved.
LEMMA ApiDeleteLone ==
  ASSUME TypeInv, EvidenceInv, SerialInv, NEW r \in Ids, ApiDeleteReceipt(r)
  PROVE  SerialInv'
<1>1. /\ ~UsersFollowPages /\ Deletable(r) /\ Delete(r)
      /\ UNCHANGED <<status, credit, created, late, call, crashed>>
  BY DEF ApiDeleteReceipt
<1>2. /\ SerialRows'
      /\ \A q \in Ids : validation'[q] = IF q = r THEN "none" ELSE validation[q]
      /\ \A q \in Ids \ {r} : files'[q] = files[q]
  BY <1>1, DeleteKeepsRows DEF SerialInv, Crediting
<1>3. cfdi[r] = NoCfdi
  BY <1>1 DEF Deletable
<1>4. created \in 0..MaxReceipts /\ MaxReceipts \in Nat
  BY BoundAssumption DEF TypeInv, TypeOK
<1>5. ASSUME NEW s \in Slots PROVE Lone(call[s])'
  <2>0. PICK c : c = call[s]
    OBVIOUS
  <2>1. call'[s] = c
    BY <1>1, <2>0
  <2>2. c.step \notin Aimless => c.receipt \in Ids
    BY <2>0, ReceiptOf
  <2>3. LoneFiles(c) /\ (~crashed => LoneWallet(c))
    BY <2>0 DEF SerialInv, Lone
  <2>4. c.step = "credit" => c.receipt # r
    BY <1>3, <2>0 DEF EvidenceInv, CallEvidence, Proven
  <2>5. LoneFiles(c)'
    <3>1. \A q \in 1..created : q \in Ids
      BY <1>4 DEF Ids
    <3>2. c.step \in {"create", "find", "remove", "drop"} /\ c.replaced # 0 =>
            c.replaced \in 1..created' /\ validation'[c.replaced] \in {"none", "Rechazado"}
      BY <1>1, <1>2, <2>3, <3>1 DEF LoneFiles
    <3>3. c.step \in {"register", "readForeign", "insert", "credit", "readVerdict", "writeVerdict"} =>
            c.receipt \in Ids
      BY <2>2 DEF Aimless
    <3>4. \A q \in Ids : Exists(q)' => Exists(q) /\ files'[q] = files[q]
      BY <1>2 DEF Exists
    <3> QED BY <1>2, <2>3, <3>2, <3>3, <3>4 DEF LoneFiles
  <2>6. LoneWallet(c) => LoneWallet(c)'
    <3>1. c.step \in {"writeFiles", "writeVerdict", "insert", "credit"} => c.receipt \in Ids
      BY <2>2 DEF Aimless
    <3> QED BY <1>2, <2>4, <3>1 DEF LoneWallet
  <2> QED BY <1>1, <2>1, <2>3, <2>5, <2>6 DEF Lone
<1>6. AloneInv'
  BY <1>1 DEF SerialInv, AloneInv, Busy
<1> QED BY <1>2, <1>5, <1>6 DEF SerialInv

\* Time and the trip do not cross a call's status.
LEMMA TimeLone ==
  ASSUME SerialInv, TripBooked \/ DeadlinePasses \/ UNCHANGED vars
  PROVE  SerialInv'
<1>1. UNCHANGED <<validation, cfdi, files, credit, created, call, crashed>>
  BY DEF TripBooked, DeadlinePasses, vars, rows
<1>2. /\ late => late'
      /\ status' = status \/ (status \in {Quote, Agency} /\ status' = Expenses)
  BY DEF TripBooked, DeadlinePasses, vars
<1>3. Quote # Expenses /\ Quote # Validation /\ Quote # Finished
      /\ Agency # Expenses /\ Agency # Validation /\ Agency # Finished
  BY DEF Quote, Agency, Expenses, Validation, Finished
<1>4. SerialRows'
  <2>1. FilesInv => FilesInv'
    BY <1>1 DEF FilesInv, Exists
  <2>2. WalletInv => WalletInv'
    BY <1>1 DEF WalletInv, Crediting
  <2>3. ClosedInv => ClosedInv'
    BY <1>1, <1>2, StagesDiffer DEF ClosedInv, AllApproved, Exists
  <2> QED BY <1>1, <2>1, <2>2, <2>3 DEF SerialInv, SerialRows
<1>5. ASSUME NEW s \in Slots PROVE Lone(call[s])'
  <2>1. Lone(call[s]) /\ call'[s] = call[s]
    BY <1>1 DEF SerialInv
  <2>2. \A c : LoneFiles(c) => LoneFiles(c)'
    BY <1>1 DEF LoneFiles, Exists
  <2>3. \A c : LoneWallet(c) => LoneWallet(c)'
    BY <1>1 DEF LoneWallet
  <2>4. \A c : LoneStage(c) => LoneStage(c)'
    BY <1>1, <1>2, <1>3, StagesDiffer DEF LoneStage, Checking, AllApproved, Exists
  <2> QED BY <1>1, <2>1, <2>2, <2>3, <2>4 DEF Lone
<1>6. AloneInv'
  BY <1>1 DEF SerialInv, AloneInv, Busy
<1> QED BY <1>4, <1>5, <1>6 DEF SerialInv

\* A crash ends the call and leaves the rows as they are.
LEMMA CrashLone ==
  ASSUME SerialInv, Crash
  PROVE  SerialInv'
<1>1. UNCHANGED <<validation, cfdi, files>> /\ crashed' /\ call' = [s \in Slots |-> Idle]
  BY DEF Crash, rows
<1>2. \A s \in Slots : call'[s].step = "idle"
  BY <1>1 DEF Idle
<1>3. SerialRows'
  BY <1>1 DEF SerialInv, SerialRows, FilesInv, Exists
<1> QED BY <1>2, <1>3, IdleLoneAfter DEF SerialInv, AloneInv, Busy

\* A statement of a call is a step of the only call in flight.
LEMMA StepActs ==
  ASSUME TypeInv, AloneInv, NEW s \in Slots, CreateRow(s) \/ Onward(s)
  PROVE  Acts(s)
<1>1. call[s].step # "idle" /\ crashed' = crashed
  BY DEF CreateRow, Onward, FindRow, RemoveReplacedFiles, DropReplaced, CheckFiles, WriteFiles,
     CheckRegister, InsertCfdi, ReadOld, UpdateAfter, WriteVerdict, CreditWallet, ReadVerdicts, WriteStatus
<1>2. \A t \in Slots \ {s} : call'[t] = call[t]
  <2>1. CASE CreateRow(s)
    BY <2>1 DEF CreateRow, Go, TypeInv, TypeOK
  <2> QED BY <2>1, OnwardOthers
<1>3. \A t \in Slots \ {s} : call[t].step = "idle"
  BY <1>1 DEF AloneInv, Busy
<1> QED BY <1>1, <1>2, <1>3 DEF Acts

\* Every step keeps what holds of one call at a time.
LEMMA SerialStep ==
  ASSUME MaxInFlight = 1, TypeInv, EvidenceInv, SerialInv, [Next]_vars
  PROVE  SerialInv'
<1>1. ASSUME NEW s \in Slots, CreateRow(s) \/ Onward(s) PROVE SerialInv'
  BY <1>1, StepActs, AdvanceLone DEF LoneCall, SerialInv
<1> QED BY <1>1, NextCases, BeginsLone, LockLone, ApiDeleteLone, TimeLone, CrashLone

\* It always holds, with and without crashes.
LEMMA SerialInvariant ==
  ASSUME MaxInFlight = 1
  PROVE  Spec => []SerialInv
<1>1. Init => SerialInv
  <2> SUFFICES ASSUME Init PROVE SerialInv
    OBVIOUS
  <2>1. \A s \in Slots : call[s].step = "idle"
    BY DEF Init, Idle
  <2>2. SerialRows
    BY StagesDiffer DEF Init, SerialRows, FilesInv, WalletInv, ClosedInv, AllApproved, Exists
  <2> QED BY <2>1, <2>2, IdleLone DEF SerialInv, AloneInv, Busy
<1>2. TypeInv /\ EvidenceInv /\ SerialInv /\ [Next]_vars => SerialInv'
  BY SerialStep
<1> QED BY <1>1, <1>2, TypeInvariant, EvidenceInvariant, PTL DEF Spec

\* Without crashes there is none.
LEMMA NoCrash ==
  ASSUME ~MayCrash
  PROVE  Spec => []~crashed
<1>1. Init => ~crashed
  BY DEF Init
<1>2. ~crashed /\ [Next]_vars => ~crashed'
  <2> SUFFICES ASSUME ~crashed, [Next]_vars PROVE ~crashed'
    OBVIOUS
  <2>1. UNCHANGED crashed
    BY NextCases DEF Begin, BeginUpload, BeginDecision, BeginHandIn, BeginSync, CreateRow, Onward, FindRow,
       RemoveReplacedFiles, DropReplaced, CheckFiles, WriteFiles, CheckRegister, InsertCfdi, ReadOld,
       WriteVerdict, CreditWallet, ReadVerdicts, WriteStatus, ApiDeleteReceipt, BeginLock, TripBooked,
       DeadlinePasses, Crash, vars
  <2> QED BY <2>1
<1> QED BY <1>1, <1>2, PTL DEF Spec

\* When calls do not overlap, an approved receipt keeps its files, replacements, deletions
\* from outside and crashes at any statement included (deleteReceiptFile).
THEOREM SerialFilesKept ==
  ASSUME MaxInFlight = 1
  PROVE  Spec => []ApprovedKeepsFiles
<1>1. EvidenceInv /\ SerialInv => ApprovedKeepsFiles
  BY DEF EvidenceInv, RowEvidence, SerialInv, SerialRows, FilesInv, ApprovedKeepsFiles
<1> QED BY <1>1, EvidenceInvariant, SerialInvariant, PTL

\* When calls neither overlap nor crash, the wallet has been credited once for each approved
\* receipt and never for another (trigger 5 of the client extension).
THEOREM SerialWalletMatches ==
  ASSUME MaxInFlight = 1, ~MayCrash
  PROVE  Spec => []WalletMatchesVerdicts
<1>1. SerialInv /\ ~crashed => WalletMatchesVerdicts
  <2> SUFFICES ASSUME SerialInv, ~crashed, Busy = {} PROVE WalletMatchesVerdicts
    BY DEF WalletMatchesVerdicts
  <2>1. \A r : ~Crediting(r)
    BY DEF Crediting, Busy
  <2> QED BY <2>1 DEF SerialInv, SerialRows, WalletInv, WalletMatchesVerdicts
<1> QED BY <1>1, SerialInvariant, NoCrash, PTL

\* Nor was any receipt ever credited twice: what the wallet may get twice for one receipt,
\* it gets from calls that overlap (trigger 5, validateReceipt).
THEOREM SerialCreditedOnce ==
  ASSUME MaxInFlight = 1, ~MayCrash
  PROVE  Spec => []CreditedOnce
<1>1. SerialInv /\ ~crashed => CreditedOnce
  <2> SUFFICES ASSUME SerialInv, ~crashed PROVE CreditedOnce
    OBVIOUS
  <2>1. \A r \in Ids : credit[r] = 1 \/ credit[r] = 0
    BY DEF SerialInv, SerialRows, WalletInv
  <2> QED BY <2>1 DEF CreditedOnce
<1> QED BY <1>1, SerialInvariant, NoCrash, PTL

-----------------------------------------------------------------------------
(* Approvals are paid, whatever calls overlap. *)

\* The steps before which the old validation has been read.
Updating == {"writeFiles", "insert", "writeVerdict"}

\* The wallet was credited for the receipt, or a call is about to.
Paid(r) == credit[r] > 0 \/ Crediting(r)

\* The receipt is approved, or a call that updates it has seen it approved.
Owing(r) ==
  \/ validation[r] = "Aprobado"
  \/ \E s \in Slots : call[s].old = "Aprobado" /\ call[s].receipt = r

\* A trigger that has read Aprobado, and so leaves the payment to somebody else, is
\* right to: that payment has been made, or is about to be.
OwedInv ==
  /\ \A s \in Slots : call[s].old = "Aprobado" => call[s].step \in Updating
  /\ ~crashed => \A r \in Ids : Owing(r) => Paid(r)

\* A call has in mind the validation that it reads, from its read to its update.
LEMMA OldAfter ==
  ASSUME TypeInv, OwedInv, NEW s \in Slots, CreateRow(s) \/ Onward(s), call'[s].old = "Aprobado"
  PROVE  /\ call'[s].step \in Updating
         /\ call'[s].receipt \in Ids /\ validation[call'[s].receipt] = "Aprobado"
<1>1. /\ call \in [Slots -> Calls] /\ call[s] \in Calls
      /\ call[s].old = "Aprobado" => call[s].step \in Updating
  BY DEF TypeInv, TypeOK, OwedInv
<1>2. call' = [call EXCEPT ![s] = Idle] => call'[s].old = "none"
  BY <1>1 DEF Idle
<1>3. ASSUME NEW step, Go(s, step) PROVE call[s].step \in Updating
  BY <1>1, <1>3 DEF Go, Calls
<1>4. ~\E step, verdict : AfterUpdate(s, verdict, step)
  BY <1>1 DEF AfterUpdate, After, Calls
<1>5. ~(CreateRow(s) \/ DropReplaced(s) \/ CreditWallet(s))
  BY <1>3 DEF CreateRow, DropReplaced, CreditWallet, Updating
<1>6. ~RemoveReplacedFiles(s)
  BY <1>3 DEF RemoveReplacedFiles, Updating
<1>7. ~FindRow(s)
  <2>1. ~End(s)
    BY <1>2 DEF End
  <2>2. call[s].step # "find"
        \/ ~\E r \in Ids : call' = [call EXCEPT ![s].receipt = r,
                             ![s].step = IF call[s].replaced = 0 THEN "store" ELSE "remove"]
    BY <1>1 DEF Calls, Updating
  <2> QED BY <2>1, <2>2 DEF FindRow
<1>8. ~(CheckFiles(s) \/ CheckRegister(s))
  <2>1. ASSUME NEW ok, NEW step, Continue(s, ok, step) PROVE call[s].step \in Updating
    BY <1>2, <1>3, <2>1 DEF Continue, End
  <2>2. ~CheckFiles(s)
    BY <2>1 DEF CheckFiles, Updating
  <2>3. ~CheckRegister(s)
    <3>1. CASE call[s].invoice = Foreign
      BY <2>1, <3>1 DEF CheckRegister, Updating
    <3>2. CASE call[s].invoice # Foreign
      <4> SUFFICES ASSUME CheckRegister(s) PROVE FALSE
        OBVIOUS
      <4>1. PICK b \in BOOLEAN :
              Continue(s, Exists(call[s].receipt) /\ MayUpload /\ ~Registered(call[s].invoice)
                          /\ b, "insert")
        BY <3>2 DEF CheckRegister
      <4> QED BY <2>1, <4>1 DEF CheckRegister, Updating
    <3> QED BY <3>1, <3>2
  <2> QED BY <2>2, <2>3
<1>9. ~(WriteFiles(s) \/ WriteVerdict(s) \/ InsertCfdi(s) \/ WriteStatus(s))
  BY <1>2, <1>4 DEF WriteFiles, WriteVerdict, InsertCfdi, WriteStatus, End
<1>10. ~ReadVerdicts(s)
  <2>1. ASSUME NEW stage PROVE StatusWrite(stage).old = "none"
    BY DEF StatusWrite, Idle
  <2>2. ~\E stage : call' = [call EXCEPT ![s] = StatusWrite(stage)]
    BY <1>1, <2>1
  <2> QED BY <1>2, <2>2 DEF ReadVerdicts, End
<1>11. ReadOld(s)
  BY <1>5, <1>6, <1>7, <1>8, <1>9, <1>10 DEF Onward
<1>12. call[s].receipt \in Ids
  BY <1>11, ReceiptOf DEF ReadOld, UpdateAfter, Aimless
<1>13. /\ call'[s].step = UpdateAfter[call[s].step] /\ call'[s].receipt = call[s].receipt
       /\ call'[s].old = validation[call[s].receipt]
  BY <1>1, <1>11 DEF ReadOld, Calls
<1>14. call'[s].step \in Updating
  BY <1>11, <1>13 DEF ReadOld, UpdateAfter, Updating
<1> QED BY <1>12, <1>13, <1>14

\* A payment made, or about to be made, is not taken back.
LEMMA PaidStays ==
  ASSUME TypeInv, NEW s \in Slots, CreateRow(s) \/ Onward(s), NEW r \in Ids, Paid(r)
  PROVE  Paid(r)'
<1>1. call \in [Slots -> Calls] /\ credit \in [Ids -> Nat] /\ call[s] \in Calls
  BY DEF TypeInv, TypeOK
<1>2. CASE CreditWallet(s)
  <2>1. call[s].receipt \in Ids
    BY <1>2, ReceiptOf DEF CreditWallet, Aimless
  <2>2. credit'[r] = IF r = call[s].receipt THEN credit[r] + 1 ELSE credit[r]
    BY <1>1, <1>2, <2>1 DEF CreditWallet
  <2>3. CASE r = call[s].receipt
    BY <1>1, <2>2, <2>3 DEF Paid
  <2>4. CASE r # call[s].receipt
    <3>1. \A t \in Slots \ {s} : call'[t] = call[t]
      BY <1>1, <1>2 DEF CreditWallet, Go
    <3> QED BY <2>2, <2>4, <3>1 DEF Paid, Crediting
  <2> QED BY <2>3, <2>4
<1>3. CASE ~CreditWallet(s)
  <2>1. call[s].step # "credit"
    BY <1>3 DEF CreateRow, Onward, FindRow, RemoveReplacedFiles, DropReplaced, CheckFiles,
       WriteFiles, CheckRegister, InsertCfdi, ReadOld, UpdateAfter, WriteVerdict, ReadVerdicts,
       WriteStatus
  <2>2. \A t \in Slots \ {s} : call'[t] = call[t]
    <3>1. CASE CreateRow(s)
      BY <1>1, <3>1 DEF CreateRow, Go
    <3> QED BY <3>1, OnwardOthers
  <2>3. credit[r] > 0 => credit'[r] > 0
    <3>1. CASE InsertCfdi(s)
      BY <1>1, <3>1 DEF InsertCfdi
    <3>2. CASE ~InsertCfdi(s)
      BY <1>3, <3>2 DEF CreateRow, Onward, FindRow, RemoveReplacedFiles, DropReplaced,
         CheckFiles, WriteFiles, CheckRegister, ReadOld, WriteVerdict, ReadVerdicts, WriteStatus
    <3> QED BY <3>1, <3>2
  <2> QED BY <2>1, <2>2, <2>3 DEF Paid, Crediting
<1> QED BY <1>2, <1>3

\* The call that approves a receipt pays it, unless it has seen it approved.
LEMMA ApprovalOwed ==
  ASSUME TypeInv, NEW s \in Slots, CreateRow(s) \/ Onward(s), NEW r \in Ids,
         validation'[r] = "Aprobado"
  PROVE  validation[r] = "Aprobado" \/ Paid(r)' \/ (call[s].old = "Aprobado" /\ call[s].receipt = r)
<1>1. /\ call \in [Slots -> Calls] /\ validation \in [Ids -> Verdicts] /\ call[s] \in Calls
      /\ created \in 0..MaxReceipts
  BY DEF TypeInv, TypeOK
<1>2. CASE CreateRow(s)
  BY <1>1, <1>2 DEF CreateRow
<1>3. CASE DropReplaced(s)
  <2>1. validation' = validation \/ validation' = [validation EXCEPT ![call[s].replaced] = "none"]
    BY <1>3 DEF DropReplaced, Delete, rows
  <2> QED BY <1>1, <2>1
<1>4. CASE WriteVerdict(s)
  <2>1. CASE validation' = validation
    BY <2>1
  <2>2. CASE /\ validation' = [validation EXCEPT ![call[s].receipt] = call[s].verdict]
             /\ AfterUpdate(s, call[s].verdict, "sync")
    <3>1. CASE r # call[s].receipt
      BY <1>1, <2>2, <3>1
    <3>2. CASE r = call[s].receipt /\ call[s].old # "Aprobado"
      <4>1. call[s].verdict = "Aprobado"
        BY <1>1, <2>2, <3>2
      <4>2. call'[s].step = "credit" /\ call'[s].receipt = r
        BY <2>2, <3>2, <4>1, AfterFields
      <4> QED BY <4>2 DEF Paid, Crediting
    <3> QED BY <3>1, <3>2
  <2> QED BY <1>4, <2>1, <2>2 DEF WriteVerdict
<1>5. CASE ~(CreateRow(s) \/ DropReplaced(s) \/ WriteVerdict(s))
  BY <1>5 DEF Onward, FindRow, RemoveReplacedFiles, CheckFiles, WriteFiles, CheckRegister,
     InsertCfdi, ReadOld, CreditWallet, ReadVerdicts, WriteStatus, rows
<1> QED BY <1>2, <1>3, <1>4, <1>5

\* A step of a call keeps what is owed paid.
LEMMA CallOwed ==
  ASSUME TypeInv, OwedInv, NEW s \in Slots, CreateRow(s) \/ Onward(s)
  PROVE  OwedInv'
<1>1. \A t \in Slots \ {s} : call'[t] = call[t]
  <2>1. CASE CreateRow(s)
    BY <2>1 DEF CreateRow, Go, TypeInv, TypeOK
  <2> QED BY <2>1, OnwardOthers
<1>2. crashed' = crashed
  BY DEF CreateRow, Onward, FindRow, RemoveReplacedFiles, DropReplaced, CheckFiles, WriteFiles,
     CheckRegister, InsertCfdi, ReadOld, WriteVerdict, CreditWallet, ReadVerdicts, WriteStatus
<1>3. \A t \in Slots : call'[t].old = "Aprobado" => call'[t].step \in Updating
  BY <1>1, OldAfter DEF OwedInv
<1>4. ASSUME ~crashed, NEW r \in Ids, Owing(r)' PROVE Paid(r)'
  <2>1. Owing(r) => Paid(r)'
    BY <1>4, PaidStays DEF OwedInv
  <2>2. CASE validation'[r] = "Aprobado"
    BY <2>1, <2>2, ApprovalOwed DEF Owing
  <2>3. ASSUME NEW t \in Slots, call'[t].old = "Aprobado", call'[t].receipt = r PROVE Owing(r)
    BY <1>1, <2>3, OldAfter DEF Owing
  <2> QED BY <1>4, <2>1, <2>2, <2>3 DEF Owing
<1> QED BY <1>2, <1>3, <1>4 DEF OwedInv

\* A step that leaves the wallet alone, approves nothing, and at most starts a call
\* that has read nothing.
LEMMA OthersOwed ==
  ASSUME OwedInv, UNCHANGED credit, crashed' = crashed,
         \A r \in Ids : validation'[r] = "Aprobado" => validation[r] = "Aprobado",
         \A t \in Slots : \/ call'[t] = call[t]
                          \/ call[t].step = "idle" /\ call'[t].old = "none"
  PROVE  OwedInv'
<1>1. \A r \in Ids : Paid(r) => Paid(r)'
  BY DEF Paid, Crediting
<1>2. \A r \in Ids : Owing(r)' => Owing(r)
  BY DEF Owing
<1> QED BY <1>1, <1>2 DEF OwedInv

\* Every step keeps what is owed paid.
LEMMA OwedStep ==
  ASSUME TypeInv, OwedInv, [Next]_vars
  PROVE  OwedInv'
<1>1. call \in [Slots -> Calls] /\ validation \in [Ids -> Verdicts]
  BY DEF TypeInv, TypeOK
<1>2. ASSUME NEW s \in Slots, NEW record, record.old = "none", Start(s, record)
      PROVE  \A t \in Slots : \/ call'[t] = call[t]
                              \/ call[t].step = "idle" /\ call'[t].old = "none"
  BY <1>1, <1>2 DEF Start
<1>3. Idle.old = "none" /\ \A stage : StatusWrite(stage).old = "none"
  BY DEF Idle, StatusWrite
<1>4. ASSUME NEW s \in Callers, Begin(s) PROVE OwedInv'
  <2>1. \E record : record.old = "none" /\ Start(s, record)
    <3>1. ASSUME NEW inv, NEW replaced, BeginUpload(s, inv, replaced)
          PROVE  \E record : record.old = "none" /\ Start(s, record)
      <4> DEFINE record == [Idle EXCEPT !.step = "create", !.invoice = inv, !.replaced = replaced]
      <4>1. record.old = "none"
        BY DEF Idle
      <4> QED BY <3>1, <4>1 DEF BeginUpload
    <3>2. ASSUME NEW r, NEW verdict, BeginDecision(s, r, verdict)
          PROVE  \E record : record.old = "none" /\ Start(s, record)
      <4> DEFINE record == [Idle EXCEPT !.step = "readVerdict", !.receipt = r,
                                        !.verdict = verdict]
      <4>1. record.old = "none"
        BY DEF Idle
      <4> QED BY <3>2, <4>1 DEF BeginDecision
    <3>3. ASSUME BeginSync(s) PROVE \E record : record.old = "none" /\ Start(s, record)
      <4> DEFINE record == [Idle EXCEPT !.step = "sync"]
      <4>1. record.old = "none"
        BY DEF Idle
      <4> QED BY <3>3, <4>1 DEF BeginSync
    <3>4. BeginHandIn(s) => \E record : record.old = "none" /\ Start(s, record)
      BY <1>3 DEF BeginHandIn
    <3> QED BY <1>4, <3>1, <3>2, <3>3, <3>4 DEF Begin
  <2>2. UNCHANGED <<validation, credit, crashed>>
    BY <1>4 DEF Begin, BeginUpload, BeginDecision, BeginHandIn, BeginSync, rows
  <2> QED BY <1>2, <2>1, <2>2, OthersOwed DEF Slots
<1>5. ASSUME NEW s \in Slots, CreateRow(s) \/ Onward(s) PROVE OwedInv'
  BY <1>5, CallOwed
<1>6. ASSUME NEW r \in Ids, ApiDeleteReceipt(r) PROVE OwedInv'
  <2>1. \A q \in Ids : validation'[q] = "Aprobado" => validation[q] = "Aprobado"
    BY <1>1, <1>6 DEF ApiDeleteReceipt, Delete
  <2> QED BY <1>6, <2>1, OthersOwed DEF ApiDeleteReceipt
<1>7. ASSUME BeginLock PROVE OwedInv'
  <2>1. \A t \in Slots : call'[t] = call[t] \/ (call[t].step = "idle" /\ call'[t].old = "none")
    BY <1>2, <1>3, <1>7 DEF BeginLock, Slots
  <2> QED BY <1>7, <2>1, OthersOwed DEF BeginLock, rows
<1>8. ASSUME TripBooked \/ DeadlinePasses \/ UNCHANGED vars PROVE OwedInv'
  BY <1>8, OthersOwed DEF TripBooked, DeadlinePasses, vars, rows
<1>9. ASSUME Crash PROVE OwedInv'
  BY <1>3, <1>9 DEF Crash, OwedInv
<1> QED BY <1>4, <1>5, <1>6, <1>7, <1>8, <1>9, NextCases

\* Unless the process crashed, no approved receipt is left unpaid when nobody is about
\* to pay it: with any number of calls, no two triggers both leave it to the other.
THEOREM ApprovedArePaid == Spec => []ApprovedIsPaid
<1>1. Init => OwedInv
  <2> SUFFICES ASSUME Init PROVE OwedInv
    OBVIOUS
  <2>1. \A s \in Slots : call[s].old = "none"
    BY DEF Init, Idle
  <2>2. \A r \in Ids : validation[r] = "none"
    BY DEF Init
  <2> QED BY <2>1, <2>2 DEF OwedInv, Owing
<1>2. TypeInv /\ OwedInv /\ [Next]_vars => OwedInv'
  BY OwedStep
<1>3. TypeInv /\ OwedInv => ApprovedIsPaid
  BY DEF TypeInv, TypeOK, OwedInv, Owing, Paid, Crediting, ApprovedIsPaid
<1> QED BY <1>1, <1>2, <1>3, TypeInvariant, PTL DEF Spec

-----------------------------------------------------------------------------
(* The ledger. *)

\* The stage of the claim, now and after a step.
LEMMA StageIs ==
  /\ Stage = "closed" <=> status = Finished
  /\ Stage = "checking" <=> status = Validation
  /\ Stage = "claiming" <=> status \notin {Finished, Validation}
  /\ Stage' = "closed" <=> status' = Finished
  /\ Stage' = "checking" <=> status' = Validation
  /\ Stage' = "claiming" <=> status' \notin {Finished, Validation}
PROOF BY StagesDiffer DEF Stage

\* The stage is a function of the status.
LEMMA StageSame == status' = status => Stage' = Stage
PROOF BY DEF Stage

LedgerStep == Ledger!Next \/ UNCHANGED Ledger!vars

\* A step of which the ledger notices nothing.
LEMMA Unnoticed == UNCHANGED <<validation, credit, status, late>> => LedgerStep
PROOF BY StageSame DEF LedgerStep, Ledger!vars

\* A step of the only call when nothing has crashed and users follow the pages.
LedgerCall(s) == LoneCall(s) /\ ~crashed /\ UsersFollowPages

\* A new row is a receipt filed.
LEMMA CreateKeepsLedger ==
  ASSUME NEW s \in Slots, LedgerCall(s), CreateRow(s)
  PROVE  LedgerStep
<1> DEFINE n == created + 1
<1>1. created \in Nat /\ created' \in 0..MaxReceipts /\ MaxReceipts \in Nat /\ created' = n
  BY CreateTyped, BoundAssumption DEF LedgerCall, LoneCall, TypeInv, TypeOK, CreateRow
<1>2. n \in Ids /\ n # 0
  BY <1>1 DEF Ids
<1>3. validation[n] = "none"
  BY <1>1, <1>2 DEF LedgerCall, LoneCall, TypeInv, HandedOut, Exists
<1>4. status # Finished
  BY DEF LedgerCall, LoneCall, SerialInv, Lone, LoneStage, CreateRow
<1>5. validation' = [validation EXCEPT ![n] = "Pendiente"] /\ UNCHANGED <<credit, status, late>>
  BY DEF CreateRow
<1>6. Ledger!File(n)
  BY <1>3, <1>4, <1>5, StageIs, StageSame DEF Ledger!File, Ledger!Turn
<1> QED BY <1>2, <1>6 DEF LedgerStep, Ledger!Next

\* A deleted row is a rejected receipt withdrawn.
LEMMA DropKeepsLedger ==
  ASSUME NEW s \in Slots, LedgerCall(s), DropReplaced(s)
  PROVE  LedgerStep
<1> DEFINE r == call[s].replaced
<1>1. UNCHANGED <<status, credit, late>> /\ call[s].step = "drop"
  BY DEF DropReplaced
<1>2. CASE UNCHANGED rows
  BY <1>1, <1>2, Unnoticed DEF rows
<1>3. CASE Deletable(r) /\ Delete(r)
  <2>1. r \in Ids /\ validation[r] = "Rechazado"
    BY <1>1, <1>3, ReplacedOf DEF LedgerCall, Deletable, Exists
  <2>2. credit[r] = 0
    BY <2>1 DEF LedgerCall, LoneCall, SerialInv, SerialRows, WalletInv
  <2>3. Ledger!Withdraw(r)
    BY <1>1, <1>3, <2>1, <2>2, StageSame DEF Delete, Ledger!Withdraw, Ledger!Turn
  <2> QED BY <2>1, <2>3 DEF LedgerStep, Ledger!Next
<1> QED BY <1>2, <1>3 DEF DropReplaced

\* A verdict is an approval or a rejection of a receipt that was undecided.
LEMMA VerdictKeepsLedger ==
  ASSUME NEW s \in Slots, LedgerCall(s), WriteVerdict(s)
  PROVE  LedgerStep
<1> DEFINE r == call[s].receipt
           v == call[s].verdict
<1>1. /\ UNCHANGED <<status, credit, late>> /\ call[s].step = "writeVerdict" /\ r \in Ids
      /\ v \in Decided
  BY ReceiptOf DEF WriteVerdict, LedgerCall, LoneCall, Aimless, EvidenceInv, CallEvidence
<1>2. CASE ~Exists(r)
  BY <1>1, <1>2, Unnoticed DEF WriteVerdict
<1>3. CASE Exists(r)
  <2>1. validation' = [validation EXCEPT ![r] = v]
    BY <1>3 DEF WriteVerdict
  <2>2. LoneFiles(call[s]) /\ LoneStage(call[s])
    BY DEF LedgerCall, LoneCall, SerialInv, Lone
  <2>3. validation[r] = "Pendiente"
    BY <1>1, <1>3, <2>2 DEF LoneFiles, Exists
  <2>4. Checking /\ (v = "Aprobado" => status = Validation)
    BY <1>1, <2>2 DEF LoneStage
  <2> HIDE DEF r, v
  <2>5. CASE v = "Aprobado"
    <3>1. Ledger!Approve(r)
      BY <1>1, <2>1, <2>3, <2>4, <2>5, StageIs, StageSame DEF Ledger!Approve, Ledger!Turn
    <3> QED BY <1>1, <3>1 DEF LedgerStep, Ledger!Next
  <2>6. CASE v = "Rechazado"
    <3>1. Ledger!Reject(r)
      BY <1>1, <2>1, <2>3, <2>4, <2>6, StageIs, StageSame DEF Ledger!Reject, Ledger!Turn, Checking
    <3> QED BY <1>1, <3>1 DEF LedgerStep, Ledger!Next
  <2> QED BY <1>1, <2>5, <2>6 DEF Decided
<1> QED BY <1>2, <1>3

\* The credit is the payment, and the only one.
LEMMA CreditKeepsLedger ==
  ASSUME NEW s \in Slots, LedgerCall(s), CreditWallet(s)
  PROVE  LedgerStep
<1> DEFINE r == call[s].receipt
<1>1. /\ UNCHANGED <<status, validation, late>> /\ call[s].step = "credit" /\ r \in Ids
      /\ credit' = [credit EXCEPT ![r] = @ + 1]
  BY ReceiptOf DEF CreditWallet, LedgerCall, LoneCall, Aimless, rows
<1>2. validation[r] = "Aprobado"
  BY <1>1 DEF LedgerCall, LoneCall, SerialInv, Lone, LoneWallet
<1>3. credit[r] = 0
  BY <1>1 DEF LedgerCall, LoneCall, SerialInv, SerialRows, WalletInv, Crediting
<1>4. credit' = [credit EXCEPT ![r] = 1]
  BY <1>1, <1>3 DEF LedgerCall, LoneCall, TypeInv, TypeOK
<1>5. Ledger!Pay(r)
  BY <1>1, <1>2, <1>3, <1>4, StageSame DEF Ledger!Pay
<1> QED BY <1>1, <1>5 DEF LedgerStep, Ledger!Next

\* A status written is a return, a hand-in, a settlement or an expiry.
LEMMA StatusKeepsLedger ==
  ASSUME NEW s \in Slots, LedgerCall(s), WriteStatus(s)
  PROVE  LedgerStep
<1> DEFINE to == call[s].to
<1>1. /\ UNCHANGED <<validation, credit, late>> /\ call[s].step = "writeStatus" /\ status' = to
  BY DEF WriteStatus, rows
<1>2. to \in {Expenses, Validation, Finished}
  BY <1>1 DEF LedgerCall, LoneCall, TypeInv, Targets, TypeOK, Calls
<1>3. LoneStage(call[s])
  BY DEF LedgerCall, LoneCall, SerialInv, Lone
<1>4. CASE to = Expenses
  <2>1. Checking /\ \E r \in Ids : validation[r] = "Rechazado"
    BY <1>1, <1>3, <1>4 DEF LoneStage
  <2>2. Ledger!Return
    BY <1>1, <1>4, <2>1, StageIs, StagesDiffer DEF Checking, Ledger!Return, Ledger!Move
  <2> QED BY <2>2 DEF LedgerStep, Ledger!Next
<1>5. CASE to = Validation
  <2>1. status = Expenses /\ \E r \in Ids : validation[r] # "none"
    BY <1>1, <1>3, <1>5 DEF LoneStage, Exists
  <2>2. Ledger!HandIn
    BY <1>1, <1>5, <2>1, StageIs, StagesDiffer DEF Ledger!HandIn, Ledger!Move
  <2> QED BY <2>2 DEF LedgerStep, Ledger!Next
<1>6. CASE to = Finished
  <2>1. late \/ (Checking /\ AllApproved)
    BY <1>1, <1>3, <1>6 DEF LoneStage
  <2>2. CASE status = Finished
    BY <1>1, <1>6, <2>2, Unnoticed
  <2>3. CASE status # Finished /\ late
    <3>1. Ledger!Expire
      BY <1>1, <1>6, <2>3, StageIs, StagesDiffer DEF Ledger!Expire, Ledger!Move
    <3> QED BY <3>1 DEF LedgerStep, Ledger!Next
  <2>4. CASE status # Finished /\ ~late
    <3>1. status = Validation /\ AllApproved
      BY <2>1, <2>4 DEF Checking
    <3>2. \A r : ~Crediting(r)
      BY <1>1, OnlyCredit DEF LedgerCall, LoneCall
    <3>3. \A r \in Ids : validation[r] # "none" => validation[r] = "Aprobado" /\ credit[r] = 1
      <4>1. 0 \notin Ids
        BY BoundAssumption DEF Ids
      <4> QED BY <3>1, <3>2, <4>1 DEF AllApproved, Exists, LedgerCall, LoneCall, SerialInv, SerialRows,
                                      WalletInv
    <3>4. Ledger!Settle
      BY <1>1, <1>6, <3>1, <3>3, StageIs, StagesDiffer DEF Ledger!Settle, Ledger!Move
    <3> QED BY <3>4 DEF LedgerStep, Ledger!Next
  <2> QED BY <2>2, <2>3, <2>4
<1> QED BY <1>2, <1>4, <1>5, <1>6

\* The registration of a CFDI pays nothing.
LEMMA InsertKeepsLedger ==
  ASSUME NEW s \in Slots, LedgerCall(s), InsertCfdi(s)
  PROVE  LedgerStep
<1>1. UNCHANGED <<status, validation, late>> /\ call[s].step = "insert"
  BY DEF InsertCfdi
<1>2. call[s].invoice = Foreign => validation[call[s].receipt] \in {"none", call[s].old}
  BY <1>1 DEF LedgerCall, LoneCall, SerialInv, Lone, LoneWallet
<1>3. credit' = credit
  BY <1>2 DEF InsertCfdi
<1> QED BY <1>1, <1>3, Unnoticed

\* The other statements of a call are not noticed.
LEMMA CallKeepsLedger ==
  ASSUME NEW s \in Slots, LedgerCall(s), CreateRow(s) \/ Onward(s)
  PROVE  LedgerStep
<1>1. CASE \/ FindRow(s) \/ RemoveReplacedFiles(s) \/ CheckFiles(s) \/ WriteFiles(s)
           \/ CheckRegister(s) \/ ReadOld(s) \/ ReadVerdicts(s)
  <2>1. UNCHANGED <<validation, credit, status, late>>
    BY <1>1 DEF FindRow, RemoveReplacedFiles, CheckFiles, WriteFiles, CheckRegister, ReadOld,
       ReadVerdicts, rows
  <2> QED BY <2>1, Unnoticed
<1> QED BY <1>1, CreateKeepsLedger, DropKeepsLedger, VerdictKeepsLedger, CreditKeepsLedger,
           StatusKeepsLedger, InsertKeepsLedger DEF Onward

\* Every step of the claim is a step of the ledger, or none.
LEMMA LedgerSteps ==
  ASSUME MaxInFlight = 1, ~MayCrash, UsersFollowPages, TypeInv, EvidenceInv, SerialInv, ~crashed,
         [Next]_vars
  PROVE  LedgerStep
<1>1. ASSUME NEW s \in Slots, CreateRow(s) \/ Onward(s) PROVE LedgerStep
  <2>1. Acts(s)
    BY <1>1, StepActs DEF SerialInv
  <2>2. LedgerCall(s)
    BY <2>1 DEF LedgerCall, LoneCall
  <2> QED BY <1>1, <2>2, CallKeepsLedger
<1>2. ASSUME NEW s \in Callers, Begin(s) PROVE LedgerStep
  <2>1. UNCHANGED <<validation, credit, status, late>>
    BY <1>2 DEF Begin, BeginUpload, BeginDecision, BeginHandIn, BeginSync, rows
  <2> QED BY <2>1, Unnoticed
<1>3. ASSUME BeginLock \/ UNCHANGED vars PROVE LedgerStep
  <2>1. UNCHANGED <<validation, credit, status, late>>
    BY <1>3 DEF BeginLock, vars, rows
  <2> QED BY <2>1, Unnoticed
<1>4. ASSUME TripBooked PROVE LedgerStep
  <2>1. /\ UNCHANGED <<validation, credit, late>>
        /\ status \notin {Finished, Validation} /\ status' \notin {Finished, Validation}
    BY <1>4 DEF TripBooked, rows, Quote, Agency, Expenses, Validation, Finished
  <2>2. Stage' = Stage
    BY <2>1, StageIs
  <2> QED BY <2>1, <2>2 DEF LedgerStep, Ledger!vars
<1>5. ASSUME DeadlinePasses PROVE LedgerStep
  <2>1. UNCHANGED <<validation, credit, status>> /\ late' = TRUE
    BY <1>5 DEF DeadlinePasses, rows
  <2>2. Ledger!TimeIsUp
    BY <2>1, StageSame DEF Ledger!TimeIsUp
  <2> QED BY <2>2 DEF LedgerStep, Ledger!Next
<1> QED BY <1>1, <1>2, <1>3, <1>4, <1>5, NextCases DEF ApiDeleteReceipt, Crash

\* When calls neither overlap nor crash and users follow the pages, a claim keeps its
\* ledger: each receipt is decided once and paid once if approved, only rejected ones are
\* withdrawn, and the claim is closed when all that is left is approved and paid, or late.
THEOREM SerialKeepsLedger ==
  ASSUME MaxInFlight = 1, ~MayCrash, UsersFollowPages
  PROVE  Spec => KeepsLedger
<1>1. Init => Ledger!Init
  <2> SUFFICES ASSUME Init PROVE Ledger!Init
    OBVIOUS
  <2>1. status \notin {Finished, Validation}
    BY BoundAssumption DEF Init, Quote, Expenses, Finished, Validation
  <2> QED BY <2>1, StageIs DEF Init, Ledger!Init
<1>2. TypeInv /\ EvidenceInv /\ SerialInv /\ ~crashed /\ [Next]_vars => [Ledger!Next]_(Ledger!vars)
  BY LedgerSteps DEF LedgerStep
<1> QED BY <1>1, <1>2, TypeInvariant, EvidenceInvariant, SerialInvariant, NoCrash, PTL
        DEF Spec, KeepsLedger, Ledger!Spec
=============================================================================
