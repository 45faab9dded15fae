-------------------------- MODULE TravelRequestProofs --------------------------
(***************************************************************************)
(* Proofs about TravelRequest, for every organisation, rule set and bound.  *)
(*                                                                         *)
(* Every Begin... action leaves one write in `calls`.  The proofs first say *)
(* what is true of such a write when it is decided on (a lemma per          *)
(* invariant), and then only look at the writes, not at who decided them.   *)
(***************************************************************************)
EXTENDS TravelRequest, FiniteSetTheorems, TLAPS

\* A step in which some handler or job reads and decides.
BeginsOn(r) ==
  \/ \E s \in Callers :
       \/ \E u \in Users : BeginConfirmDraft(s, r, u)
       \/ \E legacy \in BOOLEAN : BeginCancel(s, r, legacy)
       \/ BeginUpload(s, r)
       \/ BeginSubmitReceipts(s, r)
  \/ ApproverStep(r) \/ BackOfficeStep(r) \/ JobStep(r)

\* A step that begins a request, or edits it, in one transaction.
WritesAtOnce(r) ==
  \/ \E u \in Users, f \in Fees : CreateRequest(r, u, f) \/ CreateDraft(r, u, f)
  \/ \E f \in Fees : EditRequest(r, f)

\* The steps of Next, by what they do to the calls in flight.
LEMMA NextCases ==
  Next <=> \/ \E r \in Requests : WritesAtOnce(r) \/ BeginsOn(r) \/ TimeStep(r)
           \/ \E c \in calls : Advance(c)
           \/ Crash \/ Restart
PROOF BY DEF Next, ApplicantStep, WritesAtOnce, BeginsOn

-----------------------------------------------------------------------------
(* Types. *)

LEMMA SnapshotTypes ==
  /\ NoSnapshot \in Snapshots
  /\ KeepSnapshot \in Snapshots
  /\ \A u \in Users, f \in Fees : BuildSnapshot(u, f) \in Snapshots
<1>1. NoSnapshot \in Snapshots /\ KeepSnapshot \in Snapshots
  BY DEF NoSnapshot, KeepSnapshot, Snapshots, UserOrNull
<1>2. ASSUME NEW u \in Users, NEW f \in Fees PROVE BuildSnapshot(u, f) \in Snapshots
  BY LevelsAssumption, ApproverAssumption DEF BuildSnapshot, Snapshots, UserOrNull
<1> QED BY <1>1, <1>2

LEMMA SubmittedStatusType ==
  \A u \in Users, f \in Fees :
    SubmittedStatus(u, f) \in {FirstReview, SecondReview, Quote}
PROOF BY DEF SubmittedStatus, InitialStatusFromLevels

\* What a plain status update writes is well typed.
LEMMA StatusWriteType ==
  ASSUME NEW s \in Slots, NEW r \in Requests, NEW to \in Status
  PROVE  StatusWrite(s, r, to) \in Calls
BY SnapshotTypes DEF StatusWrite, Calls

\* What applyWorkflowAction writes is well typed.
LEMMA WorkflowWriteType ==
  ASSUME NEW s \in Slots, NEW r \in Requests, NEW to \in Status, NEW row \in Rows
  PROVE  WorkflowWrite(s, r, to, row) \in Calls
BY SnapshotTypes DEF StatusWrite, WorkflowWrite, Calls

LEMMA EntryTypes ==
  ASSUME NEW u \in UserOrNull, NEW k \in 0..2,
         NEW a \in {"APROBADO", "RECHAZADO", "ESCALADO", "REASIGNADO"},
         NEW m \in {"actor", "inactividad", "48h", "plazo"}
  PROVE  Entry(a, u, k, m) \in Rows
BY DEF Entry, Rows

LEMMA ChangedSnapshotTypes ==
  ASSUME NEW S \in Snapshots, NEW u \in UserOrNull
  PROVE  [S EXCEPT !.n1 = u] \in Snapshots /\ [S EXCEPT !.n2 = u] \in Snapshots
BY DEF Snapshots

LEMMA TierType ==
  ASSUME TypeOK, NEW r \in Requests, status[r] \in Pending
  PROVE  Tier(r) \in 1..2 /\ Tier(r) \in 0..2 /\ status[r] \in Status
BY DEF TypeOK, Tier, Pending, FirstReview, SecondReview, Status

LEMMA Statuses ==
  {Draft, FirstReview, SecondReview, Quote, Agency, Expenses, Validation,
   Finished, Cancelled, Rejected} \subseteq Status
PROOF BY DEF Draft, FirstReview, SecondReview, Quote, Agency, Expenses, Validation,
             Finished, Cancelled, Rejected, Status

-----------------------------------------------------------------------------
(* The writes decided on. *)

Approves(c) == \E row \in c.rows : row.accion = "APROBADO"
TopApproves(c) == \E row \in c.rows : row.accion = "APROBADO" /\ row.nivel = 2
Declines(c) == \E row \in c.rows : row.accion = "RECHAZADO" /\ row.motivo = "actor"

\* A step that leaves c in flight; it may know a receipt decided, but files none.
Launches(c) ==
  /\ Launch(c)
  /\ undecided' \in [Requests -> BOOLEAN]
  /\ \A q \in Requests : undecided'[q] => undecided[q]

\* What is true of a write, and of the request, when the write is decided on.
Decision(c) ==
  /\ c.step \in {"write", "receipt"}
  /\ c.step = "receipt" => status[c.req] \in Spending
  /\ c.then = "anticipo" => Approves(c)
  /\ Declines(c) <=> c.to = Rejected
  /\ UsersFollowPages /\ c.to \in Spending =>
       \/ status[c.req] \in Spending
       \/ undecided[c.req]
       \/ NeedsNoApproval(c.req)
       \/ TopApproves(c)
       \/ Approves(c) /\ 2 \notin snap[c.req].levels
  /\ \/ c.snap = KeepSnapshot
     \/ c.snap.levels = snap[c.req].levels
     \/ \E f \in Fees : c.snap.levels = LevelsFor[f]
  /\ \A row \in c.rows : row.accion = "APROBADO" => fee[c.req] \in Covers[row.usuario]
  /\ c.to = Cancelled =>
       status[c.req] \in {Draft, FirstReview, SecondReview, Quote, Agency}

\* A plain status update outside of the spending statuses is a decision, and so is
\* one inside if the request is already there.
LEMMA StatusWriteDecision ==
  ASSUME NEW s, NEW r, NEW to \in Status \ {Rejected},
         to = Cancelled => status[r] \in {Draft, FirstReview, SecondReview, Quote, Agency},
         UsersFollowPages /\ to \in Spending =>
           status[r] \in Spending \/ undecided[r] \/ NeedsNoApproval(r)
  PROVE  Decision(StatusWrite(s, r, to))
BY DEF Decision, StatusWrite, Approves, TopApproves, Declines

\* So is an audited update that leaves the approval to others.
LEMMA WorkflowWriteDecision ==
  ASSUME NEW s, NEW r, NEW to \in {FirstReview, SecondReview, Finished}, NEW u, NEW k,
         NEW a \in {"RECHAZADO", "ESCALADO", "REASIGNADO"}, NEW m,
         a = "RECHAZADO" => m = "plazo"
  PROVE  Decision(WorkflowWrite(s, r, to, Entry(a, u, k, m)))
<1> DEFINE c == WorkflowWrite(s, r, to, Entry(a, u, k, m))
<1>1. /\ c.step = "write" /\ c.then = "end" /\ c.to = to /\ c.snap = KeepSnapshot
      /\ c.rows = {Entry(a, u, k, m)}
  BY DEF WorkflowWrite, StatusWrite
<1>2. \A row \in c.rows : row.accion = a /\ row.motivo = m
  BY <1>1 DEF Entry
<1>3. ~Approves(c) /\ ~Declines(c)
  BY <1>2 DEF Approves, Declines
<1>4. to \notin Spending /\ to # Rejected /\ to # Cancelled
  BY DEF Spending, FirstReview, SecondReview, Quote, Agency, Expenses, Validation,
         Finished, Cancelled, Rejected
<1> HIDE DEF c
<1> QED BY <1>1, <1>2, <1>3, <1>4 DEF Decision, c

\* Who enters the flow past the reviews needs no approval.
LEMMA SubmittedPastReviews ==
  ASSUME NEW u \in Users, NEW f \in Fees, SubmittedStatus(u, f) \in Spending
  PROVE  Role[u] = "N2"
BY DEF SubmittedStatus, InitialStatusFromLevels, Spending, FirstReview, SecondReview, Quote,
       Agency, Expenses, Validation

\* Whatever a user or a job begins leaves a well-typed write, and a decision that
\* fits the request it has read.
LEMMA Begins ==
  ASSUME TypeOK, NEW r \in Requests, BeginsOn(r)
  PROVE  \E c \in Calls : Launches(c) /\ Decision(c)
<1> USE Statuses
<1> DEFINE Plain == \E c \in Calls : Begin(c) /\ Decision(c)
           Goal == \E c \in Calls : Launches(c) /\ Decision(c)
<1>1. ASSUME NEW s \in Callers PROVE s \in Slots
  BY DEF Slots
<1>2. "escalation" \in Slots /\ "sweep" \in Slots /\ "deadline" \in Slots
  BY DEF Slots, Jobs
<1>3. \A u \in Users : u \in UserOrNull
  BY DEF UserOrNull
<1>4. ASSUME NEW s \in Callers, NEW u \in Users, BeginConfirmDraft(s, r, u) PROVE Plain
  <2> DEFINE to == SubmittedStatus(u, fee[r])
             w == StatusWrite(s, r, to)
             c == [w EXCEPT !.snap = BuildSnapshot(u, fee[r]), !.trip = TRUE]
  <2>1. fee[r] \in Fees
    BY DEF TypeOK
  <2>2. to \in Status \ {Rejected, Cancelled}
    BY <2>1, SubmittedStatusType
    DEF FirstReview, SecondReview, Quote, Cancelled, Rejected, Status
  <2>3. c \in Calls
    <3>1. w \in Calls
      BY <2>2, <1>1, StatusWriteType
    <3> HIDE DEF w
    <3> QED BY <2>1, <3>1, SnapshotTypes DEF Calls
  <2>4. Decision(c)
    <3>1. UsersFollowPages /\ to \in Spending => NeedsNoApproval(r)
      BY <2>1, <1>4, SubmittedPastReviews, NoUserAssumption
      DEF BeginConfirmDraft, NeedsNoApproval
    <3>2. BuildSnapshot(u, fee[r]).levels = LevelsFor[fee[r]]
      BY DEF BuildSnapshot
    <3> HIDE DEF to
    <3> QED BY <2>1, <2>2, <3>1, <3>2
            DEF Decision, StatusWrite, Approves, TopApproves, Declines
  <2> QED BY <2>3, <2>4, <1>4 DEF BeginConfirmDraft
<1>5. ASSUME NEW s \in Callers, NEW legacy \in BOOLEAN, BeginCancel(s, r, legacy) PROVE Plain
  <2> DEFINE w == StatusWrite(s, r, Cancelled)
             c == [w EXCEPT !.then = IF legacy THEN "write" ELSE "end"]
  <2>1. c \in Calls
    <3>1. w \in Calls
      BY <1>1, StatusWriteType
    <3> HIDE DEF w
    <3> QED BY <3>1 DEF Calls
  <2>2. Decision(c)
    BY <1>5 DEF BeginCancel, Decision, StatusWrite, Approves, TopApproves, Declines,
       Spending, Quote, Agency, Expenses, Validation, Cancelled, Rejected
  <2> QED BY <2>1, <2>2, <1>5 DEF BeginCancel
<1>6. ASSUME NEW s \in Callers, BeginSubmitReceipts(s, r) PROVE Plain
  <2>1. StatusWrite(s, r, Validation) \in Calls
    BY <1>1, StatusWriteType
  <2>2. Decision(StatusWrite(s, r, Validation))
    BY <1>6, StatusWriteDecision
    DEF BeginSubmitReceipts, Spending, Validation, Cancelled, Rejected
  <2> QED BY <1>6, <2>1, <2>2 DEF BeginSubmitReceipts
<1>7. ASSUME NEW s \in Callers, NEW u \in Users, BeginApprove(s, r, u) PROVE Plain
  <2> DEFINE to == IF Tier(r) = 1 THEN StatusAfterN1(snap[r].levels) ELSE Quote
             row == Entry("APROBADO", u, Tier(r), "actor")
             w == WorkflowWrite(s, r, to, row)
             c == [w EXCEPT !.then = IF to = Quote THEN "anticipo" ELSE "end"]
  <2>1. to \in {SecondReview, Quote}
    BY DEF StatusAfterN1
  <2>2. row \in Rows
    BY <1>3, <1>7, TierType, EntryTypes DEF BeginApprove
  <2>3. c \in Calls
    <3>1. w \in Calls
      BY <1>1, <2>1, <2>2, WorkflowWriteType
    <3> HIDE DEF w
    <3> QED BY <3>1 DEF Calls
  <2>4. /\ c.step = "write" /\ c.to = to /\ c.rows = {row} /\ c.req = r
        /\ c.snap = KeepSnapshot
    BY DEF WorkflowWrite, StatusWrite
  <2>5. row.accion = "APROBADO" /\ row.usuario = u /\ row.nivel = Tier(r)
    BY DEF Entry
  <2>6. Approves(c) /\ ~Declines(c) /\ to \notin {Rejected, Cancelled}
    BY <2>1, <2>4, <2>5
    DEF Approves, Declines, SecondReview, Quote, Cancelled, Rejected
  <2>7. to \in Spending => TopApproves(c) \/ 2 \notin snap[r].levels
    <3>1. CASE Tier(r) = 1
      BY <3>1 DEF StatusAfterN1, Spending, SecondReview, Quote, Agency, Expenses, Validation
    <3>2. CASE Tier(r) = 2
      BY <3>2, <2>4, <2>5 DEF TopApproves
    <3> QED BY <3>1, <3>2, <1>7, TierType DEF BeginApprove
  <2>8. Decision(c)
    <3> HIDE DEF c, to, row
    <3> QED BY <1>7, <2>4, <2>5, <2>6, <2>7 DEF Decision, BeginApprove
  <2> QED BY <2>3, <2>8, <1>7 DEF BeginApprove
<1>8. ASSUME NEW s \in Callers, NEW u \in Users, BeginEscalateOverLimit(s, r, u) PROVE Plain
  <2> DEFINE c == WorkflowWrite(s, r, SecondReview, Entry("ESCALADO", u, 1, "actor"))
  <2>1. c \in Calls
    BY <1>1, <1>3, EntryTypes, WorkflowWriteType
  <2>2. Decision(c)
    BY WorkflowWriteDecision
  <2> QED BY <1>8, <2>1, <2>2 DEF BeginEscalateOverLimit
<1>9. ASSUME NEW s \in Callers, NEW u \in Users, BeginReject(s, r, u) PROVE Plain
  <2> DEFINE row == Entry("RECHAZADO", u, Tier(r), "actor")
             c == WorkflowWrite(s, r, Rejected, row)
  <2>1. c \in Calls
    <3>1. row \in Rows
      BY <1>3, <1>9, TierType, EntryTypes DEF BeginReject
    <3> HIDE DEF row
    <3> QED BY <1>1, <3>1, WorkflowWriteType
  <2>2. /\ c.step = "write" /\ c.then = "end" /\ c.to = Rejected /\ c.rows = {row}
        /\ c.snap = KeepSnapshot
    BY DEF WorkflowWrite, StatusWrite
  <2>3. row.accion = "RECHAZADO" /\ row.motivo = "actor"
    BY DEF Entry
  <2>4. Rejected \notin Spending /\ Rejected # Cancelled
    BY DEF Spending, Quote, Agency, Expenses, Validation, Cancelled, Rejected
  <2>5. Decision(c)
    <3> HIDE DEF c, row
    <3> QED BY <2>2, <2>3, <2>4 DEF Decision, Declines
  <2> QED BY <1>9, <2>1, <2>5 DEF BeginReject
<1>10. ASSUME NEW s \in Callers, NEW u \in Users, NEW target \in Users,
              BeginReassign(s, r, u, target)
       PROVE  Plain
  <2> DEFINE w == WorkflowWrite(s, r, status[r], Entry("REASIGNADO", u, Tier(r), "actor"))
             c == [w EXCEPT !.snap = IF Tier(r) = 1 THEN [snap[r] EXCEPT !.n1 = target]
                                                    ELSE [snap[r] EXCEPT !.n2 = target]]
  <2>1. w \in Calls
    BY <1>1, <1>3, <1>10, EntryTypes, TierType, WorkflowWriteType DEF BeginReassign
  <2>2. c \in Calls
    <3> HIDE DEF w
    <3> QED BY <2>1, <1>3, ChangedSnapshotTypes DEF Calls, TypeOK
  <2>3. Decision(c)
    <3>1. Decision(w)
      BY <1>10, WorkflowWriteDecision DEF BeginReassign, Pending
    <3>2. \A t \in Users : /\ [snap[r] EXCEPT !.n1 = t].levels = snap[r].levels
                           /\ [snap[r] EXCEPT !.n2 = t].levels = snap[r].levels
      BY DEF TypeOK, Snapshots
    <3>3. c.snap.levels = snap[r].levels /\ c.req = r /\ w.req = r
      BY <3>2 DEF WorkflowWrite, StatusWrite
    <3>4. /\ c.step = w.step /\ c.then = w.then /\ c.to = w.to /\ c.rows = w.rows
          /\ c.req = w.req
      <4> HIDE DEF w
      <4> QED BY <2>1 DEF Calls
    <3> HIDE DEF w, c
    <3> QED BY <3>1, <3>3, <3>4 DEF Decision, Approves, TopApproves, Declines
  <2> QED BY <2>2, <2>3, <1>10 DEF BeginReassign
<1>11. ASSUME NEW s \in Callers, NEW needsAgency \in BOOLEAN,
              BeginConfirmFee(s, r, needsAgency)
       PROVE  Plain
  <2> DEFINE to == IF needsAgency THEN Agency ELSE Expenses
  <2>1. to \in Status \ {Rejected, Cancelled} /\ status[r] \in Spending
    BY <1>11 DEF BeginConfirmFee, Spending, Quote, Agency, Expenses, Cancelled, Rejected
  <2> HIDE DEF to
  <2>2. StatusWrite(s, r, to) \in Calls /\ Decision(StatusWrite(s, r, to))
    BY <1>1, <2>1, StatusWriteType, StatusWriteDecision
  <2> QED BY <1>11, <2>2 DEF BeginConfirmFee, to
<1>12. ASSUME NEW s \in Callers, BeginMarkAttended(s, r) PROVE Plain
  <2>1. UsersFollowPages => status[r] \in Spending
    BY <1>12 DEF BeginMarkAttended, OnPage, Spending
  <2>2. StatusWrite(s, r, Expenses) \in Calls
    BY <1>1, StatusWriteType
  <2>3. Decision(StatusWrite(s, r, Expenses))
    BY <2>1, StatusWriteDecision DEF Expenses, Cancelled, Rejected
  <2> QED BY <1>12, <2>2, <2>3 DEF BeginMarkAttended
<1>13. ASSUME NEW s \in Callers, NEW allApproved \in BOOLEAN,
              BeginReceiptSync(s, r, allApproved)
       PROVE  Goal
  <2> DEFINE done == [StatusWrite(s, r, Finished) EXCEPT !.then = "cierre"]
             back == StatusWrite(s, r, Expenses)
  <2>1. UsersFollowPages => undecided[r]
    BY <1>13 DEF BeginReceiptSync
  <2>2. back \in Calls /\ Decision(back)
    BY <1>1, <2>1, StatusWriteType, StatusWriteDecision DEF Expenses, Cancelled, Rejected
  <2>3. done \in Calls
    <3>1. StatusWrite(s, r, Finished) \in Calls
      BY <1>1, StatusWriteType
    <3> QED BY <3>1 DEF Calls
  <2>4. Decision(done)
    BY DEF Decision, StatusWrite, Approves, TopApproves, Declines,
       Spending, Quote, Agency, Expenses, Validation, Finished, Cancelled, Rejected
  <2>5. Launch(done) \/ Launch(back)
    BY <1>13 DEF BeginReceiptSync
  <2>6. /\ undecided' \in [Requests -> BOOLEAN]
        /\ \A q \in Requests : undecided'[q] => undecided[q]
    <3>1. PICK left \in {FALSE, undecided[r] /\ ~allApproved} :
            undecided' = [undecided EXCEPT ![r] = left]
      BY <1>13 DEF BeginReceiptSync
    <3>2. undecided \in [Requests -> BOOLEAN] /\ left \in BOOLEAN /\ (left => undecided[r])
      BY DEF TypeOK
    <3> QED BY <3>1, <3>2
  <2> HIDE DEF done, back
  <2> QED BY <2>2, <2>3, <2>4, <2>5, <2>6 DEF Launches
<1>14. ASSUME BeginEscalation(r) PROVE Plain
  <2> DEFINE u == IF snap[r].n2 # NoUser THEN snap[r].n2 ELSE owner[r]
             w == WorkflowWrite("escalation", r, SecondReview, Entry("ESCALADO", u, 1, "48h"))
             c == [w EXCEPT !.org = FALSE]
  <2>1. u \in UserOrNull
    BY DEF TypeOK, Snapshots
  <2>2. w \in Calls
    BY <1>2, <2>1, EntryTypes, WorkflowWriteType
  <2>3. Decision(w)
    BY WorkflowWriteDecision
  <2>4. c \in Calls /\ Decision(c)
    <3> HIDE DEF w
    <3>1. c \in Calls
      BY <2>2 DEF Calls
    <3>2. /\ c.step = w.step /\ c.then = w.then /\ c.to = w.to /\ c.rows = w.rows
          /\ c.req = w.req /\ c.snap = w.snap
      BY <2>2 DEF Calls
    <3> HIDE DEF c
    <3> QED BY <2>3, <3>1, <3>2 DEF Decision, Approves, TopApproves, Declines
  <2> QED BY <2>4, <1>14 DEF BeginEscalation
<1>15. ASSUME BeginSweep(r) PROVE Plain
  <2>1. Designated(r) \in UserOrNull
    BY DEF TypeOK, Designated, Snapshots
  <2>2. ASSUME NEW sub \in Users, Begin(SweepReassign(r, sub)), status[r] \in Pending
        PROVE  Plain
    <3> DEFINE w == WorkflowWrite("sweep", r, status[r],
                                  Entry("REASIGNADO", sub, Tier(r), "inactividad"))
               c == SweepReassign(r, sub)
    <3>1. w \in Calls
      BY <1>2, <1>3, <2>2, EntryTypes, TierType, WorkflowWriteType
    <3>2. Decision(w)
      BY <2>2, WorkflowWriteDecision DEF Pending
    <3>3. /\ [snap[r] EXCEPT !.n1 = sub].levels = snap[r].levels
          /\ [snap[r] EXCEPT !.n2 = sub].levels = snap[r].levels
      BY DEF TypeOK, Snapshots
    <3>4. c.snap.levels = snap[r].levels /\ w.req = r
      BY <3>3 DEF SweepReassign, WorkflowWrite, StatusWrite
    <3>5. c \in Calls
      BY <1>3, <3>1, ChangedSnapshotTypes DEF Calls, TypeOK, SweepReassign
    <3>6. /\ c.step = w.step /\ c.then = w.then /\ c.to = w.to /\ c.rows = w.rows
          /\ c.req = w.req
      BY <3>1 DEF Calls, SweepReassign
    <3> HIDE DEF w, c
    <3>7. Decision(c)
      BY <3>2, <3>4, <3>6 DEF Decision, Approves, TopApproves, Declines
    <3> QED BY <2>2, <3>5, <3>7 DEF c
  <2>3. ASSUME Begin(SweepEscalate(r)) PROVE Plain
    <3>1. SweepEscalate(r) \in Calls
      BY <1>2, <2>1, EntryTypes, WorkflowWriteType DEF SweepEscalate
    <3>2. Decision(SweepEscalate(r))
      BY WorkflowWriteDecision DEF SweepEscalate
    <3> QED BY <2>3, <3>1, <3>2
  <2>4. Designated(r) # NoUser => Substitutes[Designated(r)] \subseteq Users
    BY <2>1, ApproverAssumption DEF UserOrNull
  <2> QED BY <1>15, <2>2, <2>3, <2>4 DEF BeginSweep
<1>16. ASSUME BeginDeadlineLock(r) PROVE Plain
  <2> DEFINE c == WorkflowWrite("deadline", r, Finished, Entry("RECHAZADO", owner[r], 0, "plazo"))
  <2>1. c \in Calls
    BY <1>2, EntryTypes, WorkflowWriteType DEF TypeOK
  <2>2. Decision(c)
    BY WorkflowWriteDecision
  <2> QED BY <1>16, <2>1, <2>2 DEF BeginDeadlineLock
<1>17. ASSUME NEW s \in Callers, BeginUpload(s, r) PROVE Plain
  <2> DEFINE w == StatusWrite(s, r, status[r])
             c == [w EXCEPT !.step = "receipt"]
  <2>1. status[r] \in Status \ {Rejected, Cancelled} /\ status[r] \in Spending
    BY <1>17 DEF BeginUpload, Spending, Quote, Agency, Expenses, Validation, Cancelled, Rejected
  <2>2. c \in Calls
    <3>1. w \in Calls
      BY <1>1, <2>1, StatusWriteType
    <3> HIDE DEF w
    <3> QED BY <3>1 DEF Calls
  <2>3. Decision(c)
    BY <2>1 DEF Decision, StatusWrite, Approves, TopApproves, Declines
  <2> QED BY <2>2, <2>3, <1>17 DEF BeginUpload
<1>18. Plain => Goal
  BY DEF Begin, Launches, TypeOK
<1> HIDE DEF Plain, Goal
<1>19. Goal
  BY <1>4, <1>5, <1>6, <1>7, <1>8, <1>9, <1>10, <1>11, <1>12, <1>13, <1>14, <1>15, <1>16,
     <1>17, <1>18
  DEF BeginsOn, ApproverStep, BackOfficeStep, JobStep
<1> QED BY <1>19 DEF Goal

-----------------------------------------------------------------------------
(* Types are kept. *)

\* A snapshot that a call writes, or leaves alone, is a snapshot.
LEMMA WrittenSnapshotType ==
  ASSUME TypeOK, NEW c \in calls
  PROVE  (IF c.snap = KeepSnapshot THEN snap[c.req] ELSE c.snap) \in Snapshots
BY DEF TypeOK, Calls

\* A call in flight goes on as a call, or ends.
LEMMA AdvanceTyped ==
  ASSUME TypeOK, NEW c \in calls, Advance(c)
  PROVE  TypeOK'
<1> USE DEF TypeOK
<1>1. c \in Calls
  OBVIOUS
<1>2. ASSUME CommitWrite(c) PROVE TypeOK'
  <2> USE <1>2 DEF CommitWrite
  <2>1. status' \in [Requests -> Status \cup {NoRequest}]
    BY <1>1 DEF Calls
  <2>2. active' \in [Requests -> BOOLEAN]
    BY <1>1 DEF Calls
  <2>3. historial' \in [Requests -> SUBSET Rows]
    BY <1>1 DEF Calls
  <2>4. snap' \in [Requests -> Snapshots]
    BY <1>1, WrittenSnapshotType DEF Calls
  <2>5. trip' \in [Requests -> {"none", "open", "passed"}]
    BY <1>1 DEF Calls
  <2>6. stale' \in [Requests -> BOOLEAN]
    BY <1>1 DEF Calls
  <2>7. calls' \subseteq Calls
    <3>1. c.then # "end" => [c EXCEPT !.step = c.then, !.then = "end"] \in Calls
      BY <1>1 DEF Calls
    <3> QED BY <3>1
  <2> QED BY <2>1, <2>2, <2>3, <2>4, <2>5, <2>6, <2>7
<1>3. ASSUME AbortWrite(c) PROVE TypeOK'
  BY <1>3 DEF AbortWrite, request
<1>4. ASSUME EmitPoliza(c) PROVE TypeOK'
  BY <1>1, <1>4 DEF EmitPoliza, Calls
<1>5. ASSUME FileReceipt(c) PROVE TypeOK'
  BY <1>1, <1>5 DEF FileReceipt, request, Calls
<1> QED BY <1>2, <1>3, <1>4, <1>5 DEF Advance

\* Every variable keeps its type, in every organisation.
THEOREM TypeCorrect == Spec => []TypeOK
<1>1. Init => TypeOK
  BY SnapshotTypes, FeesAssumption DEF Init, TypeOK, UserOrNull
<1>2. TypeOK /\ [Next]_vars => TypeOK'
  <2> SUFFICES ASSUME TypeOK, [Next]_vars PROVE TypeOK'
    OBVIOUS
  <2>1. ASSUME NEW r \in Requests, WritesAtOnce(r) PROVE TypeOK'
    <3>1. ASSUME NEW u \in Users, NEW f \in Fees, CreateRequest(r, u, f) PROVE TypeOK'
      <4>1. SubmittedStatus(u, f) \in Status
        BY SubmittedStatusType, Statuses
      <4>2. BuildSnapshot(u, f) \in Snapshots /\ u \in UserOrNull
        BY SnapshotTypes DEF UserOrNull
      <4> QED BY <3>1, <4>1, <4>2 DEF CreateRequest, TypeOK
    <3>2. ASSUME NEW u \in Users, NEW f \in Fees, CreateDraft(r, u, f) PROVE TypeOK'
      BY <3>2, Statuses DEF CreateDraft, TypeOK, UserOrNull
    <3>3. ASSUME NEW f \in Fees, EditRequest(r, f) PROVE TypeOK'
      BY <3>3 DEF EditRequest, TypeOK
    <3> QED BY <2>1, <3>1, <3>2, <3>3 DEF WritesAtOnce
  <2>2. ASSUME NEW r \in Requests, BeginsOn(r) PROVE TypeOK'
    <3>1. PICK c \in Calls : Launches(c)
      BY <2>2, Begins
    <3> QED BY <3>1 DEF Launches, Launch, request, TypeOK
  <2>3. ASSUME NEW r \in Requests, TimeStep(r) PROVE TypeOK'
    BY <2>3 DEF TimeStep, FortyEightHours, DeadlinePasses, TypeOK
  <2>4. ASSUME NEW c \in calls, Advance(c) PROVE TypeOK'
    BY <2>4, AdvanceTyped
  <2>5. ASSUME Crash \/ Restart PROVE TypeOK'
    BY <2>5 DEF Crash, Restart, request, TypeOK
  <2>6. ASSUME UNCHANGED vars PROVE TypeOK'
    BY <2>6 DEF vars, TypeOK
  <2> QED BY <2>1, <2>2, <2>3, <2>4, <2>5, <2>6, NextCases
<1> QED BY <1>1, <1>2, PTL DEF Spec

-----------------------------------------------------------------------------
(* The audit trail: declines, and approvals with an advance. *)

\* What a reader of the trail relies on, and what the calls in flight still owe it.
AuditInv ==
  /\ AdvanceNeedsApproval
  /\ DeclinedStaysInactive
  /\ RejectionOnRecord
  /\ \A c \in calls :
       /\ c.step = "anticipo" => ApprovalOnRecord(c.req)
       /\ c.then = "anticipo" => Approves(c)
       /\ Declines(c) <=> c.to = Rejected

\* The row a call leaves when it is done with its write.
LEMMA NextCall ==
  ASSUME TypeOK, NEW c \in calls, NEW d \in calls', CommitWrite(c)
  PROVE  \/ d \in calls
         \/ /\ d.req = c.req /\ d.to = c.to /\ d.rows = c.rows /\ d.snap = c.snap
            /\ d.step = c.then /\ d.then = "end"
<1>1. c \in Calls
  BY DEF TypeOK
<1>2. CASE d \in calls
  BY <1>2
<1>3. CASE d \notin calls
  <2>1. d = [c EXCEPT !.step = c.then, !.then = "end"]
    BY <1>3 DEF CommitWrite
  <2> QED BY <1>1, <2>1 DEF Calls
<1> QED BY <1>2, <1>3

LEMMA AdvanceAudit ==
  ASSUME TypeOK, AuditInv, NEW c \in calls, Advance(c)
  PROVE  AuditInv'
<1>1. c \in Calls /\ c.req \in Requests
  BY DEF TypeOK, Calls
<1>2. ASSUME CommitWrite(c) PROVE AuditInv'
  <2>1. \A r \in Requests : historial[r] \subseteq historial'[r]
    BY <1>1, <1>2 DEF CommitWrite, TypeOK
  <2>2. \A row \in c.rows : row \in historial'[c.req]
    BY <1>1, <1>2 DEF CommitWrite, TypeOK
  <2>3. \A r \in Requests \ {c.req} :
          /\ historial'[r] = historial[r] /\ status'[r] = status[r] /\ active'[r] = active[r]
    BY <1>1, <1>2 DEF CommitWrite, TypeOK
  <2>4. /\ status'[c.req] = c.to
        /\ active'[c.req] = (active[c.req] /\ ~Deactivates(c.to))
        /\ historial'[c.req] = historial[c.req] \cup c.rows
    BY <1>1, <1>2 DEF CommitWrite, TypeOK
  <2>5. AdvanceNeedsApproval'
    BY <1>2, <2>1 DEF AuditInv, AdvanceNeedsApproval, ApprovalOnRecord, CommitWrite
  <2>6. DeclinedStaysInactive'
    <3> SUFFICES ASSUME NEW r \in Requests, DeclineOnRecord(r)' PROVE ~active'[r]
      BY DEF DeclinedStaysInactive
    <3>1. CASE r # c.req
      BY <3>1, <2>3 DEF AuditInv, DeclinedStaysInactive, DeclineOnRecord
    <3>2. CASE r = c.req /\ Declines(c)
      BY <3>2, <2>4 DEF AuditInv, Deactivates
    <3>3. CASE r = c.req /\ ~Declines(c)
      <4>1. DeclineOnRecord(r)
        BY <3>3, <2>4 DEF DeclineOnRecord, Declines
      <4> QED BY <4>1, <3>3, <2>4 DEF AuditInv, DeclinedStaysInactive
    <3> QED BY <3>1, <3>2, <3>3
  <2>7. RejectionOnRecord'
    <3> SUFFICES ASSUME NEW r \in Requests, status'[r] = Rejected PROVE DeclineOnRecord(r)'
      BY DEF RejectionOnRecord
    <3>1. CASE r # c.req
      BY <3>1, <2>3 DEF AuditInv, RejectionOnRecord, DeclineOnRecord
    <3>2. CASE r = c.req
      BY <3>2, <2>2, <2>4 DEF AuditInv, Declines, DeclineOnRecord
    <3> QED BY <3>1, <3>2
  <2>8. ASSUME NEW d \in calls'
        PROVE  /\ d.step = "anticipo" => ApprovalOnRecord(d.req)'
               /\ d.then = "anticipo" => Approves(d)
               /\ Declines(d) <=> d.to = Rejected
    <3>1. CASE d \in calls
      <4>1. d.req \in Requests
        BY <3>1 DEF TypeOK, Calls
      <4> QED BY <3>1, <4>1, <2>1 DEF AuditInv, ApprovalOnRecord
    <3>2. CASE /\ d.req = c.req /\ d.to = c.to /\ d.rows = c.rows
               /\ d.step = c.then /\ d.then = "end"
      BY <3>2, <2>2 DEF AuditInv, ApprovalOnRecord, Approves, Declines
    <3> QED BY <3>1, <3>2, <1>2, NextCall
  <2> QED BY <2>5, <2>6, <2>7, <2>8 DEF AuditInv
<1>3. ASSUME AbortWrite(c) PROVE AuditInv'
  BY <1>3 DEF AbortWrite, request, AuditInv, AdvanceNeedsApproval, DeclinedStaysInactive,
     RejectionOnRecord, ApprovalOnRecord, DeclineOnRecord
<1>4. ASSUME EmitPoliza(c) PROVE AuditInv'
  <2>1. \A r \in Requests : "anticipo" \in poliza'[r] =>
          "anticipo" \in poliza[r] \/ (r = c.req /\ c.step = "anticipo")
    <3>1. PICK p \in {{}, {c.step}} :
            poliza' = [poliza EXCEPT ![c.req] = poliza[c.req] \cup p]
      BY <1>4 DEF EmitPoliza
    <3>2. poliza \in [Requests -> SUBSET {"anticipo", "cierre"}]
      BY DEF TypeOK
    <3>3. \A r \in Requests \ {c.req} : poliza'[r] = poliza[r]
      BY <3>1, <3>2
    <3>4. poliza'[c.req] = poliza[c.req] \cup p
      BY <1>1, <3>1, <3>2
    <3> QED BY <3>1, <3>3, <3>4
  <2>2. UNCHANGED <<status, active, historial>> /\ calls' = calls \ {c}
    BY <1>4 DEF EmitPoliza
  <2>3. AdvanceNeedsApproval'
    BY <2>1, <2>2 DEF AuditInv, AdvanceNeedsApproval, ApprovalOnRecord
  <2>4. DeclinedStaysInactive' /\ RejectionOnRecord'
    BY <2>2 DEF AuditInv, DeclinedStaysInactive, RejectionOnRecord, DeclineOnRecord
  <2>5. \A d \in calls' : d \in calls
    BY <2>2
  <2> HIDE DEF AdvanceNeedsApproval, DeclinedStaysInactive, RejectionOnRecord
  <2> QED BY <2>2, <2>3, <2>4, <2>5 DEF AuditInv, ApprovalOnRecord
<1>5. ASSUME FileReceipt(c) PROVE AuditInv'
  BY <1>5 DEF FileReceipt, request, AuditInv, AdvanceNeedsApproval, DeclinedStaysInactive,
     RejectionOnRecord, ApprovalOnRecord, DeclineOnRecord
<1> QED BY <1>2, <1>3, <1>4, <1>5 DEF Advance

\* The trail is kept right by every step.
LEMMA AuditInvariant == Spec => []AuditInv
<1> USE DEF AdvanceNeedsApproval, DeclinedStaysInactive, RejectionOnRecord,
            ApprovalOnRecord, DeclineOnRecord
<1>1. Init => AuditInv
  BY DEF Init, AuditInv, NoRequest, Rejected
<1>2. TypeOK /\ AuditInv /\ [Next]_vars => AuditInv'
  <2> SUFFICES ASSUME TypeOK, AuditInv, [Next]_vars PROVE AuditInv'
    OBVIOUS
  <2>1. ASSUME NEW r \in Requests, WritesAtOnce(r) PROVE AuditInv'
    <3>1. UNCHANGED <<active, historial, poliza, calls>>
      BY <2>1 DEF WritesAtOnce, CreateRequest, CreateDraft, EditRequest
    <3>2. \A q \in Requests : status'[q] = Rejected => status[q] = Rejected
      <4>1. ASSUME NEW u \in Users, NEW f \in Fees, CreateRequest(r, u, f)
            PROVE  \A q \in Requests : status'[q] = Rejected => status[q] = Rejected
        <5>1. SubmittedStatus(u, f) # Rejected
          BY SubmittedStatusType DEF FirstReview, SecondReview, Quote, Rejected
        <5> QED BY <4>1, <5>1 DEF CreateRequest, TypeOK
      <4>2. ASSUME NEW u \in Users, NEW f \in Fees, CreateDraft(r, u, f)
            PROVE  \A q \in Requests : status'[q] = Rejected => status[q] = Rejected
        BY <4>2 DEF CreateDraft, TypeOK, Draft, Rejected
      <4>3. ASSUME NEW f \in Fees, EditRequest(r, f)
            PROVE  \A q \in Requests : status'[q] = Rejected => status[q] = Rejected
        BY <4>3 DEF EditRequest
      <4> QED BY <2>1, <4>1, <4>2, <4>3 DEF WritesAtOnce
    <3> QED BY <3>1, <3>2 DEF AuditInv
  <2>2. ASSUME NEW r \in Requests, BeginsOn(r) PROVE AuditInv'
    <3>1. PICK c \in Calls : Launches(c) /\ Decision(c)
      BY <2>2, Begins
    <3>2. /\ c.step # "anticipo" /\ (c.then = "anticipo" => Approves(c))
          /\ (Declines(c) <=> c.to = Rejected)
      BY <3>1 DEF Decision
    <3> QED BY <3>1, <3>2 DEF Launches, Launch, request, AuditInv
  <2>3. ASSUME NEW r \in Requests, TimeStep(r) PROVE AuditInv'
    BY <2>3 DEF TimeStep, FortyEightHours, DeadlinePasses, AuditInv
  <2>4. ASSUME NEW c \in calls, Advance(c) PROVE AuditInv'
    BY <2>4, AdvanceAudit
  <2>5. ASSUME Crash \/ Restart PROVE AuditInv'
    BY <2>5 DEF Crash, Restart, request, AuditInv
  <2>6. ASSUME UNCHANGED vars PROVE AuditInv'
    BY <2>6 DEF vars, AuditInv
  <2> QED BY <2>1, <2>2, <2>3, <2>4, <2>5, <2>6, NextCases
<1> QED BY <1>1, <1>2, TypeCorrect, PTL DEF Spec

\* No advance poliza without an approval on record, whoever crosses the approval.
THEOREM AdvancesApproved == Spec => []AdvanceNeedsApproval
<1>1. AuditInv => AdvanceNeedsApproval
  BY DEF AuditInv
<1> QED BY <1>1, AuditInvariant, PTL

\* A declined request is never active again.
THEOREM DeclinesLast == Spec => []DeclinedStaysInactive
<1>1. AuditInv => DeclinedStaysInactive
  BY DEF AuditInv
<1> QED BY <1>1, AuditInvariant, PTL

\* Every request shown as rejected was declined by an approver, on record.
THEOREM RejectionsRecorded == Spec => []RejectionOnRecord
<1>1. AuditInv => RejectionOnRecord
  BY DEF AuditInv
<1> QED BY <1>1, AuditInvariant, PTL

-----------------------------------------------------------------------------
(* Money follows approval. *)

Approved(r) == ApprovalOnRecord(r) \/ NeedsNoApproval(r)
TopApproved(r) == TopApprovalOnRecord(r) \/ NeedsNoApproval(r)

\* A call in flight towards a spending status either carries the approval itself,
\* or was begun on a request that already had it: an approval is never lost.
SpendingInv ==
  /\ SpendingNeedsApproval
  /\ \A r \in Requests : status[r] = NoRequest => owner[r] = NoUser
  /\ \A r \in Requests : undecided[r] => Approved(r)
  /\ \A c \in calls :
       /\ c.to \in Spending => Approved(c.req) \/ Approves(c)
       /\ c.step = "receipt" => Approved(c.req)

\* The same of the second level, when the rules always have one: then every
\* snapshot, written or to be written, has it too.
TopInv ==
  /\ \A r \in Requests : status[r] \in Spending => TopApproved(r)
  /\ \A r \in Requests : status[r] = NoRequest => owner[r] = NoUser
  /\ \A r \in Requests : 2 \in snap[r].levels
  /\ \A r \in Requests : undecided[r] => TopApproved(r)
  /\ \A c \in calls :
       /\ c.to \in Spending => TopApproved(c.req) \/ TopApproves(c)
       /\ c.step = "receipt" => TopApproved(c.req)
       /\ c.snap = KeepSnapshot \/ 2 \in c.snap.levels

\* A step never takes an approval back: rows stay, and owners do not change.
LEMMA ApprovalsStay ==
  ASSUME TypeOK, \A r \in Requests : status[r] = NoRequest => owner[r] = NoUser, [Next]_vars
  PROVE  /\ \A r \in Requests : Approved(r) => Approved(r)'
         /\ \A r \in Requests : TopApproved(r) => TopApproved(r)'
         /\ \A r \in Requests : status'[r] = NoRequest => owner'[r] = NoUser
<1> DEFINE Goal == /\ \A r \in Requests : historial[r] \subseteq historial'[r]
                   /\ \A r \in Requests : owner'[r] = owner[r] \/ owner[r] = NoUser
                   /\ \A r \in Requests : status'[r] = NoRequest => owner'[r] = NoUser
<1>1. ASSUME NEW r \in Requests, WritesAtOnce(r) PROVE Goal
  <2>1. ASSUME NEW u \in Users, NEW f \in Fees, CreateRequest(r, u, f) PROVE Goal
    <3>1. SubmittedStatus(u, f) # NoRequest
      BY SubmittedStatusType DEF FirstReview, SecondReview, Quote, NoRequest
    <3> QED BY <2>1, <3>1 DEF CreateRequest, TypeOK
  <2>2. ASSUME NEW u \in Users, NEW f \in Fees, CreateDraft(r, u, f) PROVE Goal
    BY <2>2 DEF CreateDraft, TypeOK, Draft, NoRequest
  <2>3. ASSUME NEW f \in Fees, EditRequest(r, f) PROVE Goal
    BY <2>3 DEF EditRequest
  <2> HIDE DEF Goal
  <2> QED BY <1>1, <2>1, <2>2, <2>3 DEF WritesAtOnce
<1>2. ASSUME NEW r \in Requests, BeginsOn(r) PROVE Goal
  <2>1. PICK c \in Calls : Launches(c)
    BY <1>2, Begins
  <2> QED BY <2>1 DEF Launches, Launch, request
<1>3. ASSUME NEW r \in Requests, TimeStep(r) PROVE Goal
  BY <1>3 DEF TimeStep, FortyEightHours, DeadlinePasses
<1>4. ASSUME NEW c \in calls, Advance(c) PROVE Goal
  <2>1. c \in Calls /\ c.req \in Requests /\ c.to # NoRequest
    BY DEF TypeOK, Calls, Status, NoRequest
  <2>2. CASE CommitWrite(c)
    BY <2>1, <2>2 DEF CommitWrite, TypeOK
  <2>3. CASE AbortWrite(c)
    BY <2>3 DEF AbortWrite, request
  <2>4. CASE EmitPoliza(c) \/ FileReceipt(c)
    BY <2>4 DEF EmitPoliza, FileReceipt, request
  <2> HIDE DEF Goal
  <2> QED BY <1>4, <2>2, <2>3, <2>4 DEF Advance
<1>5. ASSUME Crash \/ Restart PROVE Goal
  BY <1>5 DEF Crash, Restart, request
<1>6. ASSUME UNCHANGED vars PROVE Goal
  BY <1>6 DEF vars
<1>7. Goal
  <2> HIDE DEF Goal
  <2> QED BY <1>1, <1>2, <1>3, <1>4, <1>5, <1>6, NextCases
<1>8. \A r \in Requests : NeedsNoApproval(r) => NeedsNoApproval(r)'
  BY <1>7 DEF NeedsNoApproval
<1> QED BY <1>7, <1>8 DEF Approved, TopApproved, ApprovalOnRecord, TopApprovalOnRecord

\* A request that enters the flow past the reviews needs no approval.
LEMMA WritesAtOnceSpend ==
  ASSUME TypeOK, NEW r \in Requests, WritesAtOnce(r)
  PROVE  /\ \A q \in Requests : status'[q] \in Spending =>
              status[q] \in Spending \/ NeedsNoApproval(q)'
         /\ UNCHANGED <<historial, undecided, calls>>
         /\ \A q \in Requests : \/ snap'[q].levels = snap[q].levels
                                \/ \E f \in Fees : snap'[q].levels = LevelsFor[f]
<1> DEFINE Goal == \A q \in Requests : status'[q] \in Spending =>
                     status[q] \in Spending \/ NeedsNoApproval(q)'
           SnapGoal == \A q \in Requests : \/ snap'[q].levels = snap[q].levels
                                           \/ \E f \in Fees : snap'[q].levels = LevelsFor[f]
<1>1. ASSUME NEW u \in Users, NEW f \in Fees, CreateRequest(r, u, f) PROVE Goal /\ SnapGoal
  <2>1. SubmittedStatus(u, f) \in Spending => Role[u] = "N2" /\ u # NoUser
    BY SubmittedPastReviews, NoUserAssumption
  <2>2. owner'[r] = u /\ status'[r] = SubmittedStatus(u, f)
    BY <1>1 DEF CreateRequest, TypeOK
  <2>3. \A q \in Requests \ {r} : status'[q] = status[q] /\ snap'[q] = snap[q]
    BY <1>1 DEF CreateRequest, TypeOK
  <2>4. Goal
    <3>1. status'[r] \in Spending => NeedsNoApproval(r)'
      BY <2>1, <2>2 DEF NeedsNoApproval
    <3> QED BY <2>3, <3>1
  <2>5. snap'[r].levels = LevelsFor[f]
    BY <1>1 DEF CreateRequest, TypeOK, BuildSnapshot
  <2> HIDE DEF Goal
  <2> QED BY <2>3, <2>4, <2>5
<1>2. ASSUME NEW u \in Users, NEW f \in Fees, CreateDraft(r, u, f) PROVE Goal /\ SnapGoal
  BY <1>2 DEF CreateDraft, TypeOK, Draft, Spending, Quote, Agency, Expenses, Validation
<1>3. ASSUME NEW f \in Fees, EditRequest(r, f) PROVE Goal /\ SnapGoal
  BY <1>3 DEF EditRequest
<1>4. UNCHANGED <<historial, undecided, calls>>
  BY DEF WritesAtOnce, CreateRequest, CreateDraft, EditRequest
<1> HIDE DEF Goal, SnapGoal
<1>5. Goal /\ SnapGoal
  BY <1>1, <1>2, <1>3 DEF WritesAtOnce
<1> QED BY <1>4, <1>5 DEF Goal, SnapGoal

LEMMA SpendingStep ==
  ASSUME UsersFollowPages, TypeOK, SpendingInv, [Next]_vars
  PROVE  SpendingInv'
<1>1. /\ \A r \in Requests : Approved(r) => Approved(r)'
      /\ \A r \in Requests : status'[r] = NoRequest => owner'[r] = NoUser
  BY ApprovalsStay DEF SpendingInv
<1>2. \A r \in Requests : status[r] \in Spending => Approved(r)
  BY DEF SpendingInv, SpendingNeedsApproval, Approved
<1>3. \A c \in calls : c.req \in Requests
  BY DEF TypeOK, Calls
<1> DEFINE Goal == /\ \A r \in Requests : status'[r] \in Spending => Approved(r)'
                   /\ \A r \in Requests : undecided'[r] => Approved(r)'
                   /\ \A c \in calls' :
                        /\ c.to \in Spending => Approved(c.req)' \/ Approves(c)
                        /\ c.step = "receipt" => Approved(c.req)'
<1>4. ASSUME NEW r \in Requests, WritesAtOnce(r) PROVE Goal
  <2>1. \A q \in Requests : NeedsNoApproval(q)' => Approved(q)'
    BY DEF Approved
  <2> QED BY <1>1, <1>2, <1>3, <1>4, <2>1, WritesAtOnceSpend DEF SpendingInv
<1>5. ASSUME NEW r \in Requests, BeginsOn(r) PROVE Goal
  <2>1. PICK c \in Calls : Launches(c) /\ Decision(c)
    BY <1>5, Begins
  <2>2. c.req \in Requests
    BY DEF Calls
  <2>3. /\ c.to \in Spending => Approved(c.req) \/ Approves(c)
        /\ c.step = "receipt" => Approved(c.req)
    BY <2>1, <2>2, <1>2 DEF Decision, Approved, Approves, TopApproves, SpendingInv
  <2>4. /\ calls' = calls \cup {c} /\ status' = status
        /\ \A q \in Requests : undecided'[q] => undecided[q]
    BY <2>1 DEF Launches, Launch, request
  <2> QED BY <1>1, <1>2, <1>3, <2>2, <2>3, <2>4 DEF SpendingInv
<1>6. ASSUME NEW r \in Requests, TimeStep(r) PROVE Goal
  BY <1>1, <1>2, <1>3, <1>6 DEF TimeStep, FortyEightHours, DeadlinePasses, SpendingInv
<1>7. ASSUME NEW c \in calls, Advance(c) PROVE Goal
  <2>1. CASE CommitWrite(c)
    <3>1. \A q \in Requests \ {c.req} : status'[q] = status[q]
      BY <1>3, <2>1 DEF CommitWrite, TypeOK
    <3>2. status'[c.req] = c.to /\ historial'[c.req] = historial[c.req] \cup c.rows
      BY <1>3, <2>1 DEF CommitWrite, TypeOK
    <3>3. c.to \in Spending => Approved(c.req)'
      BY <1>1, <1>3, <3>2 DEF SpendingInv, Approved, ApprovalOnRecord, Approves
    <3>4. ASSUME NEW d \in calls'
          PROVE  /\ d.to \in Spending => Approved(d.req)' \/ Approves(d)
                 /\ d.step = "receipt" => Approved(d.req)'
      <4>1. CASE d \in calls
        BY <1>1, <1>3, <4>1 DEF SpendingInv
      <4>2. CASE /\ d.req = c.req /\ d.to = c.to /\ d.rows = c.rows
                 /\ d.step = c.then
        <5>1. d.step # "receipt"
          BY <4>2 DEF TypeOK, Calls
        <5> QED BY <3>3, <4>2, <5>1
      <4> QED BY <2>1, <4>1, <4>2, NextCall
    <3>5. undecided' = undecided
      BY <2>1 DEF CommitWrite
    <3> QED BY <1>1, <1>2, <3>1, <3>2, <3>3, <3>4, <3>5 DEF SpendingInv
  <2>2. CASE AbortWrite(c) \/ EmitPoliza(c)
    <3>1. status' = status /\ undecided' = undecided /\ calls' \subseteq calls
      BY <2>2 DEF AbortWrite, EmitPoliza, request
    <3> QED BY <1>1, <1>2, <1>3, <3>1 DEF SpendingInv
  <2>3. CASE FileReceipt(c)
    <3>1. /\ status' = status /\ calls' \subseteq calls
          /\ \A r \in Requests : undecided'[r] => undecided[r] \/ r = c.req
      BY <2>3 DEF FileReceipt, request, TypeOK
    <3>2. Approved(c.req)
      BY <2>3 DEF FileReceipt, SpendingInv
    <3> QED BY <1>1, <1>2, <1>3, <3>1, <3>2 DEF SpendingInv
  <2> QED BY <1>7, <2>1, <2>2, <2>3 DEF Advance
<1>8. ASSUME Crash \/ Restart PROVE Goal
  <2>1. status' = status /\ undecided' = undecided /\ calls' \subseteq calls
    BY <1>8 DEF Crash, Restart, request
  <2> QED BY <1>1, <1>2, <1>3, <2>1 DEF SpendingInv
<1>9. ASSUME UNCHANGED vars PROVE Goal
  <2>1. status' = status /\ undecided' = undecided /\ calls' = calls
    BY <1>9 DEF vars
  <2> QED BY <1>1, <1>2, <1>3, <2>1 DEF SpendingInv
<1>10. Goal
  <2> HIDE DEF Goal
  <2> QED BY <1>4, <1>5, <1>6, <1>7, <1>8, <1>9, NextCases
<1> QED BY <1>1, <1>10 DEF SpendingInv, SpendingNeedsApproval, Approved

LEMMA SpendingInvariant ==
  ASSUME UsersFollowPages
  PROVE  Spec => []SpendingInv
<1>1. Init => SpendingInv
  BY DEF Init, SpendingInv, SpendingNeedsApproval, Spending, NoRequest, Quote, Agency,
     Expenses, Validation
<1>2. TypeOK /\ SpendingInv /\ [Next]_vars => SpendingInv'
  BY SpendingStep
<1> QED BY <1>1, <1>2, TypeCorrect, PTL DEF Spec

\* As long as users act on what the pages list for them, a request on which money
\* is committed has its approval on record, in every interleaving of the calls.
THEOREM SpendingApproved ==
  ASSUME UsersFollowPages
  PROVE  Spec => []SpendingNeedsApproval
<1>1. SpendingInv => SpendingNeedsApproval
  BY DEF SpendingInv
<1> QED BY <1>1, SpendingInvariant, PTL

LEMMA TopStep ==
  ASSUME UsersFollowPages, \A f \in Fees : 2 \in LevelsFor[f], TypeOK, TopInv, [Next]_vars
  PROVE  TopInv'
<1>1. /\ \A r \in Requests : TopApproved(r) => TopApproved(r)'
      /\ \A r \in Requests : status'[r] = NoRequest => owner'[r] = NoUser
  BY ApprovalsStay DEF TopInv
<1>2. \A c \in calls : c.req \in Requests
  BY DEF TypeOK, Calls
<1> DEFINE CallOK(c) == /\ c.to \in Spending => TopApproved(c.req)' \/ TopApproves(c)
                        /\ c.step = "receipt" => TopApproved(c.req)'
                        /\ c.snap = KeepSnapshot \/ 2 \in c.snap.levels
           Goal == /\ \A r \in Requests : status'[r] \in Spending => TopApproved(r)'
                   /\ \A r \in Requests : 2 \in snap'[r].levels
                   /\ \A r \in Requests : undecided'[r] => TopApproved(r)'
                   /\ \A c \in calls' : CallOK(c)
<1>3. \A c \in calls : CallOK(c)
  BY <1>1, <1>2 DEF TopInv
<1>4. ASSUME NEW r \in Requests, WritesAtOnce(r) PROVE Goal
  <2>1. \A q \in Requests : NeedsNoApproval(q)' => TopApproved(q)'
    BY DEF TopApproved
  <2>2. calls' = calls
    BY <1>4, WritesAtOnceSpend
  <2>3. \A q \in Requests : status'[q] \in Spending => TopApproved(q)'
    BY <1>1, <1>4, <2>1, WritesAtOnceSpend DEF TopInv
  <2>4. \A q \in Requests : 2 \in snap'[q].levels
    BY <1>4, WritesAtOnceSpend DEF TopInv
  <2>5. \A q \in Requests : undecided'[q] => TopApproved(q)'
    BY <1>1, <1>4, WritesAtOnceSpend DEF TopInv
  <2> HIDE DEF CallOK
  <2> QED BY <1>3, <2>2, <2>3, <2>4, <2>5
<1>5. ASSUME NEW r \in Requests, BeginsOn(r) PROVE Goal
  <2>1. PICK c \in Calls : Launches(c) /\ Decision(c)
    BY <1>5, Begins
  <2>2. c.req \in Requests
    BY DEF Calls
  <2>3. /\ c.to \in Spending => TopApproved(c.req) \/ TopApproves(c)
        /\ c.step = "receipt" => TopApproved(c.req)
    BY <2>1, <2>2 DEF Decision, TopApproved, TopInv
  <2>4. c.snap = KeepSnapshot \/ 2 \in c.snap.levels
    BY <2>1, <2>2 DEF Decision, TopInv
  <2>5. /\ calls' = calls \cup {c} /\ status' = status /\ snap' = snap
        /\ \A q \in Requests : undecided'[q] => undecided[q]
    BY <2>1 DEF Launches, Launch, request
  <2>6. CallOK(c)
    BY <1>1, <2>2, <2>3, <2>4
  <2> HIDE DEF CallOK
  <2> QED BY <1>1, <1>3, <2>5, <2>6 DEF TopInv
<1>6. ASSUME NEW r \in Requests, TimeStep(r) PROVE Goal
  <2>1. status' = status /\ snap' = snap /\ undecided' = undecided /\ calls' = calls
    BY <1>6 DEF TimeStep, FortyEightHours, DeadlinePasses
  <2> HIDE DEF CallOK
  <2> QED BY <1>1, <1>3, <2>1 DEF TopInv
<1>7. ASSUME NEW c \in calls, Advance(c) PROVE Goal
  <2>1. CASE CommitWrite(c)
    <3>1. \A q \in Requests \ {c.req} : status'[q] = status[q] /\ snap'[q] = snap[q]
      BY <1>2, <2>1 DEF CommitWrite, TypeOK
    <3>2. status'[c.req] = c.to /\ historial'[c.req] = historial[c.req] \cup c.rows
      BY <1>2, <2>1 DEF CommitWrite, TypeOK
    <3>3. snap'[c.req] = IF c.snap = KeepSnapshot THEN snap[c.req] ELSE c.snap
      BY <1>2, <2>1 DEF CommitWrite, TypeOK
    <3>4. c.to \in Spending => TopApproved(c.req)'
      BY <1>1, <1>2, <3>2 DEF TopInv, TopApproved, TopApprovalOnRecord, TopApproves
    <3>5. \A q \in Requests : 2 \in snap'[q].levels
      BY <1>2, <3>1, <3>3 DEF TopInv
    <3>6. \A q \in Requests : status'[q] \in Spending => TopApproved(q)'
      BY <1>1, <3>1, <3>2, <3>4 DEF TopInv
    <3>7. ASSUME NEW d \in calls' PROVE CallOK(d)
      <4>1. CASE d \in calls
        BY <1>3, <4>1
      <4>2. CASE d.req = c.req /\ d.to = c.to /\ d.snap = c.snap /\ d.step = c.then
        <5>1. d.step # "receipt"
          BY <4>2 DEF TypeOK, Calls
        <5> QED BY <1>3, <3>4, <4>2, <5>1
      <4> QED BY <2>1, <4>1, <4>2, NextCall
    <3>8. \A q \in Requests : undecided'[q] => TopApproved(q)'
      BY <1>1, <2>1 DEF CommitWrite, TopInv
    <3> QED BY <3>5, <3>6, <3>7, <3>8
  <2>2. CASE AbortWrite(c) \/ EmitPoliza(c)
    <3>1. status' = status /\ snap' = snap /\ undecided' = undecided /\ calls' \subseteq calls
      BY <2>2 DEF AbortWrite, EmitPoliza, request
    <3> HIDE DEF CallOK
    <3> QED BY <1>1, <1>3, <3>1 DEF TopInv
  <2>3. CASE FileReceipt(c)
    <3>1. /\ status' = status /\ snap' = snap /\ calls' \subseteq calls
          /\ \A r \in Requests : undecided'[r] => undecided[r] \/ r = c.req
      BY <2>3 DEF FileReceipt, request, TypeOK
    <3>2. TopApproved(c.req)
      BY <2>3 DEF FileReceipt, TopInv
    <3> HIDE DEF CallOK
    <3> QED BY <1>1, <1>2, <1>3, <3>1, <3>2 DEF TopInv
  <2> QED BY <1>7, <2>1, <2>2, <2>3 DEF Advance
<1>8. ASSUME Crash \/ Restart PROVE Goal
  <2>1. status' = status /\ snap' = snap /\ undecided' = undecided /\ calls' \subseteq calls
    BY <1>8 DEF Crash, Restart, request
  <2> HIDE DEF CallOK
  <2> QED BY <1>1, <1>3, <2>1 DEF TopInv
<1>9. ASSUME UNCHANGED vars PROVE Goal
  <2>1. status' = status /\ snap' = snap /\ undecided' = undecided /\ calls' = calls
    BY <1>9 DEF vars
  <2> HIDE DEF CallOK
  <2> QED BY <1>1, <1>3, <2>1 DEF TopInv
<1>10. Goal
  <2> HIDE DEF Goal
  <2> QED BY <1>4, <1>5, <1>6, <1>7, <1>8, <1>9, NextCases
<1> QED BY <1>1, <1>10 DEF TopInv

\* Where every fee needs the second level, no interleaving of approvals, sweeps and
\* reassignments lets a request be spent on with the first level's signature only.
THEOREM SecondLevelSigned ==
  ASSUME UsersFollowPages
  PROVE  Spec => []SecondLevelSignsOff
<1>1. CASE \A f \in Fees : 2 \in LevelsFor[f]
  <2>1. Init => TopInv
    BY DEF Init, TopInv, NoSnapshot, Spending, NoRequest, Quote, Agency, Expenses, Validation
  <2>2. TypeOK /\ TopInv /\ [Next]_vars => TopInv'
    BY <1>1, TopStep
  <2>3. TopInv => SecondLevelSignsOff
    BY DEF TopInv, SecondLevelSignsOff, TopApproved
  <2> QED BY <2>1, <2>2, <2>3, TypeCorrect, PTL DEF Spec
<1>2. CASE ~(\A f \in Fees : 2 \in LevelsFor[f])
  <2>1. SecondLevelSignsOff
    BY <1>2 DEF SecondLevelSignsOff
  <2> QED BY <2>1, PTL
<1> QED BY <1>1, <1>2

-----------------------------------------------------------------------------
(* Who signs. *)

ReassignedIn(log, k) == \E row \in log : row.accion = "REASIGNADO" /\ row.nivel = k

Signature(row) == row.accion \in {"APROBADO", "RECHAZADO"} /\ row.motivo = "actor"

Holder(S, k) == IF k = 1 THEN S.n1 ELSE S.n2

\* Snapshot S gives each review to the approver resolved for owner u, except
\* for reviews whose reassignment is in log.
Accounted(u, S, log) ==
  \A k \in 1..2 :
    \/ Holder(S, k) = IF k \in S.levels THEN Approver[u][k] ELSE NoUser
    \/ ReassignedIn(log, k)

\* A call in flight brings the row that accounts for the snapshot it brings, and no
\* signature of somebody who had no right to it when the call read the request.
EntitledCall(c) ==
  /\ c.req \in Requests
  /\ status[c.req] # NoRequest
  /\ c.snap # KeepSnapshot => Accounted(owner[c.req], c.snap, historial[c.req] \cup c.rows)
  /\ c.snap = KeepSnapshot /\ c.to \in Pending =>
       Accounted(owner[c.req], snap[c.req], historial[c.req])
  /\ \A row \in c.rows : Signature(row) => Entitled(c.req, row.usuario, row.nivel)

EntitledInv ==
  /\ SignedByEntitled
  /\ \A r \in Requests :
       /\ status[r] = NoRequest => historial[r] = {}
       /\ status[r] \in Pending => Accounted(owner[r], snap[r], historial[r])
  /\ \A c \in calls : EntitledCall(c)

\* What a step does to request r: nothing, its creation, or the write of a call.
Moves(r) ==
  \/ UNCHANGED <<status[r], owner[r], snap[r], historial[r]>>
  \/ /\ status[r] = NoRequest /\ status'[r] # NoRequest
     /\ historial'[r] = historial[r]
     /\ status'[r] \in Pending =>
          \E u \in Users, f \in Fees : owner'[r] = u /\ snap'[r] = BuildSnapshot(u, f)
  \/ \E c \in calls :
       /\ c.req = r
       /\ status'[r] = c.to /\ owner'[r] = owner[r]
       /\ historial'[r] = historial[r] \cup c.rows
       /\ snap'[r] = IF c.snap = KeepSnapshot THEN snap[r] ELSE c.snap

\* A request moves in no other way.
LEMMA EveryMove ==
  ASSUME TypeOK, [Next]_vars
  PROVE  \A r \in Requests : Moves(r)
<1> SUFFICES ASSUME NEW q \in Requests PROVE Moves(q)
  OBVIOUS
<1>1. ASSUME NEW r \in Requests, WritesAtOnce(r) PROVE Moves(q)
  <2>1. ASSUME NEW u \in Users, NEW f \in Fees, CreateRequest(r, u, f) PROVE Moves(q)
    <3>1. SubmittedStatus(u, f) # NoRequest
      BY SubmittedStatusType DEF FirstReview, SecondReview, Quote, NoRequest
    <3>2. CASE q = r
      BY <2>1, <3>1, <3>2 DEF CreateRequest, TypeOK, Moves
    <3>3. CASE q # r
      BY <2>1, <3>3 DEF CreateRequest, TypeOK, Moves
    <3> QED BY <3>2, <3>3
  <2>2. ASSUME NEW u \in Users, NEW f \in Fees, CreateDraft(r, u, f) PROVE Moves(q)
    BY <2>2 DEF CreateDraft, TypeOK, Moves, Draft, NoRequest, Pending, FirstReview, SecondReview
  <2>3. ASSUME NEW f \in Fees, EditRequest(r, f) PROVE Moves(q)
    BY <2>3 DEF EditRequest, Moves
  <2> QED BY <1>1, <2>1, <2>2, <2>3 DEF WritesAtOnce
<1>2. ASSUME NEW r \in Requests, BeginsOn(r) PROVE Moves(q)
  <2>1. PICK c \in Calls : Launches(c)
    BY <1>2, Begins
  <2> QED BY <2>1 DEF Launches, Launch, request, Moves
<1>3. ASSUME NEW r \in Requests, TimeStep(r) PROVE Moves(q)
  BY <1>3 DEF TimeStep, FortyEightHours, DeadlinePasses, Moves
<1>4. ASSUME NEW c \in calls, Advance(c) PROVE Moves(q)
  <2>1. CASE CommitWrite(c)
    <3>1. c.req \in Requests
      BY DEF TypeOK, Calls
    <3>2. CASE q = c.req
      BY <2>1, <3>1, <3>2 DEF CommitWrite, TypeOK, Moves
    <3>3. CASE q # c.req
      BY <2>1, <3>1, <3>3 DEF CommitWrite, TypeOK, Moves
    <3> QED BY <3>2, <3>3
  <2>2. CASE AbortWrite(c) \/ EmitPoliza(c) \/ FileReceipt(c)
    BY <2>2 DEF AbortWrite, EmitPoliza, FileReceipt, request, Moves
  <2> QED BY <1>4, <2>1, <2>2 DEF Advance
<1>5. ASSUME Crash \/ Restart PROVE Moves(q)
  BY <1>5 DEF Crash, Restart, request, Moves
<1>6. ASSUME UNCHANGED vars PROVE Moves(q)
  BY <1>6 DEF vars, Moves
<1> QED BY <1>1, <1>2, <1>3, <1>4, <1>5, <1>6, NextCases

\* Whoever acts on a review whose approvers are accounted for is entitled to it.
LEMMA ActorEntitled ==
  ASSUME TypeOK, NEW r \in Requests, status[r] \in Pending,
         Accounted(owner[r], snap[r], historial[r]),
         NEW u \in Users, CanActOnTier(r, u),
         ~UseHierarchy => Tier(r) \in snap[r].levels
  PROVE  Entitled(r, u, Tier(r))
<1> DEFINE k == Tier(r)
<1>1. k \in 1..2
  BY TierType
<1>2. Designated(r) = Holder(snap[r], k)
  BY DEF Designated, Holder
<1>3. CASE UseHierarchy /\ Manager[owner[r]][k] = u
  BY <1>3 DEF Entitled
<1>4. CASE MatchesTier(r, u)
  <2>1. CASE ReassignedIn(historial[r], k)
    BY <2>1 DEF Entitled, ReassignedIn, ReassignedOnRecord
  <2>2. CASE Holder(snap[r], k) = IF k \in snap[r].levels THEN Approver[owner[r]][k] ELSE NoUser
    <3>1. CASE Designated(r) # NoUser
      BY <1>2, <1>4, <2>2, <3>1 DEF MatchesTier, Entitled
    <3>2. CASE Designated(r) = NoUser
      BY <1>2, <1>4, <2>2, <3>2 DEF MatchesTier, Entitled
    <3> QED BY <3>1, <3>2
  <2> QED BY <1>1, <2>1, <2>2 DEF Accounted
<1> QED BY <1>3, <1>4 DEF CanActOnTier

\* The snapshot with another approver for the review is accounted for by the row.
LEMMA HandedOver ==
  ASSUME TypeOK, NEW r \in Requests, status[r] \in Pending,
         Accounted(owner[r], snap[r], historial[r]), NEW u \in Users, NEW log,
         historial[r] \subseteq log, ReassignedIn(log, Tier(r))
  PROVE  Accounted(owner[r], IF Tier(r) = 1 THEN [snap[r] EXCEPT !.n1 = u]
                                     ELSE [snap[r] EXCEPT !.n2 = u], log)
<1> DEFINE k == Tier(r)
           S == IF k = 1 THEN [snap[r] EXCEPT !.n1 = u] ELSE [snap[r] EXCEPT !.n2 = u]
<1>1. k \in 1..2 /\ snap[r] \in Snapshots
  BY TierType DEF TypeOK
<1>2. S.levels = snap[r].levels /\ \A j \in 1..2 : j # k => Holder(S, j) = Holder(snap[r], j)
  BY <1>1 DEF Snapshots, Holder
<1>3. \A j \in 1..2 : ReassignedIn(historial[r], j) => ReassignedIn(log, j)
  BY DEF ReassignedIn
<1> HIDE DEF S
<1>4. Accounted(owner[r], S, log)
  BY <1>2, <1>3 DEF Accounted
<1> QED BY <1>4 DEF S

\* A plain status update brings nobody a review, and neither does an audited one whose
\* row is no signature, or the signature of somebody entitled to it.
LEMMA WriteEntitled ==
  ASSUME EntitledInv, NEW s, NEW r \in Requests, NEW to, status[r] # NoRequest,
         to \in Pending => status[r] \in Pending
  PROVE  /\ EntitledCall(StatusWrite(s, r, to))
         /\ \A row : (Signature(row) => Entitled(r, row.usuario, row.nivel))
                       => EntitledCall(WorkflowWrite(s, r, to, row))
<1>1. to \in Pending => Accounted(owner[r], snap[r], historial[r])
  BY DEF EntitledInv
<1>2. LET c == StatusWrite(s, r, to)
      IN  c.req = r /\ c.to = to /\ c.rows = {} /\ c.snap = KeepSnapshot
  BY DEF StatusWrite
<1>3. ASSUME NEW row
      PROVE  LET c == WorkflowWrite(s, r, to, row)
             IN  c.req = r /\ c.to = to /\ c.rows = {row} /\ c.snap = KeepSnapshot
  BY DEF StatusWrite, WorkflowWrite
<1>4. EntitledCall(StatusWrite(s, r, to))
  BY <1>1, <1>2 DEF EntitledCall
<1>5. ASSUME NEW row, Signature(row) => Entitled(r, row.usuario, row.nivel)
      PROVE  EntitledCall(WorkflowWrite(s, r, to, row))
  BY <1>1, <1>3, <1>5 DEF EntitledCall
<1> QED BY <1>4, <1>5

\* What a call does after its write, and whether the write can fail, is all the same.
LEMMA LikeEntitled ==
  ASSUME NEW c, NEW d, EntitledCall(c),
         d.req = c.req, d.to = c.to, d.rows = c.rows, d.snap = c.snap
  PROVE  EntitledCall(d)
BY DEF EntitledCall

\* A call that hands the review over with a row about it.
LEMMA HandOverEntitled ==
  ASSUME TypeOK, EntitledInv, NEW r \in Requests, status[r] \in Pending, NEW u \in Users,
         NEW c, c.req = r, NEW row, c.rows = {row},
         row.accion = "REASIGNADO", row.nivel = Tier(r),
         c.snap = IF Tier(r) = 1 THEN [snap[r] EXCEPT !.n1 = u]
                                 ELSE [snap[r] EXCEPT !.n2 = u]
  PROVE  EntitledCall(c)
<1>1. status[r] # NoRequest /\ Accounted(owner[r], snap[r], historial[r])
  BY DEF EntitledInv, Pending, FirstReview, SecondReview, NoRequest
<1>2. c.snap # KeepSnapshot
  <2>1. snap[r] \in Snapshots /\ u # NoUser
    BY NoUserAssumption DEF TypeOK
  <2> QED BY <2>1 DEF Snapshots, KeepSnapshot
<1>3. ReassignedIn(historial[r] \cup c.rows, Tier(r))
  BY DEF ReassignedIn
<1>4. Accounted(owner[r], c.snap, historial[r] \cup c.rows)
  BY <1>1, <1>3, HandedOver
<1>5. ~Signature(row)
  BY DEF Signature
<1> QED BY <1>1, <1>2, <1>4, <1>5 DEF EntitledCall

\* Whatever a user or a job begins signs for nobody else, and takes a review from
\* nobody without saying so.
LEMMA EntitledBegins ==
  ASSUME UsersFollowPages, TypeOK, EntitledInv, NEW r \in Requests, BeginsOn(r)
  PROVE  \E c : Launch(c) /\ EntitledCall(c)
<1> DEFINE Goal == \E c : Launch(c) /\ EntitledCall(c)
<1>1. ASSUME status[r] \in Pending
      PROVE  /\ status[r] # NoRequest /\ Accounted(owner[r], snap[r], historial[r])
             /\ Tier(r) \in 1..2
  BY <1>1, TierType DEF EntitledInv, Pending, FirstReview, SecondReview, NoRequest
<1>2. {FirstReview, SecondReview} \subseteq Pending
  BY DEF Pending
<1>3. {Quote, Agency, Expenses, Validation, Finished, Cancelled, Rejected} \cap Pending = {}
  BY DEF Pending, FirstReview, SecondReview, Quote, Agency, Expenses, Validation, Finished,
         Cancelled, Rejected
<1>4. NoRequest \notin {Draft, FirstReview, SecondReview, Quote, Agency, Expenses, Validation,
                        Finished}
  BY DEF Draft, FirstReview, SecondReview, Quote, Agency, Expenses, Validation, Finished,
         NoRequest
<1>5. \A a, u, k, m : a \notin {"APROBADO", "RECHAZADO"} \/ m # "actor"
                        => ~Signature(Entry(a, u, k, m))
  BY DEF Signature, Entry
<1>6. ASSUME NEW s \in Callers, NEW u \in Users, BeginConfirmDraft(s, r, u) PROVE Goal
  <2> DEFINE to == SubmittedStatus(u, fee[r])
             c == [StatusWrite(s, r, to) EXCEPT !.snap = BuildSnapshot(u, fee[r]), !.trip = TRUE]
  <2>1. u = owner[r] /\ status[r] = Draft /\ fee[r] \in Fees
    BY <1>6, <1>4 DEF BeginConfirmDraft, OnPage, TypeOK
  <2>2. c.req = r /\ c.snap = BuildSnapshot(u, fee[r]) /\ c.rows = {}
    BY DEF StatusWrite
  <2>3. BuildSnapshot(u, fee[r]) # KeepSnapshot
    BY <2>1, LevelsAssumption DEF BuildSnapshot, KeepSnapshot
  <2>4. Accounted(owner[r], BuildSnapshot(u, fee[r]), historial[r])
    BY <2>1 DEF Accounted, BuildSnapshot, Holder
  <2>5. EntitledCall(c)
    <3> HIDE DEF c
    <3>1. Accounted(owner[r], c.snap, historial[r] \cup c.rows)
      BY <2>2, <2>4
    <3> QED BY <2>1, <2>2, <2>3, <3>1, <1>4 DEF EntitledCall
  <2> QED BY <1>6, <2>5 DEF BeginConfirmDraft, Begin
<1>7. ASSUME NEW s \in Callers, NEW legacy \in BOOLEAN, BeginCancel(s, r, legacy) PROVE Goal
  <2> DEFINE w == StatusWrite(s, r, Cancelled)
             c == [w EXCEPT !.then = IF legacy THEN "write" ELSE "end"]
  <2>1. EntitledCall(w)
    BY <1>7, <1>3, <1>4, WriteEntitled DEF BeginCancel
  <2>2. c.req = w.req /\ c.to = w.to /\ c.rows = w.rows /\ c.snap = w.snap
    BY DEF StatusWrite
  <2> HIDE DEF w
  <2>3. EntitledCall(c)
    <3> HIDE DEF c
    <3> QED BY <2>1, <2>2, LikeEntitled
  <2> QED BY <1>7, <2>3 DEF BeginCancel, Begin, w
<1>8. ASSUME NEW s \in Callers, BeginUpload(s, r) PROVE Goal
  <2> DEFINE w == StatusWrite(s, r, status[r])
             c == [w EXCEPT !.step = "receipt"]
  <2>1. EntitledCall(w)
    BY <1>8, <1>4, WriteEntitled DEF BeginUpload, Spending
  <2>2. c.req = w.req /\ c.to = w.to /\ c.rows = w.rows /\ c.snap = w.snap
    BY DEF StatusWrite
  <2> HIDE DEF w
  <2>3. EntitledCall(c)
    <3> HIDE DEF c
    <3> QED BY <2>1, <2>2, LikeEntitled
  <2> QED BY <1>8, <2>3 DEF BeginUpload, Begin, w
<1>9. ASSUME NEW s \in Callers, BeginSubmitReceipts(s, r) PROVE Goal
  <2>1. EntitledCall(StatusWrite(s, r, Validation))
    BY <1>9, <1>3, <1>4, WriteEntitled DEF BeginSubmitReceipts
  <2> QED BY <1>9, <2>1 DEF BeginSubmitReceipts, Begin
<1>10. ASSUME NEW s \in Callers, NEW u \in Users, BeginApprove(s, r, u) PROVE Goal
  <2> DEFINE to == IF Tier(r) = 1 THEN StatusAfterN1(snap[r].levels) ELSE Quote
             row == Entry("APROBADO", u, Tier(r), "actor")
             w == WorkflowWrite(s, r, to, row)
             c == [w EXCEPT !.then = IF to = Quote THEN "anticipo" ELSE "end"]
  <2>1. status[r] \in Pending /\ Entitled(r, u, Tier(r))
    BY <1>10, <1>1, ActorEntitled DEF BeginApprove
  <2>2. row.usuario = u /\ row.nivel = Tier(r)
    BY DEF Entry
  <2>3. c.req = w.req /\ c.to = w.to /\ c.rows = w.rows /\ c.snap = w.snap
    BY DEF StatusWrite, WorkflowWrite
  <2>4. EntitledCall(w)
    <3> HIDE DEF to, row
    <3> QED BY <1>1, <2>1, <2>2, WriteEntitled
  <2>5. EntitledCall(c)
    <3> HIDE DEF c, w
    <3> QED BY <2>3, <2>4, LikeEntitled
  <2> QED BY <1>10, <2>5 DEF BeginApprove, Begin
<1>11. ASSUME NEW s \in Callers, NEW u \in Users, BeginEscalateOverLimit(s, r, u) PROVE Goal
  <2>1. EntitledCall(WorkflowWrite(s, r, SecondReview, Entry("ESCALADO", u, 1, "actor")))
    BY <1>11, <1>2, <1>4, <1>5, WriteEntitled DEF BeginEscalateOverLimit
  <2> QED BY <1>11, <2>1 DEF BeginEscalateOverLimit, Begin
<1>12. ASSUME NEW s \in Callers, NEW u \in Users, BeginReject(s, r, u) PROVE Goal
  <2> DEFINE row == Entry("RECHAZADO", u, Tier(r), "actor")
  <2>1. status[r] \in Pending /\ Entitled(r, u, Tier(r))
    BY <1>12, <1>1, ActorEntitled DEF BeginReject
  <2>2. row.usuario = u /\ row.nivel = Tier(r)
    BY DEF Entry
  <2>3. EntitledCall(WorkflowWrite(s, r, Rejected, row))
    <3> HIDE DEF row
    <3> QED BY <1>1, <2>1, <2>2, WriteEntitled
  <2> QED BY <1>12, <2>3 DEF BeginReject, Begin
<1>13. ASSUME NEW s \in Callers, NEW u \in Users, NEW target \in Users,
              BeginReassign(s, r, u, target)
       PROVE  Goal
  <2> DEFINE row == Entry("REASIGNADO", u, Tier(r), "actor")
             w == WorkflowWrite(s, r, status[r], row)
             S == IF Tier(r) = 1 THEN [snap[r] EXCEPT !.n1 = target]
                                 ELSE [snap[r] EXCEPT !.n2 = target]
             c == [w EXCEPT !.snap = S]
  <2>1. status[r] \in Pending
    BY <1>13 DEF BeginReassign
  <2>2. row.accion = "REASIGNADO" /\ row.nivel = Tier(r)
    BY DEF Entry
  <2>3. c.req = r /\ c.rows = {row} /\ c.snap = S
    BY DEF WorkflowWrite, StatusWrite
  <2>4. EntitledCall(c)
    <3> HIDE DEF c, row
    <3> QED BY <2>1, <2>2, <2>3, HandOverEntitled
  <2> QED BY <1>13, <2>4 DEF BeginReassign, Begin
<1>14. ASSUME NEW s \in Callers, NEW needsAgency \in BOOLEAN,
              BeginConfirmFee(s, r, needsAgency)
       PROVE  Goal
  <2> DEFINE to == IF needsAgency THEN Agency ELSE Expenses
  <2>1. to \notin Pending
    BY <1>3
  <2>2. EntitledCall(StatusWrite(s, r, to))
    <3> HIDE DEF to
    <3> QED BY <1>14, <2>1, <1>4, WriteEntitled DEF BeginConfirmFee
  <2> QED BY <1>14, <2>2 DEF BeginConfirmFee, Begin
<1>15. ASSUME NEW s \in Callers, BeginMarkAttended(s, r) PROVE Goal
  <2>1. EntitledCall(StatusWrite(s, r, Expenses))
    BY <1>15, <1>3, WriteEntitled DEF BeginMarkAttended, OnPage
  <2> QED BY <1>15, <2>1 DEF BeginMarkAttended, Begin
<1>16. ASSUME NEW s \in Callers, NEW allApproved \in BOOLEAN,
              BeginReceiptSync(s, r, allApproved)
       PROVE  Goal
  <2> DEFINE w == StatusWrite(s, r, Finished)
             done == [w EXCEPT !.then = "cierre"]
             back == StatusWrite(s, r, Expenses)
  <2>1. status[r] # NoRequest
    BY <1>16 DEF BeginReceiptSync, OnPage
  <2>2. EntitledCall(w) /\ EntitledCall(back)
    BY <2>1, <1>3, WriteEntitled
  <2>3. done.req = w.req /\ done.to = w.to /\ done.rows = w.rows /\ done.snap = w.snap
    BY DEF StatusWrite
  <2>4. EntitledCall(done)
    <3> HIDE DEF w, done
    <3> QED BY <2>2, <2>3, LikeEntitled
  <2>5. Launch(done) \/ Launch(back)
    BY <1>16 DEF BeginReceiptSync
  <2> HIDE DEF done, back
  <2> QED BY <2>2, <2>4, <2>5
<1>17. ASSUME BeginEscalation(r) PROVE Goal
  <2> DEFINE u == IF snap[r].n2 # NoUser THEN snap[r].n2 ELSE owner[r]
             w == WorkflowWrite("escalation", r, SecondReview, Entry("ESCALADO", u, 1, "48h"))
             c == [w EXCEPT !.org = FALSE]
  <2>1. EntitledCall(w)
    <3>1. ~Signature(Entry("ESCALADO", u, 1, "48h"))
      BY <1>5
    <3> HIDE DEF u
    <3> QED BY <1>17, <1>2, <1>4, <3>1, WriteEntitled DEF BeginEscalation
  <2>2. c.req = w.req /\ c.to = w.to /\ c.rows = w.rows /\ c.snap = w.snap
    BY DEF StatusWrite, WorkflowWrite
  <2> HIDE DEF w
  <2>3. EntitledCall(c)
    <3> HIDE DEF c
    <3> QED BY <2>1, <2>2, LikeEntitled
  <2> QED BY <1>17, <2>3 DEF BeginEscalation, Begin, w
<1>18. ASSUME BeginSweep(r) PROVE Goal
  <2>1. status[r] \in Pending /\ Designated(r) \in Users
    <3>1. Designated(r) \in UserOrNull
      BY DEF TypeOK, Designated, Snapshots
    <3> QED BY <1>18, <3>1 DEF BeginSweep, UserOrNull
  <2>2. ASSUME NEW sub \in Users, Begin(SweepReassign(r, sub)) PROVE Goal
    <3> DEFINE row == Entry("REASIGNADO", sub, Tier(r), "inactividad")
               S == IF Tier(r) = 1 THEN [snap[r] EXCEPT !.n1 = sub]
                                   ELSE [snap[r] EXCEPT !.n2 = sub]
               c == SweepReassign(r, sub)
    <3>1. row.accion = "REASIGNADO" /\ row.nivel = Tier(r)
      BY DEF Entry
    <3>2. c.req = r /\ c.rows = {row} /\ c.snap = S
      BY DEF SweepReassign, WorkflowWrite, StatusWrite
    <3>3. EntitledCall(c)
      <4> HIDE DEF c, row
      <4> QED BY <2>1, <3>1, <3>2, HandOverEntitled
    <3> QED BY <2>2, <3>3 DEF Begin
  <2>3. ASSUME Begin(SweepEscalate(r)) PROVE Goal
    <3>1. EntitledCall(SweepEscalate(r))
      BY <2>1, <1>1, <1>2, <1>5, WriteEntitled DEF SweepEscalate
    <3> QED BY <2>3, <3>1 DEF Begin
  <2>4. Substitutes[Designated(r)] \subseteq Users
    BY <2>1, ApproverAssumption
  <2> QED BY <1>18, <2>2, <2>3, <2>4 DEF BeginSweep
<1>19. ASSUME BeginDeadlineLock(r) PROVE Goal
  <2>1. EntitledCall(WorkflowWrite("deadline", r, Finished,
                                   Entry("RECHAZADO", owner[r], 0, "plazo")))
    BY <1>19, <1>3, <1>5, WriteEntitled DEF BeginDeadlineLock
  <2> QED BY <1>19, <2>1 DEF BeginDeadlineLock, Begin
<1> HIDE DEF Goal
<1>20. Goal
  BY <1>6, <1>7, <1>8, <1>9, <1>10, <1>11, <1>12, <1>13, <1>14, <1>15, <1>16, <1>17, <1>18,
     <1>19
  DEF BeginsOn, ApproverStep, BackOfficeStep, JobStep
<1> QED BY <1>20 DEF Goal

\* Every call in flight after a step was entitled to its write before it.
LEMMA CallsEntitled ==
  ASSUME UsersFollowPages, TypeOK, EntitledInv, [Next]_vars
  PROVE  \A d \in calls' : EntitledCall(d)
<1>1. ASSUME calls' \subseteq calls PROVE \A d \in calls' : EntitledCall(d)
  BY <1>1 DEF EntitledInv
<1>2. ASSUME NEW r \in Requests, WritesAtOnce(r) PROVE \A d \in calls' : EntitledCall(d)
  BY <1>1, <1>2 DEF WritesAtOnce, CreateRequest, CreateDraft, EditRequest
<1>3. ASSUME NEW r \in Requests, BeginsOn(r) PROVE \A d \in calls' : EntitledCall(d)
  <2>1. PICK c : Launch(c) /\ EntitledCall(c)
    BY <1>3, EntitledBegins
  <2>2. calls' = calls \cup {c}
    BY <2>1 DEF Launch
  <2> QED BY <2>1, <2>2 DEF EntitledInv
<1>4. ASSUME NEW r \in Requests, TimeStep(r) PROVE \A d \in calls' : EntitledCall(d)
  BY <1>1, <1>4 DEF TimeStep, FortyEightHours, DeadlinePasses
<1>5. ASSUME NEW c \in calls, Advance(c) PROVE \A d \in calls' : EntitledCall(d)
  <2>1. CASE CommitWrite(c)
    BY <2>1, NextCall, LikeEntitled DEF EntitledInv
  <2>2. CASE AbortWrite(c) \/ EmitPoliza(c) \/ FileReceipt(c)
    BY <1>1, <2>2 DEF AbortWrite, EmitPoliza, FileReceipt
  <2> QED BY <1>5, <2>1, <2>2 DEF Advance
<1>6. ASSUME Crash \/ Restart PROVE \A d \in calls' : EntitledCall(d)
  BY <1>1, <1>6 DEF Crash, Restart
<1>7. ASSUME UNCHANGED vars PROVE \A d \in calls' : EntitledCall(d)
  BY <1>1, <1>7 DEF vars
<1> QED BY <1>2, <1>3, <1>4, <1>5, <1>6, <1>7, NextCases

\* Reasons to be entitled are not lost: the owner stays, and so do the rows.
LEMMA ReasonsStay ==
  ASSUME NEW r \in Requests, Moves(r), status[r] # NoRequest
  PROVE  /\ owner'[r] = owner[r] /\ historial[r] \subseteq historial'[r]
         /\ \A u, k : Entitled(r, u, k) => Entitled(r, u, k)'
<1>1. owner'[r] = owner[r] /\ historial[r] \subseteq historial'[r]
  BY DEF Moves
<1>2. ASSUME NEW u, NEW k, Entitled(r, u, k) PROVE Entitled(r, u, k)'
  BY <1>1, <1>2 DEF Entitled, ReassignedOnRecord
<1> QED BY <1>1, <1>2

\* More rows account for as much.
LEMMA MoreAccounted ==
  \A u, S, log, more : Accounted(u, S, log) /\ log \subseteq more => Accounted(u, S, more)
PROOF BY DEF Accounted, ReassignedIn

\* A step keeps the trail signed by people entitled to it.
LEMMA EntitledStep ==
  ASSUME UsersFollowPages, TypeOK, EntitledInv, [Next]_vars
  PROVE  EntitledInv'
<1>1. \A r \in Requests : Moves(r)
  BY EveryMove
<1>2. \A d \in calls' : EntitledCall(d)
  BY CallsEntitled
<1>3. \A c \in calls : EntitledCall(c) /\ c.to # NoRequest
  BY DEF EntitledInv, TypeOK, Calls, Status, NoRequest
<1>4. ASSUME NEW r \in Requests, NEW row \in historial'[r], Signature(row)
      PROVE  Entitled(r, row.usuario, row.nivel)'
  <2>1. status[r] # NoRequest /\ Entitled(r, row.usuario, row.nivel)
    <3>1. CASE row \in historial[r]
      BY <1>4, <3>1 DEF EntitledInv, SignedByEntitled, Signature
    <3>2. CASE \E c \in calls : c.req = r /\ row \in c.rows
      BY <1>3, <1>4, <3>2 DEF EntitledCall
    <3> QED BY <1>1, <1>4, <3>1, <3>2 DEF Moves
  <2>2. \A u, k : Entitled(r, u, k) => Entitled(r, u, k)'
    BY <1>1, <2>1, ReasonsStay
  <2> QED BY <2>1, <2>2
<1>5. SignedByEntitled'
  BY <1>4 DEF SignedByEntitled, Signature
<1>6. ASSUME NEW r \in Requests, status'[r] = NoRequest PROVE historial'[r] = {}
  <2>1. status[r] = NoRequest
    BY <1>1, <1>3, <1>6 DEF Moves
  <2>2. \A c \in calls : c.req # r
    BY <1>3, <2>1 DEF EntitledCall
  <2> QED BY <1>1, <1>6, <2>1, <2>2 DEF Moves, EntitledInv
<1>7. ASSUME NEW r \in Requests, status[r] # NoRequest,
             Accounted(owner[r], snap[r], historial[r])
      PROVE  Accounted(owner'[r], snap'[r], historial'[r])
  <2>1. owner'[r] = owner[r] /\ historial[r] \subseteq historial'[r]
    BY <1>1, <1>7, ReasonsStay
  <2>2. CASE snap'[r] = snap[r]
    BY <1>7, <2>1, <2>2, MoreAccounted
  <2>3. ASSUME NEW c \in calls, c.req = r, c.snap # KeepSnapshot, snap'[r] = c.snap,
               historial'[r] = historial[r] \cup c.rows
        PROVE  Accounted(owner'[r], snap'[r], historial'[r])
    BY <1>3, <2>1, <2>3 DEF EntitledCall
  <2> QED BY <1>1, <1>7, <2>1, <2>2, <2>3 DEF Moves
<1>8. ASSUME NEW r \in Requests, status'[r] \in Pending
      PROVE  Accounted(owner'[r], snap'[r], historial'[r])
  <2>1. CASE UNCHANGED <<status[r], owner[r], snap[r], historial[r]>>
    BY <1>7, <1>8, <2>1 DEF EntitledInv, Pending, FirstReview, SecondReview, NoRequest
  <2>2. CASE \E u \in Users, f \in Fees : owner'[r] = u /\ snap'[r] = BuildSnapshot(u, f)
    BY <2>2 DEF Accounted, BuildSnapshot, Holder
  <2>3. ASSUME NEW c \in calls, c.req = r, status'[r] = c.to,
               historial'[r] = historial[r] \cup c.rows,
               snap'[r] = IF c.snap = KeepSnapshot THEN snap[r] ELSE c.snap
        PROVE  Accounted(owner'[r], snap'[r], historial'[r])
    <3>1. CASE c.snap = KeepSnapshot
      BY <1>3, <1>7, <1>8, <2>3, <3>1 DEF EntitledCall
    <3>2. CASE c.snap # KeepSnapshot
      <4>1. owner'[r] = owner[r]
        BY <1>1, <1>3, <2>3, ReasonsStay DEF EntitledCall
      <4> QED BY <1>3, <2>3, <3>2, <4>1 DEF EntitledCall
    <3> QED BY <3>1, <3>2
  <2> QED BY <1>1, <1>8, <2>1, <2>2, <2>3 DEF Moves
<1>9. ASSUME NEW d \in calls' PROVE EntitledCall(d)'
  <2>1. /\ d.req \in Requests /\ status[d.req] # NoRequest
        /\ owner'[d.req] = owner[d.req] /\ historial[d.req] \subseteq historial'[d.req]
    BY <1>1, <1>2, ReasonsStay DEF EntitledCall
  <2>2. status'[d.req] # NoRequest
    BY <1>1, <1>3, <2>1 DEF Moves
  <2>3. d.snap # KeepSnapshot =>
          Accounted(owner'[d.req], d.snap, historial'[d.req] \cup d.rows)
    <3> SUFFICES ASSUME d.snap # KeepSnapshot
                 PROVE  Accounted(owner'[d.req], d.snap, historial'[d.req] \cup d.rows)
      OBVIOUS
    <3>1. Accounted(owner[d.req], d.snap, historial[d.req] \cup d.rows)
      BY <1>2 DEF EntitledCall
    <3>2. historial[d.req] \cup d.rows \subseteq historial'[d.req] \cup d.rows
      BY <2>1
    <3> QED BY <2>1, <3>1, <3>2, MoreAccounted
  <2>4. d.snap = KeepSnapshot /\ d.to \in Pending
          => Accounted(owner'[d.req], snap'[d.req], historial'[d.req])
    BY <1>2, <1>7, <2>1 DEF EntitledCall
  <2>5. \A row \in d.rows : Signature(row) => Entitled(d.req, row.usuario, row.nivel)'
    <3>1. \A u, k : Entitled(d.req, u, k) => Entitled(d.req, u, k)'
      BY <1>1, <2>1, ReasonsStay
    <3> QED BY <1>2, <3>1 DEF EntitledCall
  <2> QED BY <2>1, <2>2, <2>3, <2>4, <2>5 DEF EntitledCall
<1> QED BY <1>5, <1>6, <1>8, <1>9 DEF EntitledInv

\* Every approval and every decline is by somebody whom the organisation or a row of
\* the trail entitles to it, however calls and jobs overlap, if users keep to the pages.
THEOREM SignaturesEntitled ==
  ASSUME UsersFollowPages
  PROVE  Spec => []SignedByEntitled
<1>1. Init => EntitledInv
  BY DEF Init, EntitledInv, SignedByEntitled, Pending, FirstReview, SecondReview, NoRequest
<1>2. TypeOK /\ EntitledInv /\ [Next]_vars => EntitledInv'
  BY EntitledStep
<1>3. EntitledInv => SignedByEntitled
  BY DEF EntitledInv
<1> QED BY <1>1, <1>2, <1>3, TypeCorrect, PTL DEF Spec

-----------------------------------------------------------------------------
(* Calls that do not overlap. *)

\* With one call at a time, what a call has read still holds when it writes.
SerialInv ==
  /\ IsFiniteSet(calls)
  /\ \A c, d \in calls : c = d
  /\ \A c \in calls :
       /\ \A row \in c.rows : row.accion = "APROBADO" => fee[c.req] \in Covers[row.usuario]
       /\ c.step = "write" /\ c.to = Cancelled =>
            status[c.req] \in {Draft, FirstReview, SecondReview, Quote, Agency, Cancelled}

LEMMA OneAtATime ==
  ASSUME MaxInFlight = 1, SerialInv, CanRun
  PROVE  calls = {}
BY FS_EmptySet, FS_CardinalityType DEF SerialInv, CanRun

LEMMA SerialStep ==
  ASSUME MaxInFlight = 1, TypeOK, SerialInv, [Next]_vars
  PROVE  SerialInv'
<1>1. ASSUME NEW r \in Requests, WritesAtOnce(r) PROVE SerialInv'
  <2>1. CanRun /\ calls' = calls
    BY <1>1 DEF WritesAtOnce, CreateRequest, CreateDraft, EditRequest
  <2>2. calls' = {}
    BY <2>1, OneAtATime
  <2> QED BY <2>2, FS_EmptySet DEF SerialInv
<1>2. ASSUME NEW r \in Requests, BeginsOn(r) PROVE SerialInv'
  <2>1. PICK c \in Calls : Launches(c) /\ Decision(c)
    BY <1>2, Begins
  <2>2. CanRun
    BY <1>2 DEF BeginsOn, ApproverStep, BackOfficeStep, JobStep, Free, BeginConfirmDraft,
       BeginCancel, BeginUpload, BeginSubmitReceipts, BeginApprove, BeginEscalateOverLimit, BeginReject,
       BeginReassign, BeginConfirmFee, BeginMarkAttended, BeginReceiptSync,
       BeginEscalation, BeginSweep, BeginDeadlineLock
  <2>3. calls' = {c} /\ status' = status /\ fee' = fee
    BY <2>1, <2>2, OneAtATime DEF Launches, Launch, request
  <2>4. IsFiniteSet(calls')
    BY <2>3, FS_Singleton
  <2> QED BY <2>1, <2>3, <2>4 DEF SerialInv, Decision
<1>3. ASSUME NEW r \in Requests, TimeStep(r) PROVE SerialInv'
  <2>1. status' = status /\ fee' = fee /\ calls' = calls
    BY <1>3 DEF TimeStep, FortyEightHours, DeadlinePasses
  <2> QED BY <2>1 DEF SerialInv
<1>4. ASSUME NEW c \in calls, Advance(c) PROVE SerialInv'
  <2>1. c \in Calls /\ c.req \in Requests /\ calls = {c}
    BY DEF TypeOK, Calls, SerialInv
  <2>2. fee' = fee
    BY <1>4 DEF Advance, CommitWrite, AbortWrite, EmitPoliza, FileReceipt, request
  <2>3. CASE CommitWrite(c)
    <3>1. status'[c.req] = c.to
      BY <2>1, <2>3 DEF CommitWrite, TypeOK
    <3>2. \/ calls' = {}
          \/ calls' = {[c EXCEPT !.step = c.then, !.then = "end"]}
      BY <2>1, <2>3 DEF CommitWrite
    <3>3. \A d \in calls' : d.req = c.req /\ d.to = c.to /\ d.rows = c.rows
      BY <2>1, <3>2 DEF Calls
    <3>4. IsFiniteSet(calls')
      BY <3>2, FS_EmptySet, FS_Singleton
    <3>5. \A d, e \in calls' : d = e
      BY <3>2
    <3>6. c \in calls /\ \A row \in c.rows : row.accion = "APROBADO" =>
                            fee[c.req] \in Covers[row.usuario]
      BY DEF SerialInv
    <3> QED BY <2>2, <3>1, <3>3, <3>4, <3>5, <3>6 DEF SerialInv
  <2>4. CASE AbortWrite(c) \/ EmitPoliza(c) \/ FileReceipt(c)
    <3>1. calls' = {}
      BY <2>1, <2>4 DEF AbortWrite, EmitPoliza, FileReceipt
    <3> QED BY <3>1, FS_EmptySet DEF SerialInv
  <2> QED BY <1>4, <2>3, <2>4 DEF Advance
<1>5. ASSUME Crash \/ Restart PROVE SerialInv'
  <2>1. CASE Crash
    BY <2>1, FS_EmptySet DEF Crash, SerialInv
  <2>2. CASE Restart
    BY <2>2 DEF Restart, request, SerialInv
  <2> QED BY <1>5, <2>1, <2>2
<1>6. ASSUME UNCHANGED vars PROVE SerialInv'
  BY <1>6 DEF vars, SerialInv
<1> QED BY <1>1, <1>2, <1>3, <1>4, <1>5, <1>6, NextCases

LEMMA SerialInvariant ==
  ASSUME MaxInFlight = 1
  PROVE  Spec => []SerialInv
<1>1. Init => SerialInv
  BY FS_EmptySet DEF Init, SerialInv
<1>2. TypeOK /\ SerialInv /\ [Next]_vars => SerialInv'
  BY SerialStep
<1> QED BY <1>1, <1>2, TypeCorrect, PTL DEF Spec

\* Only a commit adds rows to the audit trail, and only a commit or the birth of a
\* request changes its status.
LEMMA OnlyCommits ==
  ASSUME TypeOK, [Next]_vars
  PROVE  \/ \E c \in calls : CommitWrite(c)
         \/ /\ historial' = historial
            /\ \A r \in Requests : status'[r] = Cancelled => status[r] = Cancelled
<1> DEFINE Goal == /\ historial' = historial
                   /\ \A r \in Requests : status'[r] = Cancelled => status[r] = Cancelled
<1>1. ASSUME NEW r \in Requests, WritesAtOnce(r) PROVE Goal
  <2>1. ASSUME NEW u \in Users, NEW f \in Fees, CreateRequest(r, u, f) PROVE Goal
    <3>1. SubmittedStatus(u, f) # Cancelled
      BY SubmittedStatusType DEF FirstReview, SecondReview, Quote, Cancelled
    <3> QED BY <2>1, <3>1 DEF CreateRequest, TypeOK
  <2>2. ASSUME NEW u \in Users, NEW f \in Fees, CreateDraft(r, u, f) PROVE Goal
    BY <2>2 DEF CreateDraft, TypeOK, Draft, Cancelled
  <2>3. ASSUME NEW f \in Fees, EditRequest(r, f) PROVE Goal
    BY <2>3 DEF EditRequest
  <2> HIDE DEF Goal
  <2> QED BY <1>1, <2>1, <2>2, <2>3 DEF WritesAtOnce
<1>2. ASSUME NEW r \in Requests, BeginsOn(r) PROVE Goal
  <2>1. PICK c \in Calls : Launches(c)
    BY <1>2, Begins
  <2> QED BY <2>1 DEF Launches, Launch, request
<1>3. ASSUME NEW r \in Requests, TimeStep(r) PROVE Goal
  BY <1>3 DEF TimeStep, FortyEightHours, DeadlinePasses
<1>4. ASSUME NEW c \in calls, AbortWrite(c) \/ EmitPoliza(c) \/ FileReceipt(c) PROVE Goal
  BY <1>4 DEF AbortWrite, EmitPoliza, FileReceipt, request
<1>5. ASSUME Crash \/ Restart \/ UNCHANGED vars PROVE Goal
  BY <1>5 DEF Crash, Restart, request, vars
<1> HIDE DEF Goal
<1>6. Goal \/ \E c \in calls : CommitWrite(c)
  BY <1>1, <1>2, <1>3, <1>4, <1>5, NextCases DEF Advance
<1> QED BY <1>6 DEF Goal

\* When calls do not overlap, nobody signs for a fee above his limit.
THEOREM SerialApprovalWithinLimit ==
  ASSUME MaxInFlight = 1
  PROVE  Spec => ApprovalWithinLimit
<1> DEFINE A == \A r \in Requests : \A row \in historial'[r] \ historial[r] :
                  row.accion = "APROBADO" => fee[r] \in Covers[row.usuario]
<1>1. TypeOK /\ SerialInv /\ [Next]_vars => [A]_vars
  <2> SUFFICES ASSUME TypeOK, SerialInv, [Next]_vars PROVE A
    OBVIOUS
  <2>1. ASSUME NEW c \in calls, CommitWrite(c) PROVE A
    <3>1. c.req \in Requests
      BY DEF TypeOK, Calls
    <3>2. /\ historial'[c.req] = historial[c.req] \cup c.rows
          /\ \A r \in Requests \ {c.req} : historial'[r] = historial[r]
      BY <2>1, <3>1 DEF CommitWrite, TypeOK
    <3> QED BY <3>2 DEF SerialInv
  <2>2. CASE historial' = historial
    BY <2>2
  <2> QED BY <2>1, <2>2, OnlyCommits
<1> QED BY <1>1, TypeCorrect, SerialInvariant, PTL DEF Spec, ApprovalWithinLimit

\* When calls do not overlap, no request is cancelled once its trip is paid for.
THEOREM SerialCancelledBeforeExpenses ==
  ASSUME MaxInFlight = 1
  PROVE  Spec => CancelledBeforeExpenses
<1> DEFINE A == \A r \in Requests :
                  status'[r] = Cancelled /\ status[r] # Cancelled =>
                    status[r] \in {Draft, FirstReview, SecondReview, Quote, Agency}
<1>1. TypeOK /\ SerialInv /\ [Next]_vars => [A]_vars
  <2> SUFFICES ASSUME TypeOK, SerialInv, [Next]_vars PROVE A
    OBVIOUS
  <2>1. ASSUME NEW c \in calls, CommitWrite(c) PROVE A
    <3>1. c.req \in Requests /\ c.step = "write"
      BY <2>1 DEF TypeOK, Calls, CommitWrite
    <3>2. /\ status'[c.req] = c.to
          /\ \A r \in Requests \ {c.req} : status'[r] = status[r]
      BY <2>1, <3>1 DEF CommitWrite, TypeOK
    <3> QED BY <3>1, <3>2 DEF SerialInv
  <2>2. CASE \A r \in Requests : status'[r] = Cancelled => status[r] = Cancelled
    BY <2>2
  <2> QED BY <2>1, <2>2, OnlyCommits
<1> QED BY <1>1, TypeCorrect, SerialInvariant, PTL DEF Spec, CancelledBeforeExpenses

-----------------------------------------------------------------------------
(* The promised lifecycle: what a call decides on is one of its moves, and   *)
(* with one call at a time it is still one when the call writes.             *)

\* The writes the promised lifecycle has: without a signature, and with one.
PlainMove(r, to) ==
  \/ to = status[r]
  \/ status[r] = Draft /\ to \in {FirstReview, SecondReview}
  \/ status[r] = Draft /\ to = Quote /\ Approved(r)
  \/ status[r] = FirstReview /\ to = SecondReview
  \/ status[r] \in Pending /\ to = Rejected
  \/ status[r] \in {Draft, FirstReview, SecondReview, Quote, Agency} /\ to = Cancelled
  \/ status[r] = Quote /\ to \in {Agency, Expenses} /\ Approved(r)
  \/ status[r] = Agency /\ to = Expenses
  \/ status[r] = Expenses /\ to = Validation
  \/ status[r] = Validation /\ to = Expenses
  \/ status[r] = Finished /\ to = Expenses /\ Approved(r)
  \/ status[r] \in Pending \cup Spending /\ to = Finished

SignedMove(r, to) ==
  \/ status[r] = FirstReview /\ to \in {SecondReview, Quote}
  \/ status[r] = SecondReview /\ to = Quote

\* The write c is about to make is a move of the lifecycle; what it does after an
\* approval is not another write.
Kept(c) ==
  c.step = "write" =>
    /\ status[c.req] # NoRequest /\ c.to # Draft
    /\ ~Approves(c) => PlainMove(c.req, c.to)
    /\ Approves(c) => SignedMove(c.req, c.to) /\ c.then # "write"

\* With nothing crossing it, a call still finds the status it decided on; and no
\* deadline runs on a request that has not been submitted.
PromiseInv ==
  /\ \A r \in Requests : status[r] \in {NoRequest, Draft} => trip[r] = "none"
  /\ \A c \in calls : Kept(c)

\* A step that leaves such a write in flight.
LaunchesKept == \E c : Launch(c) /\ Kept(c)

\* Kept reads no more of a write than this.
LEMMA KeptAlike ==
  ASSUME NEW c, NEW d, Kept(c), d.step = c.step, d.req = c.req, d.to = c.to, d.rows = c.rows,
         d.then \in {c.then, "end", "anticipo", "cierre"}
  PROVE  Kept(d)
<1>1. Approves(d) <=> Approves(c)
  BY DEF Approves
<1> QED BY <1>1 DEF Kept

\* A plain update signs nothing.
LEMMA StatusWriteKept ==
  ASSUME NEW s, NEW r, NEW to, PlainMove(r, to), status[r] # NoRequest, to # Draft
  PROVE  Kept(StatusWrite(s, r, to))
<1> DEFINE c == StatusWrite(s, r, to)
<1>1. c.req = r /\ c.to = to /\ c.rows = {}
  BY DEF StatusWrite
<1>2. ~Approves(c)
  BY <1>1 DEF Approves
<1> HIDE DEF c
<1> QED BY <1>1, <1>2 DEF Kept, c

\* Nor does an audited update with another row.
LEMMA WorkflowWriteKept ==
  ASSUME NEW s, NEW r, NEW to, NEW a \in {"RECHAZADO", "ESCALADO", "REASIGNADO"},
         NEW u, NEW k, NEW m, PlainMove(r, to), status[r] # NoRequest, to # Draft
  PROVE  Kept(WorkflowWrite(s, r, to, Entry(a, u, k, m)))
<1> DEFINE row == Entry(a, u, k, m)
           c == WorkflowWrite(s, r, to, row)
<1>1. c.req = r /\ c.to = to /\ c.rows = {row}
  BY DEF WorkflowWrite, StatusWrite
<1>2. row.accion # "APROBADO"
  BY DEF Entry
<1> HIDE DEF row
<1>3. ~Approves(c)
  BY <1>1, <1>2 DEF Approves
<1> HIDE DEF c
<1> QED BY <1>1, <1>3 DEF Kept, c, row

\* What the applicants decide on is in the lifecycle.
LEMMA ApplicantKept ==
  ASSUME UsersFollowPages, TypeOK, NEW r \in Requests, NEW s \in Callers
  PROVE  /\ \A u \in Users : BeginConfirmDraft(s, r, u) => LaunchesKept
         /\ \A legacy \in BOOLEAN : BeginCancel(s, r, legacy) => LaunchesKept
         /\ BeginUpload(s, r) => LaunchesKept
         /\ BeginSubmitReceipts(s, r) => LaunchesKept
<1> USE DEF NoRequest, Draft, FirstReview, SecondReview, Quote, Agency, Expenses, Validation,
            Cancelled, Rejected, Finished
<1> DEFINE Goal == \E c : Launch(c) /\ Kept(c)
<1>1. ASSUME NEW u \in Users, BeginConfirmDraft(s, r, u) PROVE Goal
  <2> DEFINE to == SubmittedStatus(u, fee[r])
             w == StatusWrite(s, r, to)
             c == [w EXCEPT !.snap = BuildSnapshot(u, fee[r]), !.trip = TRUE]
  <2>1. fee[r] \in Fees /\ u = owner[r] /\ status[r] = Draft
    BY <1>1 DEF BeginConfirmDraft, OnPage, TypeOK
  <2>2. to \in {FirstReview, SecondReview, Quote}
    BY <2>1, SubmittedStatusType
  <2>3. to = Quote => Approved(r)
    BY <2>1, SubmittedPastReviews, NoUserAssumption DEF Spending, Approved, NeedsNoApproval
  <2>4. PlainMove(r, to)
    <3> HIDE DEF to
    <3> QED BY <2>1, <2>2, <2>3 DEF PlainMove
  <2>5. Kept(w)
    <3> HIDE DEF to
    <3> QED BY <2>1, <2>2, <2>4, StatusWriteKept
  <2>6. /\ c.step = w.step /\ c.req = w.req /\ c.to = w.to /\ c.rows = w.rows
        /\ c.then = w.then
    <3> HIDE DEF to
    <3> QED BY DEF StatusWrite
  <2>7. Kept(c)
    <3> HIDE DEF w, c
    <3> QED BY <2>5, <2>6, KeptAlike
  <2> QED BY <1>1, <2>7 DEF BeginConfirmDraft, Begin
<1>2. ASSUME NEW legacy \in BOOLEAN, BeginCancel(s, r, legacy) PROVE Goal
  <2> DEFINE c == [StatusWrite(s, r, Cancelled) EXCEPT !.then = IF legacy THEN "write" ELSE "end"]
  <2>1. c.req = r /\ c.to = Cancelled /\ c.rows = {}
    BY DEF StatusWrite
  <2>2. ~Approves(c)
    BY <2>1 DEF Approves
  <2>3. status[r] # NoRequest /\ PlainMove(r, Cancelled)
    BY <1>2 DEF BeginCancel, PlainMove
  <2>4. Kept(c)
    <3> HIDE DEF c
    <3> QED BY <2>1, <2>2, <2>3 DEF Kept
  <2> QED BY <1>2, <2>4 DEF BeginCancel, Begin
<1>3. ASSUME BeginUpload(s, r) PROVE Goal
  <2> DEFINE c == [StatusWrite(s, r, status[r]) EXCEPT !.step = "receipt"]
  <2>1. Kept(c)
    BY DEF StatusWrite, Kept
  <2> QED BY <1>3, <2>1 DEF BeginUpload, Begin
<1>4. ASSUME BeginSubmitReceipts(s, r) PROVE Goal
  <2>1. Kept(StatusWrite(s, r, Validation))
    BY <1>4, StatusWriteKept DEF BeginSubmitReceipts, PlainMove
  <2> QED BY <1>4, <2>1 DEF BeginSubmitReceipts, Begin
<1> HIDE DEF Goal
<1> QED BY <1>1, <1>2, <1>3, <1>4 DEF Goal, LaunchesKept

\* What the approvers decide on is in the lifecycle.
LEMMA ApproverKept ==
  ASSUME TypeOK, NEW r \in Requests, ApproverStep(r)
  PROVE  LaunchesKept
<1> USE DEF NoRequest, Draft, FirstReview, SecondReview, Quote, Rejected, Pending
<1> DEFINE Goal == \E c : Launch(c) /\ Kept(c)
<1>1. ASSUME NEW s \in Callers, NEW u \in Users, BeginApprove(s, r, u) PROVE Goal
  <2> DEFINE to == IF Tier(r) = 1 THEN StatusAfterN1(snap[r].levels) ELSE Quote
             row == Entry("APROBADO", u, Tier(r), "actor")
             c == [WorkflowWrite(s, r, to, row) EXCEPT !.then = IF to = Quote THEN "anticipo"
                                                                 ELSE "end"]
  <2>1. c.req = r /\ c.to = to /\ c.rows = {row} /\ c.then # "write"
    BY DEF WorkflowWrite, StatusWrite
  <2>2. row.accion = "APROBADO"
    BY DEF Entry
  <2>3. SignedMove(r, to) /\ to # Draft /\ status[r] # NoRequest
    BY <1>1 DEF BeginApprove, SignedMove, Tier, StatusAfterN1
  <2>4. Kept(c)
    <3> HIDE DEF c, row, to
    <3> QED BY <2>1, <2>2, <2>3 DEF Kept, Approves
  <2> QED BY <1>1, <2>4 DEF BeginApprove, Begin
<1>2. ASSUME NEW s \in Callers, NEW u \in Users, BeginEscalateOverLimit(s, r, u) PROVE Goal
  <2>1. PlainMove(r, SecondReview) /\ status[r] # NoRequest
    BY <1>2 DEF BeginEscalateOverLimit, PlainMove
  <2>2. Kept(WorkflowWrite(s, r, SecondReview, Entry("ESCALADO", u, 1, "actor")))
    BY <2>1, WorkflowWriteKept
  <2> QED BY <1>2, <2>2 DEF BeginEscalateOverLimit, Begin
<1>3. ASSUME NEW s \in Callers, NEW u \in Users, BeginReject(s, r, u) PROVE Goal
  <2>1. PlainMove(r, Rejected) /\ status[r] # NoRequest
    BY <1>3 DEF BeginReject, PlainMove
  <2>2. Kept(WorkflowWrite(s, r, Rejected, Entry("RECHAZADO", u, Tier(r), "actor")))
    BY <2>1, WorkflowWriteKept
  <2> QED BY <1>3, <2>2 DEF BeginReject, Begin
<1>4. ASSUME NEW s \in Callers, NEW u \in Users, NEW target \in Users,
             BeginReassign(s, r, u, target)
      PROVE  Goal
  <2> DEFINE w == WorkflowWrite(s, r, status[r], Entry("REASIGNADO", u, Tier(r), "actor"))
             c == [w EXCEPT !.snap = IF Tier(r) = 1 THEN [snap[r] EXCEPT !.n1 = target]
                                                    ELSE [snap[r] EXCEPT !.n2 = target]]
  <2>1. PlainMove(r, status[r]) /\ status[r] # NoRequest /\ status[r] # Draft
    BY <1>4 DEF BeginReassign, PlainMove
  <2>2. Kept(w)
    BY <2>1, WorkflowWriteKept
  <2>3. /\ c.step = w.step /\ c.req = w.req /\ c.to = w.to /\ c.rows = w.rows
        /\ c.then = w.then
    BY DEF WorkflowWrite, StatusWrite
  <2>4. Kept(c)
    <3> HIDE DEF w, c
    <3> QED BY <2>2, <2>3, KeptAlike
  <2> QED BY <1>4, <2>4 DEF BeginReassign, Begin
<1> HIDE DEF Goal
<1>5. Goal
  BY <1>1, <1>2, <1>3, <1>4 DEF ApproverStep
<1> QED BY <1>5 DEF Goal, LaunchesKept

\* What CxP and the agency decide on is in the lifecycle: the budget, and a receipt
\* found undecided, presuppose the approval.
LEMMA BackOfficeKept ==
  ASSUME UsersFollowPages, TypeOK, SpendingInv, NEW r \in Requests, BackOfficeStep(r)
  PROVE  LaunchesKept
<1> USE DEF NoRequest, Draft, Quote, Agency, Expenses, Validation, Finished
<1> DEFINE Goal == \E c : Launch(c) /\ Kept(c)
<1>1. ASSUME NEW s \in Callers, NEW needsAgency \in BOOLEAN, BeginConfirmFee(s, r, needsAgency)
      PROVE  Goal
  <2> DEFINE to == IF needsAgency THEN Agency ELSE Expenses
  <2>1. status[r] = Quote /\ to \in {Agency, Expenses}
    BY <1>1 DEF BeginConfirmFee
  <2>2. Approved(r)
    BY <2>1 DEF SpendingInv, SpendingNeedsApproval, Approved, Spending
  <2> HIDE DEF to
  <2>3. PlainMove(r, to) /\ to # Draft /\ status[r] # NoRequest
    BY <2>1, <2>2 DEF PlainMove
  <2>4. Kept(StatusWrite(s, r, to))
    BY <2>3, StatusWriteKept
  <2> QED BY <1>1, <2>4 DEF BeginConfirmFee, Begin, to
<1>2. ASSUME NEW s \in Callers, BeginMarkAttended(s, r) PROVE Goal
  <2>1. Kept(StatusWrite(s, r, Expenses))
    BY <1>2, StatusWriteKept DEF BeginMarkAttended, OnPage, PlainMove
  <2> QED BY <1>2, <2>1 DEF BeginMarkAttended, Begin
<1>3. ASSUME NEW s \in Callers, NEW allApproved \in BOOLEAN, BeginReceiptSync(s, r, allApproved)
      PROVE  Goal
  <2> DEFINE back == StatusWrite(s, r, Expenses)
             done == [StatusWrite(s, r, Finished) EXCEPT !.then = "cierre"]
  <2>1. status[r] \in {Validation, Finished} /\ Approved(r)
    BY <1>3 DEF BeginReceiptSync, OnPage, SpendingInv
  <2>2. PlainMove(r, Expenses) /\ PlainMove(r, Finished)
    BY <2>1 DEF PlainMove, Spending
  <2>3. Kept(back)
    BY <2>1, <2>2, StatusWriteKept
  <2>4. Kept(done)
    <3>1. Kept(StatusWrite(s, r, Finished))
      BY <2>1, <2>2, StatusWriteKept
    <3>2. /\ done.step = "write" /\ done.req = r /\ done.to = Finished /\ done.rows = {}
          /\ done.then = "cierre"
      BY DEF StatusWrite
    <3>3. LET w == StatusWrite(s, r, Finished)
          IN  w.step = "write" /\ w.req = r /\ w.to = Finished /\ w.rows = {}
      BY DEF StatusWrite
    <3> HIDE DEF done
    <3> QED BY <3>1, <3>2, <3>3, KeptAlike
  <2>5. Launch(done) \/ Launch(back)
    BY <1>3 DEF BeginReceiptSync
  <2> HIDE DEF done, back
  <2> QED BY <2>3, <2>4, <2>5
<1> HIDE DEF Goal
<1>4. Goal
  BY <1>1, <1>2, <1>3 DEF BackOfficeStep
<1> QED BY <1>4 DEF Goal, LaunchesKept

\* What the jobs decide on is in the lifecycle: no deadline runs on a draft.
LEMMA JobKept ==
  ASSUME TypeOK, PromiseInv, NEW r \in Requests, JobStep(r)
  PROVE  LaunchesKept
<1> USE DEF NoRequest, Draft, FirstReview, SecondReview, Quote, Agency, Expenses, Validation,
            Finished, Cancelled, Rejected, Pending
<1> DEFINE Goal == \E c : Launch(c) /\ Kept(c)
<1>1. ASSUME BeginEscalation(r) PROVE Goal
  <2> DEFINE u == IF snap[r].n2 # NoUser THEN snap[r].n2 ELSE owner[r]
             w == WorkflowWrite("escalation", r, SecondReview, Entry("ESCALADO", u, 1, "48h"))
             c == [w EXCEPT !.org = FALSE]
  <2>1. PlainMove(r, SecondReview) /\ status[r] # NoRequest
    BY <1>1 DEF BeginEscalation, PlainMove
  <2>2. Kept(w)
    <3> HIDE DEF u
    <3> QED BY <2>1, WorkflowWriteKept
  <2>3. /\ c.step = w.step /\ c.req = w.req /\ c.to = w.to /\ c.rows = w.rows
        /\ c.then = w.then
    BY DEF WorkflowWrite, StatusWrite
  <2>4. Kept(c)
    <3> HIDE DEF w, c
    <3> QED BY <2>2, <2>3, KeptAlike
  <2> QED BY <1>1, <2>4 DEF BeginEscalation, Begin
<1>2. ASSUME BeginSweep(r) PROVE Goal
  <2>1. status[r] \in Pending
    BY <1>2 DEF BeginSweep
  <2>2. ASSUME NEW sub, Begin(SweepReassign(r, sub)) PROVE Goal
    <3> DEFINE w == WorkflowWrite("sweep", r, status[r],
                                  Entry("REASIGNADO", sub, Tier(r), "inactividad"))
               c == SweepReassign(r, sub)
    <3>1. PlainMove(r, status[r]) /\ status[r] # NoRequest /\ status[r] # Draft
      BY <2>1 DEF PlainMove
    <3>2. Kept(w)
      BY <3>1, WorkflowWriteKept
    <3>3. /\ c.step = w.step /\ c.req = w.req /\ c.to = w.to /\ c.rows = w.rows
          /\ c.then = w.then
      BY DEF SweepReassign, WorkflowWrite, StatusWrite
    <3>4. Kept(c)
      <4> HIDE DEF w, c
      <4> QED BY <3>2, <3>3, KeptAlike
    <3> QED BY <2>2, <3>4 DEF Begin
  <2>3. ASSUME status[r] = FirstReview, Begin(SweepEscalate(r)) PROVE Goal
    <3>1. PlainMove(r, SecondReview) /\ status[r] # NoRequest
      BY <2>3 DEF PlainMove
    <3>2. Kept(SweepEscalate(r))
      BY <3>1, WorkflowWriteKept DEF SweepEscalate
    <3> QED BY <2>3, <3>2 DEF Begin
  <2> HIDE DEF Goal
  <2> QED BY <1>2, <2>2, <2>3 DEF BeginSweep
<1>3. ASSUME BeginDeadlineLock(r) PROVE Goal
  <2>1. status[r] \in Pending \cup Spending
    BY <1>3 DEF BeginDeadlineLock, Terminal, Spending, TypeOK, Status, PromiseInv
  <2>2. PlainMove(r, Finished) /\ status[r] # NoRequest
    BY <2>1 DEF PlainMove, Spending
  <2>3. Kept(WorkflowWrite("deadline", r, Finished, Entry("RECHAZADO", owner[r], 0, "plazo")))
    <3>1. \A to : PlainMove(r, to) /\ to # Draft =>
            Kept(WorkflowWrite("deadline", r, to, Entry("RECHAZADO", owner[r], 0, "plazo")))
      BY <2>2, WorkflowWriteKept
    <3>2. Finished # Draft
      OBVIOUS
    <3> QED BY <2>2, <3>1, <3>2
  <2> QED BY <1>3, <2>3 DEF BeginDeadlineLock, Begin
<1> HIDE DEF Goal
<1>4. Goal
  BY <1>1, <1>2, <1>3 DEF JobStep
<1> QED BY <1>4 DEF Goal, LaunchesKept

\* Whatever is decided on is in the lifecycle.
LEMMA BeginsKept ==
  ASSUME UsersFollowPages, TypeOK, SpendingInv, PromiseInv, NEW r \in Requests, BeginsOn(r)
  PROVE  LaunchesKept
PROOF BY ApplicantKept, ApproverKept, BackOfficeKept, JobKept DEF BeginsOn

\* A write stays in the lifecycle while the request waits for it.
LEMMA KeptSame ==
  ASSUME NEW d, Kept(d), status' = status, historial' = historial, owner' = owner
  PROVE  Kept(d)'
<1>1. \A r : Approved(r)' <=> Approved(r)
  BY DEF Approved, ApprovalOnRecord, NeedsNoApproval
<1>2. \A r, to : PlainMove(r, to) => PlainMove(r, to)'
  BY <1>1 DEF PlainMove
<1>3. \A r, to : SignedMove(r, to) => SignedMove(r, to)'
  BY DEF SignedMove
<1> QED BY <1>2, <1>3 DEF Kept, Approves

\* The single call finds the status it decided on, and writes what it meant to.
LEMMA PromiseStep ==
  ASSUME MaxInFlight = 1, UsersFollowPages, TypeOK, SerialInv, SpendingInv, PromiseInv, [Next]_vars
  PROVE  PromiseInv'
<1> DEFINE Dated == \A r \in Requests : status[r] \in {NoRequest, Draft} => trip[r] = "none"
<1>1. Dated /\ \A c \in calls : Kept(c)
  BY DEF PromiseInv
<1>2. ASSUME status' = status, trip' = trip PROVE Dated'
  BY <1>1, <1>2
<1>3. ASSUME NEW r \in Requests, WritesAtOnce(r) PROVE PromiseInv'
  <2>1. CanRun /\ calls' = calls
    BY <1>3 DEF WritesAtOnce, CreateRequest, CreateDraft, EditRequest
  <2>2. calls' = {}
    BY <2>1, OneAtATime
  <2>3. Dated'
    <3>1. ASSUME NEW u \in Users, NEW f \in Fees, CreateRequest(r, u, f) PROVE Dated'
      <4>1. SubmittedStatus(u, f) \notin {NoRequest, Draft}
        BY SubmittedStatusType DEF FirstReview, SecondReview, Quote, NoRequest, Draft
      <4>2. status'[r] = SubmittedStatus(u, f)
        BY <3>1 DEF CreateRequest, TypeOK
      <4>3. \A q \in Requests \ {r} : status'[q] = status[q] /\ trip'[q] = trip[q]
        BY <3>1 DEF CreateRequest, TypeOK
      <4> QED BY <1>1, <4>1, <4>2, <4>3
    <3>2. ASSUME NEW u \in Users, NEW f \in Fees, CreateDraft(r, u, f) PROVE Dated'
      BY <1>1, <3>2 DEF CreateDraft, TypeOK
    <3>3. ASSUME NEW f \in Fees, EditRequest(r, f) PROVE Dated'
      BY <1>2, <3>3 DEF EditRequest
    <3> HIDE DEF Dated
    <3> QED BY <1>3, <3>1, <3>2, <3>3 DEF WritesAtOnce
  <2> QED BY <2>2, <2>3 DEF PromiseInv
<1>4. ASSUME NEW r \in Requests, BeginsOn(r) PROVE PromiseInv'
  <2>1. PICK c : Launch(c) /\ Kept(c)
    BY <1>4, BeginsKept DEF LaunchesKept
  <2>2. /\ calls' = calls \cup {c} /\ status' = status /\ trip' = trip
        /\ historial' = historial /\ owner' = owner
    BY <2>1 DEF Launch, request
  <2>3. Dated' /\ \A d \in calls' : Kept(d)'
    BY <1>1, <1>2, <2>1, <2>2, KeptSame
  <2> QED BY <2>3 DEF PromiseInv
<1>5. ASSUME NEW r \in Requests, TimeStep(r) PROVE PromiseInv'
  <2>1. status' = status /\ historial' = historial /\ owner' = owner /\ calls' = calls
    BY <1>5 DEF TimeStep, FortyEightHours, DeadlinePasses
  <2>2. Dated'
    BY <1>1, <1>5, <2>1 DEF TimeStep, FortyEightHours, DeadlinePasses, TypeOK
  <2>3. \A d \in calls' : Kept(d)'
    BY <1>1, <2>1, KeptSame
  <2> QED BY <2>2, <2>3 DEF PromiseInv
<1>6. ASSUME NEW c \in calls, Advance(c) PROVE PromiseInv'
  <2>1. c \in Calls /\ c.req \in Requests /\ calls = {c} /\ c.to # NoRequest
    BY DEF TypeOK, Calls, SerialInv, Status, NoRequest
  <2>2. CASE CommitWrite(c)
    <3>1. c.to # Draft /\ (c.then = "write" => ~Approves(c))
      BY <1>1, <2>2 DEF Kept, CommitWrite
    <3>2. status'[c.req] = c.to
      BY <2>1, <2>2 DEF CommitWrite, TypeOK
    <3>3. \A q \in Requests \ {c.req} : status'[q] = status[q] /\ trip'[q] = trip[q]
      BY <2>1, <2>2 DEF CommitWrite, TypeOK
    <3>4. Dated'
      BY <1>1, <2>1, <3>1, <3>2, <3>3
    <3>5. ASSUME NEW d \in calls' PROVE Kept(d)'
      <4>1. d = [c EXCEPT !.step = c.then, !.then = "end"]
        BY <2>1, <2>2 DEF CommitWrite
      <4>2. d.step = c.then /\ d.req = c.req /\ d.to = c.to /\ d.rows = c.rows
        BY <2>1, <4>1 DEF Calls
      <4>3. Approves(d) <=> Approves(c)
        BY <4>2 DEF Approves
      <4>4. PlainMove(d.req, d.to)'
        BY <3>2, <4>2 DEF PlainMove
      <4>5. Approves(d)' <=> Approves(d)
        BY DEF Approves
      <4> QED BY <2>1, <3>1, <3>2, <4>2, <4>3, <4>4, <4>5 DEF Kept
    <3> QED BY <3>4, <3>5 DEF PromiseInv
  <2>3. CASE AbortWrite(c) \/ EmitPoliza(c) \/ FileReceipt(c)
    <3>1. calls' = {} /\ status' = status /\ trip' = trip
      BY <2>1, <2>3 DEF AbortWrite, EmitPoliza, FileReceipt, request
    <3> QED BY <1>2, <3>1 DEF PromiseInv
  <2> QED BY <1>6, <2>2, <2>3 DEF Advance
<1>7. ASSUME Crash \/ Restart \/ UNCHANGED vars PROVE PromiseInv'
  <2>1. /\ status' = status /\ trip' = trip /\ historial' = historial /\ owner' = owner
        /\ calls' \subseteq calls
    BY <1>7 DEF Crash, Restart, request, vars
  <2>2. Dated' /\ \A d \in calls' : Kept(d)'
    BY <1>1, <1>2, <2>1, KeptSame
  <2> QED BY <2>2 DEF PromiseInv
<1> HIDE DEF Dated
<1> QED BY <1>3, <1>4, <1>5, <1>6, <1>7, NextCases

-----------------------------------------------------------------------------
(* The steps of the promised lifecycle. *)

\* A step of the promised lifecycle, or none.
PromiseMoves == Promise!Next \/ UNCHANGED Promise!vars

\* What neither moves a request nor changes who approved it goes unnoticed.
LEMMA PromiseUnnoticed ==
  ASSUME status' = status, \A r \in Requests : Approved(r)' <=> Approved(r)
  PROVE  PromiseMoves
<1>1. UNCHANGED [r \in Requests |-> ApprovalOnRecord(r) \/ NeedsNoApproval(r)]
  BY DEF Approved
<1> QED BY <1>1 DEF PromiseMoves, Promise!vars

\* A write that signs nothing is the move of the lifecycle it was meant to be.
LEMMA PlainPromised ==
  ASSUME TypeOK, NEW r \in Requests, NEW to \in Status, PlainMove(r, to), status[r] # NoRequest,
         status' = [status EXCEPT ![r] = to],
         \A q \in Requests : Approved(q)' <=> Approved(q)
  PROVE  PromiseMoves
<1> USE DEF Draft, FirstReview, SecondReview, Quote, Agency, Expenses, Validation, Finished,
            Cancelled, Rejected, Pending, Spending, NoRequest
<1>1. Promise!Same
  BY DEF Approved, Promise!Same
<1>2. \A F, T : status[r] \in F /\ to \in T => Promise!Move(r, F, T)
  BY DEF Promise!Move
<1>3. Approved(r) => [q \in Requests |-> ApprovalOnRecord(q) \/ NeedsNoApproval(q)][r]
  BY DEF Approved
<1>4. CASE to = status[r]
  <2>1. status' = status
    BY <1>4 DEF TypeOK
  <2> QED BY <2>1, PromiseUnnoticed
<1>5. CASE status[r] = Draft /\ to \in {FirstReview, SecondReview}
  BY <1>1, <1>2, <1>5 DEF Promise!Submit, Promise!Step, Promise!Next, PromiseMoves
<1>6. CASE status[r] = Draft /\ to = Quote /\ Approved(r)
  BY <1>1, <1>2, <1>3, <1>6 DEF Promise!Submit, Promise!Step, Promise!Next, PromiseMoves
<1>7. CASE status[r] = FirstReview /\ to = SecondReview
  BY <1>1, <1>2, <1>7 DEF Promise!HandUp, Promise!Step, Promise!Next, PromiseMoves
<1>8. CASE status[r] \in Pending /\ to = Rejected
  BY <1>1, <1>2, <1>8 DEF Promise!Decline, Promise!Step, Promise!Next, PromiseMoves
<1>9. CASE status[r] \in {Draft, FirstReview, SecondReview, Quote, Agency} /\ to = Cancelled
  BY <1>1, <1>2, <1>9 DEF Promise!Cancel, Promise!Step, Promise!Next, PromiseMoves
<1>10. CASE status[r] = Quote /\ to \in {Agency, Expenses} /\ Approved(r)
  BY <1>1, <1>2, <1>3, <1>10 DEF Promise!Fund, Promise!Step, Promise!Next, PromiseMoves
<1>11. CASE status[r] = Agency /\ to = Expenses
  BY <1>1, <1>2, <1>11 DEF Promise!Book, Promise!Step, Promise!Next, PromiseMoves
<1>12. CASE status[r] = Expenses /\ to = Validation
  BY <1>1, <1>2, <1>12 DEF Promise!HandIn, Promise!Step, Promise!Next, PromiseMoves
<1>13. CASE status[r] = Validation /\ to = Expenses
  BY <1>1, <1>2, <1>13 DEF Promise!Check, Promise!Step, Promise!Next, PromiseMoves
<1>14. CASE status[r] = Finished /\ to = Expenses /\ Approved(r)
  BY <1>1, <1>2, <1>3, <1>14 DEF Promise!Reopen, Promise!Step, Promise!Next, PromiseMoves
<1>15. CASE status[r] \in Pending \cup Spending /\ to = Finished
  BY <1>1, <1>2, <1>15 DEF Promise!Expire, Promise!Step, Promise!Next, PromiseMoves
<1> QED BY <1>4, <1>5, <1>6, <1>7, <1>8, <1>9, <1>10, <1>11, <1>12, <1>13, <1>14, <1>15
        DEF PlainMove

\* A signed write is the approval.
LEMMA SignedPromised ==
  ASSUME TypeOK, NEW r \in Requests, NEW to \in Status, SignedMove(r, to),
         status' = [status EXCEPT ![r] = to], Approved(r)',
         \A q \in Requests \ {r} : Approved(q)' <=> Approved(q)
  PROVE  PromiseMoves
<1> USE DEF FirstReview, SecondReview, Quote
<1> DEFINE shown == [q \in Requests |-> ApprovalOnRecord(q) \/ NeedsNoApproval(q)]
<1>1. shown' = [shown EXCEPT ![r] = TRUE]
  BY DEF Approved
<1>2. Promise!Move(r, {2}, {3, 4}) \/ Promise!Move(r, {3}, {4})
  BY DEF SignedMove, Promise!Move
<1>3. Promise!Approve(r)
  BY <1>1, <1>2 DEF Promise!Approve
<1> QED BY <1>3 DEF Promise!Step, Promise!Next, PromiseMoves

\* A request is opened once, in a review or past them; in the latter case by somebody
\* whose requests need no approval.
LEMMA OpenPromised ==
  ASSUME TypeOK, NEW r \in Requests, NEW u \in Users, NEW to \in {1, 2, 3, 4},
         status[r] = NoRequest, status' = [status EXCEPT ![r] = to],
         owner' = [owner EXCEPT ![r] = u], historial' = historial,
         to = 4 => Role[u] = "N2"
  PROVE  PromiseMoves
<1> DEFINE shown == [q \in Requests |-> ApprovalOnRecord(q) \/ NeedsNoApproval(q)]
<1>1. owner'[r] = u /\ \A q \in Requests \ {r} : owner'[q] = owner[q]
  BY DEF TypeOK
<1>2. \A q \in Requests \ {r} : Approved(q)' <=> Approved(q)
  BY <1>1 DEF Approved, ApprovalOnRecord, NeedsNoApproval
<1>3. shown' = [shown EXCEPT ![r] = Approved(r)']
  BY <1>2 DEF Approved
<1>4. Approved(r)' \in BOOLEAN
  BY DEF Approved
<1>5. Promise!Move(r, {0}, {1, 2, 3, 4})
  BY DEF Promise!Move, NoRequest
<1>6. status'[r] = 4 => shown'[r]
  <2>1. status'[r] = to
    BY DEF TypeOK
  <2>2. to = 4 => NeedsNoApproval(r)'
    BY <1>1, NoUserAssumption DEF NeedsNoApproval
  <2> QED BY <2>1, <2>2
<1>7. Promise!Open(r)
  <2> HIDE DEF shown
  <2>1. \E b \in BOOLEAN : shown' = [shown EXCEPT ![r] = b]
    BY <1>3, <1>4
  <2> QED BY <1>5, <1>6, <2>1 DEF Promise!Open, shown
<1> QED BY <1>7 DEF Promise!Step, Promise!Next, PromiseMoves

\* A commit is the move it was meant to be.
LEMMA CommitPromised ==
  ASSUME TypeOK, NEW c \in calls, Kept(c), CommitWrite(c)
  PROVE  PromiseMoves
<1>1. c.req \in Requests /\ c.to \in Status /\ c.step = "write"
  BY DEF TypeOK, Calls, CommitWrite
<1>2. status' = [status EXCEPT ![c.req] = c.to] /\ owner' = owner
  BY DEF CommitWrite
<1>3. /\ historial'[c.req] = historial[c.req] \cup c.rows
      /\ \A q \in Requests \ {c.req} : historial'[q] = historial[q]
  BY <1>1 DEF CommitWrite, TypeOK
<1>4. \A q \in Requests \ {c.req} : Approved(q)' <=> Approved(q)
  BY <1>2, <1>3 DEF Approved, ApprovalOnRecord, NeedsNoApproval
<1>5. CASE Approves(c)
  <2>1. Approved(c.req)'
    BY <1>3, <1>5 DEF Approves, Approved, ApprovalOnRecord
  <2> QED BY <1>1, <1>2, <1>4, <1>5, <2>1, SignedPromised DEF Kept
<1>6. CASE ~Approves(c)
  <2>1. Approved(c.req)' <=> Approved(c.req)
    BY <1>2, <1>3, <1>6 DEF Approves, Approved, ApprovalOnRecord, NeedsNoApproval
  <2>2. \A q \in Requests : Approved(q)' <=> Approved(q)
    BY <1>4, <2>1
  <2> QED BY <1>1, <1>2, <1>6, <2>2, PlainPromised DEF Kept
<1> QED BY <1>5, <1>6

\* Every step of every handler and job is a move of the lifecycle, or none.
LEMMA PromisedSteps ==
  ASSUME TypeOK, PromiseInv, [Next]_vars
  PROVE  PromiseMoves
<1>1. ASSUME status' = status, historial' = historial, owner' = owner PROVE PromiseMoves
  <2>1. \A r \in Requests : Approved(r)' <=> Approved(r)
    BY <1>1 DEF Approved, ApprovalOnRecord, NeedsNoApproval
  <2> QED BY <1>1, <2>1, PromiseUnnoticed
<1>2. ASSUME NEW r \in Requests, WritesAtOnce(r) PROVE PromiseMoves
  <2>1. ASSUME NEW u \in Users, NEW f \in Fees, CreateRequest(r, u, f) PROVE PromiseMoves
    <3>1. SubmittedStatus(u, f) \in {2, 3, 4}
      BY SubmittedStatusType DEF FirstReview, SecondReview, Quote
    <3>2. SubmittedStatus(u, f) = 4 => Role[u] = "N2"
      BY SubmittedPastReviews DEF Spending, Quote
    <3> QED BY <2>1, <3>1, <3>2, OpenPromised DEF CreateRequest
  <2>2. ASSUME NEW u \in Users, NEW f \in Fees, CreateDraft(r, u, f) PROVE PromiseMoves
    <3>1. \A to \in {1, 2, 3, 4} :
            to # 4 /\ status' = [status EXCEPT ![r] = to] => PromiseMoves
      BY <2>2, OpenPromised DEF CreateDraft
    <3>2. status' = [status EXCEPT ![r] = 1]
      BY <2>2 DEF CreateDraft, Draft
    <3> QED BY <3>1, <3>2
  <2>3. ASSUME NEW f \in Fees, EditRequest(r, f) PROVE PromiseMoves
    BY <1>1, <2>3 DEF EditRequest
  <2> QED BY <1>2, <2>1, <2>2, <2>3 DEF WritesAtOnce
<1>3. ASSUME NEW r \in Requests, BeginsOn(r) PROVE PromiseMoves
  <2>1. PICK c \in Calls : Launches(c)
    BY <1>3, Begins
  <2> QED BY <1>1, <2>1 DEF Launches, Launch, request
<1>4. ASSUME NEW r \in Requests, TimeStep(r) PROVE PromiseMoves
  BY <1>1, <1>4 DEF TimeStep, FortyEightHours, DeadlinePasses
<1>5. ASSUME NEW c \in calls, Advance(c) PROVE PromiseMoves
  <2>1. CASE CommitWrite(c)
    BY <2>1, CommitPromised DEF PromiseInv
  <2>2. CASE AbortWrite(c) \/ EmitPoliza(c) \/ FileReceipt(c)
    BY <1>1, <2>2 DEF AbortWrite, EmitPoliza, FileReceipt, request
  <2> QED BY <1>5, <2>1, <2>2 DEF Advance
<1>6. ASSUME Crash \/ Restart \/ UNCHANGED vars PROVE PromiseMoves
  BY <1>1, <1>6 DEF Crash, Restart, request, vars
<1> QED BY <1>2, <1>3, <1>4, <1>5, <1>6, NextCases

\* When calls do not overlap and users follow the pages, the handlers and jobs keep
\* the promised lifecycle, crashes included: no stage is skipped, none is left but as
\* the lifecycle says, and money is committed on approved requests only.
THEOREM SerialKeepsPromise ==
  ASSUME MaxInFlight = 1, UsersFollowPages
  PROVE  Spec => KeepsPromise
<1>1. Init => PromiseInv
  BY DEF Init, PromiseInv
<1>2. TypeOK /\ SerialInv /\ SpendingInv /\ PromiseInv /\ [Next]_vars => PromiseInv'
  BY PromiseStep
<1>3. Init => Promise!Init
  BY DEF Init, Promise!Init, NoRequest, ApprovalOnRecord, NeedsNoApproval
<1>4. TypeOK /\ PromiseInv /\ [Next]_vars => [Promise!Next]_(Promise!vars)
  BY PromisedSteps DEF PromiseMoves
<1> QED BY <1>1, <1>2, <1>3, <1>4, TypeCorrect, SerialInvariant, SpendingInvariant, PTL
        DEF Spec, KeepsPromise, Promise!Spec
=============================================================================
