------------------------------ MODULE PayablesProofs ------------------------------
(***************************************************************************)
(* What holds of the alerts and of the wallet for any number of calls that   *)
(* update the request at once, any fees and any number of updates; and of the *)
(* ledger however many trips, receipts, exporters and days there are.  An     *)
(* export writes what it read some time ago, so every invariant says the same *)
(* of the exports in flight as of the ledger.                                 *)
(***************************************************************************)
EXTENDS RequestAlerts, AccountingExport, DataLemmas, SequenceTheorems

\* A write that some handler may decide on when it has read status s.
IsWrite(w) ==
    /\ w.status \in 1..10 \union {Unchanged}
    /\ w.fee \in Budgets \union {0, Unchanged}
    /\ ~w.seen => /\ w.status \in {2, 3} /\ w.fee = Unchanged
                  /\ w.tx /\ w.note = {w.status}
    /\ w.seen => w.note = {}

\* The kinds of writes that the handlers make.
LEMMA KindsOfWrites ==
  /\ \A t \in 1..10 \union {Unchanged}, f \in Budgets \union {0, Unchanged} :
        IsWrite(Autocommit(t, f)) /\ Autocommit(t, f).seen
  /\ \A t \in 1..10 \union {Unchanged} :
        /\ IsWrite(InTransaction(t)) /\ InTransaction(t).seen
        /\ IsWrite([InTransaction(t) EXCEPT !.fee = 0]) /\ [InTransaction(t) EXCEPT !.fee = 0].seen
        /\ IsWrite([InTransaction(t) EXCEPT !.doomed = TRUE]) /\ [InTransaction(t) EXCEPT !.doomed = TRUE].seen
  /\ \A t \in {2, 3} : IsWrite(WithNote(t)) /\ WithNote(t).status = t
<1>1. \A t \in 1..10 \union {Unchanged}, f \in Budgets \union {0, Unchanged} :
        IsWrite(Autocommit(t, f)) /\ Autocommit(t, f).seen
  BY DEF IsWrite, Autocommit
<1>2. \A t \in 1..10 \union {Unchanged} :
        /\ IsWrite(InTransaction(t)) /\ InTransaction(t).seen
        /\ IsWrite([InTransaction(t) EXCEPT !.fee = 0]) /\ [InTransaction(t) EXCEPT !.fee = 0].seen
        /\ IsWrite([InTransaction(t) EXCEPT !.doomed = TRUE]) /\ [InTransaction(t) EXCEPT !.doomed = TRUE].seen
  BY DEF IsWrite, Autocommit, InTransaction
<1>3. \A t \in {2, 3} : IsWrite(WithNote(t)) /\ WithNote(t).status = t
  BY DEF IsWrite, Autocommit, InTransaction, WithNote
<1> QED BY <1>1, <1>2, <1>3

\* Every update a handler decides on is such a write; one whose result the extension
\* cannot compare is the sweep's, of a first or a second review.
LEMMA WritesAreWrites ==
  ASSUME NEW s \in 1..10, NEW w \in UpdatesAt(s)
  PROVE  IsWrite(w) /\ (~w.seen => s \in {2, w.status})
<1> USE KindsOfWrites
<1>1. CASE w \in Confirmations(s)
  BY <1>1 DEF Confirmations
<1>2. CASE w \in Edits(s)
  BY <1>2 DEF Edits
<1>3. CASE w \in Approvals(s)
  BY <1>3 DEF Approvals
<1>4. CASE w \in Rejections(s)
  BY <1>4 DEF Rejections
<1>5. CASE w \in Reassignments(s)
  BY <1>5 DEF Reassignments
<1>6. CASE w \in Sweeps(s)
  BY <1>6 DEF Sweeps
<1>7. CASE w \in Escalations(s)
  BY <1>7 DEF Escalations
<1>8. CASE w \in Locks(s)
  BY <1>8 DEF Locks
<1>9. CASE w \in Cancellations(s)
  BY <1>9 DEF Cancellations
<1>10. CASE w \in FeeConfirmations(s)
  BY <1>10 DEF FeeConfirmations
<1>11. CASE w \in OfferSelections(s)
  BY <1>11 DEF OfferSelections
<1>12. CASE w \in Attentions(s)
  BY <1>12 DEF Attentions
<1>13. CASE w \in HandIns(s)
  BY <1>13 DEF HandIns
<1>14. CASE w \in Syncs(s)
  BY <1>14 DEF Syncs
<1>15. w \in Confirmations(s) \/ w \in Edits(s) \/ w \in Approvals(s) \/ w \in Rejections(s)
       \/ w \in Reassignments(s) \/ w \in Sweeps(s) \/ w \in Escalations(s) \/ w \in Locks(s)
       \/ w \in Cancellations(s) \/ w \in FeeConfirmations(s) \/ w \in OfferSelections(s)
       \/ w \in Attentions(s) \/ w \in HandIns(s) \/ w \in Syncs(s)
  BY DEF UpdatesAt
<1> QED BY <1>1, <1>2, <1>3, <1>4, <1>5, <1>6, <1>7, <1>8, <1>9, <1>10, <1>11, <1>12, <1>13, <1>14, <1>15

--------------------------------------------------------------------------------
UpdateSteps == {"readOld", "update", "alerts", "deduct", "commit", "note"}
Done(x) == x.step \in {"alerts", "deduct", "commit", "note"}

IsUpdate(x) ==
    /\ x = [step |-> x.step, write |-> x.write, old |-> x.old, new |-> x.new]
    /\ x.step \in UpdateSteps
    /\ IsWrite(x.write)
    /\ x.old \in Row /\ x.new \in Row
    /\ x.step = "commit" => x.write.tx
    /\ x.step = "note" => ~x.write.seen
    /\ Done(x) /\ ~x.write.seen => x.new.status = x.write.status
Holding(u) == At(u, "commit") \/ (updates[u].step \in {"alerts", "deduct"} /\ updates[u].write.tx)

AlertsTypeInv ==
    /\ row \in Row /\ shown \subseteq 1..7 /\ wallet \in Int
    /\ DOMAIN updates = Updaters
    /\ \A u \in Updaters : updates[u] = NoUpdate \/ IsUpdate(updates[u])
    /\ holder \subseteq Updaters
    /\ \A u \in Updaters : u \in holder <=> Holding(u)
    /\ \A u, v \in holder : u = v

\* A caller that updates nothing is at none of the steps of an update.
LEMMA NoneIsNone == NoUpdate.step \notin UpdateSteps
  BY DEF NoUpdate, UpdateSteps

\* An update leaves a row of the table, with the columns it wrote.
LEMMA PatchType ==
  ASSUME NEW r \in Row, NEW w, IsWrite(w)
  PROVE  /\ Patch(r, w) \in Row
         /\ Patch(r, w).status = IF w.status = Unchanged THEN r.status ELSE w.status
         /\ Patch(r, w).fee = IF w.fee = Unchanged THEN r.fee ELSE w.fee
  BY DEF Patch, Row, IsWrite

\* A request is created with nobody updating it.
LEMMA AlertsTypeAtFirst == AlertsInit => AlertsTypeInv
<1> SUFFICES ASSUME AlertsInit PROVE AlertsTypeInv
  OBVIOUS
<1>1. row \in Row /\ shown \subseteq 1..7
  BY DEF AlertsInit, Row
<1> QED BY <1>1, NoneIsNone DEF AlertsInit, AlertsTypeInv, Holding, At, UpdateSteps

\* The row's lock is held by the transactions between their update and their end, and
\* an update waits for it: that keeps them one at a time.
LEMMA AlertsTypeStep == AlertsTypeInv /\ [AlertsNext]_alertsVars => AlertsTypeInv'
<1> SUFFICES ASSUME AlertsTypeInv, [AlertsNext]_alertsVars PROVE AlertsTypeInv'
  OBVIOUS
<1> USE NoneIsNone DEF AlertsTypeInv, Holding, At
<1>1. ASSUME NEW u \in Updaters, BeginUpdate(u) PROVE AlertsTypeInv'
  <2>1. PICK w \in UpdatesAt(row.status) :
          updates' = [updates EXCEPT ![u] = [step |-> "readOld", write |-> w, old |-> row, new |-> row]]
    BY <1>1 DEF BeginUpdate
  <2>2. IsWrite(w)
    BY <2>1, WritesAreWrites DEF Row
  <2>3. IsUpdate(updates'[u]) /\ updates'[u].step = "readOld"
    BY <2>1, <2>2 DEF IsUpdate, UpdateSteps, Done
  <2>4. ~Holding(u)
    BY <1>1 DEF BeginUpdate, UpdateSteps
  <2> QED BY <1>1, <2>1, <2>3, <2>4 DEF BeginUpdate
<1>2. ASSUME NEW u \in Updaters, ReadOldRow(u) PROVE AlertsTypeInv'
  <2>1. IsUpdate(updates[u])
    BY <1>2 DEF ReadOldRow, UpdateSteps
  <2>2. IsUpdate(updates'[u]) /\ updates'[u].step = "update"
    BY <1>2, <2>1 DEF ReadOldRow, IsUpdate, UpdateSteps, Done
  <2> QED BY <1>2, <2>2 DEF ReadOldRow
<1>3. ASSUME NEW u \in Updaters, UpdateRow(u) PROVE AlertsTypeInv'
  <2> DEFINE new == Patch(row, updates[u].write)
  <2>1. IsUpdate(updates[u]) /\ holder = {}
    BY <1>3 DEF UpdateRow, UpdateSteps
  <2>2. new \in Row
    BY <2>1, PatchType DEF IsUpdate
  <2>3. ~updates[u].write.seen => new.status = updates[u].write.status
    BY <2>1, PatchType DEF IsUpdate, IsWrite, Unchanged
  <2> HIDE DEF new
  <2>4. /\ updates' = [updates EXCEPT ![u].new = new, ![u].step = "alerts"]
        /\ IF updates[u].write.tx THEN holder' = {u} /\ UNCHANGED row ELSE row' = new /\ UNCHANGED holder
    BY <1>3 DEF UpdateRow, new
  <2>5. /\ IsUpdate(updates'[u]) /\ updates'[u].step = "alerts"
        /\ updates'[u].write = updates[u].write
    BY <2>1, <2>2, <2>3, <2>4 DEF IsUpdate, UpdateSteps, Done
  <2> QED BY <1>3, <2>1, <2>2, <2>4, <2>5 DEF UpdateRow
<1>4. ASSUME NEW u \in Updaters, ManageAlerts(u) PROVE AlertsTypeInv'
  <2>1. IsUpdate(updates[u])
    BY <1>4 DEF ManageAlerts, UpdateSteps
  <2>2. /\ IsUpdate(updates'[u]) /\ updates'[u].step = "deduct"
        /\ updates'[u].write = updates[u].write
    BY <1>4, <2>1 DEF ManageAlerts, IsUpdate, UpdateSteps, Done
  <2>3. shown' \subseteq 1..7
    BY <1>4, <2>1 DEF ManageAlerts, ShownAfter, IsUpdate, Row, Closed
  <2> QED BY <1>4, <2>2, <2>3 DEF ManageAlerts
<1>5. ASSUME NEW u \in Updaters, DeductFee(u) PROVE AlertsTypeInv'
  <2>1. IsUpdate(updates[u])
    BY <1>5 DEF DeductFee, UpdateSteps
  <2>2. wallet' \in Int
    BY <1>5, <2>1, BudgetsAssumption DEF DeductFee, Deduction, IsUpdate, Row
  <2>3. CASE updates[u].write.tx
    <3>1. IsUpdate(updates'[u]) /\ updates'[u].step = "commit"
      BY <1>5, <2>1, <2>3 DEF DeductFee, IsUpdate, UpdateSteps, Done
    <3> QED BY <1>5, <2>2, <2>3, <3>1 DEF DeductFee
  <2>4. CASE ~updates[u].write.tx
    <3>1. updates'[u] = NoUpdate
      BY <1>5, <2>4 DEF DeductFee
    <3> QED BY <1>5, <2>2, <2>4, <3>1 DEF DeductFee, UpdateSteps
  <2> QED BY <2>3, <2>4
<1>6. ASSUME NEW u \in Updaters, Commit(u) PROVE AlertsTypeInv'
  <2>1. IsUpdate(updates[u]) /\ u \in holder
    BY <1>6 DEF Commit, UpdateSteps
  <2>2. row' \in Row /\ holder' = {}
    BY <1>6, <2>1 DEF Commit, IsUpdate
  <2>3. \/ updates'[u] = NoUpdate
        \/ IsUpdate(updates'[u]) /\ updates'[u].step = "note"
    BY <1>6, <2>1 DEF Commit, IsUpdate, IsWrite, UpdateSteps, Done
  <2>4. \A v \in Updaters \ {u} : updates'[v] = updates[v] /\ v \notin holder
    BY <1>6, <2>1 DEF Commit
  <2> QED BY <1>6, <2>2, <2>3, <2>4 DEF Commit, UpdateSteps
<1>7. ASSUME NEW u \in Updaters, Rollback(u) PROVE AlertsTypeInv'
  <2>1. u \in holder /\ holder' = {} /\ updates'[u] = NoUpdate
    BY <1>7 DEF Rollback, UpdateSteps
  <2>2. \A v \in Updaters \ {u} : updates'[v] = updates[v] /\ v \notin holder
    BY <1>7, <2>1 DEF Rollback
  <2> QED BY <1>7, <2>1, <2>2 DEF Rollback, UpdateSteps
<1>8. ASSUME NEW u \in Updaters, CreateAlert(u) PROVE AlertsTypeInv'
  <2>1. IsUpdate(updates[u]) /\ updates[u].step = "note"
    BY <1>8 DEF CreateAlert, UpdateSteps
  <2>2. updates[u].write.note \subseteq 1..7
    BY <2>1 DEF IsUpdate, IsWrite
  <2>3. shown' \subseteq 1..7
    BY <1>8, <2>2 DEF CreateAlert
  <2>4. updates'[u] = NoUpdate /\ u \notin holder
    BY <1>8, <2>1 DEF CreateAlert
  <2> QED BY <1>8, <2>3, <2>4 DEF CreateAlert, UpdateSteps
<1>9. CASE AlertsCrash
  BY <1>9 DEF AlertsCrash, UpdateSteps
<1>10. CASE UNCHANGED alertsVars
  BY <1>10 DEF alertsVars
<1> QED
  BY <1>1, <1>2, <1>3, <1>4, <1>5, <1>6, <1>7, <1>8, <1>9, <1>10 DEF AlertsNext

--------------------------------------------------------------------------------
\* Once a request is closed, or a transaction that closes it holds its row, its alerts
\* are gone or some call is about to delete them.
Sweeper(u) == At(u, "alerts") /\ updates[u].write.seen /\ updates[u].new.status \in Closed
QuietInv ==
    mishaps \cap {"noteAfterClose", "crash"} = {} /\ Closing =>
        shown = {} \/ \E u \in Updaters : Sweeper(u)

\* The close that finds alerts left is the step that is about to delete them.
LEMMA QuietStep == AlertsTypeInv /\ QuietInv /\ [AlertsNext]_alertsVars => QuietInv'
<1> SUFFICES ASSUME AlertsTypeInv, QuietInv, [AlertsNext]_alertsVars,
                    (mishaps \cap {"noteAfterClose", "crash"} = {})', Closing'
             PROVE  shown' = {} \/ \E u \in Updaters : Sweeper(u)'
  BY DEF QuietInv
<1> DEFINE Goal == shown' = {} \/ \E u \in Updaters : Sweeper(u)'
<1> USE NoneIsNone
<1>0. mishaps \cap {"noteAfterClose", "crash"} = {}
  BY DEF AlertsNext, alertsVars, BeginUpdate, ReadOldRow, UpdateRow, ManageAlerts, DeductFee, Commit,
         Rollback, CreateAlert, AlertsCrash
<1>1. ASSUME Closing, shown' = shown, NEW u \in Updaters, ~Sweeper(u),
             \A v \in Updaters \ {u} : updates'[v] = updates[v]
      PROVE  Goal
  BY <1>0, <1>1 DEF QuietInv, Sweeper, At
<1>2. ASSUME NEW u \in Updaters, BeginUpdate(u) PROVE Goal
  <2>1. ~Sweeper(u) /\ u \notin holder
    BY <1>2 DEF BeginUpdate, Sweeper, At, AlertsTypeInv, Holding, UpdateSteps
  <2>2. Closing
    BY <1>2, <2>1 DEF BeginUpdate, Closing, AlertsTypeInv
  <2> QED BY <1>1, <1>2, <2>1, <2>2 DEF BeginUpdate, AlertsTypeInv
<1>3. ASSUME NEW u \in Updaters, ReadOldRow(u) PROVE Goal
  <2>1. ~Sweeper(u) /\ u \notin holder
    BY <1>3 DEF ReadOldRow, Sweeper, At, AlertsTypeInv, Holding
  <2>2. Closing
    BY <1>3, <2>1 DEF ReadOldRow, Closing, AlertsTypeInv
  <2> QED BY <1>1, <1>3, <2>1, <2>2 DEF ReadOldRow, AlertsTypeInv
<1>4. ASSUME NEW u \in Updaters, UpdateRow(u) PROVE Goal
  <2> DEFINE new == Patch(row, updates[u].write)
  <2>1. IsUpdate(updates[u]) /\ ~Sweeper(u)
    BY <1>4 DEF UpdateRow, AlertsTypeInv, At, Sweeper, UpdateSteps
  <2>2. ~updates[u].write.seen => new.status \notin Closed
    BY <2>1, PatchType DEF IsUpdate, IsWrite, Unchanged, Closed, AlertsTypeInv
  <2> HIDE DEF new
  <2>3. /\ updates' = [updates EXCEPT ![u].new = new, ![u].step = "alerts"]
        /\ shown' = shown
        /\ IF updates[u].write.tx THEN holder' = {u} /\ row' = row ELSE row' = new /\ holder' = {}
    BY <1>4 DEF UpdateRow, new
  <2>4. /\ updates'[u].step = "alerts" /\ updates'[u].new = new
        /\ updates'[u].write = updates[u].write
        /\ \A v \in Updaters \ {u} : updates'[v] = updates[v]
    BY <2>1, <2>3 DEF AlertsTypeInv, IsUpdate
  <2>5. CASE new.status \in Closed
    BY <2>2, <2>4, <2>5 DEF Sweeper, At
  <2>6. CASE new.status \notin Closed
    <3>1. row.status \in Closed
      BY <2>3, <2>4, <2>6 DEF Closing
    <3> QED BY <1>1, <2>1, <2>3, <2>4, <3>1 DEF Closing
  <2> QED BY <2>5, <2>6
<1>5. ASSUME NEW u \in Updaters, ManageAlerts(u) PROVE Goal
  <2>1. /\ updates'[u].new = updates[u].new
        /\ \A v \in Updaters \ {u} : updates'[v] = updates[v]
    BY <1>5 DEF ManageAlerts, AlertsTypeInv, At, UpdateSteps, IsUpdate
  <2>2. Closing
    BY <1>5, <2>1 DEF ManageAlerts, Closing, AlertsTypeInv
  <2>3. CASE shown = {}
    BY <1>5, <2>3 DEF ManageAlerts, ShownAfter
  <2>4. CASE Sweeper(u)
    BY <1>5, <2>4 DEF ManageAlerts, ShownAfter, Sweeper
  <2>5. ASSUME NEW v \in Updaters \ {u}, Sweeper(v) PROVE Goal
    BY <2>1, <2>5 DEF Sweeper, At
  <2> QED BY <1>0, <2>2, <2>3, <2>4, <2>5 DEF QuietInv
<1>6. ASSUME NEW u \in Updaters, DeductFee(u) PROVE Goal
  <2>1. ~Sweeper(u) /\ \A v \in Updaters \ {u} : updates'[v] = updates[v]
    BY <1>6 DEF DeductFee, Sweeper, At, AlertsTypeInv
  <2>2. u \in holder => updates'[u].new = updates[u].new
    BY <1>6 DEF DeductFee, AlertsTypeInv, Holding, At, IsUpdate, UpdateSteps
  <2>3. Closing
    BY <1>6, <2>1, <2>2 DEF DeductFee, Closing, AlertsTypeInv
  <2> QED BY <1>1, <1>6, <2>1, <2>3 DEF DeductFee
<1>7. ASSUME NEW u \in Updaters, Commit(u) PROVE Goal
  <2>1. ~Sweeper(u) /\ u \in holder /\ \A v \in Updaters \ {u} : updates'[v] = updates[v]
    BY <1>7 DEF Commit, Sweeper, At, AlertsTypeInv, Holding
  <2>2. Closing
    BY <1>7, <2>1 DEF Commit, Closing
  <2> QED BY <1>1, <1>7, <2>1, <2>2 DEF Commit
<1>8. ASSUME NEW u \in Updaters, Rollback(u) PROVE Goal
  <2>1. ~Sweeper(u) /\ \A v \in Updaters \ {u} : updates'[v] = updates[v]
    BY <1>8 DEF Rollback, Sweeper, At, AlertsTypeInv
  <2>2. Closing
    BY <1>8 DEF Rollback, Closing
  <2> QED BY <1>1, <1>8, <2>1, <2>2 DEF Rollback
<1>9. ASSUME NEW u \in Updaters, CreateAlert(u) PROVE Goal
  <2>1. u \notin holder
    BY <1>9 DEF CreateAlert, At, AlertsTypeInv, Holding
  <2>2. Closing
    BY <1>9, <2>1 DEF CreateAlert, Closing, AlertsTypeInv
  <2> QED BY <1>9, <2>2 DEF CreateAlert
<1>10. CASE AlertsCrash
  BY <1>10 DEF AlertsCrash
<1>11. CASE UNCHANGED alertsVars
  BY <1>0, <1>11 DEF alertsVars, QuietInv, Sweeper, At, Closing
<1> QED
  BY <1>2, <1>3, <1>4, <1>5, <1>6, <1>7, <1>8, <1>9, <1>10, <1>11 DEF AlertsNext

--------------------------------------------------------------------------------
\* The alerts m ask for the step s, but for what the sweep has left of a first review.
Asks(m, s) == m \ {s} \subseteq IF "swept" \in mishaps /\ s = 3 THEN {2} ELSE {}

\* What is true of a lone update x, step by step.
LoneUpdate(x) ==
    /\ x.step \in {"readOld", "update"} =>
          /\ Asks(shown, row.status)
          /\ ~x.write.seen => row.status \in {2, x.write.status}
    /\ x.step = "update" => x.old = row
    /\ Done(x) /\ ~x.write.seen =>
          "swept" \in mishaps /\ x.old.status \in {2, x.new.status} /\ Asks(shown, x.old.status)
    /\ x.step = "alerts" => Asks(shown, x.old.status)
    /\ x.step \in {"deduct", "commit"} /\ x.write.seen => Asks(shown, x.new.status)
    /\ x.step \in {"alerts", "deduct"} /\ ~x.write.tx => row = x.new
    /\ x.step = "note" => row = x.new

LoneInv ==
    mishaps \subseteq {"swept"} =>
        /\ \A u, v \in InFlight : u = v
        /\ InFlight = {} => Asks(shown, row.status)
        /\ \A u \in InFlight : LoneUpdate(updates[u])

\* While requests are updated one at a time, what an update read stays true.
LEMMA LoneStep == AlertsTypeInv /\ LoneInv /\ [AlertsNext]_alertsVars => LoneInv'
<1> SUFFICES ASSUME AlertsTypeInv, LoneInv, [AlertsNext]_alertsVars, mishaps' \subseteq {"swept"}
             PROVE  LoneInv'
  BY DEF LoneInv
<1> USE NoneIsNone
<1>0. mishaps \subseteq {"swept"} /\ mishaps \subseteq mishaps'
  BY DEF AlertsNext, alertsVars, BeginUpdate, ReadOldRow, UpdateRow, ManageAlerts, DeductFee, Commit,
         Rollback, CreateAlert, AlertsCrash
<1>1. ASSUME NEW u \in Updaters, u \in InFlight, DOMAIN updates' = Updaters,
             \A v \in Updaters \ {u} : updates'[v] = updates[v],
             updates'[u] = NoUpdate => Asks(shown, row.status)',
             updates'[u] # NoUpdate => LoneUpdate(updates[u])'
      PROVE  LoneInv'
  <2>1. InFlight = {u}
    BY <1>0, <1>1 DEF LoneInv, InFlight
  <2>2. InFlight' = IF updates'[u] = NoUpdate THEN {} ELSE {u}
    BY <1>1, <2>1 DEF InFlight
  <2> QED BY <1>1, <2>2 DEF LoneInv
<1>2. ASSUME NEW u \in Updaters, updates[u].step \in UpdateSteps
      PROVE  u \in InFlight /\ IsUpdate(updates[u]) /\ LoneUpdate(updates[u])
  BY <1>0, <1>2 DEF AlertsTypeInv, LoneInv, InFlight
<1>3. ASSUME NEW u \in Updaters, BeginUpdate(u) PROVE LoneInv'
  <2>1. InFlight = {} /\ Asks(shown, row.status)
    BY <1>0, <1>3 DEF BeginUpdate, LoneInv
  <2>2. PICK w \in UpdatesAt(row.status) :
          updates' = [updates EXCEPT ![u] = [step |-> "readOld", write |-> w, old |-> row, new |-> row]]
    BY <1>3 DEF BeginUpdate
  <2>3. ~w.seen => row.status \in {2, w.status}
    BY <2>2, WritesAreWrites DEF AlertsTypeInv, Row
  <2>4. updates'[u].step = "readOld" /\ updates'[u].write = w
    BY <2>2 DEF AlertsTypeInv
  <2>5. InFlight' = {u}
    BY <2>1, <2>2, <2>4 DEF InFlight, AlertsTypeInv, UpdateSteps
  <2>6. LoneUpdate(updates[u])'
    BY <1>3, <2>1, <2>3, <2>4 DEF BeginUpdate, LoneUpdate, Asks, Done
  <2> QED BY <2>5, <2>6 DEF LoneInv
<1>4. ASSUME NEW u \in Updaters, ReadOldRow(u) PROVE LoneInv'
  <2>1. updates[u].step = "readOld"
    BY <1>4 DEF ReadOldRow, At
  <2>2. /\ updates'[u].step = "update" /\ updates'[u].old = row
        /\ updates'[u].write = updates[u].write
    BY <1>2, <1>4, <2>1 DEF ReadOldRow, UpdateSteps, IsUpdate, AlertsTypeInv
  <2>3. LoneUpdate(updates[u])'
    BY <1>2, <1>4, <2>1, <2>2 DEF ReadOldRow, LoneUpdate, Asks, Done, UpdateSteps
  <2>4. updates'[u] # NoUpdate
    BY <2>2 DEF UpdateSteps
  <2> QED BY <1>1, <1>2, <1>4, <2>1, <2>3, <2>4 DEF ReadOldRow, AlertsTypeInv, UpdateSteps
<1>5. ASSUME NEW u \in Updaters, UpdateRow(u) PROVE LoneInv'
  <2> DEFINE new == Patch(row, updates[u].write)
  <2>1. updates[u].step = "update"
    BY <1>5 DEF UpdateRow, At
  <2>2. IsUpdate(updates[u]) /\ LoneUpdate(updates[u]) /\ u \in InFlight
    BY <1>2, <2>1 DEF UpdateSteps
  <2>3. ~updates[u].write.seen => new.status = updates[u].write.status
    BY <2>2, PatchType DEF IsUpdate, IsWrite, Unchanged, AlertsTypeInv
  <2> HIDE DEF new
  <2>4. /\ updates' = [updates EXCEPT ![u].new = new, ![u].step = "alerts"]
        /\ shown' = shown
        /\ ~updates[u].write.tx => row' = new
        /\ ~updates[u].write.seen => "swept" \in mishaps'
    BY <1>5 DEF UpdateRow, new
  <2>5. /\ updates'[u].step = "alerts" /\ updates'[u].new = new
        /\ updates'[u].write = updates[u].write /\ updates'[u].old = row
        /\ \A v \in Updaters \ {u} : updates'[v] = updates[v]
        /\ DOMAIN updates' = Updaters
    BY <2>1, <2>2, <2>4 DEF AlertsTypeInv, IsUpdate, LoneUpdate
  <2>6. Asks(shown, row.status)
    BY <2>1, <2>2 DEF LoneUpdate
  <2>7. LoneUpdate(updates[u])'
    BY <1>0, <2>1, <2>2, <2>3, <2>4, <2>5, <2>6 DEF LoneUpdate, Asks, Done
  <2>8. updates'[u] # NoUpdate
    BY <2>5 DEF UpdateSteps
  <2> QED BY <1>1, <2>2, <2>5, <2>7, <2>8
<1>6. ASSUME NEW u \in Updaters, ManageAlerts(u) PROVE LoneInv'
  <2>1. updates[u].step = "alerts"
    BY <1>6 DEF ManageAlerts, At
  <2>2. IsUpdate(updates[u]) /\ LoneUpdate(updates[u]) /\ u \in InFlight
    BY <1>2, <2>1 DEF UpdateSteps
  <2>3. /\ updates'[u].step = "deduct" /\ updates'[u].new = updates[u].new
        /\ updates'[u].write = updates[u].write /\ updates'[u].old = updates[u].old
        /\ \A v \in Updaters \ {u} : updates'[v] = updates[v]
        /\ DOMAIN updates' = Updaters
        /\ row' = row /\ mishaps' = mishaps
    BY <1>6, <2>2 DEF ManageAlerts, AlertsTypeInv, IsUpdate
  <2>4. Asks(shown, updates[u].old.status)
    BY <2>1, <2>2 DEF LoneUpdate
  <2>5. CASE updates[u].write.seen
    <3>1. Asks(shown', updates[u].new.status)
      BY <1>6, <2>4, <2>5 DEF ManageAlerts, ShownAfter, Asks
    <3> QED BY <1>1, <2>1, <2>2, <2>3, <2>5, <3>1 DEF LoneUpdate, Asks, Done, UpdateSteps
  <2>6. CASE ~updates[u].write.seen
    <3>1. shown' = shown
      BY <1>6, <2>6 DEF ManageAlerts
    <3>2. LoneUpdate(updates[u])'
      BY <2>1, <2>2, <2>3, <2>6, <3>1 DEF LoneUpdate, Asks, Done
    <3> QED BY <1>1, <2>2, <2>3, <3>2 DEF UpdateSteps
  <2> QED BY <2>5, <2>6
<1>7. ASSUME NEW u \in Updaters, DeductFee(u) PROVE LoneInv'
  <2>1. updates[u].step = "deduct"
    BY <1>7 DEF DeductFee, At
  <2>2. IsUpdate(updates[u]) /\ LoneUpdate(updates[u]) /\ u \in InFlight
    BY <1>2, <2>1 DEF UpdateSteps
  <2>3. CASE updates[u].write.tx
    <3>1. /\ updates'[u].step = "commit" /\ updates'[u].new = updates[u].new
          /\ updates'[u].write = updates[u].write /\ updates'[u].old = updates[u].old
          /\ \A v \in Updaters \ {u} : updates'[v] = updates[v]
          /\ DOMAIN updates' = Updaters
          /\ row' = row /\ mishaps' = mishaps /\ shown' = shown
      BY <1>7, <2>2, <2>3 DEF DeductFee, AlertsTypeInv, IsUpdate
    <3>2. LoneUpdate(updates[u])'
      BY <2>1, <2>2, <3>1 DEF LoneUpdate, Asks, Done
    <3> QED BY <1>1, <2>2, <3>1, <3>2 DEF UpdateSteps
  <2>4. CASE ~updates[u].write.tx
    <3>1. updates[u].write.seen
      BY <2>2, <2>4 DEF IsUpdate, IsWrite
    <3>2. Asks(shown, row.status)
      BY <2>1, <2>2, <2>4, <3>1 DEF LoneUpdate
    <3> QED BY <1>1, <1>7, <2>2, <2>4, <3>2 DEF DeductFee, Asks, AlertsTypeInv
  <2> QED BY <2>3, <2>4
<1>8. ASSUME NEW u \in Updaters, Commit(u) PROVE LoneInv'
  <2>1. updates[u].step = "commit"
    BY <1>8 DEF Commit, At
  <2>2. IsUpdate(updates[u]) /\ LoneUpdate(updates[u]) /\ u \in InFlight
    BY <1>2, <2>1 DEF UpdateSteps
  <2>3. CASE updates[u].write.note = {}
    <3>1. updates[u].write.seen
      BY <2>2, <2>3 DEF IsUpdate, IsWrite
    <3>2. Asks(shown, updates[u].new.status)
      BY <2>1, <2>2, <3>1 DEF LoneUpdate
    <3> QED BY <1>1, <1>8, <2>2, <2>3, <3>2 DEF Commit, Asks, AlertsTypeInv
  <2>4. CASE updates[u].write.note # {}
    <3>1. ~updates[u].write.seen
      BY <2>2, <2>4 DEF IsUpdate, IsWrite
    <3>2. /\ updates'[u].step = "note" /\ updates'[u].new = updates[u].new
          /\ updates'[u].write = updates[u].write /\ updates'[u].old = updates[u].old
          /\ \A v \in Updaters \ {u} : updates'[v] = updates[v]
          /\ DOMAIN updates' = Updaters
          /\ row' = updates[u].new /\ mishaps' = mishaps /\ shown' = shown
      BY <1>8, <2>2, <2>4 DEF Commit, AlertsTypeInv, IsUpdate
    <3>3. LoneUpdate(updates[u])'
      BY <2>1, <2>2, <3>1, <3>2 DEF LoneUpdate, Asks, Done
    <3> QED BY <1>1, <2>2, <3>2, <3>3 DEF UpdateSteps
  <2> QED BY <2>3, <2>4
<1>9. ASSUME NEW u \in Updaters, Rollback(u) PROVE LoneInv'
  BY <1>9 DEF Rollback
<1>10. ASSUME NEW u \in Updaters, CreateAlert(u) PROVE LoneInv'
  <2>1. updates[u].step = "note"
    BY <1>10 DEF CreateAlert, At
  <2>2. IsUpdate(updates[u]) /\ LoneUpdate(updates[u]) /\ u \in InFlight
    BY <1>2, <2>1 DEF UpdateSteps
  <2>3. /\ "swept" \in mishaps /\ row = updates[u].new
        /\ updates[u].old.status \in {2, row.status} /\ Asks(shown, updates[u].old.status)
        /\ updates[u].write.note = {row.status} /\ row.status \in {2, 3}
    BY <2>1, <2>2 DEF LoneUpdate, IsUpdate, IsWrite, Done
  <2>4. Asks(shown, row.status)'
    BY <1>0, <1>10, <2>3 DEF CreateAlert, Asks
  <2> QED BY <1>1, <1>10, <2>2, <2>4 DEF CreateAlert, AlertsTypeInv
<1>11. CASE AlertsCrash
  BY <1>11 DEF AlertsCrash
<1>12. CASE UNCHANGED alertsVars
  BY <1>0, <1>12 DEF alertsVars, LoneInv, InFlight, LoneUpdate, Asks
<1> QED
  BY <1>3, <1>4, <1>5, <1>6, <1>7, <1>8, <1>9, <1>10, <1>11, <1>12 DEF AlertsNext

--------------------------------------------------------------------------------
\* What each call has yet to deduct, and the fee the request will have once the
\* transaction that holds its row commits.
Owes(u) == At(u, "alerts") \/ At(u, "deduct")
Pending == [u \in Updaters |-> IF Owes(u) /\ updates[u].write.seen
                               THEN updates[u].new.fee - updates[u].old.fee ELSE 0]
FeeToBe == IF holder = {} THEN row.fee ELSE updates[CHOOSE u \in holder : TRUE].new.fee

WalletInv ==
    mishaps \cap {"feeMoved", "rollback", "crash"} = {} =>
        \E s \in Int : AddsUp(Pending, Updaters, s) /\ wallet = s - FeeToBe

\* The amounts are integers, and the fee to be is the one of whoever holds the row.
PendingOK ==
    /\ \A u \in Updaters : Pending[u] \in Int
    /\ FeeToBe \in Int /\ row.fee \in Int
    /\ holder = {} => FeeToBe = row.fee
    /\ \A v \in holder : FeeToBe = updates[v].new.fee

\* The types of the amounts follow from those of the rows.
LEMMA PendingType == AlertsTypeInv => PendingOK
<1> SUFFICES ASSUME AlertsTypeInv PROVE PendingOK
  OBVIOUS
<1>1. \A r \in Row : r.fee \in Int
  <2>1. \A b \in Budgets \union {0} : b \in Int
    BY BudgetsAssumption
  <2>2. \A r \in Row : r.fee \in Budgets \union {0}
    BY DEF Row
  <2> QED BY <2>1, <2>2
<1>2. ASSUME NEW u \in Updaters, Owes(u) \/ u \in holder
      PROVE  updates[u].new.fee \in Int /\ updates[u].old.fee \in Int
  <2>1. updates[u].step \in UpdateSteps
    BY <1>2 DEF AlertsTypeInv, Holding, Owes, At, UpdateSteps
  <2>2. IsUpdate(updates[u])
    BY <2>1, NoneIsNone DEF AlertsTypeInv
  <2> QED BY <1>1, <2>2 DEF IsUpdate
<1>3. \A u \in Updaters : Pending[u] \in Int
  BY <1>2 DEF Pending
<1>4. row.fee \in Int /\ (holder = {} => FeeToBe = row.fee)
  BY <1>1 DEF AlertsTypeInv, FeeToBe
<1>5. ASSUME NEW v \in holder PROVE FeeToBe = updates[v].new.fee /\ FeeToBe \in Int
  <2>1. v \in Updaters /\ \A x \in holder : x = v
    BY DEF AlertsTypeInv
  <2>2. (CHOOSE x \in holder : TRUE) = v
    BY <2>1
  <2> QED BY <1>2, <2>1, <2>2 DEF FeeToBe
<1> QED BY <1>3, <1>4, <1>5 DEF PendingOK

\* A step that changes what one call owes by c, and the wallet and the fee to match.
LEMMA WalletMove ==
  ASSUME AlertsTypeInv, AlertsTypeInv', WalletInv, mishaps \cap {"feeMoved", "rollback", "crash"} = {},
         NEW u \in Updaters, \A v \in Updaters \ {u} : updates'[v] = updates[v],
         wallet' + FeeToBe' = wallet + FeeToBe + (Pending'[u] - Pending[u])
  PROVE  WalletInv'
<1>1. PICK s \in Int : AddsUp(Pending, Updaters, s) /\ wallet = s - FeeToBe
  BY DEF WalletInv
<1>2. (\A v \in Updaters : Pending[v] \in Int) /\ FeeToBe \in Int
  BY PendingType DEF PendingOK
<1>3. (\A v \in Updaters : Pending'[v] \in Int) /\ FeeToBe' \in Int
  <2>1. PendingOK'
    BY PendingType, PTL
  <2> QED BY <2>1 DEF PendingOK
<1>4. \A v \in Updaters \ {u} : Pending'[v] = Pending[v]
  BY DEF Pending, Owes, At
<1> DEFINE c == Pending'[u] - Pending[u]
<1>5. AddsUp(Pending', Updaters, s + c)
  BY <1>1, <1>2, <1>3, <1>4, SummandChanges, UpdatersAssumption
<1>6. wallet' = (s + c) - FeeToBe' /\ s + c \in Int
  BY <1>1, <1>2, <1>3 DEF AlertsTypeInv
<1> HIDE DEF c
<1>7. \E t \in Int : AddsUp(Pending', Updaters, t) /\ wallet' = t - FeeToBe'
  BY <1>5, <1>6
<1> QED BY <1>7 DEF WalletInv, AddsUp

\* The fee the request is going to have stays when its row stays, and nobody who holds
\* it changes what it is about to commit.
LEMMA FeeStays ==
  ASSUME PendingOK, PendingOK', row' = row, holder' = holder,
         \A v \in holder : updates'[v].new = updates[v].new
  PROVE  FeeToBe' = FeeToBe
  BY DEF PendingOK

\* An update promises a deduction when it changes the fee, and keeps the promise when
\* it deducts: whatever other calls do in between, the wallet owes the sum of promises.
LEMMA WalletStep == AlertsTypeInv /\ AlertsTypeInv' /\ WalletInv /\ [AlertsNext]_alertsVars => WalletInv'
<1> SUFFICES ASSUME AlertsTypeInv, AlertsTypeInv', WalletInv, [AlertsNext]_alertsVars,
                    (mishaps \cap {"feeMoved", "rollback", "crash"} = {})'
             PROVE  WalletInv'
  BY DEF WalletInv
<1>0. mishaps \cap {"feeMoved", "rollback", "crash"} = {}
  BY DEF AlertsNext, alertsVars, BeginUpdate, ReadOldRow, UpdateRow, ManageAlerts, DeductFee, Commit,
         Rollback, CreateAlert, AlertsCrash
<1>1. PendingOK /\ PendingOK'
  BY PendingType, PTL
<1>2. wallet \in Int /\ DOMAIN updates = Updaters /\ holder \subseteq Updaters
  BY DEF AlertsTypeInv
<1>3. \A u \in Updaters : updates[u].step \in UpdateSteps => IsUpdate(updates[u])
  BY NoneIsNone DEF AlertsTypeInv
<1>4. \A u \in Updaters : ~Owes(u) => Pending[u] = 0
  BY DEF Pending
<1>5. \A u \in Updaters : ~Owes(u)' => Pending'[u] = 0
  BY DEF Pending
<1>6. ASSUME NEW u \in Updaters, BeginUpdate(u) PROVE WalletInv'
  <2>1. ~Owes(u) /\ u \notin holder
    BY <1>6, NoneIsNone DEF BeginUpdate, Owes, At, AlertsTypeInv, Holding, UpdateSteps
  <2>2. /\ updates'[u].step = "readOld" /\ \A v \in Updaters \ {u} : updates'[v] = updates[v]
        /\ row' = row /\ holder' = holder /\ wallet' = wallet
    BY <1>2, <1>6 DEF BeginUpdate
  <2>3. FeeToBe' = FeeToBe
    BY <1>1, <1>2, <2>1, <2>2, FeeStays
  <2>4. Pending[u] = 0 /\ Pending'[u] = 0
    BY <1>4, <1>5, <2>1, <2>2 DEF Owes, At
  <2> QED BY <1>0, <1>1, <1>2, <2>2, <2>3, <2>4, WalletMove DEF PendingOK
<1>7. ASSUME NEW u \in Updaters, ReadOldRow(u) PROVE WalletInv'
  <2>1. ~Owes(u) /\ u \notin holder /\ updates[u].step \in UpdateSteps
    BY <1>7 DEF ReadOldRow, Owes, At, AlertsTypeInv, Holding, UpdateSteps
  <2>2. /\ updates'[u].step = "update" /\ \A v \in Updaters \ {u} : updates'[v] = updates[v]
        /\ row' = row /\ holder' = holder /\ wallet' = wallet
    BY <1>2, <1>3, <1>7, <2>1 DEF ReadOldRow, IsUpdate
  <2>3. FeeToBe' = FeeToBe
    BY <1>1, <1>2, <2>1, <2>2, FeeStays
  <2>4. Pending[u] = 0 /\ Pending'[u] = 0
    BY <1>4, <1>5, <2>1, <2>2 DEF Owes, At
  <2> QED BY <1>0, <1>1, <1>2, <2>2, <2>3, <2>4, WalletMove DEF PendingOK
<1>8. ASSUME NEW u \in Updaters, UpdateRow(u) PROVE WalletInv'
  <2> DEFINE new == Patch(row, updates[u].write)
  <2>1. IsUpdate(updates[u]) /\ updates[u].step = "update" /\ holder = {}
    BY <1>3, <1>8 DEF UpdateRow, At, UpdateSteps
  <2>2. ~updates[u].write.seen => new.fee = row.fee
    BY <2>1, PatchType DEF IsUpdate, IsWrite, AlertsTypeInv
  <2> HIDE DEF new
  <2>3. /\ updates' = [updates EXCEPT ![u].new = new, ![u].step = "alerts"]
        /\ IF updates[u].write.tx THEN holder' = {u} ELSE row' = new /\ holder' = {}
        /\ wallet' = wallet /\ row.fee = updates[u].old.fee
    BY <1>8 DEF UpdateRow, new
  <2>4. /\ updates'[u].step = "alerts" /\ updates'[u].new = new
        /\ updates'[u].write = updates[u].write /\ updates'[u].old = updates[u].old
        /\ \A v \in Updaters \ {u} : updates'[v] = updates[v]
    BY <1>2, <2>1, <2>3 DEF IsUpdate
  <2>5. FeeToBe = row.fee /\ FeeToBe' = new.fee /\ FeeToBe' \in Int
    <3>1. CASE updates[u].write.tx
      <4>1. u \in holder'
        BY <2>3, <3>1
      <4> QED BY <1>1, <2>1, <2>4, <4>1 DEF PendingOK
    <3>2. CASE ~updates[u].write.tx
      BY <1>1, <2>1, <2>3, <3>2 DEF PendingOK
    <3> QED BY <3>1, <3>2
  <2>6. Pending[u] = 0
    BY <1>4, <2>1 DEF Owes, At
  <2>7. Pending'[u] = new.fee - row.fee
    <3>1. Pending'[u] = IF updates[u].write.seen THEN new.fee - row.fee ELSE 0
      BY <2>3, <2>4 DEF Pending, Owes, At
    <3>2. new.fee - new.fee = 0
      BY <2>5
    <3> QED BY <2>2, <3>1, <3>2
  <2>8. wallet' + FeeToBe' = wallet + FeeToBe + (Pending'[u] - Pending[u])
    BY <1>1, <1>2, <2>3, <2>5, <2>6, <2>7 DEF PendingOK
  <2> QED BY <1>0, <2>4, <2>8, WalletMove
<1>9. ASSUME NEW u \in Updaters, ManageAlerts(u) PROVE WalletInv'
  <2>1. IsUpdate(updates[u]) /\ updates[u].step = "alerts"
    BY <1>3, <1>9 DEF ManageAlerts, At, UpdateSteps
  <2>2. /\ updates'[u].step = "deduct" /\ updates'[u].new = updates[u].new
        /\ updates'[u].write = updates[u].write /\ updates'[u].old = updates[u].old
        /\ \A v \in Updaters \ {u} : updates'[v] = updates[v]
        /\ row' = row /\ holder' = holder /\ wallet' = wallet
    BY <1>2, <1>9, <2>1 DEF ManageAlerts, IsUpdate
  <2>3. FeeToBe' = FeeToBe
    BY <1>1, <1>2, <2>2, FeeStays
  <2>4. Pending'[u] = Pending[u]
    BY <2>1, <2>2 DEF Pending, Owes, At
  <2> QED BY <1>0, <1>1, <1>2, <2>2, <2>3, <2>4, WalletMove DEF PendingOK
<1>10. ASSUME NEW u \in Updaters, DeductFee(u) PROVE WalletInv'
  <2>1. IsUpdate(updates[u]) /\ updates[u].step = "deduct"
    BY <1>3, <1>10 DEF DeductFee, At, UpdateSteps
  <2>2. /\ u \in holder => updates[u].write.tx
        /\ \A v \in Updaters \ {u} : updates'[v] = updates[v]
        /\ row' = row /\ holder' = holder
    BY <1>2, <1>10, <2>1 DEF DeductFee, AlertsTypeInv, Holding, At
  <2>3. /\ ~Owes(u)'
        /\ updates[u].write.tx => updates'[u].new = updates[u].new
    <3>1. CASE updates[u].write.tx
      BY <1>2, <1>10, <2>1, <3>1 DEF DeductFee, IsUpdate, Owes, At
    <3>2. CASE ~updates[u].write.tx
      <4>1. updates'[u] = NoUpdate
        BY <1>2, <1>10, <3>2 DEF DeductFee
      <4> QED BY <3>2, <4>1, NoneIsNone DEF Owes, At, UpdateSteps
    <3> QED BY <3>1, <3>2
  <2>4. FeeToBe' = FeeToBe
    BY <1>1, <1>2, <2>2, <2>3, FeeStays
  <2>5. wallet' = wallet - Pending[u] /\ Pending'[u] = 0
    BY <1>2, <1>5, <1>10, <2>1, <2>3 DEF DeductFee, Deduction, Pending, Owes, At
  <2> QED BY <1>0, <1>1, <1>2, <2>2, <2>4, <2>5, WalletMove DEF PendingOK
<1>11. ASSUME NEW u \in Updaters, Commit(u) PROVE WalletInv'
  <2>1. IsUpdate(updates[u]) /\ updates[u].step = "commit" /\ u \in holder
    BY <1>3, <1>11 DEF Commit, At, UpdateSteps, AlertsTypeInv, Holding
  <2>2. /\ row' = updates[u].new /\ holder' = {} /\ wallet' = wallet
        /\ \A v \in Updaters \ {u} : updates'[v] = updates[v]
    BY <1>2, <1>11 DEF Commit
  <2>3. ~Owes(u) /\ ~Owes(u)'
    BY <1>2, <1>11, <2>1, NoneIsNone DEF Commit, Owes, At, IsUpdate, UpdateSteps
  <2>4. FeeToBe' = FeeToBe
    BY <1>1, <2>1, <2>2 DEF PendingOK
  <2> QED BY <1>0, <1>1, <1>2, <1>4, <1>5, <2>2, <2>3, <2>4, WalletMove DEF PendingOK
<1>12. ASSUME NEW u \in Updaters, Rollback(u) PROVE WalletInv'
  BY <1>12 DEF Rollback
<1>13. ASSUME NEW u \in Updaters, CreateAlert(u) PROVE WalletInv'
  <2>1. ~Owes(u) /\ u \notin holder
    BY <1>13 DEF CreateAlert, Owes, At, AlertsTypeInv, Holding
  <2>2. /\ updates'[u] = NoUpdate /\ \A v \in Updaters \ {u} : updates'[v] = updates[v]
        /\ row' = row /\ holder' = holder /\ wallet' = wallet
    BY <1>2, <1>13 DEF CreateAlert
  <2>3. FeeToBe' = FeeToBe
    BY <1>1, <1>2, <2>1, <2>2, FeeStays
  <2>4. Pending[u] = 0 /\ Pending'[u] = 0
    BY <1>4, <1>5, <2>1, <2>2, NoneIsNone DEF Owes, At, UpdateSteps
  <2> QED BY <1>0, <1>1, <1>2, <2>2, <2>3, <2>4, WalletMove DEF PendingOK
<1>14. CASE AlertsCrash
  BY <1>14 DEF AlertsCrash
<1>15. CASE UNCHANGED alertsVars
  <2>1. Pending' = Pending /\ FeeToBe' = FeeToBe
    BY <1>15 DEF alertsVars, Pending, FeeToBe, Owes, At
  <2> QED BY <1>0, <1>15, <2>1 DEF alertsVars, WalletInv, AddsUp
<1> QED
  BY <1>6, <1>7, <1>8, <1>9, <1>10, <1>11, <1>12, <1>13, <1>14, <1>15 DEF AlertsNext

--------------------------------------------------------------------------------
\* The inductive invariant.
AlertsInv == AlertsTypeInv /\ QuietInv /\ LoneInv /\ WalletInv

\* A new request owes nothing and shows the message of its status.
LEMMA AlertsInvAtFirst == AlertsInit => AlertsInv
<1> SUFFICES ASSUME AlertsInit PROVE AlertsInv
  OBVIOUS
<1>1. AlertsTypeInv /\ PendingOK
  BY AlertsTypeAtFirst, PendingType
<1>2. QuietInv
  BY DEF AlertsInit, QuietInv, Closing, Closed
<1>3. LoneInv
  BY NoneIsNone DEF AlertsInit, LoneInv, InFlight, Asks
<1>4. WalletInv
  <2>1. \A u \in Updaters : Pending[u] = 0
    BY NoneIsNone DEF AlertsInit, Pending, Owes, At, UpdateSteps
  <2>2. AddsUp(Pending, Updaters, 0)
    BY <2>1, ZerosAddUp, UpdatersAssumption
  <2>3. FeeToBe = 0 /\ wallet = 0
    BY <1>1 DEF AlertsInit, PendingOK
  <2> QED BY <2>2, <2>3 DEF WalletInv
<1> QED BY <1>1, <1>2, <1>3, <1>4 DEF AlertsInv

\* The invariant holds in every reachable state.
LEMMA AlertsInvHolds == AlertsSpec => []AlertsInv
<1>1. AlertsInv /\ [AlertsNext]_alertsVars => AlertsInv'
  BY AlertsTypeStep, QuietStep, LoneStep, WalletStep DEF AlertsInv
<1> QED BY <1>1, AlertsInvAtFirst, PTL DEF AlertsSpec

\* The rows, the wallet and the alerts have their types, and at most one transaction
\* holds the row.
THEOREM AlertsTyped == AlertsSpec => []AlertsTypeOK
<1>1. AlertsInv => AlertsTypeOK
  <2> SUFFICES ASSUME AlertsTypeInv PROVE AlertsTypeOK
    BY DEF AlertsInv
  <2>1. \A u \in InFlight : updates[u].old \in Row /\ updates[u].new \in Row
    BY DEF AlertsTypeInv, InFlight, IsUpdate
  <2>2. holder = {u \in Updaters : Holding(u)}
    BY DEF AlertsTypeInv
  <2>3. Cardinality(holder) <= 1
    <3>1. CASE holder = {}
      BY <3>1, FS_EmptySet
    <3>2. ASSUME NEW u \in holder PROVE Cardinality(holder) = 1
      <4>1. holder = {u}
        BY DEF AlertsTypeInv
      <4> QED BY <4>1, FS_Singleton
    <3> QED BY <3>1, <3>2
  <2> QED BY <2>1, <2>2, <2>3 DEF AlertsTypeOK, AlertsTypeInv, Holding
<1> QED BY <1>1, AlertsInvHolds, PTL

\* Trigger 3 leaves no alert on a closed request, however many updates overlap and
\* whichever roll back, without a crash or an alert of the sweep that comes too late.
THEOREM ClosedRequestsQuiet == AlertsSpec => []ClosedIsQuiet
<1>1. AlertsInv => ClosedIsQuiet
  BY NoneIsNone DEF AlertsInv, QuietInv, ClosedIsQuiet, Closing, Sweeper, InFlight, At, UpdateSteps
<1> QED BY <1>1, AlertsInvHolds, PTL

\* One update after another, the alerts of a request ask for the step it is in, but
\* for the alert of a first review that the sweep handed up.
THEOREM AlertsAsk == AlertsSpec => []AlertsAskForStatus
<1>1. AlertsInv => AlertsAskForStatus
  BY DEF AlertsInv, LoneInv, AlertsAskForStatus, Asks
<1> QED BY <1>1, AlertsInvHolds, PTL

\* Trigger 4 deducts in the end exactly the fee on the request, whatever updates run
\* between the read of the old row and the deduction, if the fee itself did not move.
THEOREM WalletPaysFee == AlertsSpec => []WalletPaidFee
<1>1. AlertsInv => WalletPaidFee
  <2> SUFFICES ASSUME AlertsInv, InFlight = {}, mishaps \cap {"feeMoved", "rollback", "crash"} = {}
               PROVE  wallet = -row.fee
    BY DEF WalletPaidFee
  <2>1. PendingOK
    BY PendingType DEF AlertsInv
  <2>2. \A u \in Updaters : updates[u] = NoUpdate
    BY DEF InFlight
  <2>3. holder = {} /\ \A u \in Updaters : Pending[u] = 0
    BY <2>2, NoneIsNone DEF AlertsInv, AlertsTypeInv, Holding, Pending, Owes, At, UpdateSteps
  <2>4. PICK s \in Int : AddsUp(Pending, Updaters, s) /\ wallet = s - FeeToBe
    BY DEF AlertsInv, WalletInv
  <2>5. s = 0
    BY <2>3, <2>4, ZerosOnly, UpdatersAssumption
  <2> QED BY <2>1, <2>3, <2>4, <2>5 DEF PendingOK
<1> QED BY <1>1, AlertsInvHolds, PTL

--------------------------------------------------------------------------------
(* The exports. *)

\* The sequence of a finite set has all its elements, each once.
LEMMA SeqOfSet ==
  ASSUME NEW S, IsFiniteSet(S)
  PROVE  LET s == SetToSeq(S)
         IN  /\ s \in Seq(S)
             /\ \A x \in S : \E i \in 1..Len(s) : s[i] = x
             /\ \A i, j \in 1..Len(s) : s[i] = s[j] => i = j
<1> DEFINE n == Cardinality(S)
           s == SetToSeq(S)
<1>1. n \in Nat /\ ExistsBijection(1..n, S)
  BY FS_CardinalityType
<1>2. PICK g : g \in Bijection(1..n, S)
  BY <1>1 DEF ExistsBijection
<1>3. g \in Injection(1..n, S)
  BY <1>2, Fun_BijectionProperties
<1>4. g \in [1..n -> S] /\ IsInjective(g)
  BY <1>3, Fun_InjectionProperties DEF IsInjective, Injection
<1>5. s \in [1..n -> S] /\ IsInjective(s)
  BY <1>4 DEF SetToSeq
<1>6. s \in Injection(1..n, S)
  BY <1>5 DEF Injection
<1>7. IsFiniteSet(1..n) /\ Cardinality(1..n) = n
  BY <1>1, FS_Interval
<1>8. s \in Surjection(1..n, S)
  BY <1>6, <1>7, FS_Injection
<1>9. s \in Seq(S) /\ Len(s) = n
  BY <1>1, <1>5
<1> HIDE DEF s, n
<1>10. \A x \in S : \E i \in 1..n : s[i] = x
  BY <1>8 DEF Surjection
<1>11. \A i, j \in 1..n : s[i] = s[j] => i = j
  BY <1>5 DEF IsInjective
<1> QED BY <1>9, <1>10, <1>11 DEF s

\* A trip without receipts, whose advance alone is written, balances.
LEMMA NothingBalances == Debits({}) = 0 /\ Credits({}) = 0
<1>1. Debits({}) = 0
  BY DEF Debits, MapThenSumSet, MapThenFoldSet
<1>2. Credits({}) = 0
  BY DEF Credits, MapThenSumSet, MapThenFoldSet
<1> QED BY <1>1, <1>2

\* What could be built is balanced: buildComprobacionPoliza throws otherwise.
LEMMA BuildsBalances ==
  ASSUME NEW S, Builds(S)
  PROVE  Debits(S) = Credits(S)
<1>1. S = {} \/ Balanced(S)
  BY DEF Builds, MapThenSumSet, MapThenFoldSet
<1> QED BY <1>1, NothingBalances DEF Balanced

\* Sums depend on nothing that changes: a CFDI keeps its amounts.
LEMMA SameSums ==
  ASSUME invoice' = invoice, NEW S
  PROVE  Debits(S)' = Debits(S) /\ Credits(S)' = Credits(S)
<1>1. Debits(S)' = Debits(S)
  BY DEF Debits, Cost, MapThenSumSet, MapThenFoldSet
<1>2. Credits(S)' = Credits(S)
  BY DEF Credits, MapThenSumSet, MapThenFoldSet
<1> QED BY <1>1, <1>2

--------------------------------------------------------------------------------
Entry == [trip : Trips, receipts : SUBSET Receipts, marked : BOOLEAN, on : Days]
IsCall(c) ==
    /\ c.mode \in {"export", "preview"} /\ c.trips \subseteq Trips /\ c.on \in Days
    /\ c = [mode |-> c.mode, trips |-> c.trips, approved |-> c.approved, on |-> c.on]
    /\ \A t \in c.trips : c.approved[t] \subseteq ReceiptsOf(t)

LedgerInv ==
    /\ ledger \in Seq(Entry)
    /\ \A i \in 1..Len(ledger) : ledger[i].receipts \subseteq ReceiptsOf(ledger[i].trip)

ExportTypeInv ==
    /\ invoice \in Invoices
    /\ verdict \in [Receipts -> {"pending", "approved", "rejected"}]
    /\ approvedOn \in [Receipts -> Days \union {0}]
    /\ \A x \in Receipts : approvedOn[x] # 0 <=> verdict[x] = "approved"
    /\ today \in Days
    /\ finished \subseteq Trips
    /\ exported \subseteq Trips
    /\ LedgerInv
    /\ DOMAIN reads = Exporters
    /\ \A e \in Exporters : reads[e] = NoExport \/ IsCall(reads[e])
    /\ retold \in BOOLEAN

\* A call in flight is told from an absent one by its type.
LEMMA CallIsNone == ~IsCall(NoExport)
  BY DEF IsCall, NoExport

\* What a call reads when it begins is a call of the right shape.
LEMMA ReadIsCall ==
  ASSUME NEW T \in SUBSET Trips, NEW m \in {"export", "preview"}, ExportTypeInv
  PROVE  IsCall(ReadNow(m, T))
  BY DEF IsCall, ReadNow, ExportTypeInv, ApprovedOf, ReceiptsOf

\* The trips a call has something to write about.
Full(call) == {t \in call.trips : call.approved[t] # {} \/ t \in Advanced}

\* What a call writes about a trip is an entry, with these fields.
LEMMA EntryType ==
  ASSUME NEW c, IsCall(c), NEW t \in c.trips
  PROVE  EntryOf(c, t) \in Entry
<1> DEFINE m == c.mode = "export"
<1>1. m \in BOOLEAN
  OBVIOUS
<1> HIDE DEF m
<1>2. [trip |-> t, receipts |-> c.approved[t], marked |-> m, on |-> c.on] \in Entry
  BY <1>1 DEF Entry, IsCall, ReceiptsOf
<1> QED BY <1>2 DEF EntryOf, m

\* The trip, receipts, day and mark of the entry that a call writes about a trip.
LEMMA EntryFields ==
  ASSUME NEW c, NEW t
  PROVE  /\ EntryOf(c, t).trip = t
         /\ EntryOf(c, t).receipts = c.approved[t]
         /\ EntryOf(c, t).on = c.on
         /\ EntryOf(c, t).marked <=> c.mode = "export"
<1>1. EntryOf(c, t).marked = (c.mode = "export")
  BY Zenon DEF EntryOf
<1> QED BY <1>1 DEF EntryOf

\* A write keeps the ledger and adds one entry per trip that has something to book.
LEMMA WriteAppends ==
  ASSUME ExportTypeInv, NEW e \in Exporters, WriteExport(e)
  PROVE  LET call == reads[e]
         IN  /\ IsCall(call)
             /\ ledger' \in Seq(Entry) /\ Len(ledger) <= Len(ledger')
             /\ \A i \in 1..Len(ledger) : ledger'[i] = ledger[i]
             /\ \A i \in (Len(ledger) + 1)..Len(ledger') : \E t \in Full(call) : ledger'[i] = EntryOf(call, t)
             /\ \A t \in Full(call) : \E i \in (Len(ledger) + 1)..Len(ledger') : ledger'[i] = EntryOf(call, t)
             /\ \A i, j \in (Len(ledger) + 1)..Len(ledger') : i # j => ledger'[i].trip # ledger'[j].trip
<1> DEFINE call == reads[e]
           S == {EntryOf(call, t) : t \in Full(call)}
           n == Len(ledger)
           s == SetToSeq(S)
<1>1. IsCall(call)
  BY DEF ExportTypeInv, WriteExport
<1>2. ledger' = ledger \o s
  BY DEF WriteExport, Full
<1>3. IsFiniteSet(Full(call))
  BY <1>1, TripsAssumption, FS_Subset DEF Full, IsCall
<1>4. IsFiniteSet(S)
  <2> DEFINE f == [t \in Full(call) |-> EntryOf(call, t)]
  <2>1. f \in Surjection(Full(call), S)
    BY Fun_IsSurj
  <2> QED BY <2>1, <1>3, FS_Surjection
<1>5. S \subseteq Entry
  BY <1>1, EntryType DEF Full
<1>6. /\ s \in Seq(S)
      /\ \A x \in S : \E i \in 1..Len(s) : s[i] = x
      /\ \A i, j \in 1..Len(s) : s[i] = s[j] => i = j
  BY <1>4, SeqOfSet
<1>7. ledger \in Seq(Entry) /\ n \in Nat
  BY LenProperties DEF ExportTypeInv, LedgerInv
<1> HIDE DEF s, n
<1>8. s \in Seq(Entry) /\ Len(s) \in Nat
  BY <1>5, <1>6, SeqMonotonic, LenProperties
<1>9. /\ ledger' \in Seq(Entry)
      /\ Len(ledger') = n + Len(s)
      /\ \A i \in 1..n + Len(s) : ledger'[i] = IF i <= n THEN ledger[i] ELSE s[i - n]
  BY <1>2, <1>7, <1>8, ConcatProperties DEF n
<1>10. \A i \in 1..n : ledger'[i] = ledger[i]
  BY <1>9, <1>7, <1>8
<1>11. \A i \in (n + 1)..Len(ledger') : i - n \in 1..Len(s) /\ ledger'[i] = s[i - n]
  BY <1>9, <1>7, <1>8
<1>12. \A j \in 1..Len(s) : j + n \in (n + 1)..Len(ledger') /\ ledger'[j + n] = s[j]
  BY <1>9, <1>7, <1>8
<1>13. \A i \in 1..Len(s) : s[i] \in S
  BY <1>6, ElementOfSeq
<1>14. \A i \in (n + 1)..Len(ledger') : \E t \in Full(call) : ledger'[i] = EntryOf(call, t)
  BY <1>11, <1>13
<1>15. \A t \in Full(call) : \E i \in (n + 1)..Len(ledger') : ledger'[i] = EntryOf(call, t)
  BY <1>12, <1>6
<1>16. ASSUME NEW i \in (n + 1)..Len(ledger'), NEW j \in (n + 1)..Len(ledger'), i # j
       PROVE  ledger'[i].trip # ledger'[j].trip
  <2>1. PICK t \in Full(call) : ledger'[i] = EntryOf(call, t)
    BY <1>14
  <2>2. PICK u \in Full(call) : ledger'[j] = EntryOf(call, u)
    BY <1>14
  <2>3. i - n \in 1..Len(s) /\ j - n \in 1..Len(s)
    BY <1>11
  <2>4. i - n # j - n
    <3>1. n \in Int /\ i \in Int /\ j \in Int
      BY <1>7, <1>8, <1>9
    <3> QED BY <3>1, <1>16
  <2>5. s[i - n] # s[j - n]
    BY <2>3, <2>4, <1>6
  <2>6. t # u
    BY <2>1, <2>2, <2>5, <1>11
  <2> QED BY <2>1, <2>2, <2>6, EntryFields
<1>17. ledger' \in Seq(Entry) /\ n <= Len(ledger')
  BY <1>7, <1>8, <1>9
<1> QED BY <1>1, <1>10, <1>14, <1>15, <1>16, <1>17 DEF n

\* What the nightly batch makes of the ledger.
LEMMA SweepKeeps ==
  ASSUME ExportTypeInv, MarkYesterdays
  PROVE  /\ ledger' \in Seq(Entry) /\ Len(ledger') = Len(ledger)
         /\ \A i \in 1..Len(ledger) :
              /\ ledger'[i].trip = ledger[i].trip
              /\ ledger'[i].receipts = ledger[i].receipts
              /\ ledger'[i].on = ledger[i].on
              /\ ledger[i].marked => ledger'[i].marked
         /\ retold'
<1>1. ledger \in Seq(Entry) /\ Len(ledger) \in Nat /\ DOMAIN ledger = 1..Len(ledger)
      /\ \A i \in 1..Len(ledger) : ledger[i] \in Entry
  BY LenProperties, ElementOfSeq DEF ExportTypeInv, LedgerInv
<1>2. ASSUME NEW w \in Entry PROVE [w EXCEPT !.marked = TRUE] \in Entry
  BY DEF Entry
<1>3. DOMAIN ledger' = 1..Len(ledger) /\ retold'
  BY <1>1 DEF MarkYesterdays
<1>4. ASSUME NEW i \in 1..Len(ledger)
      PROVE  ledger'[i] \in {ledger[i], [ledger[i] EXCEPT !.marked = TRUE]}
  BY <1>1 DEF MarkYesterdays
<1>5. ledger' \in [1..Len(ledger) -> Entry]
  <2>1. ledger' = [i \in 1..Len(ledger) |-> ledger'[i]]
    BY <1>1 DEF MarkYesterdays
  <2> QED BY <2>1, <1>1, <1>2, <1>4
<1>6. ledger' \in Seq(Entry) /\ Len(ledger') = Len(ledger)
  BY <1>1, <1>5
<1>7. ASSUME NEW i \in 1..Len(ledger)
      PROVE  /\ ledger'[i].trip = ledger[i].trip
             /\ ledger'[i].receipts = ledger[i].receipts
             /\ ledger'[i].on = ledger[i].on
             /\ ledger[i].marked => ledger'[i].marked
  BY <1>1, <1>4 DEF Entry
<1> QED BY <1>3, <1>6, <1>7

\* Only the trip of the receipt decided is finished or reopened.
LEMMA FinishedType ==
  ASSUME ExportTypeInv, NEW x \in Receipts, DecideReceipt(x)
  PROVE  finished' \subseteq Trips
  BY TripOfAssumption DEF ExportTypeInv, DecideReceipt

\* Every step keeps the types.
LEMMA ExportTypeStep ==
  ASSUME ExportTypeInv, [ExportNext]_exportVars
  PROVE  ExportTypeInv'
<1> USE DEF ExportTypeInv
<1>1. ASSUME NEW x \in Receipts, DecideReceipt(x) PROVE ExportTypeInv'
  <2>1. finished' \subseteq Trips
    BY <1>1, FinishedType
  <2>2. verdict' \in [Receipts -> {"pending", "approved", "rejected"}]
    BY <1>1 DEF DecideReceipt
  <2>3. /\ approvedOn' \in [Receipts -> Days \union {0}]
        /\ \A y \in Receipts : approvedOn'[y] # 0 <=> verdict'[y] = "approved"
    BY <1>1, LastDayAssumption DEF DecideReceipt, Days
  <2> QED BY <1>1, <2>1, <2>2, <2>3 DEF DecideReceipt, LedgerInv, IsCall, ReceiptsOf
<1>2. ASSUME NEW x \in Receipts, ResubmitReceipt(x) PROVE ExportTypeInv'
  BY <1>2 DEF ResubmitReceipt, LedgerInv, IsCall, ReceiptsOf
<1>3. ASSUME NEW t \in Trips, LockTrip(t) PROVE ExportTypeInv'
  BY <1>3 DEF LockTrip, LedgerInv, IsCall, ReceiptsOf
<1>4. ASSUME NextDay PROVE ExportTypeInv'
  BY <1>4 DEF NextDay, LedgerInv, IsCall, ReceiptsOf
<1>5. ASSUME MarkYesterdays PROVE ExportTypeInv'
  <2>1. LedgerInv'
    BY <1>5, SweepKeeps DEF LedgerInv, ReceiptsOf
  <2> QED BY <1>5, <2>1, SweepKeeps DEF MarkYesterdays, IsCall, ReceiptsOf
<1>6. ASSUME NEW e \in Exporters, ReadPeriod(e) PROVE ExportTypeInv'
  <2>1. PICK from \in Days, to \in Days, force \in BOOLEAN :
          reads' = [reads EXCEPT ![e] = ReadNow("export", InPeriod(from, to, force))]
    BY <1>6 DEF ReadPeriod
  <2>2. IsCall(reads'[e])
    BY <2>1, ReadIsCall DEF InPeriod
  <2> QED BY <1>6, <2>1, <2>2 DEF ReadPeriod, LedgerInv, IsCall, ReceiptsOf
<1>7. ASSUME NEW e \in Exporters, ReadTrip(e) PROVE ExportTypeInv'
  <2>1. PICK t \in finished, m \in {"export", "preview"} :
          reads' = [reads EXCEPT ![e] = ReadNow(m, {t})]
    BY <1>7 DEF ReadTrip
  <2>2. IsCall(reads'[e])
    BY <2>1, ReadIsCall
  <2>3. retold' \in BOOLEAN
    BY <1>7, Zenon DEF ReadTrip
  <2>4. UNCHANGED <<invoice, verdict, approvedOn, today, finished, exported, ledger>>
    BY <1>7 DEF ReadTrip
  <2>5. DOMAIN reads' = Exporters /\ \A d \in Exporters : reads'[d] = NoExport \/ IsCall(reads'[d])
    BY <2>1, <2>2
  <2>6. UNCHANGED LedgerInv
    BY <2>4 DEF LedgerInv, ReceiptsOf
  <2> QED BY <2>3, <2>4, <2>5, <2>6 DEF IsCall, ReceiptsOf
<1>8. ASSUME NEW e \in Exporters, FailExport(e) PROVE ExportTypeInv'
  BY <1>8 DEF FailExport, LedgerInv, IsCall, ReceiptsOf
<1>9. ASSUME NEW e \in Exporters, WriteExport(e) PROVE ExportTypeInv'
  <2>1. IsCall(reads[e])
    BY <1>9, WriteAppends
  <2>2. \A t \in Full(reads[e]) : EntryOf(reads[e], t).receipts \subseteq ReceiptsOf(EntryOf(reads[e], t).trip)
    BY <2>1 DEF Full, EntryOf, IsCall
  <2>3. LedgerInv'
    <3> SUFFICES ASSUME NEW i \in 1..Len(ledger')
                 PROVE  ledger'[i].receipts \subseteq ReceiptsOf(ledger'[i].trip)
      BY <1>9, WriteAppends DEF LedgerInv, ReceiptsOf
    <3>1. Len(ledger) \in Nat /\ Len(ledger') \in Nat
      BY <1>9, WriteAppends, LenProperties DEF LedgerInv
    <3> QED BY <1>9, <2>2, <3>1, WriteAppends DEF LedgerInv
  <2>4. exported' \subseteq Trips
    BY <1>9, <2>1 DEF WriteExport, Marked, IsCall
  <2> QED BY <1>9, <2>3, <2>4 DEF WriteExport, IsCall, ReceiptsOf
<1>10. CASE UNCHANGED exportVars
  BY <1>10 DEF exportVars, LedgerInv, IsCall, ReceiptsOf
<1> QED
  BY <1>1, <1>2, <1>3, <1>4, <1>5, <1>6, <1>7, <1>8, <1>9, <1>10 DEF ExportNext

--------------------------------------------------------------------------------
\* The amounts never change, so an entry that balanced when it was built still does.
LEMMA BooksStep ==
  ASSUME ExportTypeInv, BooksBalance, [ExportNext]_exportVars
  PROVE  BooksBalance'
<1>0. /\ Len(ledger) \in Nat /\ DOMAIN ledger = 1..Len(ledger)
      /\ Len(ledger)' \in Nat /\ DOMAIN ledger' = 1..Len(ledger)'
  BY ExportTypeStep, LenProperties DEF ExportTypeInv, LedgerInv
<1>1. invoice' = invoice
  BY DEF ExportNext, exportVars, DecideReceipt, ResubmitReceipt, LockTrip, NextDay, MarkYesterdays,
         ReadPeriod, ReadTrip, FailExport, WriteExport
<1>2. SUFFICES ASSUME NEW i \in 1..Len(ledger')
               PROVE  Debits(ledger'[i].receipts) = Credits(ledger'[i].receipts)
  <2> SUFFICES ASSUME NEW i \in 1..Len(ledger') PROVE (Debits(ledger[i].receipts) = Credits(ledger[i].receipts))'
    BY <1>0 DEF BooksBalance
  <2> QED BY <1>1, SameSums
<1>3. CASE ledger' = ledger
  BY <1>0, <1>3 DEF BooksBalance
<1>4. CASE MarkYesterdays
  BY <1>0, <1>4, SweepKeeps DEF BooksBalance
<1>5. ASSUME NEW e \in Exporters, WriteExport(e)
      PROVE  Debits(ledger'[i].receipts) = Credits(ledger'[i].receipts)
  <2>1. CASE i \in 1..Len(ledger)
    BY <1>0, <1>5, <2>1, WriteAppends DEF BooksBalance
  <2>2. CASE i \notin 1..Len(ledger)
    <3>1. PICK t \in Full(reads[e]) : ledger'[i] = EntryOf(reads[e], t)
      BY <1>0, <1>5, <2>2, WriteAppends
    <3>2. Builds(reads[e].approved[t])
      BY <1>5, <3>1 DEF WriteExport, Full
    <3> QED BY <3>1, <3>2, BuildsBalances DEF EntryOf
  <2> QED BY <2>1, <2>2
<1> QED
  BY <1>3, <1>4, <1>5 DEF ExportNext, exportVars, DecideReceipt, ResubmitReceipt, LockTrip, NextDay,
         ReadPeriod, ReadTrip, FailExport

--------------------------------------------------------------------------------
\* Nothing of the ledger is forgotten, and what each call adds is its own.
LEMMA LedgerDomain ==
  ASSUME ExportTypeInv, [ExportNext]_exportVars
  PROVE  /\ Len(ledger) \in Nat /\ DOMAIN ledger = 1..Len(ledger)
         /\ Len(ledger') \in Nat /\ DOMAIN ledger' = 1..Len(ledger')
         /\ \A i \in 1..Len(ledger) : ledger[i] \in Entry
BY ExportTypeStep, LenProperties, ElementOfSeq DEF ExportTypeInv, LedgerInv

\* A trip that becomes marked has an entry of the same transaction; the batch at night
\* takes no mark away.
LEMMA MarkedStep ==
  ASSUME ExportTypeInv, MarkedIsBooked, [ExportNext]_exportVars
  PROVE  MarkedIsBooked'
<1> USE LedgerDomain
<1>1. CASE ledger' = ledger /\ exported' = exported
  BY <1>1 DEF MarkedIsBooked, MarkedEntries
<1>2. CASE MarkYesterdays
  <2>1. exported' = exported
    BY <1>2 DEF MarkYesterdays
  <2> QED BY <1>2, <2>1, SweepKeeps DEF MarkedIsBooked, MarkedEntries
<1>3. ASSUME NEW e \in Exporters, WriteExport(e) PROVE MarkedIsBooked'
  <2> SUFFICES ASSUME NEW t \in exported' \cap Advanced
               PROVE  \E i \in 1..Len(ledger') : ledger'[i].marked /\ ledger'[i].trip = t
    BY DEF MarkedIsBooked, MarkedEntries
  <2>1. Len(ledger) <= Len(ledger') /\ \A i \in 1..Len(ledger) : ledger'[i] = ledger[i]
    BY <1>3, WriteAppends
  <2>2. CASE t \in exported
    <3>1. PICK i \in 1..Len(ledger) : ledger[i].marked /\ ledger[i].trip = t
      BY <2>2 DEF MarkedIsBooked, MarkedEntries
    <3> QED BY <2>1, <3>1
  <2>3. CASE t \notin exported
    <3>1. reads[e].mode = "export" /\ t \in Full(reads[e])
      BY <1>3, <2>3 DEF WriteExport, Marked, Full
    <3>2. PICK i \in (Len(ledger) + 1)..Len(ledger') : ledger'[i] = EntryOf(reads[e], t)
      BY <1>3, <3>1, WriteAppends
    <3>3. ledger'[i].marked /\ ledger'[i].trip = t
      BY <3>1, <3>2, EntryFields
    <3> QED BY <3>2, <3>3
  <2> QED BY <2>2, <2>3
<1> QED
  BY <1>1, <1>2, <1>3 DEF ExportNext, exportVars, DecideReceipt, ResubmitReceipt, LockTrip, NextDay,
         ReadPeriod, ReadTrip, FailExport

--------------------------------------------------------------------------------
\* While no export was forced, repeated or overlapped and no preview marked: an entry is
\* marked only with its trip, one per trip; at most one export is in flight, of trips
\* that are not marked.
OnceInv ==
    ~retold =>
        /\ \A i \in MarkedEntries : ledger[i].trip \in exported
        /\ \A i, j \in MarkedEntries : i # j => ledger[i].trip # ledger[j].trip
        /\ \A d, e \in Exporters : reads[d].mode = "export" /\ reads[e].mode = "export" => d = e
        /\ \A e \in Exporters : reads[e].mode = "export" => reads[e].trips \cap exported = {}

\* Every way out of that is noticed in retold.
LEMMA OnceStep ==
  ASSUME ExportTypeInv, OnceInv, [ExportNext]_exportVars
  PROVE  OnceInv'
<1> USE LedgerDomain
<1> SUFFICES ASSUME ~retold' PROVE OnceInv'
  BY DEF OnceInv
<1>0. NoExport.mode # "export"
  BY DEF NoExport
<1>1. CASE UNCHANGED <<ledger, exported, reads, retold>>
  BY <1>1 DEF OnceInv, MarkedEntries
<1>2. CASE MarkYesterdays
  BY <1>2 DEF MarkYesterdays
<1>3. ASSUME NEW e \in Exporters, ReadPeriod(e) PROVE OnceInv'
  <2>1. PICK from \in Days, to \in Days :
          /\ reads' = [reads EXCEPT ![e] = ReadNow("export", InPeriod(from, to, FALSE))]
          /\ ~retold /\ ~Exporting
    BY <1>3, Zenon DEF ReadPeriod
  <2>2. InPeriod(from, to, FALSE) \cap exported = {}
    BY DEF InPeriod
  <2>3. \A d \in Exporters : reads[d].mode # "export"
    BY <2>1 DEF Exporting
  <2>4. ledger' = ledger /\ exported' = exported
    BY <1>3 DEF ReadPeriod
  <2>5. \A d \in Exporters : reads'[d].mode = "export" => d = e /\ reads'[d].trips \cap exported = {}
    BY <2>1, <2>2, <2>3 DEF ReadNow, ExportTypeInv
  <2> QED BY <2>1, <2>4, <2>5 DEF OnceInv, MarkedEntries
<1>4. ASSUME NEW e \in Exporters, ReadTrip(e) PROVE OnceInv'
  <2>1. PICK t \in finished, m \in {"export", "preview"} :
          /\ reads' = [reads EXCEPT ![e] = ReadNow(m, {t})]
          /\ ~retold /\ (m = "export" => t \notin exported /\ ~Exporting)
    BY <1>4, Zenon DEF ReadTrip
  <2>2. ledger' = ledger /\ exported' = exported
    BY <1>4 DEF ReadTrip
  <2>3. CASE m = "preview"
    <3>1. \A d \in Exporters : reads'[d].mode = "export" => reads'[d] = reads[d]
      BY <2>1, <2>3 DEF ReadNow, ExportTypeInv
    <3> QED BY <2>1, <2>2, <3>1 DEF OnceInv, MarkedEntries
  <2>4. CASE m = "export"
    <3>1. \A d \in Exporters : reads'[d].mode = "export" => d = e /\ reads'[d].trips \cap exported = {}
      BY <2>1, <2>4 DEF ReadNow, ExportTypeInv, Exporting
    <3> QED BY <2>1, <2>2, <3>1 DEF OnceInv, MarkedEntries
  <2> QED BY <2>3, <2>4
<1>5. ASSUME NEW e \in Exporters, FailExport(e) PROVE OnceInv'
  <2>1. \A d \in Exporters : reads'[d].mode = "export" => reads'[d] = reads[d]
    BY <1>5, <1>0 DEF FailExport, ExportTypeInv
  <2> QED BY <1>5, <2>1 DEF FailExport, OnceInv, MarkedEntries
<1>6. ASSUME NEW e \in Exporters, WriteExport(e) PROVE OnceInv'
  <2> DEFINE call == reads[e]
             new == (Len(ledger) + 1)..Len(ledger')
  <2>1. /\ \A d \in Exporters : reads'[d].mode = "export" => reads'[d] = reads[d] /\ d # e
        /\ ~retold
    BY <1>6, <1>0 DEF WriteExport, ExportTypeInv
  <2>2. /\ Len(ledger) <= Len(ledger')
        /\ \A i \in 1..Len(ledger) : ledger'[i] = ledger[i]
        /\ \A i \in new : \E t \in call.trips : ledger'[i] = EntryOf(call, t)
        /\ \A i, j \in new : i # j => ledger'[i].trip # ledger'[j].trip
    BY <1>6, WriteAppends DEF Full
  <2>3. \A i \in 1..Len(ledger') : i \in 1..Len(ledger) \/ i \in new
    OBVIOUS
  <2>4. CASE call.mode = "export"
    <3>1. exported' = exported \union call.trips /\ call.trips \cap exported = {}
      BY <1>6, <2>1, <2>4 DEF WriteExport, Marked, OnceInv
    <3>2. \A d \in Exporters : reads'[d].mode # "export"
      BY <2>1, <2>4 DEF OnceInv
    <3>3. \A i \in new : ledger'[i].trip \in call.trips
      BY <2>2, EntryFields
    <3>4. \A i \in 1..Len(ledger) : ledger'[i].marked => ledger'[i].trip \in exported
      BY <2>1, <2>2 DEF OnceInv, MarkedEntries
    <3>5. \A i, j \in 1..Len(ledger) :
             i # j /\ ledger'[i].marked /\ ledger'[j].marked => ledger'[i].trip # ledger'[j].trip
      BY <2>1, <2>2 DEF OnceInv, MarkedEntries
    <3>6. \A i \in 1..Len(ledger') : ledger'[i].marked => ledger'[i].trip \in exported'
      BY <2>3, <3>1, <3>3, <3>4
    <3>7. \A i, j \in 1..Len(ledger') :
             i # j /\ ledger'[i].marked /\ ledger'[j].marked => ledger'[i].trip # ledger'[j].trip
      BY <2>2, <2>3, <3>1, <3>3, <3>4, <3>5
    <3> QED BY <3>2, <3>6, <3>7 DEF OnceInv, MarkedEntries
  <2>5. CASE call.mode # "export"
    <3>1. exported' = exported
      BY <1>6, <2>5 DEF WriteExport, Marked
    <3>2. \A i \in 1..Len(ledger') : ledger'[i].marked => i \in 1..Len(ledger) /\ ledger'[i] = ledger[i]
      BY <2>2, <2>3, <2>5, EntryFields
    <3> QED BY <2>1, <3>1, <3>2 DEF OnceInv, MarkedEntries
  <2> QED BY <2>4, <2>5
<1> QED
  BY <1>1, <1>2, <1>3, <1>4, <1>5, <1>6 DEF ExportNext, exportVars, DecideReceipt, ResubmitReceipt,
         LockTrip, NextDay

\* Receipts of different trips are different receipts.
LEMMA OnceImplies == ExportTypeInv /\ OnceInv => BookedOnce
<1> SUFFICES ASSUME ExportTypeInv, OnceInv, ~retold, NEW i \in MarkedEntries, NEW j \in MarkedEntries, i # j
             PROVE  ledger[i].receipts \cap ledger[j].receipts = {}
  BY DEF BookedOnce
<1>1. i \in 1..Len(ledger) /\ j \in 1..Len(ledger)
  BY LenProperties DEF MarkedEntries, ExportTypeInv, LedgerInv
<1>2. ledger[i].trip # ledger[j].trip
  BY DEF OnceInv
<1> QED BY <1>1, <1>2 DEF ExportTypeInv, LedgerInv, ReceiptsOf

--------------------------------------------------------------------------------
\* What was approved before the day of an entry, or of a read in flight, is in it.
CompleteInv ==
    /\ \A i \in DOMAIN ledger :
          /\ ledger[i].on <= today
          /\ \A x \in ApprovedOf(ledger[i].trip) :
                approvedOn[x] < ledger[i].on => x \in ledger[i].receipts
    /\ \A e \in Exporters : reads[e] # NoExport =>
          /\ reads[e].on <= today
          /\ \A t \in reads[e].trips : \A x \in ApprovedOf(t) :
                approvedOn[x] < reads[e].on => x \in reads[e].approved[t]

\* The receipts of a trip that are approved after a step.
ApprovedThen(t) == {x \in ReceiptsOf(t) : verdict'[x] = "approved"}

\* A receipt that counts as approved on an earlier day has been approved all along.
LEMMA ApprovalsLast ==
  ASSUME ExportTypeInv, [ExportNext]_exportVars
  PROVE  /\ today <= today' /\ today \in Nat /\ today' \in Nat
         /\ \A t : \A x \in ApprovedThen(t) :
               \/ x \in ApprovedOf(t) /\ approvedOn'[x] = approvedOn[x]
               \/ approvedOn'[x] = today
<1>1. today \in Nat
  BY LastDayAssumption DEF ExportTypeInv, Days
<1>2. ASSUME NEW y \in Receipts, DecideReceipt(y), NEW t, NEW x \in ApprovedThen(t)
      PROVE  \/ x \in ApprovedOf(t) /\ approvedOn'[x] = approvedOn[x]
             \/ approvedOn'[x] = today
  BY <1>2 DEF DecideReceipt, ApprovedOf, ApprovedThen, ReceiptsOf, ExportTypeInv
<1>3. ASSUME NEW y \in Receipts, ResubmitReceipt(y), NEW t, NEW x \in ApprovedThen(t)
      PROVE  x \in ApprovedOf(t) /\ approvedOn'[x] = approvedOn[x]
  BY <1>3 DEF ResubmitReceipt, ApprovedOf, ApprovedThen, ReceiptsOf, ExportTypeInv
<1>4. ASSUME UNCHANGED <<verdict, approvedOn>>, NEW t, NEW x \in ApprovedThen(t)
      PROVE  x \in ApprovedOf(t) /\ approvedOn'[x] = approvedOn[x]
  BY <1>4 DEF ApprovedOf, ApprovedThen, ReceiptsOf
<1>5. today' = today \/ today' = today + 1
  BY DEF ExportNext, exportVars, DecideReceipt, ResubmitReceipt, LockTrip, NextDay, MarkYesterdays,
         ReadPeriod, ReadTrip, FailExport, WriteExport
<1>6. \/ \E y \in Receipts : DecideReceipt(y) \/ ResubmitReceipt(y)
      \/ UNCHANGED <<verdict, approvedOn>>
  BY DEF ExportNext, exportVars, LockTrip, NextDay, MarkYesterdays,
         ReadPeriod, ReadTrip, FailExport, WriteExport
<1> QED BY <1>1, <1>2, <1>3, <1>4, <1>5, <1>6

\* A receipt approved later was approved today, no earlier than any entry or read.
LEMMA CompleteStep ==
  ASSUME ExportTypeInv, CompleteInv, [ExportNext]_exportVars
  PROVE  CompleteInv'
<1> USE LedgerDomain, ApprovalsLast
<1>0. \A i \in 1..Len(ledger) : ledger[i].on \in Nat
  BY LastDayAssumption DEF Entry, Days
<1>a. \A e \in Exporters : reads[e] # NoExport => reads[e].on \in Nat
  BY LastDayAssumption DEF ExportTypeInv, IsCall, Days
<1>1. \A i \in 1..Len(ledger) :
          /\ ledger[i].on <= today'
          /\ \A x \in ApprovedThen(ledger[i].trip) :
                approvedOn'[x] < ledger[i].on => x \in ledger[i].receipts
  <2> SUFFICES ASSUME NEW i \in 1..Len(ledger)
               PROVE  /\ ledger[i].on <= today'
                      /\ \A x \in ApprovedThen(ledger[i].trip) :
                            approvedOn'[x] < ledger[i].on => x \in ledger[i].receipts
    OBVIOUS
  <2>1. /\ ledger[i].on \in Nat /\ ledger[i].on <= today
        /\ \A x \in ApprovedOf(ledger[i].trip) :
              approvedOn[x] < ledger[i].on => x \in ledger[i].receipts
    BY <1>0 DEF CompleteInv
  <2> QED BY <2>1
<1>2. \A e \in Exporters : reads[e] # NoExport =>
          /\ reads[e].on <= today'
          /\ \A t \in reads[e].trips : \A x \in ApprovedThen(t) :
                approvedOn'[x] < reads[e].on => x \in reads[e].approved[t]
  BY <1>a DEF CompleteInv
<1>3. ASSUME NEW m \in {"export", "preview"}, NEW T \in SUBSET Trips, NEW e \in Exporters,
             reads' = [reads EXCEPT ![e] = ReadNow(m, T)],
             UNCHANGED <<invoice, verdict, approvedOn, today, finished, exported, ledger>>
      PROVE  CompleteInv'
  <2>1. \A t \in T : ApprovedThen(t) = ApprovedOf(t)
    BY <1>3 DEF ApprovedOf, ApprovedThen, ReceiptsOf
  <2>2. /\ ReadNow(m, T).on = today
        /\ \A t \in T : ReadNow(m, T).approved[t] = ApprovedOf(t)
        /\ ReadNow(m, T).trips = T
    BY DEF ReadNow
  <2>3. \A d \in Exporters : reads'[d] = IF d = e THEN ReadNow(m, T) ELSE reads[d]
    BY <1>3 DEF ExportTypeInv
  <2>4. \A d \in Exporters : reads'[d] # NoExport =>
          /\ reads'[d].on <= today'
          /\ \A t \in reads'[d].trips : \A x \in ApprovedThen(t) :
                approvedOn'[x] < reads'[d].on => x \in reads'[d].approved[t]
    BY <1>2, <1>3, <2>1, <2>2, <2>3
  <2> QED BY <1>1, <1>3, <2>4 DEF CompleteInv, ApprovedOf, ApprovedThen, ReceiptsOf
<1>4. ASSUME NEW e \in Exporters, ReadPeriod(e) PROVE CompleteInv'
  BY <1>3, <1>4 DEF ReadPeriod, InPeriod, ExportTypeInv
<1>5. ASSUME NEW e \in Exporters, ReadTrip(e) PROVE CompleteInv'
  <2>1. \A t \in finished : {t} \in SUBSET Trips
    BY DEF ExportTypeInv
  <2> QED BY <1>3, <1>5, <2>1 DEF ReadTrip
<1>6. ASSUME NEW e \in Exporters, FailExport(e) PROVE CompleteInv'
  BY <1>1, <1>2, <1>6 DEF FailExport, CompleteInv, ExportTypeInv, ApprovedOf, ApprovedThen, ReceiptsOf
<1>7. ASSUME NEW e \in Exporters, WriteExport(e) PROVE CompleteInv'
  <2>1. \A d \in Exporters : reads'[d] # NoExport => reads'[d] = reads[d]
    BY <1>7 DEF WriteExport, ExportTypeInv
  <2>2. reads[e] # NoExport
    BY <1>7 DEF WriteExport
  <2>3. ASSUME NEW i \in 1..Len(ledger')
        PROVE  /\ ledger'[i].on <= today'
               /\ \A x \in ApprovedThen(ledger'[i].trip) :
                     approvedOn'[x] < ledger'[i].on => x \in ledger'[i].receipts
    <3>1. CASE i \in 1..Len(ledger)
      <4>1. ledger'[i] = ledger[i]
        BY <1>7, <3>1, WriteAppends
      <4> QED BY <1>1, <3>1, <4>1
    <3>2. CASE i \notin 1..Len(ledger)
      <4>1. PICK t \in Full(reads[e]) : ledger'[i] = EntryOf(reads[e], t)
        BY <1>7, <3>2, WriteAppends
      <4> QED BY <1>2, <2>2, <4>1, EntryFields DEF Full
    <3> QED BY <3>1, <3>2
  <2>4. \A d \in Exporters : reads'[d] # NoExport =>
          /\ reads'[d].on <= today'
          /\ \A t \in reads'[d].trips : \A x \in ApprovedThen(t) :
                approvedOn'[x] < reads'[d].on => x \in reads'[d].approved[t]
    BY <1>2, <2>1
  <2> QED BY <2>3, <2>4 DEF CompleteInv, ApprovedOf, ApprovedThen, ReceiptsOf
<1>8. CASE MarkYesterdays
  <2>1. reads' = reads
    BY <1>8 DEF MarkYesterdays
  <2> QED BY <1>1, <1>2, <1>8, <2>1, SweepKeeps DEF CompleteInv, ApprovedOf, ApprovedThen, ReceiptsOf
<1>9. CASE UNCHANGED <<ledger, reads>>
  BY <1>1, <1>2, <1>9 DEF CompleteInv, ApprovedOf, ApprovedThen, ReceiptsOf
<1> QED
  BY <1>4, <1>5, <1>6, <1>7, <1>8, <1>9 DEF ExportNext, exportVars, DecideReceipt, ResubmitReceipt,
         LockTrip, NextDay

--------------------------------------------------------------------------------
\* The inductive invariant.
ExportInv == ExportTypeInv /\ BooksBalance /\ MarkedIsBooked /\ OnceInv /\ CompleteInv

\* It holds at first,
LEMMA ExportInvAtFirst == ASSUME ExportInit PROVE ExportInv
<1>1. ledger \in Seq(Entry) /\ DOMAIN ledger = {} /\ Len(ledger) = 0
  BY DEF ExportInit
<1>2. ExportTypeInv
  <2>1. today \in Days /\ LedgerInv
    BY <1>1, LastDayAssumption DEF ExportInit, LedgerInv, Days
  <2>2. retold \in BOOLEAN
    BY Zenon DEF ExportInit
  <2> QED BY <2>1, <2>2, LastDayAssumption DEF ExportInit, ExportTypeInv, Days
<1>3. \A e \in Exporters : reads[e] = NoExport /\ NoExport.mode # "export"
  BY DEF ExportInit, NoExport
<1>4. BooksBalance
  BY <1>1 DEF BooksBalance
<1>5. MarkedIsBooked
  BY DEF ExportInit, MarkedIsBooked
<1>6. OnceInv
  BY <1>1, <1>3 DEF OnceInv, MarkedEntries
<1>7. CompleteInv
  BY <1>1, <1>3 DEF CompleteInv
<1> QED BY <1>2, <1>4, <1>5, <1>6, <1>7 DEF ExportInv

\* and ever after.
LEMMA ExportInvHolds == ExportSpec => []ExportInv
<1>1. ExportInit => ExportInv
  BY ExportInvAtFirst
<1>2. ExportInv /\ [ExportNext]_exportVars => ExportInv'
  BY ExportTypeStep, BooksStep, MarkedStep, OnceStep, CompleteStep DEF ExportInv
<1> QED BY <1>1, <1>2, PTL DEF ExportSpec

\* Every variable keeps its type, and an entry holds receipts of its trip only.
THEOREM ExportsTyped == ExportSpec => []ExportTypeOK
<1>1. ExportTypeInv => ExportTypeOK
  BY LenProperties, LastDayAssumption DEF ExportTypeInv, ExportTypeOK, LedgerInv, Days
<1>2. ExportInv => ExportTypeInv
  BY DEF ExportInv
<1> QED BY <1>1, <1>2, ExportInvHolds, PTL

\* Whatever CFDIs registration lets through, every poliza that was persisted has debits
\* equal to its credits (the balance check of the build throws before the write).
THEOREM PersistedBooksBalance == ExportSpec => []BooksBalance
<1>1. ExportInv => BooksBalance
  BY DEF ExportInv
<1> QED BY <1>1, ExportInvHolds, PTL

\* A trip with an advance that is marked as exported has a marked entry: marks and
\* entries are written by one transaction.
THEOREM MarkedAreBooked == ExportSpec => []MarkedIsBooked
<1>1. ExportInv => MarkedIsBooked
  BY DEF ExportInv
<1> QED BY <1>1, ExportInvHolds, PTL

\* No receipt is booked twice, over any periods and with trips reopened in between, until
\* an export is forced, repeated or overlapped, or the batch marks a preview.
THEOREM ReceiptsBookedOnce == ExportSpec => []BookedOnce
<1>1. ExportInv => BookedOnce
  BY OnceImplies DEF ExportInv
<1> QED BY <1>1, ExportInvHolds, PTL

\* An export books whatever of its trips was approved on an earlier day than it read,
\* inside the period or not (the period selects trips, not receipts).
THEOREM ExportsComplete == ExportSpec => []ExportsAreComplete
<1>1. CompleteInv => ExportsAreComplete
  BY DEF CompleteInv, ExportsAreComplete, MarkedEntries
<1>2. ExportInv => CompleteInv
  BY DEF ExportInv
<1> QED BY <1>1, <1>2, ExportInvHolds, PTL
================================================================================
