----------------------------- MODULE RequestAlerts -----------------------------
(***************************************************************************)
(* What the client extension does around each update of one travel request: *)
(* it reads the old row, updates, then changes the alerts and deducts the   *)
(* imposed fee from the wallet.  Inside a transaction only the update        *)
(* belongs to it: the reads and writes of the extension go through another   *)
(* connection and stay when the transaction rolls back.                      *)
(***************************************************************************)
EXTENDS Integers, FiniteSets

CONSTANTS
    Updaters,    \* calls that may be updating the request at once
    Budgets,     \* the fees CxP may impose
    MaxUpdates   \* bound: how many updates are ever begun

ASSUME UpdatersAssumption == IsFiniteSet(Updaters)
ASSUME BudgetsAssumption == Budgets \subseteq Nat

VARIABLES
    row,         \* the committed columns the extension looks at
    shown,       \* the statuses whose messages the request's alerts show
    wallet,      \* the wallet of the applicant, relative to its value at first
    updates,     \* per caller, the update in flight
    holder,      \* the transactions that hold the row's lock: none or one
    mishaps,     \* what has happened to the request that a lone update does not see
    begun        \* how many updates were begun

alertsVars == <<row, shown, wallet, updates, holder, mishaps, begun>>

Closed == {8, 9, 10}
Unchanged == -1                    \* a column the update leaves alone

\* One update: what it writes, whether a transaction with the audit row encloses
\* it, whether that transaction always fails, whether its result has the columns
\* the extension compares, and the alert created afterwards.
Autocommit(s, f) ==
    [tx |-> FALSE, status |-> s, fee |-> f, doomed |-> FALSE, seen |-> TRUE, note |-> {}]
InTransaction(s) == [Autocommit(s, Unchanged) EXCEPT !.tx = TRUE]
\* The sweep selects only the organisation, and makes an alert of its own.
WithNote(s) == [InTransaction(s) EXCEPT !.note = {s}, !.seen = FALSE]

\* The updates each handler may decide on when it has read status s.
Confirmations(s) == {InTransaction(t) : t \in {t \in 2..4 : s = 1}}
Edits(s) == {[InTransaction(Unchanged) EXCEPT !.fee = 0] : t \in {1, 2} \cap {s}}
Approvals(s) == {InTransaction(t) : t \in {t \in {3, 4} : s \in {2, 3} /\ s < t}}
Rejections(s) == {InTransaction(10) : t \in {2, 3} \cap {s}}
Reassignments(s) == {InTransaction(t) : t \in {2, 3} \cap {s}}
Sweeps(s) == {WithNote(t) : t \in {t \in {2, 3} : s \in {2, t}}}
Escalations(s) ==
    {[InTransaction(3) EXCEPT !.doomed = TRUE] : t \in {2} \cap {s}}
Locks(s) == {InTransaction(8) : t \in {s} \ Closed}
Cancellations(s) == {Autocommit(9, Unchanged) : t \in (1..5) \cap {s}}
FeeConfirmations(s) ==
    {Autocommit(t, f) : t \in {t \in {5, 6} : s = 4}, f \in Budgets}
OfferSelections(s) == {Autocommit(Unchanged, Unchanged) : t \in {5} \cap {s}}
Attentions(s) == {Autocommit(6, Unchanged) : t \in {5} \cap {s}}
HandIns(s) == {Autocommit(7, Unchanged) : t \in {6} \cap {s}}
Syncs(s) == {Autocommit(t, Unchanged) : t \in {t \in {6, 8} : s \in {7, 8}}}

UpdatesAt(s) ==
    UNION {Confirmations(s), Edits(s), Approvals(s), Rejections(s), Reassignments(s),
           Sweeps(s), Escalations(s), Locks(s), Cancellations(s), FeeConfirmations(s),
           OfferSelections(s), Attentions(s), HandIns(s), Syncs(s)}

PatchWhole(r, w) == [status |-> w.status, fee |-> w.fee]   \* mutant: unset columns too
\* The row after update w.
Patch(r, w) ==
    [status |-> IF w.status = Unchanged THEN r.status ELSE w.status,
     fee    |-> IF w.fee = Unchanged THEN r.fee ELSE w.fee]

NoUpdate == [step |-> "none"]
InFlight == {u \in Updaters : updates[u] # NoUpdate}
At(u, step) == updates[u].step = step

--------------------------------------------------------------------------------
\* A request is created with fee 0 and one alert, in the same transaction.
AlertsInit ==
    /\ \E s \in 1..4 : row = [status |-> s, fee |-> 0] /\ shown = {s}
    /\ wallet = 0
    /\ updates = [u \in Updaters |-> NoUpdate]
    /\ holder = {}
    /\ mishaps = {}
    /\ begun = 0

\* A handler has checked the status and is about to update.
BeginUpdate(u) ==
    /\ updates[u] = NoUpdate /\ begun < MaxUpdates
    /\ \E w \in UpdatesAt(row.status) :
         updates' = [updates EXCEPT ![u] =
             [step |-> "readOld", write |-> w, old |-> row, new |-> row]]
    /\ begun' = begun + 1
    /\ mishaps' = IF InFlight = {} THEN mishaps ELSE mishaps \union {"overlap"}
    /\ UNCHANGED <<row, shown, wallet, holder>>

ReadOldRow(u) ==
    /\ At(u, "readOld")
    /\ updates' = [updates EXCEPT ![u].old = row, ![u].step = "update"]
    /\ UNCHANGED <<row, shown, wallet, holder, mishaps, begun>>

\* The statement itself; it waits while a transaction holds the row.
UpdateRow(u) ==
    /\ At(u, "update") /\ holder = {}
    /\ LET new == Patch(row, updates[u].write)
       IN  /\ updates' = [updates EXCEPT ![u].new = new, ![u].step = "alerts"]
           /\ IF updates[u].write.tx THEN holder' = {u} /\ UNCHANGED row
              ELSE row' = new /\ UNCHANGED holder
    /\ mishaps' = mishaps
           \union (IF row.fee = updates[u].old.fee THEN {} ELSE {"feeMoved"})
           \union (IF updates[u].write.seen THEN {} ELSE {"swept"})
    /\ UNCHANGED <<shown, wallet, begun>>

ShownAfterCreated(old, new, msgs) ==         \* mutant: makes the alert if it is gone
    IF new.status \in Closed THEN {}
    ELSE IF old.status # new.status THEN {new.status}
    ELSE msgs
ShownAfterOld(old, new, msgs) ==             \* mutant: the message of the old status
    IF new.status \in Closed THEN {}
    ELSE IF old.status # new.status /\ msgs # {} THEN {old.status}
    ELSE msgs
\* What trigger 3 makes of the alerts.
ShownAfter(old, new, msgs) ==
    IF new.status \in Closed THEN {}
    ELSE IF old.status # new.status /\ msgs # {} THEN {new.status}
    ELSE msgs

ManageAlerts(u) ==
    /\ At(u, "alerts")
    /\ shown' = IF updates[u].write.seen
                THEN ShownAfter(updates[u].old, updates[u].new, shown)
                ELSE shown
    /\ updates' = [updates EXCEPT ![u].step = "deduct"]
    /\ UNCHANGED <<row, wallet, holder, mishaps, begun>>

DeductionWhole(old, new) ==                  \* mutant: the fee, not the difference
    IF new.fee # old.fee THEN new.fee ELSE 0
\* Trigger 4 compares the whole new row, not the columns of this update.
Deduction(old, new) == new.fee - old.fee

\* An autocommitted update ends here, a transaction goes on to its commit.
DeductFee(u) ==
    /\ At(u, "deduct")
    /\ wallet' = IF updates[u].write.seen
                 THEN wallet - Deduction(updates[u].old, updates[u].new)
                 ELSE wallet
    /\ updates' = [updates EXCEPT ![u] =
           IF @.write.tx THEN [@ EXCEPT !.step = "commit"] ELSE NoUpdate]
    /\ UNCHANGED <<row, shown, holder, mishaps, begun>>

Commit(u) ==
    /\ At(u, "commit") /\ ~updates[u].write.doomed
    /\ row' = updates[u].new
    /\ holder' = {}
    /\ updates' = [updates EXCEPT ![u] =
           IF @.write.note = {} THEN NoUpdate ELSE [@ EXCEPT !.step = "note"]]
    /\ UNCHANGED <<shown, wallet, mishaps, begun>>

\* The audit row cannot be written or the transaction times out; the alerts
\* and the wallet have changed on another connection.
Rollback(u) ==
    /\ At(u, "commit")
    /\ holder' = {}
    /\ updates' = [updates EXCEPT ![u] = NoUpdate]
    /\ mishaps' = mishaps \union {"rollback"}
    /\ UNCHANGED <<row, shown, wallet, begun>>

\* The request is closed, or the transaction that closes it has yet to commit.
Closing ==
    row.status \in Closed \/ \E v \in holder : updates[v].new.status \in Closed

\* The sweep's own alert, after its transaction.
CreateAlert(u) ==
    /\ At(u, "note")
    /\ shown' = shown \union updates[u].write.note
    /\ mishaps' = mishaps \union IF Closing THEN {"noteAfterClose"} ELSE {}
    /\ updates' = [updates EXCEPT ![u] = NoUpdate]
    /\ UNCHANGED <<row, wallet, holder, begun>>

AlertsCrash ==
    /\ InFlight # {} /\ "crash" \notin mishaps
    /\ updates' = [u \in Updaters |-> NoUpdate]
    /\ holder' = {}
    /\ mishaps' = mishaps \union {"crash"}
    /\ UNCHANGED <<row, shown, wallet, begun>>

AlertsNext ==
    \/ \E u \in Updaters :
         \/ BeginUpdate(u) \/ ReadOldRow(u) \/ UpdateRow(u) \/ ManageAlerts(u)
         \/ DeductFee(u) \/ Commit(u) \/ Rollback(u) \/ CreateAlert(u)
    \/ AlertsCrash

AlertsSpec == AlertsInit /\ [][AlertsNext]_alertsVars

--------------------------------------------------------------------------------
Row == [status : 1..10, fee : Budgets \union {0}]
AlertsTypeOK ==
    /\ row \in Row /\ shown \subseteq 1..7 /\ wallet \in Int
    /\ \A u \in InFlight : updates[u].old \in Row /\ updates[u].new \in Row
    /\ holder = {u \in Updaters :
                   At(u, "commit") \/ (updates[u].step \in {"alerts", "deduct"}
                                         /\ updates[u].write.tx)}
    /\ Cardinality(holder) <= 1

\* Whatever updates overlap and whichever of them roll back, a closed request
\* shows no alert to anybody, unless the sweep created one too late or a crash
\* separated the close from the deletion.
ClosedIsQuiet ==
    InFlight = {} /\ row.status \in Closed /\ mishaps \cap {"noteAfterClose", "crash"} = {}
        => shown = {}

\* With one update at a time, none of which failed, the alerts of a request ask
\* for the step it is in.  Only the alert of a first review outlives that review,
\* when the sweep handed the request up, and only until the second one ends.
AlertsAskForStatus ==
    InFlight = {} /\ mishaps \subseteq {"swept"} =>
        shown \ {row.status} \subseteq
            IF "swept" \in mishaps /\ row.status = 3 THEN {2} ELSE {}

\* However late the updates, the wallet has paid exactly the fee on the request, as
\* long as each found the fee it had read before, and none failed halfway.
WalletPaidFee ==
    InFlight = {} /\ mishaps \cap {"feeMoved", "rollback", "crash"} = {}
        => wallet = -row.fee

================================================================================
