---------------------------- MODULE AccountingExport ----------------------------
(***************************************************************************)
(* The polizas of finished trips: built from the approved receipts, written  *)
(* with the mark "exported" of the trip, by calls that read first and write  *)
(* later, while receipts are still being decided.  One entry of the ledger   *)
(* stands for the polizas of one build (the advance and the expenses).       *)
(* Amounts are in cents.                                                     *)
(***************************************************************************)
EXTENDS Integers, SequencesExt

CONSTANTS
    Trips,        \* requests in validation or finished
    Receipts,     \* their receipts, each with a CFDI
    TripOf,       \* the trip of a receipt
    Advanced,     \* the trips with an imposed fee, whose polizas include the advance
    Invoices,     \* CFDI amounts that registration lets through, per receipt
    Exporters,    \* callers of the export endpoints
    LastDay,      \* bound: days that pass
    MaxEntries    \* bound: entries of the ledger

ASSUME TripsAssumption == IsFiniteSet(Trips)
ASSUME TripOfAssumption == TripOf \in [Receipts -> Trips]
ASSUME LastDayAssumption == LastDay \in Nat \ {0}

VARIABLES
    invoice,      \* the amounts on each receipt's CFDI
    verdict,      \* of each receipt
    approvedOn,   \* the day of an approval, 0 before
    today,
    finished,     \* the trips in status 8
    exported,     \* the trips marked as exported
    ledger,       \* the builds persisted, in order
    reads,        \* per caller, what an export in flight has read
    retold        \* whether an export was forced, repeated or overlapped, or a preview marked

exportVars ==
    <<invoice, verdict, approvedOn, today, finished, exported, ledger, reads, retold>>

Days == 1..LastDay
ReceiptsOf(t) == {x \in Receipts : TripOf[x] = t}
ApprovedOf(t) == {x \in ReceiptsOf(t) : verdict[x] = "approved"}

\* The lines of the comprobacion poliza of the receipts S: what a receipt cost
\* before taxes (no line unless it is positive) and the taxes passed on are
\* debits; what was retained and the sum of the totals are credits.
Cost(x) == IF invoice[x].base > 0 THEN invoice[x].base ELSE 0
Debits(S) == MapThenSumSet(LAMBDA x : Cost(x) + invoice[x].taxes, S)
Credits(S) == MapThenSumSet(LAMBDA x : invoice[x].retained + invoice[x].total, S)

BalancedToTheCent(S) ==                      \* mutant: the tolerance of a single CFDI
    LET gap == Debits(S) - Credits(S) IN gap \in {-1, 0, 1}
\* The difference tolerated is a tenth of a cent.
Balanced(S) == Debits(S) = Credits(S)

\* A build throws when a line is not positive, a retention has no account, or
\* debits and credits differ; without receipts there is no such poliza.
Builds(S) ==
    \/ S = {}
    \/ /\ \A x \in S : invoice[x].supported
       /\ MapThenSumSet(LAMBDA x : invoice[x].total, S) > 0
       /\ Balanced(S)

NoExport == [mode |-> "none"]
\* What a caller has read: the trips and, for each, the approved receipts.
ReadNow(mode, T) ==
    [mode |-> mode, trips |-> T, approved |-> [t \in T |-> ApprovedOf(t)], on |-> today]

--------------------------------------------------------------------------------
ExportInit ==
    /\ invoice \in Invoices
    /\ verdict = [x \in Receipts |-> "pending"]
    /\ approvedOn = [x \in Receipts |-> 0]
    /\ today = 1
    /\ finished = {}
    /\ exported = {}
    /\ ledger = <<>>
    /\ reads = [e \in Exporters |-> NoExport]
    /\ retold = FALSE

\* The decisions and deadlines that ExpenseClaim models in full.
DecideReceipt(x) ==
    /\ verdict[x] = "pending"
    /\ \E v \in {"approved", "rejected"} :
         /\ verdict' = [verdict EXCEPT ![x] = v]
         /\ approvedOn' = [approvedOn EXCEPT ![x] = IF v = "approved" THEN today ELSE 0]
         /\ finished' = LET verdicts == {verdict'[y] : y \in ReceiptsOf(TripOf[x])}
                        IN  IF "rejected" \in verdicts THEN finished \ {TripOf[x]}
                            ELSE IF verdicts = {"approved"} THEN finished \union {TripOf[x]}
                            ELSE finished
    /\ UNCHANGED <<invoice, today, exported, ledger, reads, retold>>

ResubmitReceipt(x) ==
    /\ verdict[x] = "rejected" /\ TripOf[x] \notin finished
    /\ verdict' = [verdict EXCEPT ![x] = "pending"]
    /\ UNCHANGED <<invoice, approvedOn, today, finished, exported, ledger, reads, retold>>

LockTrip(t) ==
    /\ t \notin finished
    /\ finished' = finished \union {t}
    /\ UNCHANGED <<invoice, verdict, approvedOn, today, exported, ledger, reads, retold>>

NextDay ==
    /\ today + 1 \in Days
    /\ today' = today + 1
    /\ UNCHANGED <<invoice, verdict, approvedOn, finished, exported, ledger, reads, retold>>

\* The trips a period selects: some receipt was approved in it.
InPeriodTwice(from, to, force) ==            \* mutant: the mark is not looked at
    {t \in finished : \E x \in ApprovedOf(t) : approvedOn[x] \in from..to}
InPeriod(from, to, force) ==
    {t \in finished : /\ \E x \in ApprovedOf(t) : approvedOn[x] \in from..to
                      /\ force \/ t \notin exported}

Exporting == \E e \in Exporters : reads[e].mode = "export"

\* GET accounting-export and the page of CxP, which alone may force.
ReadPeriod(e) ==
    /\ reads[e] = NoExport
    /\ \E from, to \in Days, force \in BOOLEAN :
         LET T == InPeriod(from, to, force)
         IN  /\ T # {}
             /\ reads' = [reads EXCEPT ![e] = ReadNow("export", T)]
             /\ retold' = (retold \/ force \/ Exporting)
    /\ UNCHANGED <<invoice, verdict, approvedOn, today, finished, exported, ledger>>

\* GET accounting-export/:id and POST polizas/:id/generar; neither looks at the mark.
ReadTrip(e) ==
    /\ reads[e] = NoExport
    /\ \E t \in finished, mode \in {"export", "preview"} :
         /\ reads' = [reads EXCEPT ![e] = ReadNow(mode, {t})]
         /\ retold' = (retold \/ (mode = "export" /\ (t \in exported \/ Exporting)))
    /\ UNCHANGED <<invoice, verdict, approvedOn, today, finished, exported, ledger>>

\* One trip that cannot be built fails the whole call, before anything is written.
FailExport(e) ==
    /\ reads[e] # NoExport
    /\ \E t \in reads[e].trips : ~Builds(reads[e].approved[t])
    /\ reads' = [reads EXCEPT ![e] = NoExport]
    /\ UNCHANGED <<invoice, verdict, approvedOn, today, finished, exported, ledger, retold>>

EntryOfDay(call, t) ==                       \* mutant: only what was approved that day
    [trip |-> t, receipts |-> {x \in call.approved[t] : approvedOn[x] = call.on},
     marked |-> call.mode = "export", on |-> call.on]
EntryOf(call, t) ==
    [trip |-> t, receipts |-> call.approved[t],
     marked |-> call.mode = "export", on |-> call.on]

MarkedAll(call) ==                           \* mutant: every finished trip
    IF call.mode = "export" THEN exported \union finished ELSE exported
Marked(call) == IF call.mode = "export" THEN exported \union call.trips ELSE exported

\* One transaction writes the entries, if there are lines to write, and marks the trips.
WriteExport(e) ==
    LET call == reads[e]
        full == {t \in call.trips : call.approved[t] # {} \/ t \in Advanced}
    IN  /\ call # NoExport
        /\ \A t \in call.trips : Builds(call.approved[t])
        /\ Len(ledger) + Cardinality(full) <= MaxEntries
        /\ ledger' = ledger \o SetToSeq({EntryOf(call, t) : t \in full})
        /\ exported' = Marked(call)
        /\ reads' = [reads EXCEPT ![e] = NoExport]
        /\ UNCHANGED <<invoice, verdict, approvedOn, today, finished, retold>>

\* accounting-export-batch, at night: what was written the day before counts as
\* exported from then on, previews included.  No trip is marked.
MarkYesterdays ==
    LET swept == {i \in DOMAIN ledger : ledger[i].on + 1 = today /\ ~ledger[i].marked}
    IN  /\ swept # {}
        /\ ledger' = [i \in DOMAIN ledger |-> IF i \in swept THEN [ledger[i] EXCEPT !.marked = TRUE]
                                                             ELSE ledger[i]]
        /\ retold' = TRUE
        /\ UNCHANGED <<invoice, verdict, approvedOn, today, finished, exported, reads>>

ExportNext ==
    \/ \E x \in Receipts : DecideReceipt(x) \/ ResubmitReceipt(x)
    \/ \E t \in Trips : LockTrip(t)
    \/ NextDay \/ MarkYesterdays
    \/ \E e \in Exporters : ReadPeriod(e) \/ ReadTrip(e) \/ FailExport(e) \/ WriteExport(e)

ExportSpec == ExportInit /\ [][ExportNext]_exportVars

--------------------------------------------------------------------------------
MarkedEntries == {i \in DOMAIN ledger : ledger[i].marked}

ExportTypeOK ==
    /\ invoice \in Invoices
    /\ verdict \in [Receipts -> {"pending", "approved", "rejected"}]
    /\ \A x \in Receipts : approvedOn[x] \in IF verdict[x] = "approved" THEN Days ELSE {0}
    /\ today \in Days /\ finished \subseteq Trips /\ exported \subseteq Trips
    /\ \A i \in DOMAIN ledger : ledger[i].receipts \subseteq ReceiptsOf(ledger[i].trip)
    /\ retold \in BOOLEAN

\* Registration accepts a CFDI whose amounts do not add up, but no poliza that was
\* persisted, previews included, has debits other than its credits.
BooksBalance ==
    \A i \in DOMAIN ledger : Debits(ledger[i].receipts) = Credits(ledger[i].receipts)

\* A period selects trips, not receipts: an export books whatever had been
\* approved on an earlier day than it read, also outside the period.
ExportsAreComplete ==
    \A i \in MarkedEntries : \A x \in ApprovedOf(ledger[i].trip) :
        approvedOn[x] < ledger[i].on => x \in ledger[i].receipts

\* A trip is marked only by the call that booked it: one that was reopened,
\* finished or failed to build while another was exported is left unmarked.
MarkedIsBooked ==
    \A t \in exported \cap Advanced : \E i \in MarkedEntries : ledger[i].trip = t

\* Periods may overlap and trips be reopened: as long as nobody forces, repeats
\* or overlaps an export and no preview is marked, no receipt is booked twice.
BookedOnce ==
    ~retold => \A i, j \in MarkedEntries :
                   i # j => ledger[i].receipts \cap ledger[j].receipts = {}
================================================================================
