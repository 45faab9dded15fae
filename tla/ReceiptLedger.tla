----------------------------- MODULE ReceiptLedger -----------------------------
(***************************************************************************)
(* What the product promises about the receipts of a claim: each is decided *)
(* once, an approved one is paid once, a claim is returned because of a     *)
(* rejected receipt and closed when every receipt is approved and paid, or  *)
(* when its time is over.  ExpenseClaim implements it with one call at a    *)
(* time and no crash.                                                      *)
(***************************************************************************)
EXTENDS Integers

CONSTANTS Ids

VARIABLES
  verdict,  \* "none", "Pendiente", "Aprobado" or "Rechazado"
  paid,     \* how often each receipt has been paid
  stage,    \* "claiming", "checking" or "closed"
  late      \* the time to claim is over

vars == <<verdict, paid, stage, late>>

Turn(r, from, to) ==
  /\ verdict[r] \in from
  /\ verdict' = [verdict EXCEPT ![r] = to]
  /\ UNCHANGED <<paid, stage, late>>

File(r) == stage # "closed" /\ Turn(r, {"none"}, "Pendiente")

\* Only what was rejected is withdrawn, to be replaced.
Withdraw(r) == paid[r] = 0 /\ Turn(r, {"Rechazado"}, "none")

Approve(r) == stage = "checking" /\ Turn(r, {"Pendiente"}, "Aprobado")

\* Also on a claim closed by its deadline, which may leave receipts undecided.
Reject(r) ==
  /\ stage = "checking" \/ (stage = "closed" /\ late)
  /\ Turn(r, {"Pendiente"}, "Rechazado")

Pay(r) ==
  /\ verdict[r] = "Aprobado" /\ paid[r] = 0
  /\ paid' = [paid EXCEPT ![r] = 1]
  /\ UNCHANGED <<verdict, stage, late>>

Move(from, to) ==
  /\ stage = from /\ stage' = to
  /\ UNCHANGED <<verdict, paid, late>>

HandIn == (\E r \in Ids : verdict[r] # "none") /\ Move("claiming", "checking")

Return ==
  /\ \E r \in Ids : verdict[r] = "Rechazado"
  /\ Move("checking", "claiming") \/ (late /\ Move("closed", "claiming"))

Settle ==
  /\ \A r \in Ids : verdict[r] # "none" => verdict[r] = "Aprobado" /\ paid[r] = 1
  /\ Move("checking", "closed")

Expire == late /\ (Move("claiming", "closed") \/ Move("checking", "closed"))

TimeIsUp == late' = TRUE /\ UNCHANGED <<verdict, paid, stage>>

Init ==
  /\ verdict = [r \in Ids |-> "none"]
  /\ paid = [r \in Ids |-> 0]
  /\ stage = "claiming"
  /\ late = FALSE

Next ==
  \/ \E r \in Ids : File(r) \/ Withdraw(r) \/ Approve(r) \/ Reject(r) \/ Pay(r)
  \/ HandIn \/ Return \/ Settle \/ Expire \/ TimeIsUp

Spec == Init /\ [][Next]_vars
=============================================================================
