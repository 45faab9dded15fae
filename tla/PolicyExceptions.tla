---------------------------- MODULE PolicyExceptions ----------------------------
(***************************************************************************)
(* Exceptions to the travel policy: asked for by the applicant for a receipt,*)
(* decided by the approvers designated on the request, who may change at any  *)
(* time.  A decision reads the exception and checks; later it writes the       *)
(* exception, the receipt and the audit row in one transaction, which reads    *)
(* nothing; then it tells the applicant.                                      *)
(***************************************************************************)
EXTENDS Integers, FiniteSets

CONSTANTS
    Claims,        \* receipts an exception may be asked for
    Cases,         \* ids of exceptions
    Approvers,     \* who may be designated
    Deciders       \* decisions in flight at once

VARIABLES
    cases,         \* the rows of policy_exceptions
    refund,        \* the refund column of each receipt; "gone" when it is deleted
    designated,    \* the approvers on the request's snapshot
    everEntitled,  \* ghost: per exception, who could decide it at some time
    rulings        \* the decisions in flight

exceptionVars == <<cases, refund, designated, everEntitled, rulings>>

NoCase == [status |-> "none"]
NoRuling == [step |-> "none"]
Asked == {c \in Cases : cases[c] # NoCase}
Verdict == {"APPROVED", "REJECTED"}

\* Nobody designated: whoever has the permission decides.
MayRuleAll(a) == TRUE                        \* mutant: nobody looks who decides
MayRule(a) == designated = {} \/ a \in designated
\* For the ghost: who is entitled when A are designated.
Entitled(A) == IF A = {} THEN Approvers ELSE A

RefundIfApproved(x, v) ==                    \* mutant: a rejection leaves the column
    IF v = "APPROVED" THEN "yes" ELSE refund[x]
RefundAfter(x, v) == IF v = "APPROVED" THEN "yes" ELSE "no"

--------------------------------------------------------------------------------
ExceptionInit ==
    /\ cases = [c \in Cases |-> NoCase]
    /\ refund = [x \in Claims |-> "yes"]
    /\ designated \in SUBSET Approvers
    /\ everEntitled = [c \in Cases |-> {}]
    /\ rulings = [d \in Deciders |-> NoRuling]

\* createException does not look for another exception of the receipt.
CreateException(c) ==
    /\ c \notin Asked
    /\ \E x \in Claims :
         /\ refund[x] # "gone"
         /\ cases' = [cases EXCEPT ![c] = [status |-> "PENDING", claim |-> {x}, by |-> {}]]
    /\ everEntitled' = [everEntitled EXCEPT ![c] = Entitled(designated)]
    /\ UNCHANGED <<refund, designated, rulings>>

\* A reassignment, the sweep or a confirmation writes another snapshot.
ChangeApprovers ==
    /\ \E A \in SUBSET Approvers : A # designated /\ designated' = A
    /\ everEntitled' = [c \in Cases |->
           everEntitled[c] \union IF c \in Asked THEN Entitled(designated') ELSE {}]
    /\ UNCHANGED <<cases, refund, rulings>>

\* A replaced receipt is deleted: the column of the exception becomes null.
DeleteClaim(x) ==
    /\ refund[x] # "gone"
    /\ refund' = [refund EXCEPT ![x] = "gone"]
    /\ cases' = [c \in Cases |->
           IF c \in Asked THEN [cases[c] EXCEPT !.claim = @ \ {x}] ELSE NoCase]
    /\ UNCHANGED <<designated, everEntitled, rulings>>

\* decideException up to its transaction.
BeginRuling(d) ==
    /\ rulings[d] = NoRuling
    /\ \E c \in Asked, a \in Approvers, v \in Verdict :
         /\ cases[c].status = "PENDING" /\ MayRule(a)
         /\ rulings' = [rulings EXCEPT ![d] =
                [step |-> "write", case |-> c, claim |-> cases[c].claim, by |-> a, verdict |-> v]]
    /\ UNCHANGED <<cases, refund, designated, everEntitled>>

\* The transaction has no condition; it fails when the receipt it read is gone.
WriteRuling(d) ==
    /\ rulings[d] # NoRuling
    /\ LET r == rulings[d]
       IN  IF \E x \in r.claim : refund[x] = "gone" THEN UNCHANGED <<cases, refund>>
           ELSE /\ cases' = [cases EXCEPT ![r.case].status = r.verdict, ![r.case].by = {r.by}]
                /\ refund' = [x \in Claims |->
                       IF x \in r.claim THEN RefundAfter(x, r.verdict) ELSE refund[x]]
    /\ rulings' = [rulings EXCEPT ![d] = NoRuling]
    /\ UNCHANGED <<designated, everEntitled>>

ExceptionNext ==
    \/ \E c \in Cases : CreateException(c)
    \/ ChangeApprovers
    \/ \E x \in Claims : DeleteClaim(x)
    \/ \E d \in Deciders : BeginRuling(d) \/ WriteRuling(d)

ExceptionSpec == ExceptionInit /\ [][ExceptionNext]_exceptionVars

--------------------------------------------------------------------------------
ExceptionTypeOK ==
    /\ \A c \in Asked : /\ cases[c].status \in Verdict \union {"PENDING"}
                        /\ cases[c].claim \subseteq Claims
                        /\ cases[c].by \subseteq Approvers
                        /\ (cases[c].by = {}) = (cases[c].status = "PENDING")
    /\ refund \in [Claims -> {"yes", "no", "gone"}]
    /\ designated \subseteq Approvers

\* Two decisions may overwrite each other, but then both their writes do: for a
\* receipt with one exception, the refund flag is what the exception says.
RefundFollowsRuling ==
    \A c \in Asked : \A x \in cases[c].claim :
        /\ cases[c].status \in Verdict
        /\ \A b \in Asked \ {c} : x \notin cases[b].claim
        => refund[x] = IF cases[c].status = "APPROVED" THEN "yes" ELSE "no"

\* However late a decision is written, it is by somebody who could decide the
\* exception at some time since it was asked for, and never by an outsider.
RuledByEntitled == \A c \in Asked : cases[c].by \subseteq everEntitled[c]
================================================================================
