------------------------------ MODULE PolicyProofs ------------------------------
(***************************************************************************)
(* What holds of travel policies for any administrators, forms and dates, and *)
(* of the decisions on policy exceptions however many receipts, exceptions,   *)
(* approvers and decisions in flight there are, and however late a decision   *)
(* is written.                                                                *)
(***************************************************************************)
EXTENDS TravelPolicies, PolicyExceptions, TLAPS

\* The rows and the decisions in flight, which have no condition left to check.
CaseRow ==
    [status : Verdict \union {"PENDING"}, claim : SUBSET Claims, by : SUBSET Approvers]
Ruling ==
    [step : {"write"}, case : Cases, claim : SUBSET Claims, by : Approvers, verdict : Verdict]

ExceptionTypeInv ==
    /\ cases \in [Cases -> CaseRow \union {NoCase}]
    /\ refund \in [Claims -> {"yes", "no", "gone"}]
    /\ designated \subseteq Approvers
    /\ everEntitled \in [Cases -> SUBSET Approvers]
    /\ rulings \in [Deciders -> Ruling \union {NoRuling}]
    /\ \A d \in Deciders : rulings[d] # NoRuling => rulings[d].case \in Asked

\* Whoever is designated now has been entitled to every exception asked for, and so
\* was whoever has decided one or is about to.
EntitledInv ==
    /\ \A c \in Asked : Entitled(designated) \subseteq everEntitled[c]
    /\ \A c \in Asked : cases[c].by \subseteq everEntitled[c]
    /\ \A d \in Deciders : rulings[d] # NoRuling =>
           rulings[d].by \in everEntitled[rulings[d].case]

\* The receipts of an exception exist, and a decision in flight has read them all;
\* one that it has read and that is no longer the exception's has been deleted.
ClaimInv ==
    /\ \A c \in Asked : \A x \in cases[c].claim : refund[x] # "gone"
    /\ \A d \in Deciders : rulings[d] # NoRuling =>
           /\ cases[rulings[d].case].claim \subseteq rulings[d].claim
           /\ \A x \in rulings[d].claim :
                  refund[x] = "gone" \/ x \in cases[rulings[d].case].claim

--------------------------------------------------------------------------------
\* Records of a decision and of an absent one are told apart by the type alone.
LEMMA NoRulingIsNone == NoRuling \notin Ruling
  BY DEF NoRuling, Ruling

\* An exception is told from none by its type.
LEMMA NoCaseIsNone == NoCase \notin CaseRow
  BY DEF NoCase, CaseRow, Verdict


\* A decision leaves an exception one.
LEMMA RuledRow ==
  ASSUME NEW w \in CaseRow, NEW v \in Verdict, NEW a \in Approvers
  PROVE  [w EXCEPT !.status = v, !.by = {a}] \in CaseRow
  BY DEF CaseRow

\* No step takes an exception back.
LEMMA AskedGrows ==
  ASSUME ExceptionTypeInv, [ExceptionNext]_exceptionVars
  PROVE  Asked \subseteq Asked'
<1> SUFFICES ASSUME NEW c \in Asked PROVE cases'[c] # NoCase
  BY DEF Asked
<1> USE NoCaseIsNone
<1>0. c \in Cases /\ cases[c] \in CaseRow
  BY DEF Asked, ExceptionTypeInv
<1>1. ASSUME NEW b \in Cases, CreateException(b) PROVE cases'[c] # NoCase
  BY <1>0, <1>1 DEF CreateException, ExceptionTypeInv
<1>2. CASE ChangeApprovers
  BY <1>0, <1>2 DEF ChangeApprovers
<1>3. ASSUME NEW x \in Claims, DeleteClaim(x) PROVE cases'[c] # NoCase
  <2>1. cases'[c] = [cases[c] EXCEPT !.claim = @ \ {x}]
    BY <1>0, <1>3 DEF DeleteClaim
  <2>2. cases'[c] \in CaseRow
    BY <1>0, <2>1 DEF CaseRow
  <2> QED BY <2>2
<1>4. ASSUME NEW d \in Deciders, BeginRuling(d) PROVE cases'[c] # NoCase
  BY <1>0, <1>4 DEF BeginRuling
<1>5. ASSUME NEW d \in Deciders, WriteRuling(d) PROVE cases'[c] # NoCase
  <2> DEFINE r == rulings[d]
  <2>1. r \in Ruling
    BY <1>5 DEF WriteRuling, ExceptionTypeInv
  <2>2. CASE cases' = [cases EXCEPT ![r.case].status = r.verdict, ![r.case].by = {r.by}]
    <3>1. cases'[c] = cases[c] \/ cases'[c] = [cases[c] EXCEPT !.status = r.verdict, !.by = {r.by}]
      BY <1>0, <2>2 DEF ExceptionTypeInv
    <3>2. r.verdict \in Verdict /\ r.by \in Approvers
      BY <2>1 DEF Ruling
    <3>3. [cases[c] EXCEPT !.status = r.verdict, !.by = {r.by}] \in CaseRow
      BY <1>0, <3>2, RuledRow
    <3> QED BY <1>0, <3>1, <3>3
  <2> QED BY <1>0, <1>5, <2>2 DEF WriteRuling
<1>6. CASE UNCHANGED exceptionVars
  BY <1>0, <1>6 DEF exceptionVars
<1> QED BY <1>1, <1>2, <1>3, <1>4, <1>5, <1>6 DEF ExceptionNext

\* Every step leaves exceptions, receipts and decisions of the right type.
LEMMA ExceptionTypeStep ==
  ASSUME ExceptionTypeInv, [ExceptionNext]_exceptionVars
  PROVE  ExceptionTypeInv'
<1> USE NoRulingIsNone, NoCaseIsNone
<1>0. Asked \subseteq Asked'
  BY AskedGrows
<1>1. ASSUME NEW c \in Cases, CreateException(c) PROVE ExceptionTypeInv'
  <2>1. PICK x \in Claims :
          cases' = [cases EXCEPT ![c] = [status |-> "PENDING", claim |-> {x}, by |-> {}]]
    BY <1>1 DEF CreateException
  <2>2. [status |-> "PENDING", claim |-> {x}, by |-> {}] \in CaseRow
    BY DEF CaseRow
  <2>3. cases' \in [Cases -> CaseRow \union {NoCase}]
    BY <2>1, <2>2 DEF ExceptionTypeInv
  <2>4. Entitled(designated) \in SUBSET Approvers
    BY DEF ExceptionTypeInv, Entitled
  <2>5. everEntitled' \in [Cases -> SUBSET Approvers]
    BY <1>1, <2>4 DEF CreateException, ExceptionTypeInv
  <2> QED BY <1>0, <1>1, <2>3, <2>5 DEF CreateException, ExceptionTypeInv
<1>2. CASE ChangeApprovers
  <2>1. designated' \subseteq Approvers
    BY <1>2 DEF ChangeApprovers
  <2>2. Entitled(designated') \in SUBSET Approvers
    BY <2>1 DEF Entitled
  <2>3. everEntitled' \in [Cases -> SUBSET Approvers]
    BY <1>2, <2>2 DEF ChangeApprovers, ExceptionTypeInv
  <2> QED BY <1>0, <1>2, <2>1, <2>3 DEF ChangeApprovers, ExceptionTypeInv
<1>3. ASSUME NEW x \in Claims, DeleteClaim(x) PROVE ExceptionTypeInv'
  <2>1. \A c \in Asked : [cases[c] EXCEPT !.claim = @ \ {x}] \in CaseRow
    BY DEF Asked, ExceptionTypeInv, CaseRow
  <2>2. cases' \in [Cases -> CaseRow \union {NoCase}]
    BY <1>3, <2>1 DEF DeleteClaim
  <2> QED BY <1>0, <1>3, <2>2 DEF DeleteClaim, ExceptionTypeInv
<1>4. ASSUME NEW d \in Deciders, BeginRuling(d) PROVE ExceptionTypeInv'
  <2>1. PICK c \in Asked, a \in Approvers, v \in Verdict :
          rulings' = [rulings EXCEPT ![d] =
              [step |-> "write", case |-> c, claim |-> cases[c].claim, by |-> a, verdict |-> v]]
    BY <1>4 DEF BeginRuling
  <2>2. c \in Cases /\ cases[c].claim \in SUBSET Claims
    BY DEF Asked, ExceptionTypeInv, CaseRow
  <2>3. [step |-> "write", case |-> c, claim |-> cases[c].claim, by |-> a, verdict |-> v] \in Ruling
    BY <2>2 DEF Ruling
  <2>4. \A e \in Deciders : rulings'[e] # NoRuling => rulings'[e].case \in Asked
    BY <2>1, <2>2 DEF ExceptionTypeInv
  <2> QED BY <1>0, <1>4, <2>1, <2>3, <2>4 DEF BeginRuling, ExceptionTypeInv
<1>5. ASSUME NEW d \in Deciders, WriteRuling(d) PROVE ExceptionTypeInv'
  <2> DEFINE r == rulings[d]
  <2>1. r \in Ruling
    BY <1>5 DEF WriteRuling, ExceptionTypeInv
  <2>2. rulings' \in [Deciders -> Ruling \union {NoRuling}]
    BY <1>5 DEF WriteRuling, ExceptionTypeInv
  <2>5. \A e \in Deciders : rulings'[e] # NoRuling => rulings'[e].case \in Asked'
    BY <1>0, <1>5 DEF WriteRuling, ExceptionTypeInv
  <2>3. CASE UNCHANGED <<cases, refund>>
    BY <1>5, <2>2, <2>3, <2>5 DEF WriteRuling, ExceptionTypeInv
  <2>4. CASE /\ cases' = [cases EXCEPT ![r.case].status = r.verdict, ![r.case].by = {r.by}]
             /\ refund' = [x \in Claims |->
                    IF x \in r.claim THEN RefundAfter(x, r.verdict) ELSE refund[x]]
    <3>1. refund' \in [Claims -> {"yes", "no", "gone"}]
      BY <2>4 DEF RefundAfter, ExceptionTypeInv
    <3>2. cases' \in [Cases -> CaseRow \union {NoCase}]
      <4>1. r.case \in Asked /\ cases[r.case] \in CaseRow /\ r.verdict \in Verdict /\ r.by \in Approvers
        BY <1>5, <2>1 DEF WriteRuling, ExceptionTypeInv, Asked, Ruling
      <4>2. cases' = [cases EXCEPT ![r.case] = [@ EXCEPT !.status = r.verdict, !.by = {r.by}]]
        BY <2>4
      <4> QED BY <4>1, <4>2, RuledRow DEF ExceptionTypeInv
    <3> QED BY <1>5, <2>2, <2>5, <3>1, <3>2 DEF WriteRuling, ExceptionTypeInv
  <2> QED BY <1>5, <2>3, <2>4 DEF WriteRuling
<1>6. CASE UNCHANGED exceptionVars
  BY <1>6 DEF exceptionVars, ExceptionTypeInv, Asked
<1> QED BY <1>1, <1>2, <1>3, <1>4, <1>5, <1>6 DEF ExceptionNext

--------------------------------------------------------------------------------
\* Whoever is deciding, or has decided, could decide since the exception was asked for.
LEMMA EntitledStep ==
  ASSUME ExceptionTypeInv, EntitledInv, [ExceptionNext]_exceptionVars
  PROVE  EntitledInv'
<1> USE NoRulingIsNone, NoCaseIsNone
<1>1. ASSUME NEW c \in Cases, CreateException(c) PROVE EntitledInv'
  <2>1. PICK x \in Claims :
          cases' = [cases EXCEPT ![c] = [status |-> "PENDING", claim |-> {x}, by |-> {}]]
    BY <1>1 DEF CreateException
  <2>2. Asked' = Asked \union {c} /\ c \notin Asked
    BY <1>1, <2>1 DEF Asked, CreateException, ExceptionTypeInv, NoCase
  <2>3. /\ everEntitled'[c] = Entitled(designated)
        /\ \A b \in Asked : everEntitled'[b] = everEntitled[b] /\ cases'[b] = cases[b]
        /\ cases'[c].by = {} /\ designated' = designated /\ rulings' = rulings
    BY <1>1, <2>1, <2>2 DEF CreateException, ExceptionTypeInv, Asked
  <2> QED BY <2>2, <2>3 DEF EntitledInv, Entitled, ExceptionTypeInv
<1>2. CASE ChangeApprovers
  <2>1. Asked' = Asked /\ cases' = cases /\ rulings' = rulings
    BY <1>2 DEF ChangeApprovers, Asked
  <2>2. \A c \in Asked : everEntitled'[c] = everEntitled[c] \union Entitled(designated')
    BY <1>2 DEF ChangeApprovers, Asked
  <2>3. \A d \in Deciders : rulings[d] # NoRuling => rulings[d].case \in Asked
    BY DEF ExceptionTypeInv
  <2>4. Entitled(designated)' = Entitled(designated')
    BY DEF Entitled
  <2> QED BY <2>1, <2>2, <2>3, <2>4 DEF EntitledInv
<1>3. ASSUME NEW x \in Claims, DeleteClaim(x) PROVE EntitledInv'
  <2>1. Asked' \subseteq Asked
    BY <1>3 DEF DeleteClaim, Asked
  <2>2. \A c \in Asked : cases'[c].by = cases[c].by
    BY <1>3 DEF DeleteClaim, Asked, ExceptionTypeInv, CaseRow
  <2>3. UNCHANGED <<designated, everEntitled, rulings>> /\ Entitled(designated)' = Entitled(designated)
    BY <1>3 DEF DeleteClaim, Entitled
  <2> QED BY <2>1, <2>2, <2>3 DEF EntitledInv
<1>4. ASSUME NEW d \in Deciders, BeginRuling(d) PROVE EntitledInv'
  <2>1. PICK c \in Asked, a \in Approvers, v \in Verdict :
          /\ MayRule(a)
          /\ rulings' = [rulings EXCEPT ![d] =
              [step |-> "write", case |-> c, claim |-> cases[c].claim, by |-> a, verdict |-> v]]
    BY <1>4 DEF BeginRuling
  <2>2. a \in everEntitled[c]
    BY <2>1 DEF MayRule, Entitled, EntitledInv
  <2>3. UNCHANGED <<cases, designated, everEntitled, Asked>> /\ Entitled(designated)' = Entitled(designated)
    BY <1>4 DEF BeginRuling, Asked, Entitled
  <2>4. \A e \in Deciders : rulings'[e] # NoRuling => rulings'[e].by \in everEntitled[rulings'[e].case]
    BY <2>1, <2>2 DEF EntitledInv, ExceptionTypeInv
  <2> QED BY <2>3, <2>4 DEF EntitledInv
<1>5. ASSUME NEW d \in Deciders, WriteRuling(d) PROVE EntitledInv'
  <2> DEFINE r == rulings[d]
  <2>1. /\ UNCHANGED <<designated, everEntitled>>
        /\ Entitled(designated)' = Entitled(designated)
        /\ \A e \in Deciders : rulings'[e] # NoRuling => rulings'[e] = rulings[e]
    BY <1>5 DEF WriteRuling, Entitled, ExceptionTypeInv
  <2>2. r.case \in Asked /\ r.case \in Cases /\ r.by \in everEntitled[r.case]
    BY <1>5 DEF WriteRuling, EntitledInv, ExceptionTypeInv, Asked
  <2>3. CASE UNCHANGED cases
    BY <2>1, <2>3 DEF EntitledInv, Asked
  <2>4. CASE cases' = [cases EXCEPT ![r.case].status = r.verdict, ![r.case].by = {r.by}]
    <3>1. \A c \in Cases \ {r.case} : cases'[c] = cases[c]
      BY <2>4 DEF ExceptionTypeInv
    <3>2. Asked' \subseteq Asked
      BY <2>2, <3>1 DEF Asked
    <3>3. cases[r.case] \in CaseRow
      BY <2>2 DEF ExceptionTypeInv, Asked
    <3>4. cases'[r.case].by = {r.by}
      BY <2>2, <2>4, <3>3 DEF ExceptionTypeInv, CaseRow
    <3>5. \A c \in Asked' : cases'[c].by \subseteq everEntitled[c]
      BY <2>2, <3>1, <3>2, <3>4 DEF EntitledInv, Asked
    <3> QED BY <2>1, <3>2, <3>5 DEF EntitledInv
  <2> QED BY <1>5, <2>3, <2>4 DEF WriteRuling
<1>6. CASE UNCHANGED exceptionVars
  BY <1>6 DEF exceptionVars, EntitledInv, Asked, Entitled
<1> QED BY <1>1, <1>2, <1>3, <1>4, <1>5, <1>6 DEF ExceptionNext

\* A decision being written is about the receipt of its exception, or one that is gone.
LEMMA ClaimStep ==
  ASSUME ExceptionTypeInv, ClaimInv, [ExceptionNext]_exceptionVars
  PROVE  ClaimInv'
<1> USE NoRulingIsNone, NoCaseIsNone
<1>1. ASSUME NEW c \in Cases, CreateException(c) PROVE ClaimInv'
  <2>1. PICK x \in Claims :
          /\ refund[x] # "gone"
          /\ cases' = [cases EXCEPT ![c] = [status |-> "PENDING", claim |-> {x}, by |-> {}]]
    BY <1>1 DEF CreateException
  <2>2. Asked' = Asked \union {c} /\ c \notin Asked
    BY <1>1, <2>1 DEF Asked, CreateException, ExceptionTypeInv, NoCase
  <2>3. /\ \A b \in Asked : cases'[b] = cases[b]
        /\ cases'[c].claim = {x} /\ refund' = refund /\ rulings' = rulings
    BY <1>1, <2>1, <2>2 DEF CreateException, ExceptionTypeInv, Asked
  <2> QED BY <2>1, <2>2, <2>3 DEF ClaimInv, ExceptionTypeInv
<1>2. CASE ChangeApprovers
  BY <1>2 DEF ChangeApprovers, ClaimInv, Asked
<1>3. ASSUME NEW x \in Claims, DeleteClaim(x) PROVE ClaimInv'
  <2>1. Asked' \subseteq Asked
    BY <1>3 DEF DeleteClaim, Asked
  <2>2. \A c \in Asked : cases'[c].claim = cases[c].claim \ {x}
    BY <1>3 DEF DeleteClaim, Asked, ExceptionTypeInv, CaseRow
  <2>3. /\ rulings' = rulings /\ refund'[x] = "gone"
        /\ \A y \in Claims \ {x} : refund'[y] = refund[y]
    BY <1>3 DEF DeleteClaim, ExceptionTypeInv
  <2>4. \A c \in Asked : cases[c].claim \subseteq Claims
    BY DEF Asked, ExceptionTypeInv, CaseRow
  <2>5. \A c \in Asked' : \A y \in cases'[c].claim : refund'[y] # "gone"
    BY <2>1, <2>2, <2>3, <2>4 DEF ClaimInv
  <2>6. \A d \in Deciders : rulings[d] # NoRuling => rulings[d].claim \subseteq Claims
    BY DEF ExceptionTypeInv, Ruling
  <2>7. ASSUME NEW d \in Deciders, rulings[d] # NoRuling
        PROVE  /\ cases'[rulings[d].case].claim \subseteq rulings[d].claim
               /\ \A y \in rulings[d].claim :
                      refund'[y] = "gone" \/ y \in cases'[rulings[d].case].claim
    BY <2>2, <2>3, <2>6, <2>7 DEF ClaimInv, ExceptionTypeInv
  <2> QED BY <2>3, <2>5, <2>7 DEF ClaimInv
<1>4. ASSUME NEW d \in Deciders, BeginRuling(d) PROVE ClaimInv'
  <2>1. PICK c \in Asked, a \in Approvers, v \in Verdict :
          rulings' = [rulings EXCEPT ![d] =
              [step |-> "write", case |-> c, claim |-> cases[c].claim, by |-> a, verdict |-> v]]
    BY <1>4 DEF BeginRuling
  <2>2. UNCHANGED <<cases, refund, Asked>>
    BY <1>4 DEF BeginRuling, Asked
  <2>3. \A e \in Deciders : rulings'[e] # NoRuling =>
          \/ rulings'[e] = rulings[e]
          \/ rulings'[e].case = c /\ rulings'[e].claim = cases[c].claim
    BY <2>1 DEF ExceptionTypeInv
  <2> QED BY <2>2, <2>3 DEF ClaimInv
<1>5. ASSUME NEW d \in Deciders, WriteRuling(d) PROVE ClaimInv'
  <2> DEFINE r == rulings[d]
  <2>1. \A e \in Deciders : rulings'[e] # NoRuling => rulings'[e] = rulings[e]
    BY <1>5 DEF WriteRuling, ExceptionTypeInv
  <2>2. CASE UNCHANGED <<cases, refund>>
    BY <2>1, <2>2 DEF ClaimInv, Asked
  <2>3. CASE /\ \A x \in r.claim : refund[x] # "gone"
             /\ cases' = [cases EXCEPT ![r.case].status = r.verdict, ![r.case].by = {r.by}]
             /\ refund' = [x \in Claims |->
                    IF x \in r.claim THEN RefundAfter(x, r.verdict) ELSE refund[x]]
    <3>1. r.case \in Asked /\ r.case \in Cases /\ cases[r.case] \in CaseRow
      BY <1>5 DEF WriteRuling, ExceptionTypeInv, Asked
    <3>2. \A c \in Cases \ {r.case} : cases'[c] = cases[c]
      BY <2>3 DEF ExceptionTypeInv
    <3>3. cases'[r.case].claim = cases[r.case].claim
      BY <2>3, <3>1 DEF ExceptionTypeInv, CaseRow
    <3>4. \A x \in Claims : refund'[x] = "gone" <=> refund[x] = "gone"
      BY <2>3 DEF RefundAfter
    <3>5. Asked' \subseteq Asked
      BY <3>1, <3>2 DEF Asked
    <3>6. \A c \in Asked : cases'[c].claim = cases[c].claim /\ cases[c].claim \subseteq Claims
      BY <3>2, <3>3 DEF Asked, ExceptionTypeInv, CaseRow
    <3>7. \A e \in Deciders : rulings[e] # NoRuling =>
            rulings[e].case \in Asked /\ rulings[e].claim \subseteq Claims
      BY DEF ExceptionTypeInv, Ruling
    <3> QED BY <2>1, <3>4, <3>5, <3>6, <3>7 DEF ClaimInv
  <2> QED BY <1>5, <2>2, <2>3 DEF WriteRuling
<1>6. CASE UNCHANGED exceptionVars
  BY <1>6 DEF exceptionVars, ClaimInv, Asked
<1> QED BY <1>1, <1>2, <1>3, <1>4, <1>5, <1>6 DEF ExceptionNext

--------------------------------------------------------------------------------
\* A decision on another exception cannot have read this one's receipt: it would
\* still be that exception's too.
LEMMA RefundStep ==
  ASSUME ExceptionTypeInv, ClaimInv, RefundFollowsRuling, [ExceptionNext]_exceptionVars
  PROVE  RefundFollowsRuling'
<1> USE NoRulingIsNone, NoCaseIsNone
<1>0. \A c \in Asked : c \in Cases /\ cases[c] \in CaseRow
  BY DEF Asked, ExceptionTypeInv
<1>1. ASSUME NEW b \in Cases, CreateException(b) PROVE RefundFollowsRuling'
  <2>1. PICK y \in Claims :
          cases' = [cases EXCEPT ![b] = [status |-> "PENDING", claim |-> {y}, by |-> {}]]
    BY <1>1 DEF CreateException
  <2>2. Asked' = Asked \union {b} /\ b \notin Asked
    BY <1>1, <2>1 DEF Asked, CreateException, ExceptionTypeInv, NoCase
  <2>3. /\ \A c \in Asked : cases'[c] = cases[c]
        /\ cases'[b].status \notin Verdict /\ refund' = refund
    BY <1>1, <2>1, <2>2 DEF CreateException, ExceptionTypeInv, Asked, Verdict
  <2> QED BY <2>2, <2>3 DEF RefundFollowsRuling
<1>2. CASE ChangeApprovers
  BY <1>2 DEF ChangeApprovers, RefundFollowsRuling, Asked
<1>3. ASSUME NEW y \in Claims, DeleteClaim(y) PROVE RefundFollowsRuling'
  <2>1. Asked' = Asked
    BY <1>3, AskedGrows DEF DeleteClaim, Asked
  <2>2. \A c \in Asked : cases'[c].claim = cases[c].claim \ {y} /\ cases'[c].status = cases[c].status
    BY <1>0, <1>3 DEF DeleteClaim, CaseRow
  <2>3. \A x \in Claims \ {y} : refund'[x] = refund[x]
    BY <1>3 DEF DeleteClaim, ExceptionTypeInv
  <2>4. \A c \in Asked : cases[c].claim \subseteq Claims
    BY <1>0 DEF CaseRow
  <2> QED BY <2>1, <2>2, <2>3, <2>4 DEF RefundFollowsRuling
<1>4. ASSUME NEW d \in Deciders, BeginRuling(d) PROVE RefundFollowsRuling'
  BY <1>4 DEF BeginRuling, RefundFollowsRuling, Asked
<1>5. ASSUME NEW d \in Deciders, WriteRuling(d) PROVE RefundFollowsRuling'
  <2> DEFINE r == rulings[d]
  <2>1. CASE UNCHANGED <<cases, refund>>
    BY <2>1 DEF RefundFollowsRuling, Asked
  <2>2. CASE /\ \A x \in r.claim : refund[x] # "gone"
             /\ cases' = [cases EXCEPT ![r.case].status = r.verdict, ![r.case].by = {r.by}]
             /\ refund' = [x \in Claims |->
                    IF x \in r.claim THEN RefundAfter(x, r.verdict) ELSE refund[x]]
    <3>1. r.case \in Asked /\ r \in Ruling
      BY <1>5 DEF WriteRuling, ExceptionTypeInv
    <3>2. \A c \in Cases \ {r.case} : cases'[c] = cases[c]
      BY <2>2 DEF ExceptionTypeInv
    <3>3. cases'[r.case].claim = cases[r.case].claim /\ cases'[r.case].status = r.verdict
      BY <1>0, <2>2, <3>1 DEF ExceptionTypeInv, CaseRow
    <3>4. Asked' = Asked
      BY <1>0, <3>1, <3>2, AskedGrows DEF Asked
    <3>5. /\ cases[r.case].claim \subseteq r.claim
          /\ \A x \in r.claim : x \in cases[r.case].claim
      BY <1>5, <2>2, <3>1 DEF ClaimInv, WriteRuling
    <3>6. SUFFICES ASSUME NEW c \in Asked, NEW x \in cases[c].claim,
                          cases'[c].status \in Verdict,
                          \A b \in Asked \ {c} : x \notin cases[b].claim
                   PROVE  refund'[x] = IF cases'[c].status = "APPROVED" THEN "yes" ELSE "no"
      BY <1>0, <3>1, <3>2, <3>3, <3>4 DEF RefundFollowsRuling
    <3>7. x \in Claims
      BY <1>0 DEF CaseRow
    <3>8. CASE c = r.case
      BY <2>2, <3>3, <3>5, <3>7, <3>8 DEF RefundAfter
    <3>9. CASE c # r.case
      <4>1. x \notin r.claim
        BY <3>1, <3>5, <3>6, <3>9
      <4>2. refund'[x] = refund[x] /\ cases'[c] = cases[c]
        BY <1>0, <2>2, <3>2, <3>7, <3>9, <4>1
      <4> QED BY <3>6, <4>2 DEF RefundFollowsRuling
    <3> QED BY <3>8, <3>9
  <2> QED BY <1>5, <2>1, <2>2 DEF WriteRuling
<1>6. CASE UNCHANGED exceptionVars
  BY <1>6 DEF exceptionVars, RefundFollowsRuling, Asked
<1> QED BY <1>1, <1>2, <1>3, <1>4, <1>5, <1>6 DEF ExceptionNext

--------------------------------------------------------------------------------
ExceptionInv == ExceptionTypeInv /\ EntitledInv /\ ClaimInv /\ RefundFollowsRuling

\* The inductive invariant holds before anything is asked for.
LEMMA ExceptionInvAtFirst == ASSUME ExceptionInit PROVE ExceptionInv
<1>1. Asked = {}
  BY DEF ExceptionInit, Asked
<1>2. ExceptionTypeInv
  BY DEF ExceptionInit, ExceptionTypeInv
<1> QED BY <1>1, <1>2 DEF ExceptionInv, EntitledInv, ClaimInv, RefundFollowsRuling, ExceptionInit

\* The invariant of every behaviour, of which the theorems name what matters.
LEMMA ExceptionInvHolds == ExceptionSpec => []ExceptionInv
<1>1. ExceptionInit => ExceptionInv
  BY ExceptionInvAtFirst
<1>2. ExceptionInv /\ [ExceptionNext]_exceptionVars => ExceptionInv'
  BY ExceptionTypeStep, EntitledStep, ClaimStep, RefundStep DEF ExceptionInv
<1> QED BY <1>1, <1>2, PTL DEF ExceptionSpec

\* Whoever decides an exception, however late the decision is written and however the
\* designated approvers change meanwhile, could decide it since it was asked for
\* (decideException checks once, decideExceptionTx checks nothing).
THEOREM RulingsEntitled == ExceptionSpec => []RuledByEntitled
<1>1. ExceptionInv => RuledByEntitled
  BY DEF ExceptionInv, EntitledInv, RuledByEntitled
<1> QED BY <1>1, ExceptionInvHolds, PTL

\* The refund flag of a receipt with one exception is what the exception says, for any
\* number of decisions that overwrite each other (decideExceptionTx writes both).
THEOREM RefundsFollow == ExceptionSpec => []RefundFollowsRuling
<1>1. ExceptionInv => RefundFollowsRuling
  BY DEF ExceptionInv
<1> QED BY <1>1, ExceptionInvHolds, PTL

\* An exception has been decided by somebody, or is pending.
SettledInv == \A c \in Asked : (cases[c].by = {}) = (cases[c].status = "PENDING")

\* A decision names who takes it, and only a decision does.
LEMMA SettledStep ==
  ASSUME ExceptionTypeInv, SettledInv, [ExceptionNext]_exceptionVars
  PROVE  SettledInv'
<1> USE NoCaseIsNone, NoRulingIsNone
<1>1. ASSUME NEW c \in Cases, CreateException(c) PROVE SettledInv'
  <2>1. PICK x \in Claims :
          cases' = [cases EXCEPT ![c] = [status |-> "PENDING", claim |-> {x}, by |-> {}]]
    BY <1>1 DEF CreateException
  <2> QED BY <2>1 DEF SettledInv, Asked, ExceptionTypeInv
<1>2. ASSUME NEW x \in Claims, DeleteClaim(x) PROVE SettledInv'
  <2>1. \A c \in Asked' : c \in Asked
    BY <1>2 DEF DeleteClaim, Asked
  <2>2. \A c \in Asked : cases'[c].by = cases[c].by /\ cases'[c].status = cases[c].status
    BY <1>2 DEF DeleteClaim, Asked, ExceptionTypeInv, CaseRow
  <2> QED BY <2>1, <2>2 DEF SettledInv
<1>3. ASSUME NEW d \in Deciders, WriteRuling(d) PROVE SettledInv'
  <2> DEFINE r == rulings[d]
  <2>1. r \in Ruling /\ r.case \in Asked
    BY <1>3 DEF WriteRuling, ExceptionTypeInv
  <2>2. r.verdict # "PENDING" /\ r.case \in Cases /\ cases[r.case] \in CaseRow
    BY <2>1 DEF Ruling, Verdict, Asked, ExceptionTypeInv
  <2>3. CASE cases' = [cases EXCEPT ![r.case].status = r.verdict, ![r.case].by = {r.by}]
    <3>1. cases'[r.case].by = {r.by} /\ cases'[r.case].status = r.verdict
      BY <2>2, <2>3 DEF ExceptionTypeInv, CaseRow
    <3>2. \A c \in Cases \ {r.case} : cases'[c] = cases[c]
      BY <2>3 DEF ExceptionTypeInv
    <3> QED BY <2>1, <2>2, <3>1, <3>2 DEF SettledInv, Asked
  <2>4. CASE UNCHANGED cases
    BY <2>4 DEF SettledInv, Asked
  <2> QED BY <1>3, <2>3, <2>4 DEF WriteRuling
<1>4. ASSUME UNCHANGED cases PROVE SettledInv'
  BY <1>4 DEF SettledInv, Asked
<1> QED
  BY <1>1, <1>2, <1>3, <1>4 DEF ExceptionNext, exceptionVars, ChangeApprovers, BeginRuling

\* An exception is pending and undecided or decided by somebody designated for the request
\* (policy_exceptions.status, decidedBy), whoever else is deciding it at the same time.
THEOREM ExceptionsTyped == ExceptionSpec => []ExceptionTypeOK
<1>1. ExceptionTypeInv /\ SettledInv => ExceptionTypeOK
  BY DEF ExceptionTypeInv, SettledInv, ExceptionTypeOK, Asked, CaseRow
<1>2. ExceptionInit => SettledInv
  BY DEF ExceptionInit, SettledInv, Asked
<1>3. ExceptionInv => ExceptionTypeInv
  BY DEF ExceptionInv
<1>4. ExceptionTypeInv /\ SettledInv /\ [ExceptionNext]_exceptionVars => SettledInv'
  BY SettledStep
<1> QED BY <1>1, <1>2, <1>3, <1>4, ExceptionInvHolds, PTL DEF ExceptionSpec

--------------------------------------------------------------------------------
\* An edit in flight: what it enters is what its check compares, and a policy that is
\* not written yet is entered whole.
Places == Combination \union {"from", "to"}
IsEdit(x) ==
    /\ x = [step |-> x.step, policy |-> x.policy, entered |-> x.entered, merged |-> x.merged]
    /\ x.step \in {"check", "write"} /\ x.policy \in Policies
    /\ DOMAIN x.merged = Fields /\ DOMAIN x.entered \subseteq Fields
    /\ \A k \in DOMAIN x.entered : x.entered[k] = x.merged[k]
    /\ policies[x.policy] = NoPolicy => DOMAIN x.entered = Fields

PolicyTypeInv ==
    /\ DOMAIN policies = Policies /\ DOMAIN edits = Editors
    /\ \A p \in Policies : policies[p] # NoPolicy => DOMAIN policies[p] = Fields
    /\ \A e \in Editors : edits[e] # NoEdit => IsEdit(edits[e])

\* What the check of a lone administrator has found stays true until the write.
Checked(x) ==
    /\ policies[x.policy] # NoPolicy =>
           \A k \in Places \ DOMAIN x.entered : x.merged[k] = policies[x.policy][k]
    /\ x.step = "write" => ~Overlaps(x.policy, x.merged)
LoneEditInv ==
    ~crowded => /\ \A d, e \in Editing : d = e
                /\ \A e \in Editing : Checked(edits[e])

\* The policy frozen in the request is one of those that ruled.
FrozenInv == ruling # {} => snapshot # NoPolicy /\ snapshot \in ruling

PolicyInv == PolicyTypeInv /\ LoneEditInv /\ NoOverlap /\ FrozenInv

--------------------------------------------------------------------------------
\* A policy that is written is told from none, and an edit in flight from none.
LEMMA PolicyNames ==
  /\ NoEdit.step \notin {"check", "write"}
  /\ \A w : DOMAIN w = Fields => w # NoPolicy
  /\ \A x : IsEdit(x) => x # NoEdit
<1>1. NoEdit.step \notin {"check", "write"}
  BY DEF NoEdit
<1>2. ASSUME NEW w, DOMAIN w = Fields PROVE w # NoPolicy
  <2>1. "from" \notin DOMAIN NoPolicy /\ "from" \in Fields
    BY DEF NoPolicy, Fields
  <2> QED BY <1>2, <2>1
<1>3. \A x : IsEdit(x) => x # NoEdit
  BY <1>1 DEF IsEdit
<1> QED BY <1>1, <1>2, <1>3

\* The parts of a policy that its row and its form agree on decide what it overlaps.
LEMMA OverlapBy ==
  ASSUME NEW f, NEW g, \A k \in Places : f[k] = g[k], NEW h
  PROVE  /\ Pick(f, Combination) = Pick(g, Combination)
         /\ Meet(f, h) <=> Meet(g, h)
         /\ Meet(h, f) <=> Meet(f, h)
<1>1. \A k \in Combination : f[k] = g[k]
  BY DEF Places
<1>2. f.from = g.from /\ f.to = g.to
  BY DEF Places
<1> QED BY <1>1, <1>2 DEF Pick, Meet

\* Every edit in flight keeps the shape it began with.
LEMMA PolicyTypeStep == PolicyTypeInv /\ [PolicyNext]_policyVars => PolicyTypeInv'
<1> SUFFICES ASSUME PolicyTypeInv, [PolicyNext]_policyVars PROVE PolicyTypeInv'
  OBVIOUS
<1> USE PolicyNames
<1>1. ASSUME NEW e \in Editors, BeginEdit(e) PROVE PolicyTypeInv'
  <2>1. PICK p \in Policies, f \in Forms, F \in {Fields, Combination, {"from", "to"}, {"active"}} :
          /\ IF p \in Written THEN F # Fields
             ELSE F = Fields /\ f.active /\ p \notin {edits[d].policy : d \in Editing}
          /\ LET merged == [k \in Fields |-> IF k \in F THEN f[k] ELSE policies[p][k]]
             IN  edits' = [edits EXCEPT ![e] =
                     [step |-> "check", policy |-> p, entered |-> Pick(f, F), merged |-> merged]]
    BY <1>1 DEF BeginEdit
  <2>2. F \subseteq Fields /\ policies' = policies
    BY <1>1, <2>1 DEF Fields, Combination, BeginEdit
  <2>3. IsEdit(edits[e])'
    BY <2>1, <2>2 DEF IsEdit, Pick, PolicyTypeInv, Written
  <2> QED BY <2>1, <2>2, <2>3 DEF PolicyTypeInv, IsEdit
<1>2. ASSUME NEW e \in Editors, CheckOverlap(e) PROVE PolicyTypeInv'
  <2>1. IsEdit(edits[e]) /\ policies' = policies
    BY <1>2 DEF CheckOverlap, PolicyTypeInv
  <2>2. edits'[e] = NoEdit \/ IsEdit(edits'[e])
    BY <1>2, <2>1 DEF CheckOverlap, PolicyTypeInv, IsEdit
  <2> QED BY <1>2, <2>1, <2>2 DEF CheckOverlap, PolicyTypeInv, IsEdit
<1>3. ASSUME NEW e \in Editors, WritePolicy(e) PROVE PolicyTypeInv'
  <2> DEFINE p == edits[e].policy
             new == [k \in Fields |-> IF k \in DOMAIN edits[e].entered THEN edits[e].entered[k] ELSE policies[p][k]]
  <2>1. IsEdit(edits[e]) /\ p \in Policies
    BY <1>3 DEF WritePolicy, PolicyTypeInv, IsEdit
  <2>2. policies' = [policies EXCEPT ![p] = new] /\ edits' = [edits EXCEPT ![e] = NoEdit]
    BY <1>3, <2>1 DEF WritePolicy, PolicyTypeInv
  <2>3. DOMAIN new = Fields
    OBVIOUS
  <2> HIDE DEF new
  <2> QED BY <2>1, <2>2, <2>3 DEF PolicyTypeInv, IsEdit
<1>4. ASSUME NEW p \in Policies, Deactivate(p) \/ SetExpenseCaps(p) PROVE PolicyTypeInv'
  <2>1. policies[p] # NoPolicy /\ DOMAIN policies' = Policies /\ edits' = edits
    BY <1>4 DEF Deactivate, SetExpenseCaps, Written, PolicyTypeInv
  <2>2. DOMAIN policies'[p] = Fields /\ \A q \in Policies \ {p} : policies'[q] = policies[q]
    BY <1>4, <2>1 DEF Deactivate, SetExpenseCaps, PolicyTypeInv
  <2> QED BY <2>1, <2>2 DEF PolicyTypeInv, IsEdit
<1>5. CASE SubmitRequest \/ NextDate \/ UNCHANGED policyVars
  BY <1>5 DEF SubmitRequest, NextDate, policyVars, PolicyTypeInv, IsEdit
<1> QED BY <1>1, <1>2, <1>3, <1>4, <1>5 DEF PolicyNext

\* A step that switches policies off, or changes nothing that tells where they are.
Tamed ==
    /\ Written' = Written
    /\ \A q \in Written : /\ policies'[q].active => policies[q].active
                          /\ \A k \in Places : policies'[q][k] = policies[q][k]

\* Switching a policy off and setting its caps are such steps.
LEMMA TamedSteps ==
  ASSUME PolicyTypeInv, NEW p \in Policies, Deactivate(p) \/ SetExpenseCaps(p)
  PROVE  Tamed
<1>1. p \in Written /\ DOMAIN policies[p] = Fields
  BY DEF Deactivate, SetExpenseCaps, PolicyTypeInv, Written
<1>2. /\ \A q \in Policies \ {p} : policies'[q] = policies[q]
      /\ DOMAIN policies'[p] = Fields
      /\ policies'[p].active => policies[p].active
      /\ \A k \in Places : policies'[p][k] = policies[p][k]
  <2>1. Places \subseteq Fields /\ "active" \notin Places /\ "cap" \notin Places /\ "active" # "cap"
    BY DEF Places, Fields, Combination
  <2>2. CASE Deactivate(p)
    BY <1>1, <2>1, <2>2 DEF Deactivate, PolicyTypeInv
  <2>3. CASE SetExpenseCaps(p)
    <3>1. PICK c : policies' = [policies EXCEPT ![p] = [@ EXCEPT !.cap = c]]
      BY <2>3 DEF SetExpenseCaps
    <3> QED BY <1>1, <2>1, <3>1 DEF PolicyTypeInv
  <2> QED BY <2>2, <2>3
<1>3. policies'[p] # NoPolicy
  BY <1>2, PolicyNames
<1> QED BY <1>1, <1>2, <1>3 DEF Tamed, Written

\* Nobody but an administrator with an edit in flight makes a new overlap.
LEMMA LoneEditStep ==
  PolicyTypeInv /\ LoneEditInv /\ [PolicyNext]_policyVars => LoneEditInv'
<1> SUFFICES ASSUME PolicyTypeInv, LoneEditInv, [PolicyNext]_policyVars, ~crowded'
             PROVE  /\ \A d, e \in Editing' : d = e
                    /\ \A e \in Editing' : Checked(edits[e])'
  BY DEF LoneEditInv
<1> USE PolicyNames
<1>1. ASSUME NEW e \in Editors, BeginEdit(e)
      PROVE  /\ \A d, c \in Editing' : d = c
             /\ \A d \in Editing' : Checked(edits[d])'
  <2>1. PICK p \in Policies, f \in Forms, F \in {Fields, Combination, {"from", "to"}, {"active"}} :
          LET merged == [k \in Fields |-> IF k \in F THEN f[k] ELSE policies[p][k]]
          IN  edits' = [edits EXCEPT ![e] =
                  [step |-> "check", policy |-> p, entered |-> Pick(f, F), merged |-> merged]]
    BY <1>1 DEF BeginEdit
  <2>2. policies' = policies /\ Editing' = {e}
    <3>1. policies' = policies /\ Editing = {}
      BY <1>1 DEF BeginEdit
    <3>2. edits'[e] # NoEdit /\ DOMAIN edits' = Editors
      <4>1. edits'[e].step = "check" /\ DOMAIN edits' = Editors
        BY <2>1 DEF PolicyTypeInv
      <4> QED BY <4>1
    <3>3. \A d \in Editors \ {e} : edits'[d] = NoEdit
      BY <2>1, <3>1 DEF Editing, PolicyTypeInv
    <3> QED BY <3>1, <3>2, <3>3 DEF Editing
  <2>3. Places \subseteq Fields
    BY DEF Places, Fields, Combination
  <2>4. Checked(edits[e])'
    BY <2>1, <2>2, <2>3 DEF Checked, Pick, PolicyTypeInv
  <2> QED BY <2>2, <2>4
<1>2. ASSUME NEW e \in Editors, CheckOverlap(e)
      PROVE  /\ \A d, c \in Editing' : d = c
             /\ \A d \in Editing' : Checked(edits[d])'
  <2>1. e \in Editing /\ IsEdit(edits[e]) /\ policies' = policies /\ ~crowded
    BY <1>2 DEF CheckOverlap, Editing, PolicyTypeInv
  <2>2. Editing' \subseteq {e}
    BY <1>2, <2>1 DEF CheckOverlap, LoneEditInv, Editing, PolicyTypeInv
  <2>3. CASE Overlaps(edits[e].policy, edits[e].merged)
    <3>1. edits'[e] = NoEdit
      BY <1>2, <2>3 DEF CheckOverlap, PolicyTypeInv
    <3> QED BY <2>2, <3>1 DEF Editing
  <2>4. CASE ~Overlaps(edits[e].policy, edits[e].merged)
    <3>1. edits'[e] = [edits[e] EXCEPT !.step = "write"]
      BY <1>2, <2>4 DEF CheckOverlap, PolicyTypeInv
    <3>2. /\ edits'[e].policy = edits[e].policy /\ edits'[e].merged = edits[e].merged
          /\ edits'[e].entered = edits[e].entered
      BY <2>1, <3>1 DEF IsEdit
    <3>3. Overlaps(edits[e].policy, edits[e].merged)' = Overlaps(edits[e].policy, edits[e].merged)
      BY <2>1, <3>2 DEF Overlaps, Written
    <3>4. Checked(edits[e])'
      BY <2>1, <2>4, <3>2, <3>3 DEF Checked, LoneEditInv
    <3> QED BY <2>2, <3>4
  <2> QED BY <2>3, <2>4
<1>3. ASSUME NEW e \in Editors, WritePolicy(e)
      PROVE  /\ \A d, c \in Editing' : d = c
             /\ \A d \in Editing' : Checked(edits[d])'
  <2>1. e \in Editing /\ ~crowded
    BY <1>3 DEF WritePolicy, Editing
  <2>2. Editing' = {}
    BY <1>3, <2>1 DEF WritePolicy, LoneEditInv, Editing, PolicyTypeInv
  <2> QED BY <2>2
<1>4. ASSUME NEW p \in Policies, Deactivate(p) \/ SetExpenseCaps(p)
      PROVE  /\ \A d, c \in Editing' : d = c
             /\ \A d \in Editing' : Checked(edits[d])'
  <2>1. Tamed /\ ~crowded /\ edits' = edits /\ Editing' = Editing
    BY <1>4, TamedSteps DEF Deactivate, SetExpenseCaps, Editing
  <2>2. ASSUME NEW d \in Editing PROVE Checked(edits[d])'
    <3> DEFINE x == edits[d]
    <3>1. IsEdit(x) /\ Checked(x)
      BY <2>1 DEF LoneEditInv, PolicyTypeInv, Editing
    <3>2. ASSUME x.step = "write" PROVE ~Overlaps(x.policy, x.merged)'
      <4>1. ~Overlaps(x.policy, x.merged)
        BY <3>1, <3>2 DEF Checked
      <4>2. ASSUME NEW q \in Written \ {x.policy}, policies'[q].active,
                   Pick(policies'[q], Combination) = Pick(x.merged, Combination)
            PROVE  ~Meet(x.merged, policies'[q])
        <5>1. policies[q].active /\ \A k \in Places : policies'[q][k] = policies[q][k]
          BY <2>1, <4>2 DEF Tamed
        <5>2. /\ Pick(policies'[q], Combination) = Pick(policies[q], Combination)
              /\ Meet(x.merged, policies'[q]) <=> Meet(x.merged, policies[q])
          BY <5>1, OverlapBy
        <5> QED BY <4>1, <4>2, <5>1, <5>2 DEF Overlaps
      <4> QED BY <2>1, <4>2 DEF Overlaps, Tamed
    <3>3. ASSUME policies'[x.policy] # NoPolicy,
                 NEW k \in Places \ DOMAIN x.entered
          PROVE  x.merged[k] = policies'[x.policy][k]
      <4>1. x.policy \in Written
        BY <2>1, <3>1, <3>3 DEF Tamed, Written, IsEdit
      <4> QED BY <2>1, <3>1, <4>1 DEF Checked, Tamed, Written
    <3> QED BY <2>1, <3>2, <3>3 DEF Checked
  <2> QED BY <2>1, <2>2 DEF LoneEditInv
<1>5. CASE SubmitRequest \/ NextDate \/ UNCHANGED policyVars
  <2>1. policies' = policies /\ edits' = edits /\ Editing' = Editing /\ ~crowded
    BY <1>5 DEF SubmitRequest, NextDate, policyVars, Editing
  <2> QED BY <2>1 DEF LoneEditInv, Checked, Overlaps, Written
<1> QED BY <1>1, <1>2, <1>3, <1>4, <1>5 DEF PolicyNext

\* What is written agrees with what was checked on all that an overlap depends on.
LEMMA NoOverlapStep ==
  PolicyTypeInv /\ LoneEditInv /\ NoOverlap /\ [PolicyNext]_policyVars => NoOverlap'
<1> SUFFICES ASSUME PolicyTypeInv, LoneEditInv, NoOverlap, [PolicyNext]_policyVars, ~crowded',
                    NEW p \in Written', NEW q \in Written', p # q,
                    policies'[p].active, policies'[q].active,
                    Pick(policies'[p], Combination) = Pick(policies'[q], Combination)
             PROVE  ~Meet(policies'[p], policies'[q])
  BY DEF NoOverlap
<1>1. ~crowded
  BY DEF PolicyNext, policyVars, BeginEdit, CheckOverlap, WritePolicy, Deactivate,
         SetExpenseCaps, SubmitRequest, NextDate
<1>2. CASE Tamed
  <2>1. /\ p \in Written /\ q \in Written /\ policies[p].active /\ policies[q].active
        /\ \A k \in Places : policies'[p][k] = policies[p][k] /\ policies'[q][k] = policies[q][k]
    BY <1>2 DEF Tamed
  <2>2. /\ Pick(policies[p], Combination) = Pick(policies[q], Combination)
        /\ Meet(policies'[p], policies'[q]) <=> Meet(policies[p], policies[q])
    BY <2>1, OverlapBy
  <2> QED BY <1>1, <2>1, <2>2 DEF NoOverlap
<1>3. CASE policies' = policies
  BY <1>1, <1>3 DEF NoOverlap, Written
<1>4. ASSUME NEW e \in Editors, WritePolicy(e) PROVE ~Meet(policies'[p], policies'[q])
  <2> DEFINE x == edits[e]
             new == [k \in Fields |-> IF k \in DOMAIN x.entered THEN x.entered[k] ELSE policies[x.policy][k]]
  <2>1. IsEdit(x) /\ Checked(x) /\ ~Overlaps(x.policy, x.merged) /\ x.policy \in Policies
    BY <1>1, <1>4, PolicyNames DEF WritePolicy, PolicyTypeInv, IsEdit, LoneEditInv, Editing, Checked
  <2>2. policies' = [policies EXCEPT ![x.policy] = new]
    BY <1>4, <2>1 DEF WritePolicy, PolicyTypeInv
  <2>3. \A k \in Places : new[k] = x.merged[k]
    <3>1. Places \subseteq Fields
      BY DEF Places, Fields, Combination
    <3> QED BY <2>1, <3>1 DEF IsEdit, Checked
  <2> HIDE DEF new
  <2>4. /\ policies'[x.policy] = new /\ \A r \in Policies \ {x.policy} : policies'[r] = policies[r]
        /\ p \in Policies /\ q \in Policies
    BY <2>1, <2>2 DEF PolicyTypeInv, Written
  <2>5. ASSUME NEW r \in Written' \ {x.policy}, policies'[r].active,
               Pick(new, Combination) = Pick(policies'[r], Combination)
        PROVE  ~Meet(new, policies'[r])
    <3>1. r \in Written /\ policies'[r] = policies[r]
      BY <2>4 DEF Written
    <3>2. ~Meet(x.merged, policies[r])
      BY <2>1, <2>3, <2>5, <3>1, OverlapBy DEF Overlaps
    <3> QED BY <2>3, <3>1, <3>2, OverlapBy
  <2>6. CASE p = x.policy
    BY <2>4, <2>5, <2>6
  <2>7. CASE q = x.policy
    <3>1. ~Meet(policies'[q], policies'[p])
      BY <2>4, <2>5, <2>7
    <3> QED BY <3>1 DEF Meet
  <2>8. CASE p # x.policy /\ q # x.policy
    <3>1. p \in Written /\ q \in Written /\ policies'[p] = policies[p] /\ policies'[q] = policies[q]
      BY <2>4, <2>8 DEF Written
    <3> QED BY <1>1, <3>1 DEF NoOverlap
  <2> QED BY <2>6, <2>7, <2>8
<1> QED
  BY <1>2, <1>3, <1>4, TamedSteps
  DEF PolicyNext, policyVars, BeginEdit, CheckOverlap, SubmitRequest, NextDate

\* The applicable policy is one of the most specific and most recent.
LEMMA FrozenStep == FrozenInv /\ [PolicyNext]_policyVars => FrozenInv'
<1> SUFFICES ASSUME FrozenInv, [PolicyNext]_policyVars PROVE FrozenInv'
  OBVIOUS
<1>1. CASE SubmitRequest
  <2>1. PICK f \in Applicable : snapshot' = f
    BY <1>1 DEF SubmitRequest
  <2>2. f \in Candidates /\ f # NoPolicy
    BY DEF Applicable, Candidates, Written
  <2>3. \A g \in Candidates : Score(g) <= Score(f) /\ (Score(g) = Score(f) => g.from <= f.from)
    <3> SUFFICES ASSUME NEW g \in Candidates
                 PROVE  Score(g) <= Score(f) /\ (Score(g) = Score(f) => g.from <= f.from)
      OBVIOUS
    <3>1. Before(f, g)
      BY DEF Applicable
    <3>2. Score(f) \in 0..4 /\ Score(g) \in 0..4
      BY DEF Score
    <3> QED BY <3>1, <3>2 DEF Before
  <2> QED BY <1>1, <2>1, <2>2, <2>3 DEF SubmitRequest, FrozenInv
<1>2. CASE ~SubmitRequest
  <2>1. ruling' = ruling /\ snapshot' = snapshot
    BY <1>2 DEF PolicyNext, policyVars, BeginEdit, CheckOverlap, WritePolicy, Deactivate,
                SetExpenseCaps, NextDate
  <2> QED BY <2>1 DEF FrozenInv
<1> QED BY <1>1, <1>2

\* At first there is no policy, no edit and no request.
LEMMA PolicyInvAtFirst == PolicyInit => PolicyInv
  BY DEF PolicyInit, PolicyInv, PolicyTypeInv, LoneEditInv, NoOverlap, FrozenInv, Editing, Written

\* The invariant holds in every reachable state.
LEMMA PolicyInvHolds == PolicySpec => []PolicyInv
<1>1. PolicyInv /\ [PolicyNext]_policyVars => PolicyInv'
  BY PolicyTypeStep, LoneEditStep, NoOverlapStep, FrozenStep DEF PolicyInv
<1> QED BY <1>1, PolicyInvAtFirst, PTL DEF PolicySpec

\* With one administrator at a time, createPolicy, updatePolicy, the caps and the switch
\* never leave two active policies of one combination in force on one day.
THEOREM PoliciesApart == PolicySpec => []NoOverlap
<1>1. PolicyInv => NoOverlap
  BY DEF PolicyInv
<1> QED BY <1>1, PolicyInvHolds, PTL

\* Once a request is submitted, its receipts are judged by a policy that ruled then,
\* whatever administrators, however many at once, have made of the policies since.
THEOREM PoliciesNotRetroactive == PolicySpec => []NotRetroactive
<1>1. PolicyInv => NotRetroactive
  BY DEF PolicyInv, FrozenInv, NotRetroactive, Preview
<1> QED BY <1>1, PolicyInvHolds, PTL

\* What the edits are counted against stays in its range.
PolicyCountInv == edited \in 0..MaxEdits /\ crowded \in BOOLEAN /\ date \in 1..LastDate

\* Edits and days are counted up to their bounds.
LEMMA PolicyCountStep ==
  ASSUME PolicyCountInv, [PolicyNext]_policyVars
  PROVE  PolicyCountInv'
<1>1. ASSUME NEW e \in Editors, BeginEdit(e) PROVE PolicyCountInv'
  <2>1. crowded' \in BOOLEAN /\ edited < MaxEdits /\ edited' = edited + 1 /\ date' = date
    BY <1>1 DEF BeginEdit, PolicyCountInv
  <2> QED BY <2>1, DatesAssumption DEF PolicyCountInv
<1>2. CASE NextDate
  BY <1>2, DatesAssumption DEF NextDate, PolicyCountInv
<1>3. CASE UNCHANGED <<edited, crowded, date>>
  BY <1>3 DEF PolicyCountInv
<1> QED
  BY <1>1, <1>2, <1>3 DEF PolicyNext, policyVars, CheckOverlap, WritePolicy, Deactivate,
     SetExpenseCaps, SubmitRequest

\* A policy, once created, has all its fields, whichever of them administrators enter
\* (updatePolicy merges the row with what was entered).
THEOREM PoliciesTyped == PolicySpec => []PolicyTypeOK
<1>1. PolicyInit => PolicyCountInv
  <2>1. PolicyInit => edited \in 0..MaxEdits /\ date \in 1..LastDate
    BY DatesAssumption DEF PolicyInit
  <2>2. PolicyInit => crowded \in BOOLEAN
    BY DEF PolicyInit
  <2> QED BY <2>1, <2>2 DEF PolicyCountInv
<1>2. PolicyInv => PolicyTypeInv
  BY DEF PolicyInv
<1>3. PolicyTypeInv /\ PolicyCountInv => PolicyTypeOK
  BY DEF PolicyTypeInv, PolicyCountInv, PolicyTypeOK, Written, IsEdit
<1>4. PolicyCountInv /\ [PolicyNext]_policyVars => PolicyCountInv'
  BY PolicyCountStep
<1> QED BY <1>1, <1>2, <1>3, <1>4, PolicyInvHolds, PTL DEF PolicySpec

================================================================================
