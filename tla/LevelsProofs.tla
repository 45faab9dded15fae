------------------------------ MODULE LevelsProofs ------------------------------
(***************************************************************************)
(* What holds of the levels and the approvers that the rules give a request, *)
(* for any rules, amounts and superiors; and of what its page shows of the    *)
(* decisions at those levels, for any trail.                                  *)
(***************************************************************************)
EXTENDS WorkflowRules, RequestJourney, DataLemmas, SequenceTheorems

\* Whoever is switching a rule has read it: it is there, and it stays.
RulesTypeInv ==
    /\ DOMAIN rules = Rules /\ DOMAIN toggles = Togglers /\ DOMAIN snapshots = Confirmed
    /\ \A i \in Rules : rules[i] # NoRule => IsRule(rules[i])
    /\ \A g \in Togglers : toggles[g] # NoToggle =>
           \A i \in Rules \intersect toggles[g].rule : rules[i] # NoRule

--------------------------------------------------------------------------------
\* A rule is told from none by its fields, and keeps being a rule when some of them
\* are taken from another or when it is switched.
LEMMA RuleFacts ==
  /\ ~IsRule(NoRule)
  /\ \A d, e, F : IsRule(d) /\ IsRule(e) =>
         IsRule([k \in RuleFields |-> IF k \in F THEN d[k] ELSE e[k]])
  /\ \A d, x : IsRule(d) => IsRule([d EXCEPT !.active = x])
<1>1. ~IsRule(NoRule)
  <2>1. "level" \notin DOMAIN NoRule /\ "level" \in RuleFields
    BY DEF NoRule, RuleFields
  <2> QED BY <2>1 DEF IsRule
<1>2. \A d, e, F : IsRule(d) /\ IsRule(e) =>
         IsRule([k \in RuleFields |-> IF k \in F THEN d[k] ELSE e[k]])
  <2> TAKE d, e, F
  <2> HAVE IsRule(d) /\ IsRule(e)
  <2> QED BY DEF IsRule, RuleFields
<1>3. \A d, x : IsRule(d) => IsRule([d EXCEPT !.active = x])
  BY DEF IsRule, RuleFields
<1> QED BY <1>1, <1>2, <1>3

\* Every edit of the rules leaves rules, and every switch has read one.
LEMMA RulesTypeStep == RulesTypeInv /\ [RulesNext]_ruleVars => RulesTypeInv'
<1> SUFFICES ASSUME RulesTypeInv, [RulesNext]_ruleVars PROVE RulesTypeInv'
  OBVIOUS
<1> USE DEF RulesTypeInv
<1>1. ASSUME NEW i \in Rules, CreateRule(i) PROVE RulesTypeInv'
  BY <1>1, RuleFacts, EntriesAssumption DEF CreateRule
<1>2. ASSUME NEW i \in Rules, UpdateRule(i) PROVE RulesTypeInv'
  <2>1. PICK d \in Entries, F \in Patches :
          rules' = [rules EXCEPT ![i] = [k \in RuleFields |-> IF k \in F THEN d[k] ELSE @[k]]]
    BY <1>2 DEF UpdateRule
  <2>2. IsRule(rules'[i])
    BY <1>2, <2>1, RuleFacts, EntriesAssumption DEF UpdateRule
  <2> QED BY <1>2, <2>1, <2>2, RuleFacts DEF UpdateRule
<1>3. ASSUME NEW g \in Togglers, NEW i \in Rules, BeginToggle(g, i) PROVE RulesTypeInv'
  BY <1>3 DEF BeginToggle
<1>4. ASSUME NEW g \in Togglers, EndToggle(g) PROVE RulesTypeInv'
  <2>1. \A i \in Rules : IF i \in toggles[g].rule
                         THEN IsRule(rules[i]) /\ IsRule(rules'[i]) ELSE rules'[i] = rules[i]
    BY <1>4, RuleFacts DEF EndToggle
  <2>2. \A i \in Rules : rules[i] # NoRule => rules'[i] # NoRule
    BY <2>1, RuleFacts
  <2> QED BY <1>4, <2>1, <2>2 DEF EndToggle
<1>5. ASSUME NEW t \in Confirmed, ConfirmRequest(t) PROVE RulesTypeInv'
  BY <1>5 DEF ConfirmRequest
<1>6. CASE UNCHANGED ruleVars
  BY <1>6 DEF ruleVars
<1> QED BY <1>1, <1>2, <1>3, <1>4, <1>5, <1>6 DEF RulesNext

--------------------------------------------------------------------------------
\* The rules that apply have levels and amounts, and the band's level is one.
LEMMA ScopedType ==
  ASSUME RulesTypeInv
  PROVE  /\ \A i \in Scoped : /\ rules[i].level \in 1..TopLevel /\ rules[i].steps \in 0..TopLevel
                              /\ rules[i].threshold \subseteq Int /\ rules[i].skipIfBelow \subseteq Int
         /\ \A a : BandLevels(a) \subseteq 1..TopLevel
<1>1. \A i \in Scoped : /\ rules[i].level \in 1..TopLevel /\ rules[i].steps \in 0..TopLevel
                        /\ rules[i].threshold \subseteq Int /\ rules[i].skipIfBelow \subseteq Int
  BY DEF Scoped, RulesTypeInv, IsRule
<1> QED BY <1>1, TopLevelAssumption DEF BandLevels, LowestBands, Bands

\* The levels that decide a request are some, and leave no gap: they start at the
\* highest of the levels that a skip asks for, and each reason for a level is one for
\* all below it.
LEMMA LevelsRange ==
  ASSUME RulesTypeInv, NEW a \in Amounts, NEW l \in BandLevels(a)
  PROVE  /\ LevelsWith(a, l) # {}
         /\ \A m, n \in LevelsWith(a, l) : m..n \subseteq LevelsWith(a, l)
<1> DEFINE A == {rules[i].level : i \in Skipping(a)}
<1>1. A \in SUBSET Nat /\ \A m \in A : m \in 1..TopLevel
  BY ScopedType DEF Skipping
<1>2. l \in 1..TopLevel
  BY ScopedType
<1>3. LevelsWith(a, l) # {}
  <2>1. CASE Skipping(a) = {}
    <3>1. 1 \in LevelsWith(a, l)
      BY <1>2, <2>1, TopLevelAssumption DEF LevelsWith
    <3> QED BY <3>1
  <2>2. CASE Skipping(a) # {}
    <3>1. A # {} /\ \A m \in A : m <= TopLevel
      BY <1>1, <2>2
    <3> HIDE DEF A
    <3>2. PICK m \in A : \A j \in A : j <= m
      BY <1>1, <3>1, GreatestOf, TopLevelAssumption
    <3>3. m \in LevelsWith(a, l)
      <4>1. m \in 1..TopLevel /\ \E i \in Skipping(a) : m = rules[i].level
        BY <1>1 DEF A
      <4>2. \A i \in Skipping(a) : rules[i].level <= m
        BY <3>2 DEF A
      <4> QED BY <4>1, <4>2 DEF LevelsWith
    <3> QED BY <3>3
  <2> QED BY <2>1, <2>2
<1>4. ASSUME NEW m \in LevelsWith(a, l), NEW n \in LevelsWith(a, l), NEW x \in m..n
      PROVE  x \in LevelsWith(a, l)
  <2>1. m \in 1..TopLevel /\ n \in 1..TopLevel /\ x \in 1..TopLevel /\ m <= x /\ x <= n
    BY TopLevelAssumption DEF LevelsWith
  <2>2. \A i \in Skipping(a) : rules[i].level <= x
    BY <1>1, <2>1 DEF LevelsWith
  <2>3. \A y \in 0..TopLevel : n <= y => x <= y
    BY <2>1, TopLevelAssumption
  <2>4. /\ \A i \in Skipping(a) : rules[i].level \in 0..TopLevel
        /\ \A i \in Climbing : rules[i].steps \in 0..TopLevel
        /\ \A i \in Raising : rules[i].level \in 0..TopLevel
    BY ScopedType, TopLevelAssumption DEF Skipping, Climbing, Raising
  <2>5. \/ \E i \in Skipping(a) : n <= rules[i].level
        \/ \E i \in Climbing : n <= rules[i].steps
        \/ /\ n <= l \/ \E i \in Raising : n <= rules[i].level
           /\ Climbing # {} \/ n <= 2
    BY DEF LevelsWith
  <2>6. n <= 2 => x <= 2
    BY <2>1
  <2>7. \/ \E i \in Skipping(a) : x <= rules[i].level
        \/ \E i \in Climbing : x <= rules[i].steps
        \/ /\ x <= l \/ \E i \in Raising : x <= rules[i].level
           /\ Climbing # {} \/ x <= 2
    BY <1>2, <2>3, <2>4, <2>5, <2>6
  <2> QED BY <2>1, <2>2, <2>7 DEF LevelsWith
<1> QED BY <1>3, <1>4

\* The band of a dearer request is not a lower one.
LEMMA DearerBand ==
  ASSUME RulesTypeInv, SensibleBands, NEW a \in Amounts, NEW b \in Amounts, a <= b,
         NEW k \in BandLevels(a), NEW l \in BandLevels(b)
  PROVE  k <= l
<1>1. Bands(b) \subseteq Bands(a)
  BY ScopedType, AmountsAssumption DEF Bands
<1>2. \A i \in Bands(a) : /\ rules[i].level \in 1..TopLevel /\ rules[i].level <= 2
                          /\ rules[i].threshold # {}
  BY ScopedType DEF Bands, SensibleBands
<1>3. CASE Bands(a) = {}
  BY <1>1, <1>3 DEF BandLevels
<1>4. CASE Bands(a) # {} /\ Bands(b) = {}
  BY <1>2, <1>4 DEF BandLevels, LowestBands
<1>5. CASE Bands(b) # {}
  <2>1. PICK i \in LowestBands(a) : k = rules[i].level
    BY <1>1, <1>5 DEF BandLevels
  <2>2. PICK j \in LowestBands(b) : l = rules[j].level
    BY <1>5 DEF BandLevels
  <2>3. i \in Bands(a) /\ j \in Bands(a)
    BY <1>1, <2>1, <2>2 DEF LowestBands
  <2>4. PICK s \in rules[i].threshold, t \in rules[j].threshold : s <= t
    BY <1>2, <2>1, <2>3 DEF LowestBands
  <2> QED BY <2>1, <2>2, <2>3, <2>4 DEF SensibleBands, Bands
<1> QED BY <1>3, <1>4, <1>5

\* With bands that grow with their thresholds, the levels of a dearer request include those
\* of a cheaper one, unless a skip left the cheaper one a single level.
LEMMA DearerLevels == RulesTypeInv => DearerNeedsMore
<1> SUFFICES ASSUME RulesTypeInv, SensibleBands, NEW a \in Amounts, NEW b \in Amounts, a <= b,
                    NEW k \in BandLevels(a), NEW l \in BandLevels(b)
             PROVE  \/ LevelsWith(a, k) \subseteq LevelsWith(b, l)
                    \/ \E n \in 1..TopLevel : LevelsWith(a, k) = {n}
  BY DEF DearerNeedsMore
<1> DEFINE By(n, h) == \/ \E i \in Climbing : n <= rules[i].steps
                       \/ /\ n <= h \/ \E i \in Raising : n <= rules[i].level
                          /\ Climbing # {} \/ n <= 2
<1>1. k <= l /\ k \in 1..TopLevel /\ l \in 1..TopLevel
  BY DearerBand, ScopedType
<1>2. Skipping(b) \subseteq Skipping(a)
  BY ScopedType, AmountsAssumption DEF Skipping
<1>3. ASSUME NEW n \in LevelsWith(a, k), By(n, k) PROVE n \in LevelsWith(b, l)
  BY <1>1, <1>2, <1>3 DEF LevelsWith
<1>4. ASSUME NEW n \in LevelsWith(a, k), ~By(n, k) PROVE LevelsWith(a, k) = {n}
  <2>1. PICK i \in Skipping(a) : n <= rules[i].level
    BY <1>4 DEF LevelsWith
  <2>2. ASSUME NEW m \in LevelsWith(a, k) PROVE m = n
    <3>1. m \in 1..TopLevel /\ n \in 1..TopLevel /\ rules[i].level \in 1..TopLevel
      BY ScopedType DEF LevelsWith, Skipping
    <3>2. n <= m
      <4>1. rules[i].level <= m
        BY DEF LevelsWith
      <4> QED BY <2>1, <3>1, <4>1
    <3>3. ASSUME n < m PROVE FALSE
      <4>1. \A j \in Skipping(a) : rules[j].level <= n /\ rules[j].level \in 1..TopLevel
        BY ScopedType DEF LevelsWith, Skipping
      <4>2. By(m, k)
        BY <3>1, <3>3, <4>1 DEF LevelsWith
      <4>3. /\ \A j \in Climbing : rules[j].steps \in 0..TopLevel
            /\ \A j \in Raising : rules[j].level \in 1..TopLevel
        BY ScopedType DEF Climbing, Raising
      <4>4. By(n, k)
        BY <1>1, <3>1, <3>3, <4>2, <4>3
      <4> QED BY <1>4, <4>4
    <3> QED BY <3>1, <3>2, <3>3
  <2> QED BY <2>2
<1>5. \A n \in LevelsWith(a, k) : n \in 1..TopLevel
  BY DEF LevelsWith
<1> HIDE DEF By
<1> QED BY <1>3, <1>4, <1>5

--------------------------------------------------------------------------------
\* A chain or a fallback is a sequence, and what is said of a level of one is the user
\* at that place, if there is one.
LEMMA LevelOf ==
  ASSUME NEW S, NEW s \in Seq(S), NEW n \in Nat \ {0}
  PROVE  AtLevel(s, n) = IF n <= Len(s) THEN <<s[n]>> ELSE <<>>
<1>1. CASE n <= Len(s)
  <2>1. AtLevel(s, n) = [i \in 1..1 |-> s[n]]
    BY <1>1 DEF AtLevel
  <2> QED BY <1>1, <2>1
<1>2. CASE n > Len(s)
  <2>1. AtLevel(s, n) = <<>>
    BY <1>2 DEF AtLevel
  <2> QED BY <1>2, <2>1
<1> QED BY <1>1, <1>2

\* The approvers that a snapshot lists for the first two levels are the ones its fields
\* name, however short the chain of superiors and whoever stands in.
LEMMA SnapshotLists ==
  ASSUME NEW L, NEW c \in Chains, NEW n1 \in Fallbacks, NEW n2 \in Fallbacks
  PROVE  LET s == BuildRuleSnapshot(L, c, n1, n2)
         IN  /\ s.levels = L
             /\ 1 \in L => s.approvers[1] = s.n1UserId
             /\ 2 \in L => s.approvers[2] \in {<<>>, s.n2UserId}
<1> DEFINE S == {c[i] : i \in DOMAIN c} \union {n1[i] : i \in DOMAIN n1} \union {n2[i] : i \in DOMAIN n2}
           ids == ApproverIds(c, n1, n2)
<1>1. \A s \in Chains \union Fallbacks : s \in Seq({s[i] : i \in DOMAIN s})
  BY ApproversAssumption
<1>2. /\ c \in Seq(S) /\ n1 \in Seq(S) /\ n2 \in Seq(S)
      /\ Len(c) \in Nat /\ Len(n1) \in 0..1 /\ Len(n2) \in 0..1
  <2>1. ASSUME NEW s \in {c, n1, n2} PROVE s \in Seq(S)
    <3>1. s \in Seq({s[i] : i \in DOMAIN s}) /\ {s[i] : i \in DOMAIN s} \subseteq S
      BY <1>1
    <3> QED BY <3>1, SeqMonotonic
  <2>2. Len(c) \in Nat /\ Len(n1) \in 0..1 /\ Len(n2) \in 0..1
    <3>1. Len(c) \in Nat /\ Len(n1) \in Nat /\ Len(n2) \in Nat
      BY <2>1, LenProperties
    <3>2. Len(n1) <= 1 /\ Len(n2) <= 1
      BY ApproversAssumption
    <3>3. \A k \in Nat : k <= 1 => k \in 0..1
      OBVIOUS
    <3> QED BY <3>1, <3>2, <3>3, Zenon
  <2> QED BY <2>1, <2>2
<1> HIDE DEF S
<1>0. \A k \in Nat : (k = 0 \/ k = 1 \/ k >= 2) /\ (k >= 1 => k = 1 \/ k >= 2) /\ (k < 2 => k = 0 \/ k = 1)
  OBVIOUS
<1>3. /\ (c = <<>>) <=> (Len(c) = 0)
      /\ (n1 = <<>>) <=> (Len(n1) = 0)
      /\ (n2 = <<>>) <=> (Len(n2) = 0)
  BY <1>2, EmptySeq
<1>4. (Len(n1) = 1 => n1 = <<n1[1]>>) /\ (Len(n2) = 1 => n2 = <<n2[1]>>)
  BY <1>2
<1>5. /\ ids \in Seq(S)
      /\ Len(c) = 0 => ids = n1 \o n2 /\ Len(ids) = Len(n1) + Len(n2)
      /\ Len(c) = 1 => ids = c \o n2 /\ Len(ids) = 1 + Len(n2)
      /\ Len(c) >= 2 => ids = c
  <2>1. /\ n1 \o n2 \in Seq(S) /\ Len(n1 \o n2) = Len(n1) + Len(n2)
        /\ c \o n2 \in Seq(S) /\ Len(c \o n2) = Len(c) + Len(n2)
    BY <1>2, ConcatProperties
  <2>2. ids = IF Len(c) = 0 THEN n1 \o n2 ELSE IF Len(c) = 1 THEN c \o n2 ELSE c
    BY <1>3 DEF ApproverIds
  <2> HIDE DEF ids
  <2>3. CASE Len(c) = 0
    BY <2>1, <2>2, <2>3
  <2>4. CASE Len(c) = 1
    BY <2>1, <2>2, <2>4
  <2>5. CASE Len(c) >= 2
    BY <1>2, <2>2, <2>5
  <2> QED BY <1>0, <1>2, <2>3, <2>4, <2>5, Zenon
<1> HIDE DEF ids
<1>6. \A n \in {1, 2} : /\ AtLevel(c, n) = IF n <= Len(c) THEN <<c[n]>> ELSE <<>>
                        /\ AtLevel(ids, n) = IF n <= Len(ids) THEN <<ids[n]>> ELSE <<>>
  BY <1>2, <1>5, LevelOf
<1>7. AtLevel(ids, 1) = Or(Or(AtLevel(c, 1), n1), AtLevel(ids, 1))
  <2>1. CASE Len(c) = 0 /\ Len(n1) = 1
    <3>1. Len(ids) >= 1 /\ ids[1] = n1[1]
      BY <1>2, <1>5, <2>1, ConcatProperties
    <3> QED BY <1>3, <1>4, <1>6, <2>1, <3>1 DEF Or
  <2>2. CASE Len(c) = 0 /\ Len(n1) = 0
    BY <1>3, <1>6, <2>2 DEF Or
  <2>3. CASE Len(c) >= 1
    <3>1. Len(ids) >= 1 /\ ids[1] = c[1]
      <4>1. CASE Len(c) = 1
        <5>1. (c \o n2)[1] = c[1]
          BY <1>2, <4>1, ConcatProperties
        <5> QED BY <1>2, <1>5, <4>1, <5>1
      <4>2. CASE Len(c) >= 2
        BY <1>5, <4>2
      <4> QED BY <1>0, <1>2, <2>3, <4>1, <4>2, Zenon
    <3> QED BY <1>6, <2>3, <3>1 DEF Or
  <2> QED BY <1>2, <2>1, <2>2, <2>3
<1>8. AtLevel(ids, 2) \in {<<>>, Or(Or(AtLevel(c, 2), n2), AtLevel(ids, 2))}
  <2>1. CASE Len(c) >= 2
    BY <1>2, <1>5, <1>6, <2>1 DEF Or
  <2>2. CASE Len(c) < 2 /\ Len(n2) = 0
    BY <1>2, <1>3, <1>6, <2>2 DEF Or
  <2>3. CASE Len(c) < 2 /\ Len(n2) = 1
    <3>1. Len(ids) < 2 \/ ids[2] = n2[1]
      BY <1>2, <1>5, <2>3, ConcatProperties
    <3>2. AtLevel(ids, 2) \in {<<>>, n2}
      BY <1>4, <1>5, <1>6, <2>3, <3>1
    <3>3. Or(Or(AtLevel(c, 2), n2), AtLevel(ids, 2)) = n2
      BY <1>2, <1>3, <1>6, <2>3 DEF Or
    <3> QED BY <3>2, <3>3
  <2> QED BY <1>2, <2>1, <2>2, <2>3
<1> QED BY <1>7, <1>8 DEF BuildRuleSnapshot, ids

--------------------------------------------------------------------------------
\* The inductive invariant: rules of the right shape, and what a snapshot was given.
RulesInv == RulesTypeInv /\ RulesTypeOK /\ LevelsAreARange /\ ListedIsDesignated

\* The inductive invariant holds before there are rules.
LEMMA RulesInvAtFirst == RulesInit => RulesInv
  BY DEF RulesInit, RulesInv, RulesTypeInv, RulesTypeOK, LevelsAreARange, ListedIsDesignated,
         NoSnapshotYet

\* Only a confirmation writes a snapshot, and it writes one of this kind.
LEMMA RulesInvStep == RulesInv /\ [RulesNext]_ruleVars => RulesInv'
<1> SUFFICES ASSUME RulesInv, [RulesNext]_ruleVars PROVE RulesInv'
  OBVIOUS
<1>1. RulesTypeInv'
  BY RulesTypeStep DEF RulesInv
<1>2. ASSUME NEW t \in Confirmed, ConfirmRequest(t) PROVE RulesInv'
  <2>0. PICK a \in Amounts, c \in Chains, n1 \in Fallbacks, n2 \in Fallbacks : \E l \in BandLevels(a) :
          snapshots' = [snapshots EXCEPT ![t] = BuildRuleSnapshot(LevelsWith(a, l), c, n1, n2)]
    BY <1>2 DEF ConfirmRequest
  <2>1. PICK l \in BandLevels(a) :
          snapshots' = [snapshots EXCEPT ![t] = BuildRuleSnapshot(LevelsWith(a, l), c, n1, n2)]
    BY <2>0
  <2> DEFINE L == LevelsWith(a, l)
             s == BuildRuleSnapshot(L, c, n1, n2)
  <2>2. /\ L \subseteq 1..TopLevel /\ L # {}
        /\ \A m, n \in L : m..n \subseteq L
    BY LevelsRange DEF RulesInv, LevelsWith
  <2> HIDE DEF L
  <2>3. /\ s.levels = L
        /\ 1 \in L => s.approvers[1] = s.n1UserId
        /\ 2 \in L => s.approvers[2] \in {<<>>, s.n2UserId}
    BY SnapshotLists
  <2> HIDE DEF s
  <2>4. /\ snapshots'[t] = s /\ \A u \in Confirmed \ {t} : snapshots'[u] = snapshots[u]
        /\ rules' = rules
    BY <1>2, <2>1 DEF ConfirmRequest, RulesInv, RulesTypeInv, s, L
  <2> QED BY <1>1, <2>2, <2>3, <2>4 DEF RulesInv, RulesTypeOK, LevelsAreARange, ListedIsDesignated
<1>3. CASE UNCHANGED snapshots
  BY <1>1, <1>3 DEF RulesInv, RulesTypeInv, RulesTypeOK, LevelsAreARange, ListedIsDesignated
<1> QED
  BY <1>2, <1>3 DEF RulesNext, ruleVars, CreateRule, UpdateRule, BeginToggle, EndToggle

\* The inductive invariant always holds.
LEMMA RulesInvHolds == RulesSpec => []RulesInv
  BY RulesInvAtFirst, RulesInvStep, PTL DEF RulesSpec

\* The rules stay rules of their fields, through any edits, patches and crossed switches,
\* and a snapshot's levels are levels.
THEOREM RulesTyped == RulesSpec => []RulesTypeOK
<1>1. RulesInv => RulesTypeOK
  BY DEF RulesInv
<1> QED BY <1>1, RulesInvHolds, PTL

\* Whatever rules administrators create, patch and switch, a dearer request needs every
\* level a cheaper one needs, or the cheaper one was skipped to one level (evaluateRules),
\* as long as the bands in force are sensible.
THEOREM DearerIsStricter == RulesSpec => []DearerNeedsMore
<1>1. RulesInv => DearerNeedsMore
  BY DearerLevels DEF RulesInv
<1> QED BY <1>1, RulesInvHolds, PTL

\* The levels that a confirmed request is given leave no gap: no approval is waited for
\* above one that was left out, whichever skips, steps and bands combined.
THEOREM RangeOfLevels == RulesSpec => []LevelsAreARange
<1>1. RulesInv => LevelsAreARange
  BY DEF RulesInv
<1> QED BY <1>1, RulesInvHolds, PTL

\* The approver whom the snapshot lists for a level is the user its n1 or n2 field names,
\* for chains of superiors of any length and any fallbacks (buildRuleSnapshot).
THEOREM ListedAreDesignated == RulesSpec => []ListedIsDesignated
<1>1. RulesInv => ListedIsDesignated
  BY DEF RulesInv
<1> QED BY <1>1, RulesInvHolds, PTL

--------------------------------------------------------------------------------
(* The journey that the pages draw from the audit trail. *)

\* The rows of a trail.
TrailActions == {"APROBADO", "RECHAZADO", "REASIGNADO", "ESCALADO"}
TrailRows == [accion : TrailActions, by : Reviewers \union {Applicant}, level : 0..2]
TrailTyped == trail \in Seq(TrailRows)

\* The first m reviews have been approved, in their order and each at its level, and
\* approvals of anything else only come after the last of them.
Passed(m) ==
    /\ \A i \in 1..m : \E j \in DOMAIN trail :
           Nth("APROBADO", i) = {j} /\ trail[j].level = ReviewSteps[i] - 1
    /\ \A j \in PlacesOf("APROBADO") :
           trail[j].level # 0 => \E i \in 1..m : j \in Nth("APROBADO", i)
    /\ m < Len(ReviewSteps) => Cardinality(PlacesOf("APROBADO")) = m

\* How many reviews have been passed follows from the stage.
PassedAt(m) ==
    /\ m \in 0..Len(ReviewSteps)
    /\ stage = 1 => m = 0
    /\ stage \in {2, 3} => m < Len(ReviewSteps) /\ ReviewSteps[m + 1] = stage
    /\ stage \in 4..8 \/ asked => m = Len(ReviewSteps)
    /\ stage = 10 => m < Len(ReviewSteps)

\* The request was declined, once, at the review where it stopped.
Refused ==
    \E j \in DOMAIN trail :
        /\ PlacesOf("RECHAZADO") = {j} /\ Nth("RECHAZADO", 1) = {j}
        /\ trail[j].level = FailedStep - 1

\* Types, and where the routes and the levels let a request be.
JourneyTypeInv ==
    /\ TrailTyped /\ stage \in 1..10 /\ asked \in BOOLEAN
    /\ levels \subseteq 1..3 /\ needs \subseteq {"plane", "hotel"}
    /\ stage = 2 => 1 \in levels \/ 2 \notin levels
    /\ stage = 5 => needs # {}

\* What the page may conclude from the trail while nothing has misled it.
JourneyInv ==
    /\ stage = 1 => trail = <<>>
    /\ asked => stage \in 4..9
    /\ \A j \in DOMAIN trail : trail[j].level # 0 => trail[j].accion \in {"APROBADO", "RECHAZADO"}
    /\ detours = {} =>
         /\ IF stage = 10 THEN Refused ELSE PlacesOf("RECHAZADO") = {}
         /\ \E m \in 0..2 : PassedAt(m) /\ Passed(m)

--------------------------------------------------------------------------------
(* A trail that grows by a row. *)

\* The places that a filter keeps are finitely many.
LEMMA PlacesFinite ==
  ASSUME trail \in Seq(TrailRows), NEW a
  PROVE  /\ PlacesOf(a) \subseteq 1..Len(trail) /\ Len(trail) \in Nat
         /\ IsFiniteSet(PlacesOf(a)) /\ Cardinality(PlacesOf(a)) \in Nat
<1>1. Len(trail) \in Nat /\ DOMAIN trail = 1..Len(trail)
  OBVIOUS
<1>2. PlacesOf(a) \subseteq 1..Len(trail)
  BY <1>1 DEF PlacesOf
<1>3. IsFiniteSet(1..Len(trail))
  BY <1>1, FS_Interval
<1>4. IsFiniteSet(PlacesOf(a))
  BY <1>2, <1>3, FS_Subset
<1> QED BY <1>1, <1>2, <1>4, FS_CardinalityType

\* The filter does not keep an n-th row unless it keeps n.
LEMMA NthWithin ==
  ASSUME trail \in Seq(TrailRows), NEW a, NEW n \in Nat, Nth(a, n) # {}
  PROVE  n <= Cardinality(PlacesOf(a))
<1>1. PICK j \in PlacesOf(a) : Cardinality({k \in PlacesOf(a) : k <= j}) = n
  BY DEF Nth
<1>2. {k \in PlacesOf(a) : k <= j} \subseteq PlacesOf(a)
  OBVIOUS
<1> QED BY <1>1, <1>2, PlacesFinite, FS_Subset

\* The new row is kept, if at all, after the others.
LEMMA PlacesGrow ==
  ASSUME trail \in Seq(TrailRows), NEW row \in TrailRows, trail' = Append(trail, row), NEW a
  PROVE  /\ trail' \in Seq(TrailRows) /\ Len(trail') = Len(trail) + 1
         /\ DOMAIN trail' = DOMAIN trail \union {Len(trail) + 1}
         /\ Len(trail) + 1 \notin DOMAIN trail /\ trail'[Len(trail) + 1] = row
         /\ \A j \in DOMAIN trail : trail'[j] = trail[j]
         /\ row.accion = a => PlacesOf(a)' = PlacesOf(a) \union {Len(trail) + 1}
         /\ row.accion = a => Cardinality(PlacesOf(a))' = Cardinality(PlacesOf(a)) + 1
         /\ row.accion # a => PlacesOf(a)' = PlacesOf(a)
<1>1. /\ trail' \in Seq(TrailRows) /\ Len(trail') = Len(trail) + 1
      /\ DOMAIN trail' = DOMAIN trail \union {Len(trail) + 1}
      /\ Len(trail) + 1 \notin DOMAIN trail /\ trail'[Len(trail) + 1] = row
      /\ \A j \in DOMAIN trail : trail'[j] = trail[j]
  OBVIOUS
<1>2. row.accion = a => PlacesOf(a)' = PlacesOf(a) \union {Len(trail) + 1}
  BY <1>1 DEF PlacesOf
<1>3. row.accion # a => PlacesOf(a)' = PlacesOf(a)
  BY <1>1 DEF PlacesOf
<1>4. Len(trail) + 1 \notin PlacesOf(a)
  BY <1>1 DEF PlacesOf
<1>5. row.accion = a => Cardinality(PlacesOf(a))' = Cardinality(PlacesOf(a)) + 1
  BY <1>2, <1>4, PlacesFinite, FS_AddElement
<1> QED BY <1>1, <1>2, <1>3, <1>5

\* So the n-th row stays where it was, and the new row is the last.
LEMMA NthGrows ==
  ASSUME trail \in Seq(TrailRows), NEW row \in TrailRows, trail' = Append(trail, row), NEW a,
         NEW n \in Nat
  PROVE  Nth(a, n)' = IF row.accion = a /\ n = Cardinality(PlacesOf(a)) + 1
                      THEN {Len(trail) + 1} ELSE Nth(a, n)
<1> DEFINE new == Len(trail) + 1
<1>1. PlacesOf(a) \subseteq 1..Len(trail) /\ Len(trail) \in Nat
  BY PlacesFinite
<1>2. CASE row.accion # a
  <2>1. PlacesOf(a)' = PlacesOf(a)
    BY <1>2, PlacesGrow
  <2> QED BY <1>2, <2>1 DEF Nth
<1>3. CASE row.accion = a
  <2>1. PlacesOf(a)' = PlacesOf(a) \union {new}
    BY <1>3, PlacesGrow
  <2>2. ASSUME NEW j \in PlacesOf(a)
        PROVE  {k \in PlacesOf(a)' : k <= j} = {k \in PlacesOf(a) : k <= j}
    BY <1>1, <2>1
  <2>3. {k \in PlacesOf(a)' : k <= new} = PlacesOf(a)'
    BY <1>1, <2>1
  <2>4. Cardinality(PlacesOf(a)') = Cardinality(PlacesOf(a)) + 1
    BY <1>3, PlacesGrow
  <2>5. CASE n = Cardinality(PlacesOf(a)) + 1
    <3>1. Nth(a, n) = {}
      BY <2>5, NthWithin, PlacesFinite
    <3>2. \A j \in PlacesOf(a) : Cardinality({k \in PlacesOf(a)' : k <= j}) # n
      BY <2>2, <3>1 DEF Nth
    <3>3. Nth(a, n)' = {new}
      BY <2>1, <2>3, <2>4, <2>5, <3>2 DEF Nth
    <3> QED BY <1>3, <2>5, <3>3
  <2>6. CASE n # Cardinality(PlacesOf(a)) + 1
    <3>1. Cardinality({k \in PlacesOf(a)' : k <= new}) # n
      BY <2>3, <2>4, <2>6
    <3>2. Nth(a, n)' = {j \in PlacesOf(a) : Cardinality({k \in PlacesOf(a)' : k <= j}) = n}
      BY <2>1, <3>1 DEF Nth
    <3> QED BY <2>2, <2>6, <3>2 DEF Nth
  <2> QED BY <2>5, <2>6
<1> QED BY <1>2, <1>3

--------------------------------------------------------------------------------
(* The reviews passed. *)

\* The reviews of a request are the first, the second, or both in this order.
LEMMA StepsOfReview ==
  /\ Len(ReviewSteps) \in 1..2 /\ DOMAIN ReviewSteps = 1..Len(ReviewSteps)
  /\ ReviewSteps[1] = IF 1 \in levels \/ 2 \notin levels THEN 2 ELSE 3
  /\ Len(ReviewSteps) = 2 => ReviewSteps[1] = 2 /\ ReviewSteps[2] = 3
  /\ Len(ReviewSteps) = 1 => (1 \in levels <=> 2 \notin levels)
  /\ Len(ReviewSteps) = 2 => (1 \in levels <=> 2 \in levels)
<1>1. /\ 1 \in Shown(levels) <=> 1 \in levels \/ 2 \notin levels
      /\ 2 \in Shown(levels) <=> 2 \in levels \/ 1 \notin levels
  BY DEF Shown
<1> DEFINE first == IF 1 \in Shown(levels) THEN <<2>> ELSE <<>>
           second == IF 2 \in Shown(levels) THEN <<3>> ELSE <<>>
<1>2. first \in Seq(Int) /\ second \in Seq(Int)
  OBVIOUS
<1>3. /\ Len(first) = (IF 1 \in levels \/ 2 \notin levels THEN 1 ELSE 0)
      /\ Len(second) = (IF 2 \in levels \/ 1 \notin levels THEN 1 ELSE 0)
      /\ Len(first) = 1 => first[1] = 2
      /\ Len(second) = 1 => second[1] = 3
  BY <1>1
<1>4. ReviewSteps = first \o second
  BY DEF ReviewSteps
<1> HIDE DEF first, second
<1>5. /\ ReviewSteps \in Seq(Int) /\ Len(ReviewSteps) = Len(first) + Len(second)
      /\ \A i \in 1..(Len(first) + Len(second)) :
           ReviewSteps[i] = IF i <= Len(first) THEN first[i] ELSE second[i - Len(first)]
  BY <1>2, <1>4, ConcatProperties
<1>6. Len(ReviewSteps) \in 1..2 /\ DOMAIN ReviewSteps = 1..Len(ReviewSteps)
  BY <1>3, <1>5
<1>7. CASE 1 \in levels /\ 2 \notin levels
  BY <1>3, <1>5, <1>6, <1>7
<1>8. CASE 2 \in levels /\ 1 \notin levels
  BY <1>3, <1>5, <1>6, <1>8
<1>9. CASE 1 \in levels <=> 2 \in levels
  BY <1>3, <1>5, <1>6, <1>9
<1> QED BY <1>7, <1>8, <1>9

\* The same, case by case.
LEMMA ReviewCases ==
  \/ /\ 1 \in levels <=> 2 \in levels
     /\ Len(ReviewSteps) = 2 /\ ReviewSteps[1] = 2 /\ ReviewSteps[2] = 3
  \/ 1 \in levels /\ 2 \notin levels /\ Len(ReviewSteps) = 1 /\ ReviewSteps[1] = 2
  \/ 2 \in levels /\ 1 \notin levels /\ Len(ReviewSteps) = 1 /\ ReviewSteps[1] = 3
<1>1. Len(ReviewSteps) = 1 \/ Len(ReviewSteps) = 2
  BY StepsOfReview
<1>2. CASE Len(ReviewSteps) = 1
  BY <1>2, StepsOfReview
<1>3. CASE Len(ReviewSteps) = 2
  BY <1>3, StepsOfReview
<1> QED BY <1>1, <1>2, <1>3

\* There is an approval for each review passed.
LEMMA EnoughApprovals ==
  ASSUME trail \in Seq(TrailRows), NEW m \in 0..2, Passed(m)
  PROVE  m <= Cardinality(PlacesOf("APROBADO"))
<1>1. CASE m = 0
  BY <1>1, PlacesFinite
<1>2. CASE m > 0
  <2>1. m \in 1..m /\ m \in Nat
    BY <1>2
  <2>2. Nth("APROBADO", m) # {}
    BY <2>1 DEF Passed
  <2> QED BY <2>1, <2>2, NthWithin
<1> QED BY <1>1, <1>2

\* Nothing but the trail and the levels says which reviews were passed.
LEMMA PassedStays ==
  ASSUME NEW m, UNCHANGED <<trail, levels>>
  PROVE  /\ Passed(m)' <=> Passed(m)
         /\ ReviewSteps' = ReviewSteps /\ FailedStep' = FailedStep
         /\ \A a : PlacesOf(a)' = PlacesOf(a)
         /\ \A a, n : Nth(a, n)' = Nth(a, n)
<1>1. ReviewSteps' = ReviewSteps
  BY DEF ReviewSteps, Shown
<1>2. \A a : PlacesOf(a)' = PlacesOf(a)
  BY DEF PlacesOf
<1>3. \A a, n : Nth(a, n)' = Nth(a, n)
  BY DEF Nth, PlacesOf
<1>4. FailedStep' = FailedStep
  BY <1>1, <1>2 DEF FailedStep
<1>5. Passed(m)' <=> Passed(m)
  BY <1>1, <1>2, <1>3 DEF Passed
<1> QED BY <1>1, <1>2, <1>3, <1>4, <1>5

\* A row that is not an approval, or approves something else after the reviews, leaves
\* the reviews passed as they are.
LEMMA PassedLater ==
  ASSUME trail \in Seq(TrailRows), NEW row \in TrailRows, trail' = Append(trail, row),
         levels' = levels, NEW m \in 0..2, Passed(m),
         row.accion = "APROBADO" => row.level = 0 /\ m = Len(ReviewSteps)
  PROVE  Passed(m)'
<1>1. ReviewSteps' = ReviewSteps
  BY DEF ReviewSteps, Shown
<1>2. Len(trail) \in Nat /\ m <= Cardinality(PlacesOf("APROBADO"))
      /\ Cardinality(PlacesOf("APROBADO")) \in Nat
  BY EnoughApprovals, PlacesFinite
<1>3. \A i \in 1..m : Nth("APROBADO", i)' = Nth("APROBADO", i)
  BY <1>2, NthGrows
<1>4. /\ \A j \in DOMAIN trail : j \in DOMAIN trail' /\ trail'[j] = trail[j]
      /\ trail'[Len(trail) + 1] = row
  BY PlacesGrow
<1>5. \A j \in PlacesOf("APROBADO")' : j \in PlacesOf("APROBADO") \/ trail'[j].level = 0
  BY <1>4, PlacesGrow
<1>6. PlacesOf("APROBADO") \subseteq DOMAIN trail
  BY DEF PlacesOf
<1>7. \A i \in 1..m : \E j \in DOMAIN trail' :
        Nth("APROBADO", i)' = {j} /\ trail'[j].level = ReviewSteps[i] - 1
  BY <1>3, <1>4 DEF Passed
<1>8. \A j \in PlacesOf("APROBADO")' :
        trail'[j].level # 0 => \E i \in 1..m : j \in Nth("APROBADO", i)'
  BY <1>3, <1>4, <1>5, <1>6 DEF Passed
<1>9. m < Len(ReviewSteps) => Cardinality(PlacesOf("APROBADO"))' = m
  BY PlacesGrow DEF Passed
<1> QED BY <1>1, <1>7, <1>8, <1>9 DEF Passed

\* The approval of the next review passes it.
LEMMA PassedNext ==
  ASSUME trail \in Seq(TrailRows), NEW row \in TrailRows, trail' = Append(trail, row),
         levels' = levels, NEW m \in 0..1, Passed(m), m < Len(ReviewSteps),
         row.accion = "APROBADO", row.level = ReviewSteps[m + 1] - 1
  PROVE  Passed(m + 1)'
<1>1. ReviewSteps' = ReviewSteps
  BY DEF ReviewSteps, Shown
<1>2. Cardinality(PlacesOf("APROBADO")) = m
  BY DEF Passed
<1>3. \A i \in 1..m : Nth("APROBADO", i)' = Nth("APROBADO", i)
  BY <1>2, NthGrows
<1>4. Nth("APROBADO", m + 1)' = {Len(trail) + 1}
  BY <1>2, NthGrows
<1>5. /\ \A j \in DOMAIN trail : j \in DOMAIN trail' /\ trail'[j] = trail[j]
      /\ trail'[Len(trail) + 1] = row /\ Len(trail) + 1 \in DOMAIN trail'
      /\ PlacesOf("APROBADO")' = PlacesOf("APROBADO") \union {Len(trail) + 1}
      /\ Cardinality(PlacesOf("APROBADO"))' = m + 1
  BY <1>2, PlacesGrow
<1>6. PlacesOf("APROBADO") \subseteq DOMAIN trail
  BY DEF PlacesOf
<1>7. ASSUME NEW i \in 1..(m + 1)
      PROVE  \E j \in DOMAIN trail' :
               Nth("APROBADO", i)' = {j} /\ trail'[j].level = ReviewSteps[i] - 1
  <2>1. CASE i = m + 1
    BY <1>4, <1>5, <2>1
  <2>2. CASE i \in 1..m
    BY <1>3, <1>5, <2>2 DEF Passed
  <2> QED BY <2>1, <2>2
<1>8. ASSUME NEW j \in PlacesOf("APROBADO")', trail'[j].level # 0
      PROVE  \E i \in 1..(m + 1) : j \in Nth("APROBADO", i)'
  <2>1. CASE j = Len(trail) + 1
    BY <1>4, <2>1
  <2>2. CASE j \in PlacesOf("APROBADO")
    <3>1. PICK i \in 1..m : j \in Nth("APROBADO", i)
      BY <1>5, <1>6, <1>8, <2>2 DEF Passed
    <3> QED BY <1>3, <3>1
  <2> QED BY <1>5, <2>1, <2>2
<1> QED BY <1>1, <1>5, <1>7, <1>8 DEF Passed

--------------------------------------------------------------------------------
(* The steps of the journey. *)

\* A row recorded is a row of the trail.
LEMMA RecordedRow ==
  ASSUME NEW accion \in TrailActions, NEW by \in Reviewers \union {Applicant}, NEW level \in 0..2,
         Record(accion, by, level)
  PROVE  \E row \in TrailRows : /\ row.accion = accion /\ row.by = by /\ row.level = level
                                /\ trail' = Append(trail, row)
PROOF BY DEF Record, TrailRows

\* So a trail stays one of typed rows.
LEMMA RecordedTyped ==
  ASSUME JourneyTypeInv, NEW accion \in TrailActions, NEW by \in Reviewers \union {Applicant},
         NEW level \in 0..2, Record(accion, by, level)
  PROVE  TrailTyped'
PROOF BY RecordedRow, PlacesGrow DEF JourneyTypeInv, TrailTyped

\* The types, and where routes and levels let a request be, always hold.
LEMMA JourneyTypes == JourneySpec => []JourneyTypeInv
<1>1. JourneyInit => JourneyTypeInv
  <2> SUFFICES ASSUME JourneyInit PROVE JourneyTypeInv
    OBVIOUS
  <2>1. TrailTyped
    BY EmptySeq DEF JourneyInit, TrailTyped
  <2>2. stage \in 1..10 /\ levels \subseteq 1..3 /\ stage # 2 /\ stage # 5
    BY DEF JourneyInit
  <2>3. asked \in BOOLEAN /\ needs \subseteq {"plane", "hotel"}
    BY DEF JourneyInit
  <2> QED BY <2>1, <2>2, <2>3 DEF JourneyTypeInv
<1>2. JourneyTypeInv /\ [JourneyNext]_journeyVars => JourneyTypeInv'
  <2> SUFFICES ASSUME JourneyTypeInv, [JourneyNext]_journeyVars PROVE JourneyTypeInv'
    OBVIOUS
  <2> DEFINE Rest == /\ stage \in 1..10 /\ asked \in BOOLEAN
                     /\ levels \subseteq 1..3 /\ needs \subseteq {"plane", "hotel"}
                     /\ stage = 2 => 1 \in levels \/ 2 \notin levels
                     /\ stage = 5 => needs # {}
  <2>1. Rest /\ TrailTyped
    BY DEF JourneyTypeInv
  <2>2. CASE SubmitJourney
    <3>1. Rest'
      BY <2>1, <2>2, LevelChoicesAssumption DEF SubmitJourney
    <3> QED BY <2>1, <2>2, <3>1 DEF SubmitJourney, JourneyTypeInv, TrailTyped
  <2>3. CASE EditRoutes \/ MoveOn \/ AskException \/ ConfirmFee
    <3>1. Rest'
      <4>1. CASE EditRoutes
        BY <2>1, <4>1 DEF EditRoutes
      <4>2. CASE MoveOn
        BY <2>1, <4>2 DEF MoveOn
      <4>3. CASE AskException
        BY <2>1, <4>3 DEF AskException
      <4>4. CASE ConfirmFee
        BY <2>1, <4>4 DEF ConfirmFee
      <4> HIDE DEF Rest
      <4> QED BY <2>3, <4>1, <4>2, <4>3, <4>4
    <3>2. trail' = trail
      BY <2>3 DEF EditRoutes, MoveOn, AskException, ConfirmFee
    <3> QED BY <2>1, <3>1, <3>2 DEF JourneyTypeInv, TrailTyped
  <2>4. CASE LockJourney
    <3>1. Record("RECHAZADO", Applicant, 0)
      BY <2>4 DEF LockJourney
    <3>2. Rest'
      BY <2>1, <2>4 DEF LockJourney
    <3>3. TrailTyped'
      BY <3>1, RecordedTyped DEF TrailActions
    <3> QED BY <3>2, <3>3 DEF JourneyTypeInv
  <2>5. ASSUME NEW u \in Reviewers, ApproveLevel(u) \/ DeclineLevel(u) PROVE JourneyTypeInv'
    <3>1. Rest'
      <4>1. CASE ApproveLevel(u)
        BY <2>1, <4>1 DEF ApproveLevel
      <4>2. CASE DeclineLevel(u)
        BY <2>1, <4>2 DEF DeclineLevel
      <4> HIDE DEF Rest
      <4> QED BY <2>5, <4>1, <4>2
    <3>2. Record("APROBADO", u, stage - 1) \/ Record("RECHAZADO", u, stage - 1)
      BY <2>5 DEF ApproveLevel, DeclineLevel
    <3>3. TrailTyped'
      <4>1. stage - 1 \in 0..2
        BY <2>5 DEF ApproveLevel, DeclineLevel
      <4> DEFINE level == stage - 1
      <4> HIDE DEF level
      <4>2. level \in 0..2 /\ (Record("APROBADO", u, level) \/ Record("RECHAZADO", u, level))
        BY <3>2, <4>1 DEF level
      <4> QED BY <4>2, RecordedTyped DEF TrailActions
    <3> QED BY <3>1, <3>3 DEF JourneyTypeInv
  <2>6. ASSUME NEW u \in Reviewers, ReassignLevel(u) \/ EscalateLevel(u) \/ RuleException(u)
        PROVE  JourneyTypeInv'
    <3>1. Rest'
      <4>1. CASE ReassignLevel(u)
        BY <2>1, <4>1 DEF ReassignLevel
      <4>2. CASE EscalateLevel(u)
        BY <2>1, <4>2 DEF EscalateLevel
      <4>3. CASE RuleException(u)
        BY <2>1, <4>3 DEF RuleException
      <4> HIDE DEF Rest
      <4> QED BY <2>6, <4>1, <4>2, <4>3
    <3>2. \E accion \in {"REASIGNADO", "ESCALADO", "APROBADO", "RECHAZADO"} : Record(accion, u, 0)
      BY <2>6 DEF ReassignLevel, EscalateLevel, RuleException
    <3>3. TrailTyped'
      BY <3>2, RecordedTyped DEF TrailActions
    <3> QED BY <3>1, <3>3 DEF JourneyTypeInv
  <2>7. CASE UNCHANGED journeyVars
    BY <2>7 DEF journeyVars, JourneyTypeInv, TrailTyped
  <2> HIDE DEF Rest
  <2> QED BY <2>2, <2>3, <2>4, <2>5, <2>6, <2>7 DEF JourneyNext
<1> QED BY <1>1, <1>2, PTL DEF JourneySpec

\* A step that leaves the trail alone, and whatever the stage says of the reviews.
LEMMA JourneyQuiet ==
  ASSUME JourneyInv, UNCHANGED <<trail, levels>>, stage' = 1 => stage = 1,
         asked' => stage' \in 4..9, detours' = {} => detours = {}, stage' = 10 <=> stage = 10,
         \A m \in 0..2 : PassedAt(m) => PassedAt(m)'
  PROVE  JourneyInv'
<1>1. \A m : Passed(m)' <=> Passed(m)
  BY PassedStays
<1>2. PlacesOf("RECHAZADO")' = PlacesOf("RECHAZADO")
  BY PassedStays
<1>3. Refused' <=> Refused
  BY PassedStays DEF Refused
<1> QED BY <1>1, <1>2, <1>3 DEF JourneyInv

\* A step that records a row, past the draft.
LEMMA JourneyRecords ==
  ASSUME JourneyTypeInv, JourneyInv, NEW row \in TrailRows, trail' = Append(trail, row),
         stage' # 1, asked' => stage' \in 4..9,
         row.level # 0 => row.accion \in {"APROBADO", "RECHAZADO"},
         detours' = {} => /\ IF stage' = 10 THEN Refused' ELSE PlacesOf("RECHAZADO")' = {}
                          /\ \E m \in 0..2 : PassedAt(m)' /\ Passed(m)'
  PROVE  JourneyInv'
<1>1. trail \in Seq(TrailRows)
  BY DEF JourneyTypeInv, TrailTyped
<1>2. \A j \in DOMAIN trail' :
        trail'[j].level # 0 => trail'[j].accion \in {"APROBADO", "RECHAZADO"}
  BY <1>1, PlacesGrow DEF JourneyInv
<1> QED BY <1>2 DEF JourneyInv

\* The facts about the reviews, in the next state.
ReviewFacts ==
  /\ Len(ReviewSteps) \in 1..2
  /\ ReviewSteps[1] = IF 1 \in levels \/ 2 \notin levels THEN 2 ELSE 3
  /\ Len(ReviewSteps) = 2 => ReviewSteps[1] = 2 /\ ReviewSteps[2] = 3

\* They hold of whatever levels the next state has.
LEMMA ReviewFactsNext == ReviewFacts'
<1>1. ReviewFacts
  BY StepsOfReview DEF ReviewFacts
<1> QED BY <1>1, PTL

\* A draft enters at its first review, unless it jumps.
LEMMA SubmitKeeps ==
  ASSUME JourneyTypeInv, JourneyInv, SubmitJourney
  PROVE  JourneyInv'
<1>1. /\ trail = <<>> /\ trail' = trail /\ asked = FALSE /\ asked' = asked
      /\ stage = 1 /\ stage' \in {2, 3, 4}
  BY DEF SubmitJourney, JourneyInv, JourneyTypeInv
<1>2. \A a : PlacesOf(a)' = {}
  BY <1>1 DEF PlacesOf
<1>3. Passed(0)'
  <2>1. Cardinality(PlacesOf("APROBADO"))' = 0
    BY <1>2, FS_EmptySet
  <2> QED BY <1>2, <2>1 DEF Passed
<1>4. ASSUME detours' = {} PROVE PassedAt(0)' /\ detours = {}
  <2>1. \A n \in Shown(levels') : n \in {1, 2} /\ n + 1 >= stage'
    <3>1. {"jump" : n \in {n \in Shown(levels') : n + 1 < stage'}} = {}
      BY <1>4 DEF SubmitJourney
    <3>2. {n \in Shown(levels') : n + 1 < stage'} = {}
      BY <3>1
    <3>3. \A n \in Shown(levels') : ~(n + 1 < stage')
      BY <3>2
    <3>4. Shown(levels') \subseteq {1, 2}
      BY DEF Shown
    <3> QED BY <1>1, <3>3, <3>4
  <2>2. detours = {}
    BY <1>4 DEF SubmitJourney
  <2>3. stage' \in {2, 3} /\ (stage' = 3 => 1 \notin Shown(levels'))
    <3>1. \E n \in {1, 2} : n \in Shown(levels')
      BY DEF Shown
    <3> QED BY <1>1, <2>1, <3>1
  <2>4. stage' = 2 => 1 \in levels' \/ 2 \notin levels'
    BY DEF SubmitJourney
  <2>5. stage' = 3 => 1 \notin levels' /\ 2 \in levels'
    BY <2>3 DEF Shown
  <2>6. 0 < Len(ReviewSteps') /\ ReviewSteps'[0 + 1] = stage'
    BY <2>3, <2>4, <2>5, ReviewFactsNext DEF ReviewFacts
  <2> QED BY <1>1, <2>2, <2>3, <2>6, ReviewFactsNext DEF PassedAt, ReviewFacts
<1> QED BY <1>1, <1>2, <1>3, <1>4 DEF JourneyInv

\* An approval passes the review at which the request waits.
LEMMA ApproveKeeps ==
  ASSUME JourneyTypeInv, JourneyInv, NEW u \in Reviewers, ApproveLevel(u)
  PROVE  JourneyInv'
<1>1. /\ stage \in {2, 3} /\ stage - 1 \in levels /\ levels' = levels /\ asked' = asked
      /\ detours' = detours /\ stage' = IF stage = 2 /\ 2 \in levels THEN 3 ELSE 4
      /\ Record("APROBADO", u, stage - 1)
  BY DEF ApproveLevel
<1>2. PICK row \in TrailRows : /\ row.accion = "APROBADO" /\ row.level = stage - 1
                               /\ trail' = Append(trail, row)
  <2>1. stage - 1 \in 0..2
    BY <1>1
  <2> QED BY <1>1, <2>1, RecordedRow DEF TrailActions
<1>3. trail \in Seq(TrailRows) /\ ~asked
  BY <1>1 DEF JourneyTypeInv, TrailTyped, JourneyInv
<1>4. ReviewSteps' = ReviewSteps
  BY <1>1 DEF ReviewSteps, Shown
<1>5. ASSUME detours' = {}
      PROVE  PlacesOf("RECHAZADO")' = {} /\ \E m \in 0..2 : PassedAt(m)' /\ Passed(m)'
  <2>1. PICK m \in 0..2 : PassedAt(m) /\ Passed(m)
    BY <1>1, <1>5 DEF JourneyInv
  <2>2. m \in 0..1 /\ m < Len(ReviewSteps) /\ ReviewSteps[m + 1] = stage
    <3>1. m < Len(ReviewSteps) /\ ReviewSteps[m + 1] = stage
      BY <1>1, <2>1 DEF PassedAt
    <3>2. Len(ReviewSteps) \in 1..2
      BY StepsOfReview
    <3> QED BY <2>1, <3>1, <3>2
  <2>3. Passed(m + 1)'
    BY <1>1, <1>2, <1>3, <2>1, <2>2, PassedNext
  <2>4. PassedAt(m + 1)'
    <3>1. CASE stage' = 3
      <4>1. stage = 2 /\ 1 \in levels /\ 2 \in levels
        BY <1>1, <3>1
      <4>2. Len(ReviewSteps) = 2 /\ ReviewSteps[2] = 3 /\ m = 0
        BY <2>2, <4>1, ReviewCases
      <4> QED BY <1>1, <1>3, <1>4, <3>1, <4>2 DEF PassedAt
    <3>2. CASE stage' = 4
      <4>1. \/ stage = 2 /\ 1 \in levels /\ 2 \notin levels
            \/ stage = 3 /\ 2 \in levels
        <5>1. CASE stage = 2
          <6>1. 1 \in levels
            <7>1. stage - 1 = 1
              BY <5>1
            <7> QED BY <1>1, <7>1
          <6>2. 2 \notin levels
            <7>1. stage' = IF stage = 2 /\ 2 \in levels THEN 3 ELSE 4
              BY <1>1
            <7> QED BY <3>2, <5>1, <7>1
          <6> QED BY <5>1, <6>1, <6>2
        <5>2. CASE stage = 3
          <6>1. stage - 1 = 2
            BY <5>2
          <6> QED BY <1>1, <5>2, <6>1
        <5> QED BY <1>1, <5>1, <5>2
      <4>2. m + 1 = Len(ReviewSteps)
        <5>1. CASE stage = 2 /\ 1 \in levels /\ 2 \notin levels
          <6>1. Len(ReviewSteps) = 1
            BY <5>1, ReviewCases
          <6> QED BY <2>2, <6>1
        <5>2. CASE stage = 3 /\ 2 \in levels
          <6>1. m = 0 \/ m = 1
            BY <2>2
          <6>2. ReviewSteps[m + 1] = 3
            BY <2>2, <5>2
          <6>3. CASE Len(ReviewSteps) = 2
            <7>1. ReviewSteps[1] # 3
              BY <6>3, StepsOfReview
            <7> QED BY <6>1, <6>2, <6>3, <7>1
          <6>4. CASE Len(ReviewSteps) = 1
            BY <2>2, <6>4
          <6>5. Len(ReviewSteps) = 1 \/ Len(ReviewSteps) = 2
            BY StepsOfReview
          <6> QED BY <6>3, <6>4, <6>5
        <5> QED BY <4>1, <5>1, <5>2
      <4> QED BY <1>4, <3>2, <4>2 DEF PassedAt
    <3> QED BY <1>1, <3>1, <3>2
  <2>5. PlacesOf("RECHAZADO")' = {}
    BY <1>1, <1>2, <1>3, <1>5, PlacesGrow DEF JourneyInv
  <2> QED BY <2>2, <2>3, <2>4, <2>5
<1> QED BY <1>1, <1>2, <1>3, <1>5, JourneyRecords

\* A decline stops the request there.
LEMMA DeclineKeeps ==
  ASSUME JourneyTypeInv, JourneyInv, NEW u \in Reviewers, DeclineLevel(u)
  PROVE  JourneyInv'
<1>1. /\ stage \in {2, 3} /\ levels' = levels /\ asked' = asked
      /\ detours' = detours /\ stage' = 10 /\ Record("RECHAZADO", u, stage - 1)
  BY DEF DeclineLevel
<1>2. PICK row \in TrailRows : /\ row.accion = "RECHAZADO" /\ row.level = stage - 1
                               /\ trail' = Append(trail, row)
  <2>1. stage - 1 \in 0..2
    BY <1>1
  <2> QED BY <1>1, <2>1, RecordedRow DEF TrailActions
<1>3. trail \in Seq(TrailRows) /\ ~asked
  BY <1>1 DEF JourneyTypeInv, TrailTyped, JourneyInv
<1>4. ReviewSteps' = ReviewSteps
  BY <1>1 DEF ReviewSteps, Shown
<1>5. ASSUME detours' = {}
      PROVE  Refused' /\ \E m \in 0..2 : PassedAt(m)' /\ Passed(m)'
  <2>1. PICK m \in 0..2 : PassedAt(m) /\ Passed(m)
    BY <1>1, <1>5 DEF JourneyInv
  <2>2. m < Len(ReviewSteps) /\ ReviewSteps[m + 1] = stage
    BY <1>1, <2>1 DEF PassedAt
  <2>3. Passed(m)'
    BY <1>1, <1>2, <1>3, <2>1, PassedLater
  <2>4. PassedAt(m)'
    BY <1>1, <1>3, <1>4, <2>1, <2>2 DEF PassedAt
  <2>5. PlacesOf("RECHAZADO") = {}
    BY <1>1, <1>5 DEF JourneyInv
  <2>6. PlacesOf("RECHAZADO")' = {Len(trail) + 1} /\ Nth("RECHAZADO", 1)' = {Len(trail) + 1}
    <3>1. Cardinality(PlacesOf("RECHAZADO")) = 0
      BY <2>5, FS_EmptySet
    <3>2. PlacesOf("RECHAZADO")' = {Len(trail) + 1}
      BY <1>2, <1>3, <2>5, PlacesGrow
    <3>3. Nth("RECHAZADO", 1)' = {Len(trail) + 1}
      BY <1>2, <1>3, <3>1, NthGrows
    <3> QED BY <3>2, <3>3
  <2>7. FailedStep' = stage
    <3>1. Cardinality(PlacesOf("APROBADO"))' = m
      BY <1>4, <2>2, <2>3 DEF Passed
    <3> QED BY <1>4, <2>2, <3>1 DEF FailedStep
  <2>8. Refused'
    BY <1>2, <1>3, <2>6, <2>7, PlacesGrow DEF Refused
  <2> QED BY <2>3, <2>4, <2>8
<1> QED BY <1>1, <1>2, <1>3, <1>5, JourneyRecords

\* A row that decides no review, past the draft, leaves the reviews as they are; it
\* may be a rejection only once the page has been misled.
LEMMA OtherRowKeeps ==
  ASSUME JourneyTypeInv, JourneyInv, NEW row \in TrailRows, trail' = Append(trail, row),
         row.level = 0, levels' = levels, stage' # 1, asked' => stage' \in 4..9,
         detours' = {} => /\ detours = {} /\ row.accion # "RECHAZADO"
                          /\ stage' = stage /\ asked' = asked
                          /\ row.accion = "APROBADO" => asked
  PROVE  JourneyInv'
<1>1. trail \in Seq(TrailRows)
  BY DEF JourneyTypeInv, TrailTyped
<1>2. ReviewSteps' = ReviewSteps
  BY DEF ReviewSteps, Shown
<1>3. ASSUME detours' = {}
      PROVE  /\ IF stage' = 10 THEN Refused' ELSE PlacesOf("RECHAZADO")' = {}
             /\ \E m \in 0..2 : PassedAt(m)' /\ Passed(m)'
  <2>1. PICK m \in 0..2 : PassedAt(m) /\ Passed(m)
    BY <1>3 DEF JourneyInv
  <2>2. PassedAt(m)'
    BY <1>2, <1>3, <2>1 DEF PassedAt
  <2>3. Passed(m)'
    BY <1>1, <1>3, <2>1, PassedLater DEF PassedAt
  <2>4. PlacesOf("RECHAZADO")' = PlacesOf("RECHAZADO")
    BY <1>1, <1>3, PlacesGrow
  <2>5. CASE stage' # 10
    <3>1. PlacesOf("RECHAZADO") = {}
      BY <1>3, <2>5 DEF JourneyInv
    <3> QED BY <2>1, <2>2, <2>3, <2>4, <2>5, <3>1
  <2>6. CASE stage' = 10
    <3>1. PICK j \in DOMAIN trail :
            /\ PlacesOf("RECHAZADO") = {j} /\ Nth("RECHAZADO", 1) = {j}
            /\ trail[j].level = FailedStep - 1
      BY <1>3, <2>6 DEF JourneyInv, Refused
    <3>2. Nth("RECHAZADO", 1)' = Nth("RECHAZADO", 1)
      BY <1>1, <1>3, NthGrows
    <3>3. FailedStep' = FailedStep
      <4>1. row.accion # "APROBADO"
        BY <1>3, <2>6 DEF JourneyInv
      <4>2. PlacesOf("APROBADO")' = PlacesOf("APROBADO")
        BY <1>1, <4>1, PlacesGrow
      <4> QED BY <1>2, <4>2 DEF FailedStep
    <3>4. j \in DOMAIN trail' /\ trail'[j] = trail[j]
      BY <1>1, PlacesGrow
    <3> QED BY <2>1, <2>2, <2>3, <2>4, <2>6, <3>1, <3>2, <3>3, <3>4 DEF Refused
  <2> QED BY <2>5, <2>6
<1> QED BY <1>3, JourneyRecords

\* A reassignment writes its row and moves nothing (reassignApproval).
LEMMA ReassignKeeps ==
  ASSUME JourneyTypeInv, JourneyInv, NEW u \in Reviewers, ReassignLevel(u)
  PROVE  JourneyInv'
<1>1. PICK row \in TrailRows : /\ row.accion = "REASIGNADO" /\ row.level = 0
                               /\ trail' = Append(trail, row)
  BY RecordedRow DEF ReassignLevel, TrailActions
<1>2. /\ stage \in {2, 3} /\ stage' = stage /\ levels' = levels /\ asked' = asked
      /\ detours' = detours
  BY DEF ReassignLevel
<1> QED BY <1>1, <1>2, OtherRowKeeps DEF JourneyInv

\* An escalation jumps a review, which counts as a detour (processStaleApprovals).
LEMMA EscalateKeeps ==
  ASSUME JourneyTypeInv, JourneyInv, NEW u \in Reviewers, EscalateLevel(u)
  PROVE  JourneyInv'
<1>1. PICK row \in TrailRows : /\ row.accion = "ESCALADO" /\ row.level = 0
                               /\ trail' = Append(trail, row)
  BY RecordedRow DEF EscalateLevel, TrailActions
<1>2. /\ stage = 2 /\ stage' = 3 /\ levels' = levels /\ asked' = asked /\ detours' # {}
  BY DEF EscalateLevel
<1> QED BY <1>1, <1>2, OtherRowKeeps DEF JourneyInv

\* The deadline lock writes a rejection of no review, a detour too (lockRequestAutomatic).
LEMMA LockKeeps ==
  ASSUME JourneyTypeInv, JourneyInv, LockJourney
  PROVE  JourneyInv'
<1>1. PICK row \in TrailRows : /\ row.accion = "RECHAZADO" /\ row.level = 0
                               /\ trail' = Append(trail, row)
  BY RecordedRow DEF LockJourney, TrailActions
<1>2. /\ stage' = 8 /\ levels' = levels /\ asked' = asked /\ detours' # {}
  BY DEF LockJourney
<1> QED BY <1>1, <1>2, OtherRowKeeps

\* Rulings on exceptions come after the reviews, or the page is misled (decideExceptionTx).
LEMMA RuleKeeps ==
  ASSUME JourneyTypeInv, JourneyInv, NEW u \in Reviewers, RuleException(u)
  PROVE  JourneyInv'
<1>1. PICK accion \in {"APROBADO", "RECHAZADO"} :
        /\ Record(accion, u, 0)
        /\ detours' = detours \union IF accion = "RECHAZADO" THEN {"rejection"} ELSE {}
  BY DEF RuleException
<1>2. PICK row \in TrailRows : /\ row.accion = accion /\ row.level = 0
                               /\ trail' = Append(trail, row)
  BY <1>1, RecordedRow DEF TrailActions
<1>3. asked /\ stage' = stage /\ levels' = levels /\ asked' = asked
  BY DEF RuleException
<1>4. stage' # 1 /\ stage' \in 4..9
  BY <1>3 DEF JourneyInv
<1>5. detours' = {} => detours = {} /\ row.accion # "RECHAZADO"
  BY <1>1, <1>2
<1> QED BY <1>2, <1>3, <1>4, <1>5, OtherRowKeeps

\* Steps that write no row do not touch what the stage says of the reviews.
LEMMA QuietKeeps ==
  ASSUME JourneyTypeInv, JourneyInv, EditRoutes \/ ConfirmFee \/ MoveOn \/ AskException
  PROVE  JourneyInv'
<1>1. UNCHANGED <<trail, levels, detours>>
  BY DEF EditRoutes, ConfirmFee, MoveOn, AskException
<1>2. ReviewSteps' = ReviewSteps
  BY <1>1, PassedStays
<1>3. /\ stage' = 1 => stage = 1
      /\ stage' = 10 <=> stage = 10
      /\ stage' \in {2, 3} => stage' = stage
      /\ asked' => stage' \in 4..9
      /\ asked' => asked \/ stage \in 4..8
      /\ stage' \in 4..8 => stage \in 4..8
  <2>1. CASE EditRoutes
    BY <2>1 DEF EditRoutes, JourneyInv
  <2>2. CASE ConfirmFee
    BY <2>2 DEF ConfirmFee, JourneyInv
  <2>3. CASE MoveOn
    BY <2>3 DEF MoveOn, JourneyInv
  <2>4. CASE AskException
    BY <2>4 DEF AskException, JourneyInv
  <2> QED BY <2>1, <2>2, <2>3, <2>4
<1>4. ASSUME NEW m \in 0..2, PassedAt(m) PROVE PassedAt(m)'
  <2>1. /\ m \in 0..Len(ReviewSteps')
        /\ stage' = 1 => m = 0
        /\ stage' \in 4..8 \/ asked' => m = Len(ReviewSteps')
        /\ stage' = 10 => m < Len(ReviewSteps')
    BY <1>2, <1>3, <1>4 DEF PassedAt
  <2>2. stage' \in {2, 3} => m < Len(ReviewSteps') /\ ReviewSteps'[m + 1] = stage'
    BY <1>2, <1>3, <1>4 DEF PassedAt
  <2> QED BY <2>1, <2>2 DEF PassedAt
<1> QED BY <1>1, <1>3, <1>4, JourneyQuiet

\* What the page may conclude from the trail always holds.
LEMMA JourneyInvariant == JourneySpec => []JourneyInv
<1>1. JourneyInit => JourneyInv
  <2> SUFFICES ASSUME JourneyInit PROVE JourneyInv
    OBVIOUS
  <2>1. stage = 1 /\ trail = <<>> /\ asked = FALSE
    BY DEF JourneyInit
  <2>2. \A a : PlacesOf(a) = {}
    BY <2>1 DEF PlacesOf
  <2>3. Passed(0)
    <3>1. Cardinality(PlacesOf("APROBADO")) = 0
      BY <2>2, FS_EmptySet
    <3> QED BY <2>2, <3>1 DEF Passed
  <2>4. PassedAt(0)
    BY <2>1, StepsOfReview DEF PassedAt
  <2> QED BY <2>1, <2>2, <2>3, <2>4 DEF JourneyInv
<1>2. JourneyTypeInv /\ JourneyInv /\ [JourneyNext]_journeyVars => JourneyInv'
  <2> SUFFICES ASSUME JourneyTypeInv, JourneyInv, [JourneyNext]_journeyVars PROVE JourneyInv'
    OBVIOUS
  <2>1. CASE SubmitJourney
    BY <2>1, SubmitKeeps
  <2>2. CASE LockJourney
    BY <2>2, LockKeeps
  <2>3. CASE EditRoutes \/ ConfirmFee \/ MoveOn \/ AskException
    BY <2>3, QuietKeeps
  <2>4. ASSUME NEW u \in Reviewers,
               ApproveLevel(u) \/ DeclineLevel(u) \/ ReassignLevel(u) \/ EscalateLevel(u)
                 \/ RuleException(u)
        PROVE  JourneyInv'
    BY <2>4, ApproveKeeps, DeclineKeeps, ReassignKeeps, EscalateKeeps, RuleKeeps
  <2>5. CASE UNCHANGED journeyVars
    <3>1. UNCHANGED <<trail, levels, stage, asked, detours>>
      BY <2>5 DEF journeyVars
    <3>2. \A m \in 0..2 : PassedAt(m) => PassedAt(m)'
      BY <3>1, PassedStays DEF PassedAt
    <3> QED BY <3>1, <3>2, JourneyQuiet DEF JourneyInv
  <2> QED BY <2>1, <2>2, <2>3, <2>4, <2>5 DEF JourneyNext
<1> QED BY <1>1, <1>2, JourneyTypes, PTL DEF JourneySpec

--------------------------------------------------------------------------------
(* What the page shows. *)

\* Reviews are shown in the order of their statuses.
LEMMA ReviewOrder ==
  /\ \A i \in DOMAIN ReviewSteps : i \in 1..2 /\ ReviewSteps[i] \in {2, 3}
  /\ \A i, k \in DOMAIN ReviewSteps : i < k => ReviewSteps[i] < ReviewSteps[k]
<1>1. DOMAIN ReviewSteps = 1..Len(ReviewSteps) /\ (Len(ReviewSteps) = 1 \/ Len(ReviewSteps) = 2)
  BY StepsOfReview
<1>2. CASE Len(ReviewSteps) = 1
  <2>1. ReviewSteps[1] \in {2, 3} /\ DOMAIN ReviewSteps = {1}
    BY <1>1, <1>2, ReviewCases
  <2> QED BY <2>1
<1>3. CASE Len(ReviewSteps) = 2
  <2>1. ReviewSteps[1] = 2 /\ ReviewSteps[2] = 3
    BY <1>3, StepsOfReview
  <2>2. DOMAIN ReviewSteps = {1, 2}
    BY <1>1, <1>3
  <2> QED BY <2>1, <2>2
<1> QED BY <1>1, <1>2, <1>3

\* When a review is shown as failed, and when it may be shown as completed.
LEMMA StatesShown ==
  ASSUME stage \in 1..10, NEW s \in {2, 3}
  PROVE  /\ StateOf(s) = "failed" <=> stage = 10 /\ s = FailedStep
         /\ StateOf(s) = "completed" => \/ stage = 10 /\ s < FailedStep
                                        \/ stage < 9 /\ stage > s
<1>1. CASE stage = 9
  BY <1>1 DEF StateOf
<1>2. CASE stage = 10
  BY <1>2 DEF StateOf
<1>3. CASE stage # 9 /\ stage # 10
  BY <1>3 DEF StateOf
<1> QED BY <1>1, <1>2, <1>3

\* What the page says of the i-th review.
NamedAt(i) ==
  LET s == ReviewSteps[i]
      done == {r \in Range(trail) : r.level = s - 1}
  IN  /\ ActorAt(i) = {r.by : r \in done}
      /\ StateOf(s) = "completed" => \E r \in done : r.accion = "APROBADO"
      /\ (StateOf(s) = "failed") = (\E r \in done : r.accion = "RECHAZADO")

\* Rows about a review that was approved, and of one that was not.
DecidedAt(i) == {j \in DOMAIN trail : trail[j].level = ReviewSteps[i] - 1}

\* It suffices to look at the places of the rows about a review.
LEMMA NamedByPlaces ==
  ASSUME TrailTyped, stage \in 1..10, NEW i \in DOMAIN ReviewSteps,
         ActorAt(i) = {trail[j].by : j \in DecidedAt(i)},
         StateOf(ReviewSteps[i]) = "completed" => \E j \in DecidedAt(i) : trail[j].accion = "APROBADO",
         stage = 10 /\ ReviewSteps[i] = FailedStep
            <=> \E j \in DecidedAt(i) : trail[j].accion = "RECHAZADO"
  PROVE  NamedAt(i)
<1> DEFINE s == ReviewSteps[i]
           done == {r \in Range(trail) : r.level = s - 1}
<1>1. done = {trail[j] : j \in DecidedAt(i)}
  BY DEF Range, DecidedAt
<1>2. s \in {2, 3}
  BY ReviewOrder
<1>3. StateOf(s) = "failed" <=> stage = 10 /\ s = FailedStep
  BY <1>2, StatesShown
<1>4. (StateOf(s) = "failed") = (\E r \in done : r.accion = "RECHAZADO")
  <2>1. (\E r \in done : r.accion = "RECHAZADO") <=> \E j \in DecidedAt(i) : trail[j].accion = "RECHAZADO"
    BY <1>1
  <2> HIDE DEF s, done
  <2>2. (StateOf(s) = "failed") <=> \E r \in done : r.accion = "RECHAZADO"
    BY <1>3, <2>1 DEF s
  <2> QED BY <2>2
<1>5. ActorAt(i) = {r.by : r \in done}
  BY <1>1
<1>6. StateOf(s) = "completed" => \E r \in done : r.accion = "APROBADO"
  BY <1>1
<1> HIDE DEF s, done
<1> QED BY <1>4, <1>5, <1>6 DEF NamedAt, s, done

\* Only decisions are about a review, and its approval is the one in its turn.
LEMMA DecisionsTaken ==
  ASSUME JourneyTypeInv, JourneyInv, NEW m \in 0..2, m <= Len(ReviewSteps), Passed(m),
         NEW i \in DOMAIN ReviewSteps, NEW j \in DecidedAt(i)
  PROVE  \/ trail[j].accion = "RECHAZADO" /\ j \in PlacesOf("RECHAZADO")
         \/ trail[j].accion = "APROBADO" /\ i \in 1..m /\ Nth("APROBADO", i) = {j}
<1>1. j \in DOMAIN trail /\ trail[j].level = ReviewSteps[i] - 1 /\ trail[j].level # 0
  BY ReviewOrder DEF DecidedAt
<1>2. trail[j].accion \in {"APROBADO", "RECHAZADO"}
  BY <1>1 DEF JourneyInv
<1>3. CASE trail[j].accion = "RECHAZADO"
  BY <1>1, <1>3 DEF PlacesOf
<1>4. CASE trail[j].accion = "APROBADO"
  <2>1. PICK k \in 1..m : j \in Nth("APROBADO", k)
    BY <1>1, <1>4 DEF Passed, PlacesOf
  <2>2. Nth("APROBADO", k) = {j} /\ trail[j].level = ReviewSteps[k] - 1
    BY <2>1 DEF Passed
  <2>3. k \in DOMAIN ReviewSteps
    BY <2>1, StepsOfReview
  <2>4. ReviewSteps[k] \in {2, 3} /\ ReviewSteps[i] \in {2, 3}
    BY <2>3, ReviewOrder
  <2>5. ReviewSteps[k] = ReviewSteps[i]
    BY <1>1, <2>2, <2>4
  <2>6. k \in 1..2 /\ i \in 1..2
    BY <2>3, ReviewOrder
  <2>7. k = i
    BY <2>3, <2>4, <2>5, <2>6, ReviewOrder
  <2> QED BY <1>4, <2>1, <2>2, <2>7
<1> QED BY <1>2, <1>3, <1>4

\* A request that failed did so at the review after those passed.
LEMMA FailedNext ==
  ASSUME NEW m \in 0..2, PassedAt(m), Passed(m), stage = 10
  PROVE  m + 1 \in DOMAIN ReviewSteps /\ FailedStep = ReviewSteps[m + 1]
<1>1. m < Len(ReviewSteps)
  BY DEF PassedAt
<1>2. Cardinality(PlacesOf("APROBADO")) = m
  BY <1>1 DEF Passed
<1> QED BY <1>1, <1>2, StepsOfReview DEF FailedStep

\* A review passed names the user of its approval.
LEMMA PassedNamed ==
  ASSUME JourneyTypeInv, JourneyInv, detours = {}, NEW m \in 0..2, PassedAt(m), Passed(m),
         NEW i \in 1..m
  PROVE  NamedAt(i)
<1>1. m <= Len(ReviewSteps) /\ i \in DOMAIN ReviewSteps /\ i \in 1..2
  <2>1. m \in 0..Len(ReviewSteps)
    BY DEF PassedAt
  <2>2. Len(ReviewSteps) = 1 \/ Len(ReviewSteps) = 2
    BY StepsOfReview
  <2> QED BY <2>1, <2>2, StepsOfReview
<1>2. PICK j \in DOMAIN trail : Nth("APROBADO", i) = {j} /\ trail[j].level = ReviewSteps[i] - 1
  BY DEF Passed
<1>3. trail[j].accion = "APROBADO" /\ j \in DecidedAt(i)
  BY <1>2 DEF Nth, PlacesOf, DecidedAt
<1>4. stage = 10 => ReviewSteps[i] # FailedStep
  <2> SUFFICES ASSUME stage = 10 PROVE ReviewSteps[i] # FailedStep
    OBVIOUS
  <2>1. m + 1 \in DOMAIN ReviewSteps /\ FailedStep = ReviewSteps[m + 1]
    BY FailedNext
  <2>2. ReviewSteps[i] < ReviewSteps[m + 1]
    BY <1>1, <2>1, ReviewOrder
  <2>3. ReviewSteps[i] \in {2, 3} /\ ReviewSteps[m + 1] \in {2, 3}
    BY <1>1, <2>1, ReviewOrder
  <2> QED BY <2>1, <2>2, <2>3
<1>5. PlacesOf("RECHAZADO") = {} \/ ReviewSteps[i] # FailedStep
  BY <1>4 DEF JourneyInv
<1>6. ASSUME NEW k \in DecidedAt(i) PROVE k = j
  <2>1. trail[k].accion # "RECHAZADO"
    <3> SUFFICES ASSUME k \in PlacesOf("RECHAZADO") PROVE FALSE
      BY DEF PlacesOf, DecidedAt
    <3>1. stage = 10 /\ Refused
      BY DEF JourneyInv
    <3>2. trail[k].level = FailedStep - 1
      BY <3>1 DEF Refused
    <3>3. m + 1 \in DOMAIN ReviewSteps /\ FailedStep = ReviewSteps[m + 1]
      BY <3>1, FailedNext
    <3>4. FailedStep \in {2, 3} /\ ReviewSteps[i] \in {2, 3}
      BY <1>1, <3>3, ReviewOrder
    <3>5. trail[k].level = ReviewSteps[i] - 1
      BY DEF DecidedAt
    <3> QED BY <1>4, <3>1, <3>2, <3>4, <3>5
  <2>2. Nth("APROBADO", i) = {k}
    BY <1>1, <2>1, DecisionsTaken
  <2> QED BY <1>2, <2>2
<1>7. DecidedAt(i) = {j}
  BY <1>3, <1>6
<1>8. ActorAt(i) = {trail[k].by : k \in DecidedAt(i)}
  BY <1>2, <1>5, <1>7 DEF ActorAt
<1> QED BY <1>1, <1>3, <1>4, <1>7, <1>8, NamedByPlaces DEF JourneyTypeInv

\* Of the others, only the one where the request failed names a user.
LEMMA PendingNamed ==
  ASSUME JourneyTypeInv, JourneyInv, detours = {}, NEW m \in 0..2, PassedAt(m), Passed(m),
         NEW i \in DOMAIN ReviewSteps, m < i
  PROVE  NamedAt(i)
<1>1. m < Len(ReviewSteps) /\ m + 1 \in DOMAIN ReviewSteps /\ i \in 1..2 /\ m <= Len(ReviewSteps)
      /\ Len(ReviewSteps) \in Nat
  BY StepsOfReview
<1>2. Nth("APROBADO", i) = {}
  <2>1. Cardinality(PlacesOf("APROBADO")) = m
    BY <1>1 DEF Passed
  <2>2. trail \in Seq(TrailRows) /\ i \in Nat
    BY <1>1 DEF JourneyTypeInv, TrailTyped
  <2> QED BY <1>1, <2>1, <2>2, NthWithin
<1>3. \A j \in DecidedAt(i) : trail[j].accion = "RECHAZADO" /\ j \in PlacesOf("RECHAZADO")
  <2> SUFFICES ASSUME NEW j \in DecidedAt(i)
               PROVE  trail[j].accion = "RECHAZADO" /\ j \in PlacesOf("RECHAZADO")
    OBVIOUS
  <2>1. i \notin 1..m
    BY <1>1
  <2> QED BY <1>1, <2>1, DecisionsTaken
<1>4. ReviewSteps[m + 1] <= ReviewSteps[i] /\ ReviewSteps[i] \in {2, 3} /\ ReviewSteps[m + 1] \in {2, 3}
  <2>1. ReviewSteps[i] \in {2, 3} /\ ReviewSteps[m + 1] \in {2, 3}
    BY <1>1, ReviewOrder
  <2>2. CASE i = m + 1
    BY <2>1, <2>2
  <2>3. CASE m + 1 < i
    <3>1. ReviewSteps[m + 1] < ReviewSteps[i]
      BY <1>1, <2>3, ReviewOrder
    <3> QED BY <2>1, <3>1
  <2> QED BY <1>1, <2>1, <2>2, <2>3
<1>5. CASE stage = 10
  <2>1. FailedStep = ReviewSteps[m + 1]
    BY <1>5, FailedNext
  <2>2. PICK j \in DOMAIN trail : /\ PlacesOf("RECHAZADO") = {j} /\ Nth("RECHAZADO", 1) = {j}
                                  /\ trail[j].level = FailedStep - 1
    BY <1>5 DEF JourneyInv, Refused
  <2>3. StateOf(ReviewSteps[i]) # "completed"
    <3>1. StateOf(ReviewSteps[i]) = "completed" => ReviewSteps[i] < FailedStep
      BY <1>4, <1>5, StatesShown
    <3> QED BY <1>4, <2>1, <3>1
  <2>4. CASE ReviewSteps[i] = FailedStep
    <3>1. DecidedAt(i) = {j}
      BY <1>3, <2>2, <2>4 DEF DecidedAt
    <3>2. ActorAt(i) = {trail[k].by : k \in DecidedAt(i)}
      BY <2>2, <2>4, <3>1 DEF ActorAt
    <3>3. trail[j].accion = "RECHAZADO"
      BY <1>3, <3>1
    <3> QED BY <1>5, <2>3, <2>4, <3>1, <3>2, <3>3, NamedByPlaces DEF JourneyTypeInv
  <2>5. CASE ReviewSteps[i] # FailedStep
    <3>1. DecidedAt(i) = {}
      <4> SUFFICES ASSUME NEW k \in DecidedAt(i) PROVE FALSE
        OBVIOUS
      <4>1. k = j /\ trail[k].level = ReviewSteps[i] - 1
        BY <1>3, <2>2 DEF DecidedAt
      <4> QED BY <1>4, <2>1, <2>2, <2>5, <4>1
    <3>2. ActorAt(i) = {trail[k].by : k \in DecidedAt(i)}
      BY <1>2, <2>5, <3>1 DEF ActorAt
    <3> QED BY <2>3, <2>5, <3>1, <3>2, NamedByPlaces DEF JourneyTypeInv
  <2> QED BY <2>4, <2>5
<1>6. CASE stage # 10
  <2>1. PlacesOf("RECHAZADO") = {}
    BY <1>6 DEF JourneyInv
  <2>2. DecidedAt(i) = {}
    BY <1>3, <2>1
  <2>3. ActorAt(i) = {trail[k].by : k \in DecidedAt(i)}
    BY <1>2, <2>1, <2>2 DEF ActorAt
  <2>4. StateOf(ReviewSteps[i]) # "completed"
    <3>1. StateOf(ReviewSteps[i]) = "completed" => stage < 9 /\ stage > ReviewSteps[i]
      BY <1>4, <1>6, StatesShown DEF JourneyTypeInv
    <3>2. ~(stage \in 4..8)
      BY <1>1 DEF PassedAt
    <3>3. stage \in {2, 3} => ReviewSteps[m + 1] = stage
      BY DEF PassedAt
    <3>4. stage \in 1..10
      BY DEF JourneyTypeInv
    <3> QED BY <1>4, <3>1, <3>2, <3>3, <3>4
  <2> QED BY <1>6, <2>2, <2>3, <2>4, NamedByPlaces DEF JourneyTypeInv
<1> QED BY <1>5, <1>6

\* As long as no review was jumped and nothing but a review was rejected, the page
\* names for every review the user who decided it, and nobody for the others.
THEOREM JourneyNamesReviewers == JourneySpec => []ReviewersAreNamed
<1>1. JourneyTypeInv /\ JourneyInv => ReviewersAreNamed
  <2> SUFFICES ASSUME JourneyTypeInv, JourneyInv, detours = {}, NEW i \in DOMAIN ReviewSteps
               PROVE  NamedAt(i)
    BY DEF ReviewersAreNamed, NamedAt
  <2>1. PICK m \in 0..2 : PassedAt(m) /\ Passed(m)
    BY DEF JourneyInv
  <2>2. i \in 1..m \/ m < i
    BY ReviewOrder
  <2> QED BY <2>1, <2>2, PassedNamed, PendingNamed
<1> QED BY <1>1, JourneyTypes, JourneyInvariant, PTL

\* Every open or finished request is in a step of its journey, also when its routes
\* were edited after it was priced, unless it came to a second review it does not have.
THEOREM JourneyHasItsStep == JourneySpec => []InAStep
<1>1. JourneyTypeInv => InAStep
  <2> SUFFICES ASSUME JourneyTypeInv, stage \in 1..8, stage = 3 => 2 \in levels
               PROVE  stage \in JourneySteps
    BY DEF InAStep
  <2>1. CASE stage = 2
    <3>1. 1 \in DOMAIN ReviewSteps /\ ReviewSteps[1] = 2
      <4>1. 1 \in levels \/ 2 \notin levels
        BY <2>1 DEF JourneyTypeInv
      <4> QED BY <4>1, StepsOfReview
    <3> QED BY <2>1, <3>1 DEF JourneySteps, Range
  <2>2. CASE stage = 3
    <3>1. 2 \in levels
      BY <2>2
    <3>2. \E i \in DOMAIN ReviewSteps : ReviewSteps[i] = 3
      <4>1. CASE 1 \in levels
        <5>1. Len(ReviewSteps) = 2 /\ ReviewSteps[2] = 3
          BY <3>1, <4>1, ReviewCases
        <5> QED BY <5>1, StepsOfReview
      <4>2. CASE 1 \notin levels
        <5>1. Len(ReviewSteps) = 1 /\ ReviewSteps[1] = 3
          BY <3>1, <4>2, ReviewCases
        <5> QED BY <5>1, StepsOfReview
      <4> QED BY <4>1, <4>2
    <3> QED BY <2>2, <3>2 DEF JourneySteps, Range
  <2>3. CASE stage = 5
    <3>1. RouteNeedsAgency
      BY <2>3 DEF JourneyTypeInv, RouteNeedsAgency
    <3> QED BY <2>3, <3>1 DEF JourneySteps
  <2>4. CASE stage \in {1, 4, 6, 7, 8}
    BY <2>4 DEF JourneySteps
  <2> QED BY <2>1, <2>2, <2>3, <2>4
<1> QED BY <1>1, JourneyTypes, PTL

\* A step records a row where the bound leaves room for it, or none.
LEMMA TrailSteps ==
  ASSUME [JourneyNext]_journeyVars
  PROVE  UNCHANGED trail \/ (Len(trail) < MaxTrail /\ \E row : trail' = Append(trail, row))
<1>1. ASSUME NEW accion, NEW by, NEW level, Record(accion, by, level)
      PROVE  Len(trail) < MaxTrail /\ \E row : trail' = Append(trail, row)
  BY <1>1 DEF Record
<1>2. CASE UNCHANGED trail
  BY <1>2
<1>3. CASE LockJourney
  BY <1>1, <1>3 DEF LockJourney
<1>4. ASSUME NEW u \in Reviewers, ApproveLevel(u) \/ DeclineLevel(u) \/ ReassignLevel(u)
                                  \/ EscalateLevel(u) \/ RuleException(u)
      PROVE  Len(trail) < MaxTrail /\ \E row : trail' = Append(trail, row)
  <2>1. \E accion, level : Record(accion, u, level)
    BY <1>4 DEF ApproveLevel, DeclineLevel, ReassignLevel, EscalateLevel, RuleException
  <2> QED BY <1>1, <2>1
<1> QED
  BY <1>2, <1>3, <1>4 DEF JourneyNext, journeyVars, SubmitJourney, EditRoutes, ConfirmFee,
     MoveOn, AskException

\* The rows of the trail name a reviewer or the applicant and a level, whoever wrote them
\* (the journey page reads solicitud_historial without knowing its writers).
THEOREM JourneyTyped == JourneySpec => []JourneyTypeOK
<1> DEFINE Bounded == Len(trail) <= MaxTrail
<1>1. JourneyInit => Bounded
  BY MaxTrailAssumption DEF JourneyInit
<1>2. JourneyTypeInv /\ Bounded /\ [JourneyNext]_journeyVars => Bounded'
  <2> SUFFICES ASSUME JourneyTypeInv, Bounded, [JourneyNext]_journeyVars PROVE Bounded'
    OBVIOUS
  <2>1. CASE UNCHANGED trail
    BY <2>1
  <2>2. ASSUME Len(trail) < MaxTrail, NEW row, trail' = Append(trail, row) PROVE Bounded'
    <3>1. Len(trail') = Len(trail) + 1 /\ Len(trail) \in Nat
      BY <2>2, LenProperties, AppendProperties DEF JourneyTypeInv, TrailTyped
    <3> QED BY <2>2, <3>1, MaxTrailAssumption
  <2> QED BY <2>1, <2>2, TrailSteps
<1>3. JourneyTypeInv /\ Bounded => JourneyTypeOK
  <2> SUFFICES ASSUME JourneyTypeInv, Bounded PROVE JourneyTypeOK
    OBVIOUS
  <2>1. \A r \in Range(trail) : r.by \in Reviewers \union {Applicant} /\ r.level \in 0..2
    <3>1. \A j \in DOMAIN trail : trail[j] \in TrailRows
      BY ElementOfSeq, LenProperties DEF JourneyTypeInv, TrailTyped
    <3> QED BY <3>1 DEF TrailRows, Range
  <2> QED BY <2>1 DEF JourneyTypeInv, JourneyTypeOK
<1> QED BY <1>1, <1>2, <1>3, JourneyTypes, PTL DEF JourneySpec
=================================================================================
