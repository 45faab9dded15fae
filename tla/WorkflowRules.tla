----------------------------- MODULE WorkflowRules -----------------------------
(***************************************************************************)
(* The rules by which an organisation says who approves a request, edited by *)
(* administrators, and the snapshot that a request takes of them when it is  *)
(* confirmed: which levels decide and who is designated for them.  The        *)
(* statuses the request then goes through are those of TravelRequest.         *)
(***************************************************************************)
EXTENDS Integers, Sequences

CONSTANTS
    Rules,        \* ids of rules
    Entries,      \* what an administrator may enter in the form of a rule
    Patches,      \* sets of fields that an update may enter
    Togglers,     \* switches of a rule in flight at once
    Confirmed,    \* requests
    Amounts,      \* fees that may be asked for
    Chains,       \* chains of superiors an applicant may have, nearest first
    Fallbacks,    \* sequences with the user of role N1, or N2, if there is one
    TopLevel,     \* bound: levels and superiors that a rule may name
    MaxRuleEdits  \* bound: edits of rules

\* kind is "importe" or that of another parameter; threshold and skipIfBelow are sets
\* of at most one amount; steps is 0 for null.  inScope stands for the rule type and
\* the department, meets for what the other parameters compare.
RuleFields == {"kind", "threshold", "level", "skipIfBelow", "steps", "inScope", "meets", "active"}
IsRule(d) ==
    /\ DOMAIN d = RuleFields /\ d.level \in 1..TopLevel /\ d.steps \in 0..TopLevel
    /\ d.threshold \subseteq Int /\ d.skipIfBelow \subseteq Int

ASSUME EntriesAssumption == \A d \in Entries : IsRule(d)
ASSUME AmountsAssumption == Amounts \subseteq Int
ASSUME TopLevelAssumption == TopLevel \in Nat /\ TopLevel >= 2
ASSUME ApproversAssumption ==
    /\ \A c \in Chains \union Fallbacks : c \in Seq({c[i] : i \in DOMAIN c})
    /\ \A f \in Fallbacks : Len(f) <= 1

VARIABLES
    rules,        \* the rows of workflow_rules, NoRule where there is none
    toggles,      \* per switch in flight, the rule and the value it will write
    ruleEdits,    \* how many edits were begun
    snapshots     \* the snapshots of the requests

ruleVars == <<rules, toggles, ruleEdits, snapshots>>

NoRule == [active |-> FALSE]
NoToggle == [rule |-> {}]
NoSnapshotYet == [levels |-> {}]
Scoped == {i \in Rules : rules[i] # NoRule /\ rules[i].active /\ rules[i].inScope}

--------------------------------------------------------------------------------
\* The bands whose threshold the amount does not exceed, and the lowest of them.
Bands(a) == {i \in Scoped : rules[i].kind = "importe" /\ \E t \in rules[i].threshold : a <= t}
LowestBands(a) ==
    {i \in Bands(a) : \A j \in Bands(a) :
        \A s \in rules[i].threshold, t \in rules[j].threshold : s <= t}

BandLevelsOpen(a) ==                         \* mutant: one level above all the bands
    IF Bands(a) = {} THEN {1} ELSE {rules[i].level : i \in LowestBands(a)}
\* maxLevelFromImporteBands; between equal thresholds the order of the query decides.
BandLevels(a) ==
    IF Bands(a) = {} THEN {2} ELSE {rules[i].level : i \in LowestBands(a)}

\* The rules that raise the lowest level; those that raise the highest whatever the
\* amount; those that count superiors, which lifts the limit of two levels.
Skipping(a) == {i \in Scoped : \E s \in rules[i].skipIfBelow : a < s}
Raising == {i \in Scoped : rules[i].kind # "importe" /\ rules[i].meets}
Climbing == {i \in Scoped : rules[i].steps > 0}

\* computeLevelsFromRules, from the lowest level to the highest; l is the band's.
LevelsWith(a, l) ==
    {n \in 1..TopLevel :
        /\ \A i \in Skipping(a) : rules[i].level <= n
        /\ \/ \E i \in Skipping(a) : n <= rules[i].level
           \/ \E i \in Climbing : n <= rules[i].steps
           \/ /\ n <= l \/ \E i \in Raising : n <= rules[i].level
              /\ Climbing # {} \/ n <= 2}

ApproverIdsWithN1(c, n1, n2) ==              \* mutant: both fallbacks follow one superior
    IF Len(c) <= 1 THEN c \o n1 \o n2 ELSE c
\* resolveN1N2Approvers: the chain, completed by the users of the two roles.
ApproverIds(c, n1, n2) ==
    IF c = <<>> THEN n1 \o n2 ELSE IF Len(c) = 1 THEN c \o n2 ELSE c
AtLevel(ids, n) == SubSeq(ids, n, IF n <= Len(ids) THEN n ELSE 0)
Or(u, v) == IF u # <<>> THEN u ELSE v

\* buildSnapshot; a request without an organisation has none.
BuildRuleSnapshot(levels, c, n1, n2) ==
    LET ids == ApproverIds(c, n1, n2)
    IN  [levels |-> levels,
         approvers |-> [n \in levels |-> AtLevel(ids, n)],
         n1UserId |-> IF 1 \in levels THEN Or(Or(AtLevel(c, 1), n1), AtLevel(ids, 1)) ELSE <<>>,
         n2UserId |-> IF 2 \in levels THEN Or(Or(AtLevel(c, 2), n2), AtLevel(ids, 2)) ELSE <<>>]

--------------------------------------------------------------------------------
RulesInit ==
    /\ rules = [i \in Rules |-> NoRule]
    /\ toggles = [g \in Togglers |-> NoToggle]
    /\ ruleEdits = 0
    /\ snapshots = [t \in Confirmed |-> NoSnapshotYet]

\* Nothing is validated against the other rules.
CreateRule(i) ==
    /\ rules[i] = NoRule /\ ruleEdits < MaxRuleEdits
    /\ \E d \in Entries : rules' = [rules EXCEPT ![i] = d]
    /\ ruleEdits' = ruleEdits + 1
    /\ UNCHANGED <<toggles, snapshots>>

UpdateRule(i) ==
    /\ rules[i] # NoRule /\ ruleEdits < MaxRuleEdits
    /\ \E d \in Entries, F \in Patches :
         rules' = [rules EXCEPT ![i] = [k \in RuleFields |-> IF k \in F THEN d[k] ELSE @[k]]]
    /\ ruleEdits' = ruleEdits + 1
    /\ UNCHANGED <<toggles, snapshots>>

\* toggleRule reads the rule and then writes the opposite of what it read.
BeginToggle(g, i) ==
    /\ toggles[g] = NoToggle /\ rules[i] # NoRule /\ ruleEdits < MaxRuleEdits
    /\ toggles' = [toggles EXCEPT ![g] = [rule |-> {i}, active |-> ~rules[i].active]]
    /\ ruleEdits' = ruleEdits + 1
    /\ UNCHANGED <<rules, snapshots>>

EndToggle(g) ==
    /\ toggles[g] # NoToggle
    /\ rules' = [i \in Rules |-> IF i \in toggles[g].rule
                                 THEN [rules[i] EXCEPT !.active = toggles[g].active]
                                 ELSE rules[i]]
    /\ toggles' = [toggles EXCEPT ![g] = NoToggle]
    /\ UNCHANGED <<ruleEdits, snapshots>>

\* buildRequestWorkflowSnapshots, in the transaction that confirms the request.
ConfirmRequest(t) ==
    /\ snapshots[t] = NoSnapshotYet
    /\ \E a \in Amounts, c \in Chains, n1, n2 \in Fallbacks : \E l \in BandLevels(a) :
         snapshots' = [snapshots EXCEPT ![t] = BuildRuleSnapshot(LevelsWith(a, l), c, n1, n2)]
    /\ UNCHANGED <<rules, toggles, ruleEdits>>

RulesNext ==
    \/ \E i \in Rules : CreateRule(i) \/ UpdateRule(i)
    \/ \E g \in Togglers, i \in Rules : BeginToggle(g, i)
    \/ \E g \in Togglers : EndToggle(g)
    \/ \E t \in Confirmed : ConfirmRequest(t)

RulesSpec == RulesInit /\ [][RulesNext]_ruleVars

--------------------------------------------------------------------------------
RulesTypeOK ==
    /\ \A i \in Rules : rules[i] # NoRule => IsRule(rules[i])
    /\ \A t \in Confirmed : snapshots[t].levels \subseteq 1..TopLevel

\* The bands make sense: two levels at most, and a higher threshold never a lower level.
SensibleBands ==
    \A i, j \in {k \in Scoped : rules[k].kind = "importe"} :
        /\ rules[i].level <= 2
        /\ \A s \in rules[i].threshold, t \in rules[j].threshold :
              s <= t => rules[i].level <= rules[j].level

\* Whatever rules of whatever kinds an organisation has, as long as its bands make
\* sense: every level that decides a request also decides a dearer one, but for a
\* request that a skip leaves to one level.  (Without rules, 1 and 2 always decide.)
DearerNeedsMore ==
    Scoped # {} /\ SensibleBands =>
        \A a, b \in Amounts : a <= b => \A k \in BandLevels(a), l \in BandLevels(b) :
            \/ LevelsWith(a, k) \subseteq LevelsWith(b, l)
            \/ \E n \in 1..TopLevel : LevelsWith(a, k) = {n}

\* A request is decided by somebody, and by levels without a gap.
LevelsAreARange ==
    \A t \in Confirmed : snapshots[t] # NoSnapshotYet =>
        /\ snapshots[t].levels # {}
        /\ \A m, n \in snapshots[t].levels : m..n \subseteq snapshots[t].levels

\* The list of approvers and the two columns, which different readers use, never name
\* different people for a level.
ListedIsDesignated ==
    \A t \in Confirmed :
        LET s == snapshots[t]
        IN  /\ 1 \in s.levels => s.approvers[1] = s.n1UserId
            /\ 2 \in s.levels => s.approvers[2] \in {<<>>, s.n2UserId}
================================================================================
