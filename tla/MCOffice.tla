-------------------------------- MODULE MCOffice --------------------------------
(***************************************************************************)
(* Small instances of the parts of the system that share no state with one  *)
(* another in these models, checked in one run: "part" says which of them a  *)
(* behaviour is about, the others stay in one initial state.                *)
(***************************************************************************)
EXTENDS TLC, RequestAlerts, AccountingExport, TravelPolicies, PolicyExceptions,
        UserImport, WorkflowRules, RolePermissions, RequestJourney

CONSTANTS
    t1, t2, x1, y1,                  \* trips and receipts, model values
    l1, l2, l3,                      \* logins
    h1, h2, h3,                      \* superiors
    manage, view, apply              \* permissions

Parts == {"alerts", "export", "policies", "exceptions", "import", "rules", "roles", "journey"}

VARIABLE part

--------------------------------------------------------------------------------
MCTripOf == (x1 :> t1) @@ (y1 :> t2)

\* The second receipt's CFDI adds up, or its total is a cent short.
Cfdi(base, taxes, retained, total) ==
    [base |-> base, taxes |-> taxes, retained |-> retained, total |-> total, supported |-> TRUE]
MCInvoices ==
    {(x1 :> Cfdi(10, 2, 1, 11)) @@ (y1 :> Cfdi(10, 1, 0, total)) : total \in {10, 11}}

Form(category, costs, from, to, cap, active) ==
    [category |-> category, costs |-> costs, scope |-> "any",
     from |-> from, to |-> to, cap |-> cap, active |-> active]
MCForms == {Form(0, 0, 1, 1, 1, TRUE), Form(0, 0, 2, 0, 2, TRUE), Form(2, 1, 1, 0, 1, FALSE)}

\* The second file goes round by itself: l1 under l3 under l1, once l3 is known.
Line(login, email, number, chief, boss) ==
    [login |-> login, email |-> email, number |-> number, chief |-> chief, boss |-> boss]
MCFiles ==
    {<<Line(l1, 1, 1, 2, {}), Line(l2, 2, 2, 0, {l2})>>,
     <<Line(l3, 2, 0, 0, {l1}), Line(l2, 2, 0, 0, {l3}), Line(l1, 1, 0, 0, {l3})>>}

Rule(kind, threshold, level, skip, steps, inScope) ==
    [kind |-> kind, threshold |-> threshold, level |-> level, skipIfBelow |-> skip,
     steps |-> steps, inScope |-> inScope, meets |-> TRUE, active |-> TRUE]
MCEntries ==
    {Rule("importe", {1}, 1, {}, 0, TRUE), Rule("importe", {2}, 2, {2}, 0, TRUE),
     Rule("importe", {1}, 3, {1}, 0, TRUE), Rule("destino", {}, 2, {}, 3, TRUE),
     Rule("gasto", {}, 3, {1}, 0, TRUE), Rule("importe", {0}, 1, {}, 0, FALSE)}
MCPatches == {RuleFields, {"level"}}
MCChains == {<<>>, <<h1>>, <<h1, h2, h3>>}
MCFallbacks == {<<>>, <<h2>>, <<h3>>}

\* What runs at once is called by the same names in every part.
Interchangeable == Permutations(Updaters) \union Permutations(Admins)

--------------------------------------------------------------------------------
\* The initial states of a part are varied only in behaviours about that part.
Init ==
    /\ part \in Parts
    /\ AlertsInit /\ (part = "alerts" \/ row.status = 1)
    /\ ExportInit /\ (part = "export" \/ invoice[y1].total = 11)
    /\ PolicyInit
    /\ ExceptionInit /\ (part = "exceptions" \/ designated = {})
    /\ ImportInit
    /\ RulesInit
    /\ PermissionsInit
    /\ JourneyInit /\ (part = "journey" \/ needs = {})

Next ==
    \/ /\ part = "alerts" /\ AlertsNext
       /\ UNCHANGED <<part, exportVars, policyVars, exceptionVars, importVars, ruleVars, permissionVars, journeyVars>>
    \/ /\ part = "export" /\ ExportNext
       /\ UNCHANGED <<part, alertsVars, policyVars, exceptionVars, importVars, ruleVars, permissionVars, journeyVars>>
    \/ /\ part = "policies" /\ PolicyNext
       /\ UNCHANGED <<part, alertsVars, exportVars, exceptionVars, importVars, ruleVars, permissionVars, journeyVars>>
    \/ /\ part = "exceptions" /\ ExceptionNext
       /\ UNCHANGED <<part, alertsVars, exportVars, policyVars, importVars, ruleVars, permissionVars, journeyVars>>
    \/ /\ part = "import" /\ ImportNext
       /\ UNCHANGED <<part, alertsVars, exportVars, policyVars, exceptionVars, ruleVars, permissionVars, journeyVars>>
    \/ /\ part = "rules" /\ RulesNext
       /\ UNCHANGED <<part, alertsVars, exportVars, policyVars, exceptionVars, importVars, permissionVars, journeyVars>>
    \/ /\ part = "roles" /\ PermissionsNext
       /\ UNCHANGED <<part, alertsVars, exportVars, policyVars, exceptionVars, importVars, ruleVars, journeyVars>>
    \/ /\ part = "journey" /\ JourneyNext
       /\ UNCHANGED <<part, alertsVars, exportVars, policyVars, exceptionVars, importVars, ruleVars, permissionVars>>

Spec == Init /\ [][Next]_<<part, alertsVars, exportVars, policyVars, exceptionVars,
                          importVars, ruleVars, permissionVars, journeyVars>>

--------------------------------------------------------------------------------
\* Every part of the state keeps its type.
OfficeTypeOK ==
    /\ AlertsTypeOK /\ ExportTypeOK /\ PolicyTypeOK /\ ExceptionTypeOK
    /\ ImportTypeOK /\ RulesTypeOK /\ PermissionsTypeOK
    /\ JourneyTypeOK
================================================================================
