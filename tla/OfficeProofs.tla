------------------------------- MODULE OfficeProofs -------------------------------
(***************************************************************************)
(* The parts of MCOffice together: a behaviour of all of them is one of each *)
(* part, in which the steps of the others change nothing.  So what is proved  *)
(* of a part alone holds of it among the others, whichever of them is acting. *)
(***************************************************************************)
EXTENDS MCOffice, PayablesProofs, PolicyProofs, LevelsProofs, UsersProofs

\* A step of the office is a step of one part, and leaves every other as it is.
LEMMA OfficeStep ==
  ASSUME [Next]_<<part, alertsVars, exportVars, policyVars, exceptionVars,
                  importVars, ruleVars, permissionVars, journeyVars>>
  PROVE  /\ [AlertsNext]_alertsVars /\ [ExportNext]_exportVars
         /\ [PolicyNext]_policyVars /\ [ExceptionNext]_exceptionVars
         /\ [ImportNext]_importVars /\ [RulesNext]_ruleVars
         /\ [PermissionsNext]_permissionVars /\ [JourneyNext]_journeyVars
  BY DEF Next

\* Each part acts by its own specification: the modules share no variable and no call
\* (the pages and jobs of these parts write different tables).
THEOREM OfficeActsByParts ==
    Spec => /\ AlertsSpec /\ ExportSpec /\ PolicySpec /\ ExceptionSpec
            /\ ImportSpec /\ RulesSpec /\ PermissionsSpec /\ JourneySpec
<1>1. Init => /\ AlertsInit /\ ExportInit /\ PolicyInit /\ ExceptionInit
              /\ ImportInit /\ RulesInit /\ PermissionsInit /\ JourneyInit
  BY DEF Init
<1> QED
  BY <1>1, OfficeStep, PTL DEF Spec, AlertsSpec, ExportSpec, PolicySpec, ExceptionSpec,
     ImportSpec, RulesSpec, PermissionsSpec, JourneySpec

\* Every table keeps its type in every behaviour of the office, whichever part acts.
THEOREM OfficeTyped == Spec => []OfficeTypeOK
<1>1. /\ AlertsTypeOK /\ ExportTypeOK /\ PolicyTypeOK /\ ExceptionTypeOK
      /\ ImportTypeOK /\ RulesTypeOK /\ PermissionsTypeOK /\ JourneyTypeOK
      => OfficeTypeOK
  BY DEF OfficeTypeOK
<1> QED
  BY <1>1, OfficeActsByParts, AlertsTyped, ExportsTyped, PoliciesTyped, ExceptionsTyped,
     UsersTyped, RulesTyped, PermissionsTyped, JourneyTyped, PTL

\* What is proved of the parts holds of the office, which is what TLC explores.
THEOREM OfficeKeepsParts ==
    Spec => [](/\ ClosedIsQuiet /\ AlertsAskForStatus /\ WalletPaidFee
               /\ BooksBalance /\ MarkedIsBooked /\ BookedOnce /\ ExportsAreComplete
               /\ NoOverlap /\ NotRetroactive /\ RefundFollowsRuling /\ RuledByEntitled
               /\ NobodyApprovesSelf /\ DoneIsComplete /\ ImportsSpareOthers
               /\ DearerNeedsMore /\ LevelsAreARange /\ ListedIsDesignated
               /\ RolesAsTicked /\ KeepsARole /\ ReviewersAreNamed /\ InAStep)
<1> QED
  BY OfficeActsByParts, ClosedRequestsQuiet, AlertsAsk, WalletPaysFee, PersistedBooksBalance,
     MarkedAreBooked, ReceiptsBookedOnce, ExportsComplete, PoliciesApart, PoliciesNotRetroactive,
     RefundsFollow, RulingsEntitled, NoRounds, DoneImportsComplete, OthersSpared, DearerIsStricter,
     RangeOfLevels, ListedAreDesignated, PermissionsAsTicked, RolesKept, JourneyNamesReviewers,
     JourneyHasItsStep, PTL
===================================================================================
