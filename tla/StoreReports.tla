---------------------------- MODULE StoreReports ----------------------------
(***************************************************************************)
(* All that is worked out from the rows of one store: the release gate and *)
(* what the next row would do to it, the experience guard, the lists of    *)
(* decisions and the experiment.  None of them writes a row, so that they  *)
(* are read off the same behaviours.                                       *)
(***************************************************************************)
EXTENDS GateWhatIf, ExperienceGuard, DecisionLists, Experiment

vars == <<rvars, evars>>

Init == RowsInit /\ ExperimentInit
Next == ExperimentNext
Spec == Init /\ [][Next]_vars

(* A risk the guard sees is one customers are told of, and a healthy store  *)
(* has a high score (ExperienceGuard); an invoice never lowers the standing, *)
(* a refund of a recent payment never raises it, and a preview never clears *)
(* a failed gate (GateWhatIf).                                              *)
GateInvariant ==
    /\ RowsTypeOK
    /\ RiskIsUnstable /\ HealthyScoresHigh
    /\ InvoicesNeverHurt /\ RecentRefundsNeverHelp /\ PreviewsNeverClear

(* Three services count the rows of policyOs.decisions, each with a filter  *)
(* of its own: over the window of a report, what the gate counts is what    *)
(* the experiment counts for its two events, and the previews and the other *)
(* events; and the governance summary of the last day (a window is no       *)
(* shorter) has no decision that the experiment leaves out, but those for   *)
(* other events.                                                            *)
ExperimentEvents == {"USER_ENTER_SHOP", "PAYMENT_VERIFY"}
DecisionsAgree ==
    LET counted(t, event) == getSnapshot(t, Window, event).control.decisionCount
                             + getSnapshot(t, Window, event).treatment.decisionCount
        both(t) == counted(t, "USER_ENTER_SHOP") + counted(t, "PAYMENT_VERIFY")
        uncounted == {i \in Within(decisions, now + 1 - Window, now + 1) :
                        \/ decisions[i].kind.mode = "EVALUATE"
                        \/ decisions[i].kind.event \notin ExperimentEvents}
        others == {i \in Made("EXECUTE", "") : /\ decisions[i].at >= now - Window
                                              /\ decisions[i].kind.event \notin ExperimentEvents}
        day == buildDecision24hSummary(now - 1)
    IN  /\ summarizeDecisionsForRange(decisions, now + 1 - Window, now + 1).total
            = both(now + 1) + Cardinality(uncounted)
        /\ day["HIT"] + day["BLOCKED"] + day["NO_POLICY"] <= both(now) + Cardinality(others)
(* The configuration agrees with the rollbacks on record, a risk that       *)
(* passes means gates that pass, the groups share out the store's revenue   *)
(* (Experiment), and the governance centre counts the same decisions.       *)
ExperimentInvariant ==
    /\ ExperimentTypeOK /\ RollbackIsOnRecord
    /\ PassMeansGatesPass /\ GroupsAddUp /\ DecisionsAgree
=============================================================================
