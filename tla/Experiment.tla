----------------------------- MODULE Experiment -----------------------------
(***************************************************************************)
(* experimentService.ts: a store's experiment is a configuration and a     *)
(* history of rollbacks.  Nothing is decided by it: who was treated is     *)
(* worked out when the report is asked for, from the configuration of that *)
(* moment, by the bucket of a customer's id.                               *)
(***************************************************************************)
EXTENDS ReleaseGate

CONSTANTS Ids,              \* experiment ids
          Bucket,           \* Bucket[id][user]: sha1 of store, experiment and customer, modulo 100
          Patches,          \* what the owner may send: some of the fields
          HistoryKept,      \* 50
          MaxChanges        \* bound: changes of the configuration

\* What the values of the constants satisfy.
ASSUME ExperimentAssumption ==
    /\ Ids # {} /\ Bucket \in [Ids -> [Users -> 0..99]]
    /\ HistoryKept \in Nat \ {0} /\ MaxChanges \in Nat
    /\ \A p \in Patches :
          /\ "experimentId" \in DOMAIN p => p.experimentId \in Ids
          /\ "enabled" \in DOMAIN p => p.enabled \in BOOLEAN
          /\ "trafficPercent" \in DOMAIN p => p.trafficPercent \in Int
          /\ "guardrails" \in DOMAIN p => \A g \in DOMAIN p.guardrails : p.guardrails[g] \in Int

VARIABLES config, history, changes
evars == <<config, history, changes>>

DefaultGuardrails == [minPaymentSuccessRate30 |-> 9950, maxRiskLossProxy30 |-> 30, maxSubsidyWasteProxy |-> 6000]
createDefaultConfig == [experimentId |-> CHOOSE e \in Ids : TRUE, enabled |-> FALSE, trafficPercent |-> 20,
                        targetEvent |-> "USER_ENTER_SHOP", guardrails |-> DefaultGuardrails,
                        status |-> "DRAFT", updatedAt |-> None, lastRollbackAt |-> None]

ExperimentTypeOK == /\ config \in [experimentId : Ids, enabled : BOOLEAN, trafficPercent : 0..100,
                                   targetEvent : {"USER_ENTER_SHOP", "PAYMENT_VERIFY"},
                                   guardrails : [DOMAIN DefaultGuardrails -> 0..10000],
                                   status : {"DRAFT", "RUNNING", "PAUSED", "ROLLED_BACK"},
                                   updatedAt : 0..MaxClock, lastRollbackAt : 0..MaxClock]
                    /\ history \in Seq([experimentId : Ids, rolledBackAt : 1..MaxClock,
                                        previousStatus : {"DRAFT", "RUNNING", "PAUSED", "ROLLED_BACK"}])
                    /\ Len(history) <= HistoryKept /\ changes \in 0..MaxChanges

ExperimentInit == config = createDefaultConfig /\ history = <<>> /\ changes = 0

(* Traffic not limited to a hundred.                                       *)
normalizeTrafficPercentMutant(x) == IF x < 0 THEN 0 ELSE x
normalizeTrafficPercent(x) == clamp(x, 0, 100)
normalizeEvent(event, fallback) == IF event \in {"USER_ENTER_SHOP", "PAYMENT_VERIFY"} THEN event ELSE fallback
(* getConfig: what is saved, laid over the defaults and normalised.        *)
getConfig == [config EXCEPT !.trafficPercent = normalizeTrafficPercent(@),
                            !.targetEvent = normalizeEvent(@, "USER_ENTER_SHOP")]

(* The owner changes some fields.  The status is worked out anew, so that  *)
(* it forgets a rollback; its record stays.                                *)
setConfig(patch) ==
    LET given(f) == IF f \in DOMAIN patch THEN patch[f] ELSE getConfig[f]
        traffic == normalizeTrafficPercent(given("trafficPercent"))
        rails == Overlay(getConfig.guardrails, given("guardrails"))
    IN  /\ changes < MaxChanges
        /\ config' = [experimentId |-> given("experimentId"), enabled |-> given("enabled"),
                      trafficPercent |-> traffic,
                      targetEvent |-> normalizeEvent(given("targetEvent"), getConfig.targetEvent),
                      guardrails |-> [g \in DOMAIN rails |-> clamp(rails[g], 0, 10000)],
                      status |-> IF given("enabled") /\ traffic > 0 THEN "RUNNING" ELSE "PAUSED",
                      updatedAt |-> now, lastRollbackAt |-> config.lastRollbackAt]
        /\ changes' = changes + 1
        /\ UNCHANGED <<history, rvars>>

(* The entry added at the end, where the cut falls.                        *)
rollbackMutant ==
    LET entry == [experimentId |-> getConfig.experimentId, rolledBackAt |-> now,
                  previousStatus |-> getConfig.status]
        all == Append(history, entry)
    IN  /\ changes < MaxChanges
        /\ history' = SubSeq(all, 1, IF Len(all) < HistoryKept THEN Len(all) ELSE HistoryKept)
        /\ config' = [getConfig EXCEPT !.enabled = FALSE, !.status = "ROLLED_BACK",
                                       !.lastRollbackAt = now, !.updatedAt = now]
        /\ changes' = changes + 1
        /\ UNCHANGED rvars
rollback ==
    LET entry == [experimentId |-> getConfig.experimentId, rolledBackAt |-> now,
                  previousStatus |-> getConfig.status]
        all == <<entry>> \o history
    IN  /\ changes < MaxChanges
        /\ history' = SubSeq(all, 1, IF Len(all) < HistoryKept THEN Len(all) ELSE HistoryKept)
        /\ config' = [getConfig EXCEPT !.enabled = FALSE, !.status = "ROLLED_BACK",
                                       !.lastRollbackAt = now, !.updatedAt = now]
        /\ changes' = changes + 1
        /\ UNCHANGED rvars

ExperimentNext == \/ \E p \in Patches : setConfig(p)
                  \/ rollback
                  \/ RowsNext /\ UNCHANGED evars

-----------------------------------------------------------------------------
(* The report                                                              *)

resolveVariant(user, percent) ==
    IF Bucket[getConfig.experimentId][user] < percent THEN "TREATMENT" ELSE "CONTROL"
effectiveTrafficPercent == IF getConfig.enabled THEN getConfig.trafficPercent ELSE 0

finalizeAccumulator(made, paid) ==
    LET outcome(o) == Cardinality({i \in made : decisions[i].kind.outcome = o})
        status(s) == {i \in paid : payments[i].status = s}
        refunded == [i \in paid |-> payments[i].refunded]
        net == Amount * Cardinality(status("PAID")) - Sum(refunded, status("PAID"))
    IN  [decisionCount |-> Cardinality(made), hitRate |-> Rate(outcome("HIT"), outcome("HIT") + outcome("BLOCKED")),
         paymentAttempts |-> Cardinality(paid),
         paymentSuccessRate |-> Rate(Cardinality(status("PAID")),
                                     Cardinality(status("PAID")) + Cardinality(status("EXTERNAL_FAILED"))),
         netRevenue |-> net, netProfitProxy |-> net - Sum([i \in made |-> extractProjectedCost(decisions[i])], made)]

(* The oldest instant of the window left out.                              *)
getSnapshotMutant(t, w, event) ==
    LET inWindow(rows) == Within(rows, t - w + 1, t + 1)
        made == {i \in inWindow(decisions) : /\ decisions[i].kind.mode = "EXECUTE"
                                             /\ decisions[i].kind.event = event}
        group(v) == finalizeAccumulator(
            {i \in made : resolveVariant(decisions[i].user, effectiveTrafficPercent) = v},
            {i \in inWindow(payments) : resolveVariant(payments[i].user, effectiveTrafficPercent) = v})
    IN  [control |-> group("CONTROL"), treatment |-> group("TREATMENT")]
(* Executed decisions for the event, and all payments, of the window up to *)
(* and including t.                                                        *)
getSnapshot(t, w, event) ==
    LET inWindow(rows) == Within(rows, t - w, t + 1)
        made == {i \in inWindow(decisions) : /\ decisions[i].kind.mode = "EXECUTE"
                                             /\ decisions[i].kind.event = event}
        group(v) == finalizeAccumulator(
            {i \in made : resolveVariant(decisions[i].user, effectiveTrafficPercent) = v},
            {i \in inWindow(payments) : resolveVariant(payments[i].user, effectiveTrafficPercent) = v})
    IN  [control |-> group("CONTROL"), treatment |-> group("TREATMENT")]

(* The success rate is not looked at.                                      *)
riskStatusMutant(gate, rails) ==
    IF gate.riskLoss > rails.maxRiskLossProxy30 \/ gate.waste > rails.maxSubsidyWasteProxy
    THEN "FAIL" ELSE "PASS"
(* The guardrails are held against the release gate's figures; figures of  *)
(* no rows count as zero.                                                  *)
riskStatus(gate, rails) ==
    IF \/ gate.successRate < rails.minPaymentSuccessRate30
       \/ gate.riskLoss > rails.maxRiskLossProxy30
       \/ gate.waste > rails.maxSubsidyWasteProxy
    THEN "FAIL" ELSE "PASS"
resolveRiskStatus(t, w) == riskStatus(Snapshot(t, w), getConfig.guardrails)

-----------------------------------------------------------------------------
(* The configuration agrees with the record of rollbacks: the last one is  *)
(* the newest entry, however the configuration was changed afterwards, and *)
(* a rolled back experiment is off with its last change being the rollback.*)
RollbackIsOnRecord ==
    /\ (history = <<>>) <=> (config.lastRollbackAt = None)
    /\ history # <<>> => history[1].rolledBackAt = config.lastRollbackAt
    /\ \A i, j \in DOMAIN history : i < j => history[i].rolledBackAt >= history[j].rolledBackAt
    /\ config.status = "ROLLED_BACK" => ~config.enabled /\ config.updatedAt = config.lastRollbackAt

(* The experiment's risk and the release gate are two readings of the same *)
(* figures: with guardrails no looser than the gate's thresholds, a risk   *)
(* that passes means a technical gate and a risk gate that pass.  (The     *)
(* converse fails: without rows the gate says REVIEW, the risk FAIL.)      *)
PassMeansGatesPass ==
    LET th == normalizeGateConfig.thresholds
        g == config.guardrails
        gates == Snapshot(now + 1, Window).gates
    IN  (/\ g.minPaymentSuccessRate30 >= th.paymentSuccessRateMin
         /\ g.maxRiskLossProxy30 <= th.riskLossProxyMax /\ g.maxSubsidyWasteProxy <= th.subsidyWasteProxyMax
         /\ g.minPaymentSuccessRate30 > 0 /\ resolveRiskStatus(now + 1, Window) = "PASS")
        => gates.technical = "PASS" /\ gates.risk = "PASS"

(* The two groups share out the store's revenue: whatever the              *)
(* configuration, together they have what the release gate counts.         *)
GroupsAddUp ==
    LET groups == getSnapshot(now + 1, Window, config.targetEvent) IN
    groups.control.netRevenue + groups.treatment.netRevenue = Snapshot(now + 1, Window).netRevenue
=============================================================================
