---------------------------- MODULE ReleaseGate -----------------------------
(***************************************************************************)
(* releaseGateService.ts: whether a store's rows of the last days allow a  *)
(* release (GO, NEEDS_REVIEW, NO_GO), and the stability that is shown to   *)
(* its customers.  A report is a function of the rows and of the time t it *)
(* is asked at.  Rates are in ten-thousandths, money in cents; rounding is *)
(* to the nearest, halves up.                                              *)
(***************************************************************************)
EXTENDS StoreRows, FiniteSets, Functions

CONSTANTS Window, Trend,    \* lengths of the report window and of the trend window
          TenantGate        \* tenantPolicies[m].releaseGate: the thresholds and weights the store has of its own

\* What the values of the constants satisfy.
ASSUME GateAssumption == /\ Window \in Nat /\ Trend \in 1..Window
                         /\ \A f \in DOMAIN TenantGate : TenantGate[f] \in Int

DefaultThresholds ==
    [longTermValueIndexMin |-> 10000, paymentSuccessRateMin |-> 9950, riskLossProxyMax |-> 30,
     subsidyWasteProxyMax |-> 6000, profitTrendDeltaMin |-> 0, invoiceCoverageMin |-> 9800,
     privacySuccessRateMin |-> 9800, minPaidOrders30 |-> 20, minDecisions30 |-> 20,
     minPaidOrdersTrendWindow |-> 5, minDecisionsTrendWindow |-> 5]
DefaultWeights ==
    [profitUplift |-> 5000, revenueUplift |-> 2500, upliftHitRate |-> 1500, retention |-> 1000,
     subsidyWaste |-> 1500]
AtLeastOne == {"minPaidOrders30", "minDecisions30", "minPaidOrdersTrendWindow", "minDecisionsTrendWindow"}

Overlay(base, own) == [f \in DOMAIN base |-> IF f \in DOMAIN own THEN own[f] ELSE base[f]]
mergeThresholds(own) ==
    LET merged == Overlay(DefaultThresholds, own) IN
    [f \in DOMAIN merged |-> IF f \in AtLeastOne /\ merged[f] < 1 THEN 1 ELSE merged[f]]
mergeWeights(own) == Overlay(DefaultWeights, own)
normalizeGateConfig == [thresholds |-> mergeThresholds(TenantGate), weights |-> mergeWeights(TenantGate)]

roundRate(a, b) == (20000 * a + b) \div (2 * b)
Rate(a, b) == IF b > 0 THEN roundRate(a, b) ELSE 0
clamp(x, low, high) == IF x < low THEN low ELSE IF x > high THEN high ELSE x
Sum(f, S) == SumFunctionOnSet(f, S)
Within(rows, start, end) == {i \in DOMAIN rows : rows[i].at >= start /\ rows[i].at < end}

-----------------------------------------------------------------------------
(* Rows of one window                                                      *)

(* Refunds added to the revenue.                                           *)
summarizePaymentsForRangeMutant(pays, start, end) ==
    LET rows == Within(pays, start, end)
        of(s) == {i \in rows : pays[i].status = s}
        refunded == [i \in rows |-> pays[i].refunded]
        paid == Cardinality(of("PAID"))
    IN  [attempts |-> Cardinality(rows), paid |-> of("PAID"), paidCount |-> paid,
         gmvPaid |-> Amount * paid, refundAmount |-> 0,
         netRevenue |-> Amount * paid + Sum(refunded, of("PAID")),
         successRate |-> Rate(paid, paid + Cardinality(of("EXTERNAL_FAILED")))]
summarizePaymentsForRange(pays, start, end) ==
    LET rows == Within(pays, start, end)
        of(s) == {i \in rows : pays[i].status = s}
        refunded == [i \in rows |-> pays[i].refunded]
        paid == Cardinality(of("PAID"))
    IN  [attempts |-> Cardinality(rows), paid |-> of("PAID"), paidCount |-> paid,
         gmvPaid |-> Amount * paid, refundAmount |-> Sum(refunded, of("PAID")),
         netRevenue |-> Amount * paid - Sum(refunded, of("PAID")),
         successRate |-> Rate(paid, paid + Cardinality(of("EXTERNAL_FAILED")))]

summarizeInvoicesForRange(pays, paid, start, end) ==
    LET covered == {i \in paid : pays[i].invoiced # None
                                 /\ pays[i].invoiced >= start /\ pays[i].invoiced < end}
    IN  [paidCount |-> Cardinality(paid), coverageRate |-> Rate(Cardinality(covered), Cardinality(paid))]

(* Only what was executed costs; a preview executes nothing.               *)
extractProjectedCost(decision) == decision.kind.cost
(* A policy that was executed or turned away is one that keeps customers.  *)
isRetentionPolicy(decision) == decision.kind.retention # "none"

(* Whatever was not turned away is a hit.                                  *)
summarizeDecisionsForRangeMutant(made, start, end) ==
    LET rows == Within(made, start, end)
        blocked == Cardinality({i \in rows : made[i].kind.outcome = "BLOCKED"})
    IN  [total |-> Cardinality(rows), hitCount |-> Cardinality(rows) - blocked, blockedCount |-> blocked,
         marketingCost |-> Sum([i \in rows |-> extractProjectedCost(made[i])], rows),
         retentionAttempts |-> Cardinality({i \in rows : isRetentionPolicy(made[i])}),
         retentionHits |-> Cardinality({i \in rows : made[i].kind.retention = "hit"})]
(* Every mode counts: the decisions of previews are summarised with those  *)
(* of runs.                                                                *)
summarizeDecisionsForRange(made, start, end) ==
    LET rows == Within(made, start, end)
        with(o) == Cardinality({i \in rows : made[i].kind.outcome = o})
    IN  [total |-> Cardinality(rows), hitCount |-> with("HIT"), blockedCount |-> with("BLOCKED"),
         marketingCost |-> Sum([i \in rows |-> extractProjectedCost(made[i])], rows),
         retentionAttempts |-> Cardinality({i \in rows : isRetentionPolicy(made[i])}),
         retentionHits |-> Cardinality({i \in rows : made[i].kind.retention = "hit"})]

(* Only the rows that succeeded are looked at.                             *)
summarizePrivacyAuditForRangeMutant(start, end) ==
    LET rows == {i \in Within(audit, start, end) : audit[i].ok} IN
    [total |-> Cardinality(rows), successRate |-> Rate(Cardinality(rows), Cardinality(rows))]
summarizePrivacyAuditForRange(start, end) ==
    LET rows == Within(audit, start, end) IN
    [total |-> Cardinality(rows),
     successRate |-> Rate(Cardinality({i \in rows : audit[i].ok}), Cardinality(rows))]

computeUplift(current, previous) ==
    IF previous = 0 THEN (IF current = 0 THEN 0 ELSE IF current > 0 THEN 10000 ELSE -10000)
    ELSE roundRate(current - previous, IF previous < 0 THEN -previous ELSE previous)

-----------------------------------------------------------------------------
(* The gates                                                               *)

toGateStatus(failed, review) == IF failed THEN "FAIL" ELSE IF review THEN "REVIEW" ELSE "PASS"

evaluateBusinessGate(th, ready, index, trendDelta) ==
    toGateStatus(index < th.longTermValueIndexMin \/ trendDelta < th.profitTrendDeltaMin, ~ready)

evaluateTechnicalGate(th, paid) ==
    toGateStatus(paid.attempts > 0 /\ paid.successRate < th.paymentSuccessRateMin, paid.attempts = 0)

evaluateRiskGate(th, paid, waste) ==
    toGateStatus(\/ paid.gmvPaid > 0 /\ roundRate(paid.refundAmount, paid.gmvPaid) > th.riskLossProxyMax
                 \/ waste > th.subsidyWasteProxyMax,
                 paid.gmvPaid = 0)

(* The comparison of the coverage turned round.                            *)
evaluateComplianceGateMutant(th, invoices, privacy) ==
    toGateStatus(\/ invoices.paidCount > 0 /\ invoices.coverageRate >= th.invoiceCoverageMin
                 \/ privacy.total > 0 /\ privacy.successRate < th.privacySuccessRateMin,
                 invoices.paidCount = 0 \/ privacy.total = 0)
evaluateComplianceGate(th, invoices, privacy) ==
    toGateStatus(\/ invoices.paidCount > 0 /\ invoices.coverageRate < th.invoiceCoverageMin
                 \/ privacy.total > 0 /\ privacy.successRate < th.privacySuccessRateMin,
                 invoices.paidCount = 0 \/ privacy.total = 0)

buildDataSufficiency(th, f) ==
    /\ f.paid.paidCount >= th.minPaidOrders30
    /\ f.made.total >= th.minDecisions30
    /\ f.paidRecent.paidCount >= th.minPaidOrdersTrendWindow
    /\ f.paidBefore.paidCount >= th.minPaidOrdersTrendWindow
    /\ f.madeRecent.total >= th.minDecisionsTrendWindow
    /\ f.madeBefore.total >= th.minDecisionsTrendWindow

(* LongTermValueIndex, in ten-thousandths.                                 *)
longTermValueIndex(w, profit, revenue, hitRate, retention, waste) ==
    LET raw == w.profitUplift * clamp(profit, -10000, 10000)
               + w.revenueUplift * clamp(revenue, -10000, 10000)
               + w.upliftHitRate * (hitRate - 5000) + w.retention * (retention - 5000)
               - w.subsidyWaste * (waste - 5000)
    IN  clamp(10000 + (2 * raw + 10000) \div 20000, 0, 30000)

(* The summaries of a report at time t over a window of w, its predecessor *)
(* and the two trend windows: the row of the very instant t is not in it.  *)
Summaries(pays, rows, t, w) ==
    LET paid == summarizePaymentsForRange(pays, t - w, t) IN
    [paid |-> paid,
     paidOld |-> summarizePaymentsForRange(pays, t - 2 * w, t - w),
     paidRecent |-> summarizePaymentsForRange(pays, t - Trend, t),
     paidBefore |-> summarizePaymentsForRange(pays, t - 2 * Trend, t - Trend),
     made |-> summarizeDecisionsForRange(rows, t - w, t),
     madeOld |-> summarizeDecisionsForRange(rows, t - 2 * w, t - w),
     madeRecent |-> summarizeDecisionsForRange(rows, t - Trend, t),
     madeBefore |-> summarizeDecisionsForRange(rows, t - 2 * Trend, t - Trend),
     coverage |-> summarizeInvoicesForRange(pays, paid.paid, t - w, t),
     privacy |-> summarizePrivacyAuditForRange(t - w, t)]

netProfit(paid, made) == paid.netRevenue - made.marketingCost
upliftHitRate(made) == Rate(made.hitCount, made.hitCount + made.blockedCount)
subsidyWasteProxy(made) == clamp(10000 - upliftHitRate(made), 0, 10000)
valueIndex(f) ==
    longTermValueIndex(normalizeGateConfig.weights,
                       computeUplift(netProfit(f.paid, f.made), netProfit(f.paidOld, f.madeOld)),
                       computeUplift(f.paid.netRevenue, f.paidOld.netRevenue),
                       upliftHitRate(f.made), Rate(f.made.retentionHits, f.made.retentionAttempts),
                       subsidyWasteProxy(f.made))
profitTrendDelta(f) == netProfit(f.paidRecent, f.madeRecent) - netProfit(f.paidBefore, f.madeBefore)

finalStatus(statuses, ready) ==
    IF "FAIL" \in statuses THEN "NO_GO"
    ELSE IF ~ready \/ "REVIEW" \in statuses THEN "NEEDS_REVIEW" ELSE "GO"
report(f, gates, ready) ==
    [gates |-> gates, netRevenue |-> f.paid.netRevenue, successRate |-> f.paid.successRate,
     riskLoss |-> Rate(f.paid.refundAmount, f.paid.gmvPaid), waste |-> subsidyWasteProxy(f.made),
     coverage |-> f.coverage.coverageRate,
     final |-> finalStatus({gates[g] : g \in DOMAIN gates}, ready)]
gatesOf(th, f, ready) ==
    [business |-> evaluateBusinessGate(th, ready, valueIndex(f), profitTrendDelta(f)),
     technical |-> evaluateTechnicalGate(th, f.paid),
     risk |-> evaluateRiskGate(th, f.paid, subsidyWasteProxy(f.made)),
     compliance |-> evaluateComplianceGate(th, f.coverage, f.privacy)]
judged(th, f, ready) == report(f, gatesOf(th, f, ready), ready)
judgedBy(th, f) == judged(th, f, buildDataSufficiency(th, f))

(* getReleaseGateSnapshot at time t over a window of w, of given payments  *)
(* and decisions and of the store's own.                                   *)
SnapshotOf(pays, rows, t, w) == judgedBy(normalizeGateConfig.thresholds, Summaries(pays, rows, t, w))
Snapshot(t, w) == SnapshotOf(payments, decisions, t, w)

(* What customers are told.                                                *)
resolveCustomerStabilityLevel(gates) ==
    LET seen == {gates.technical, gates.compliance} IN
    IF "FAIL" \in seen THEN "UNSTABLE" ELSE IF "REVIEW" \in seen THEN "WATCH" ELSE "STABLE"
toCustomerStabilitySnapshot(t, w) == resolveCustomerStabilityLevel(Snapshot(t, w).gates)
=============================================================================
