-------------------------- MODULE ExperienceGuard ---------------------------
(***************************************************************************)
(* customerExperienceGuardService.ts: the four paths a customer takes      *)
(* (entering, paying, the trace of an order, privacy), each HEALTHY,       *)
(* WARNING, RISK or NO_DATA over the last hours, and the whole.  A path's  *)
(* report is its status and its score.                                     *)
(***************************************************************************)
EXTENDS ReleaseGate

Since(rows, cutoff) == {i \in DOMAIN rows : rows[i].at >= cutoff}
clampScore(a, b) == clamp((2 * a + b) \div (2 * b), 0, 100)
scoreByStatus(status) == CASE status = "HEALTHY" -> 95 [] status = "WARNING" -> 65
                           [] status = "RISK" -> 30 [] OTHER -> 0
Path(status, score) == [status |-> status, score |-> IF status = "NO_DATA" THEN 0 ELSE score]
Ladder(nothing, risk, warning) ==
    IF nothing THEN "NO_DATA" ELSE IF risk THEN "RISK" ELSE IF warning THEN "WARNING" ELSE "HEALTHY"

summarizeEntrySessionPath(cutoff) ==
    LET bound == {u \in Users : bindings[u].linked # None}
        status == Ladder(bound = {}, FALSE, \A u \in bound : bindings[u].used < cutoff)
    IN  Path(status, scoreByStatus(status))

(* Pending payments alone are no success and no failure: the path stays    *)
(* HEALTHY below three of them, with a score of ten.                       *)
summarizePaymentPath(cutoff) ==
    LET rows == Since(payments, cutoff)
        count(s) == Cardinality({i \in rows : payments[i].status = s})
        attempted == Cardinality(rows)
        failed == count("EXTERNAL_FAILED")
        pending == count("PENDING_EXTERNAL")
        terminal == count("PAID") + failed
        success == Rate(count("PAID"), terminal)
        many == IF (2 * attempted + 4) \div 5 > 3 THEN (2 * attempted + 4) \div 5 ELSE 3
        status == Ladder(attempted = 0,
                         (terminal > 0 /\ success < 9000) \/ failed >= 3,
                         (terminal > 0 /\ success < 9700) \/ failed > 0 \/ pending >= many)
    IN  Path(status, IF attempted = 0 THEN 0 ELSE
                     clampScore((1000000 - (10000 - success) * 70) * attempted - pending * 200000,
                                10000 * attempted))

(* A paid order is complete with its invoice, a ledger row (written with   *)
(* the payment) and any audit row that names it.                           *)
summarizeOrderTracePath(cutoff) ==
    LET paid == {i \in Since(payments, cutoff) : payments[i].status = "PAID"}
        complete == {i \in paid : payments[i].invoiced # None /\ payments[i].invoiced >= cutoff
                                  /\ payments[i].traced}
        missing == Cardinality(paid) - Cardinality(complete)
        rate == Rate(Cardinality(complete), Cardinality(paid))
        status == Ladder(paid = {}, (rate < 8000 /\ missing >= 2) \/ rate < 6000, rate < 9500 \/ missing > 0)
    IN  Path(status, clampScore(rate, 100))

summarizePrivacyPath(cutoff) ==
    LET rows == Since(audit, cutoff)
        failed == Cardinality({i \in rows : ~audit[i].ok})
        failRate == Rate(failed, Cardinality(rows))
        status == Ladder(rows = {}, (failed >= 2 /\ failed = Cardinality(rows)) \/ failRate >= 5000, failed > 0)
    IN  Path(status, clampScore(10000 - failRate, 100))

(* The mean taken over the paths without data as well.                     *)
summarizeOverallMutant(paths) ==
    LET some(s) == \E p \in DOMAIN paths : paths[p].status = s
        score == [p \in DOMAIN paths |-> paths[p].score]
    IN  Path(IF some("RISK") THEN "RISK" ELSE IF some("WARNING") THEN "WARNING"
             ELSE IF \A p \in DOMAIN paths : paths[p].status = "NO_DATA" THEN "NO_DATA" ELSE "HEALTHY",
             clampScore(Sum(score, DOMAIN paths), Cardinality(DOMAIN paths)))
summarizeOverall(paths) ==
    LET some(s) == \E p \in DOMAIN paths : paths[p].status = s
        scored == {p \in DOMAIN paths : paths[p].status # "NO_DATA"}
        score == [p \in DOMAIN paths |-> paths[p].score]
    IN  Path(IF some("RISK") THEN "RISK" ELSE IF some("WARNING") THEN "WARNING"
             ELSE IF scored = {} THEN "NO_DATA" ELSE "HEALTHY",
             IF scored = {} THEN 0 ELSE clampScore(Sum(score, scored), Cardinality(scored)))

(* getGuardSnapshot at time t over the last w.                             *)
getGuardSnapshot(t, w) ==
    LET paths == [entry |-> summarizeEntrySessionPath(t - w), payment |-> summarizePaymentPath(t - w),
                  trace |-> summarizeOrderTracePath(t - w), privacy |-> summarizePrivacyPath(t - w)]
    IN  [paths |-> paths, overall |-> summarizeOverall(paths)]

(* Two services read the same rows with filters of their own.  Where the   *)
(* guard sees a risk over a window, the release gate over the same window  *)
(* tells customers of it and stops a release, as long as the store's       *)
(* thresholds are no lower than the guard's.  Two risks are the guard's    *)
(* alone: orders without an audit row, and three failed payments among so  *)
(* many that the success rate is still high.                               *)
RiskIsUnstable ==
    LET th == normalizeGateConfig.thresholds
        gate == Snapshot(now + 1, Window)
        guard == getGuardSnapshot(now + 1, Window)
        traced == \A i \in DOMAIN payments : payments[i].status = "PAID" => payments[i].traced
    IN  (/\ th.paymentSuccessRateMin >= 9000 /\ th.invoiceCoverageMin >= 8000
         /\ th.privacySuccessRateMin >= 6000
         /\ \E p \in DOMAIN guard.paths : /\ guard.paths[p].status = "RISK"
                                          /\ p = "trace" => traced
                                          /\ p = "payment" => gate.successRate < 9000)
        => toCustomerStabilitySnapshot(now + 1, Window) = "UNSTABLE" /\ gate.final = "NO_GO"

(* The score follows the status: a store whose worst path is HEALTHY does  *)
(* not score below one in WARNING -- unless payments are pending only.     *)
HealthyScoresHigh ==
    LET guard == getGuardSnapshot(now + 1, Window)
        settled == \E i \in Since(payments, (now + 1) - Window) : payments[i].status # "PENDING_EXTERNAL"
    IN  (guard.overall.status = "HEALTHY" /\ (settled \/ guard.paths.payment.status = "NO_DATA"))
        => guard.overall.score >= 85
=============================================================================
