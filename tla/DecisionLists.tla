--------------------------- MODULE DecisionLists ----------------------------
(***************************************************************************)
(* The lists of decisions shown in the console: what automations did       *)
(* (automationService.ts), the replays of the governance centre            *)
(* (policyGovernanceService.js) and its summary of the last day, all from  *)
(* policyRegistry.listDecisions, which answers with the newest Cap rows    *)
(* whatever it is asked for.                                               *)
(***************************************************************************)
EXTENDS StoreRows, FiniteSets

CONSTANTS Cap,        \* 200: the most that listDecisions returns
          Asked       \* 600: what listExecutions asks for

\* What the values of the constants satisfy.
ASSUME ListsAssumption == Cap \in Nat \ {0} /\ Asked \in Nat

(* A list of decisions is the set of their positions in the order of time, *)
(* and of arrival at one instant; it is shown from the newest on.          *)
atMost(x, y) == IF x < y THEN x ELSE y
newest(rows, n) == {i \in rows : Cardinality({j \in rows : j > i}) < n}
Made(mode, event) == {i \in DOMAIN decisions : /\ mode = "" \/ decisions[i].kind.mode = mode
                                               /\ event = "" \/ decisions[i].kind.event = event}

(* The oldest rows.                                                        *)
listDecisionsMutant(mode, event, limit) ==
    LET rows == Made(mode, event) IN
    {i \in rows : Cardinality({j \in rows : j < i}) < atMost(limit, Cap)}
(* Newest first, and never more than Cap.                                  *)
listDecisions(mode, event, limit) == newest(Made(mode, event), atMost(limit, Cap))

withOutcome(rows, outcome) == {i \in rows : outcome = "ALL" \/ decisions[i].kind.outcome = outcome}

Page(rows, limit) == [items |-> newest(rows, limit), total |-> Cardinality(rows)]

(* Previews counted too.                                                   *)
buildDecision24hSummaryMutant(cutoff) ==
    [o \in {"HIT", "BLOCKED", "NO_POLICY"} |->
        Cardinality({i \in DOMAIN decisions : decisions[i].at >= cutoff /\ decisions[i].kind.outcome = o})]
(* The last day's executed decisions, counted by outcome; not capped.      *)
buildDecision24hSummary(cutoff) ==
    LET rows == {i \in DOMAIN decisions : decisions[i].kind.mode = "EXECUTE" /\ decisions[i].at >= cutoff}
    IN  [o \in {"HIT", "BLOCKED", "NO_POLICY"} |->
            Cardinality({i \in rows : decisions[i].kind.outcome = o})]

listReplays(mode, event, outcome, limit) ==
    Page(withOutcome(listDecisions(mode, event, Cap), outcome), limit)

(* Only decisions that automations asked for are listed: their event ids   *)
(* tell them from decisions the console ran for the same events.           *)
listExecutions(event, outcome, limit) ==
    LET automatic == {i \in listDecisions("EXECUTE", event, Asked) :
                        /\ decisions[i].kind.automatic
                        /\ decisions[i].kind.event \in {"USER_ENTER_SHOP", "PAYMENT_VERIFY"}}
    IN  Page(withOutcome(automatic, outcome), limit)

(* A first page is full and shows the newest decisions of its outcome: none *)
(* that is left out is newer than one that is shown, and as long as the     *)
(* newest Cap decisions of the mode reach back over the last day, its total *)
(* covers what the day's summary counts.                                    *)
PagesAreNewest ==
    \A outcome \in {"HIT", "BLOCKED", "NO_POLICY"}, limit \in 1..MaxDecisions :
        LET page == listReplays("EXECUTE", "", outcome, limit)
            today == buildDecision24hSummary(now)
            made == {i \in DOMAIN decisions : decisions[i].kind.mode = "EXECUTE" /\ decisions[i].at >= now}
        IN  /\ Cardinality(page.items) = atMost(limit, page.total)
            /\ \A i \in DOMAIN decisions, k \in page.items :
                  (/\ decisions[i].at > decisions[k].at
                   /\ decisions[i].kind.outcome = outcome /\ decisions[i].kind.mode = "EXECUTE")
                  => i \in page.items
            /\ Cardinality(made) <= Cap => page.total >= today[outcome]
            /\ listExecutions("", outcome, limit).total <= page.total
=============================================================================
