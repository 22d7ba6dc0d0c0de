----------------------------- MODULE MCReports ------------------------------
(***************************************************************************)
(* Small instances of StoreReports for TLC: each part of a behaviour's     *)
(* initial choice has rows of the kinds that matter to its reports, and no *)
(* more of them than it can be checked with.                               *)
(***************************************************************************)
EXTENDS StoreReports, TLC

CONSTANTS u1, u2, e1, e2

VARIABLE part

Looks(mode, event, outcome, cost, retention, automatic) ==
    [mode |-> mode, event |-> event, outcome |-> outcome, cost |-> cost, retention |-> retention,
     automatic |-> automatic]
Hit == Looks("EXECUTE", "USER_ENTER_SHOP", "HIT", 10, "none", TRUE)
PaidHit == Looks("EXECUTE", "PAYMENT_VERIFY", "HIT", 10, "hit", TRUE)
Manual == Looks("EXECUTE", "USER_ENTER_SHOP", "HIT", 10, "blocked", FALSE)
Blocked == Looks("EXECUTE", "USER_ENTER_SHOP", "BLOCKED", 0, "blocked", TRUE)
Preview == Looks("EVALUATE", "USER_ENTER_SHOP", "NO_POLICY", 0, "none", FALSE)
BlockedPreview == Looks("EVALUATE", "USER_ENTER_SHOP", "BLOCKED", 0, "none", FALSE)

MCKinds == {Hit, PaidHit, Manual, Blocked, Preview, BlockedPreview}
MCUsers == {u1, u2}
MCIds == {e1, e2}
MCRefunds == {60}
SmallSample == [minPaidOrders30 |-> 1, minDecisions30 |-> 1, minPaidOrdersTrendWindow |-> 0,
                minDecisionsTrendWindow |-> 1, riskLossProxyMax |-> 6000]
Buckets == e1 :> (u1 :> 10 @@ u2 :> 60) @@ e2 :> (u1 :> 70 @@ u2 :> 0)
MCPatches == {[enabled |-> TRUE, trafficPercent |-> 101], [trafficPercent |-> 50],
              [experimentId |-> e2, targetEvent |-> "PAYMENT_VERIFY"],
              [guardrails |-> [maxRiskLossProxy30 |-> 7000]]}

Upto(pays, made, checks, clock) ==
    Len(payments') <= pays /\ Len(decisions') <= made /\ Len(audit') <= checks /\ now' <= clock
Of(users, kinds) ==
    /\ \A i \in DOMAIN payments' : payments'[i].user \in users
    /\ \A i \in DOMAIN decisions' : decisions'[i].user \in users /\ decisions'[i].kind \in kinds
\* logins and crashes before an audit row matter to the guard only
Plain == bindings' = bindings /\ \A i \in DOMAIN payments' : payments'[i].traced
Still == UNCHANGED evars

\* how much has happened altogether
Altogether(steps) == Len(payments') + Len(decisions') + Len(audit') + now' + changes' <= steps

Fits == CASE part = "gate" -> Upto(2, 2, 1, 3) /\ Altogether(6) /\ Of({u1}, {Hit, Preview}) /\ Plain /\ Still
          [] part = "guard" -> /\ Upto(3, 0, 2, 3) /\ Altogether(5) /\ Of({u1}, {}) /\ Still
                               /\ bindings'[u2] = bindings[u2]
                               /\ \A i \in DOMAIN payments' : payments'[i].refunded = 0
          [] part = "lists" -> /\ Upto(0, 4, 0, 3) /\ Of({u1}, {Hit, Manual, Blocked, Preview})
                               /\ Plain /\ Still
          [] part = "experiment" -> /\ Upto(1, 1, 0, 2) /\ Altogether(6) /\ Plain
                                    /\ Of(MCUsers, {Hit, PaidHit, BlockedPreview})

MCInit == part \in {"gate", "guard", "lists", "experiment"} /\ Init
MCNext == Next /\ part' = part /\ Fits
MCSpec == MCInit /\ [][MCNext]_<<vars, part>>
=============================================================================
