----------------------------- MODULE TenantQuota -----------------------------
(***************************************************************************)
(* The tenant policy manager: the switches for writes and for the realtime *)
(* channel, and the fixed-window quota of one operation of one merchant.   *)
(***************************************************************************)
EXTENDS Integers, Sequences, FiniteSets

CONSTANTS
    Limits,        \* the limits an owner sets; 0 stands for none
    windowMs,      \* the window of the limit
    MaxClock,      \* bound: the clock
    MaxCalls       \* bound: calls that are evaluated

\* What the values of the constants satisfy.
ASSUME QuotaAssumption ==
    /\ Limits \subseteq Nat /\ 0 \in Limits /\ Limits # {0}
    /\ \E l \in Limits : \A m \in Limits : m <= l
    /\ windowMs \in Nat \ {0} /\ MaxClock \in Nat /\ MaxCalls \in Nat

VARIABLES
    clock,
    limit,         \* policy.limits of the operation
    writeAllowed,  \* policy.writeEnabled
    counter,       \* rateCounters: [windowStartMs, count], or NoCounter
    calls,         \* calls so far
    admitted       \* history: the times of the calls the quota admitted

quotaVars == <<clock, limit, writeAllowed, counter, calls, admitted>>

NoCounter == [windowStartMs |-> -windowMs, count |-> 0]

QuotaTypeOK ==
    /\ clock \in 0..MaxClock /\ limit \in Limits /\ writeAllowed \in BOOLEAN
    /\ counter.windowStartMs <= clock /\ counter.count \in 0..MaxCalls
    /\ calls \in 0..MaxCalls
    /\ admitted \in Seq(0..MaxClock) /\ Len(admitted) <= calls

QuotaInit ==
    /\ clock = 0 /\ limit \in Limits /\ writeAllowed = TRUE
    /\ counter = NoCounter /\ calls = 0 /\ admitted = <<>>

(* Mutant: the window is over one tick early. *)
WindowOverMutant(c) == clock >= c.windowStartMs + windowMs - 1

WindowOver(c) == clock >= c.windowStartMs + windowMs

Current ==
    IF WindowOver(counter) THEN [windowStartMs |-> clock, count |-> 0] ELSE counter

(* A write that the switch forbids is refused before it is counted, and a   *)
(* refused call does not store the window it would have opened.             *)
Evaluate ==
    /\ calls < MaxCalls
    /\ calls' = calls + 1
    /\ IF writeAllowed /\ limit # 0 /\ Current.count < limit
       THEN /\ counter' = [Current EXCEPT !.count = @ + 1]
            /\ admitted' = Append(admitted, clock)
       ELSE UNCHANGED <<counter, admitted>>
    /\ UNCHANGED <<clock, limit, writeAllowed>>

(* setMerchantPolicy keeps the counters. *)
SetMerchantPolicy(l, enabled) ==
    /\ <<l, enabled>> # <<limit, writeAllowed>>
    /\ limit' = l /\ writeAllowed' = enabled
    /\ UNCHANGED <<clock, counter, calls, admitted>>

Tick ==
    /\ clock < MaxClock /\ clock' = clock + 1
    /\ UNCHANGED <<limit, writeAllowed, counter, calls, admitted>>

QuotaNext ==
    \/ Evaluate \/ Tick
    \/ \E l \in Limits, enabled \in BOOLEAN : SetMerchantPolicy(l, enabled)

QuotaSpec == QuotaInit /\ [][QuotaNext]_quotaVars

MaxLimit == CHOOSE l \in Limits : \A m \in Limits : m <= l
AdmittedBetween(a, b) == Cardinality({i \in 1..Len(admitted) : a <= admitted[i] /\ admitted[i] < b})

(* The windows are fixed, so a burst at the end of one and another at the   *)
(* start of the next are both admitted.  But a window starts with a call it *)
(* counts: any stretch of windowMs sees fewer than twice the limit, however *)
(* the owner moves it.                                                      *)
BurstBound ==
    \A t \in 0..clock : AdmittedBetween(t, t + windowMs) <= 2 * MaxLimit - 1

(* The quota's records keep their types and its bursts their bound.         *)
QuotaInvariant == QuotaTypeOK /\ BurstBound
=============================================================================
