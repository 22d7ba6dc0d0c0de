----------------------------- MODULE MCDecision -----------------------------
(***************************************************************************)
(* Small instances of PolicyDecision for TLC.                              *)
(***************************************************************************)
EXTENDS PolicyDecision, TLC

CONSTANTS u1, u2, e1, e2, p1, p2, p3, p4, own, shared, other, sku1, c1, c2, c3

\* One wallet grant without constraints
Plain ==
  [cost |-> 1, guarded |-> FALSE, budgets |-> [pool \in {} |-> 0],
   sku |-> NoSku, units |-> 1, maxUnits |-> 0, daily |-> 0, window |-> 1,
   mode |-> "HARD_EXCLUSIVE", conflictSet |-> "default", maxWinners |-> 1, instances |-> 1,
   actions |-> <<"wallet">>]

FirstOf(n) == SubSeq(<<p1, p2, p3, p4>>, 1, n)
All == FirstOf(4)
Two == FirstOf(2)

Limit(cap, pace) == [cap |-> cap, pace |-> pace]

CallBy(u, e, ps) == [userId |-> u, eventId |-> e, matches |-> ps]

\* The first three exclude one another: one pays under all constraints, one grants and
\* then refuses, one throws after paying; all draw on the shared pool.  Two of the last
\* one's three instances win, whoever won before, and grant fragments: its pool has
\* room for one.
MixedPolicies ==
  [p \in {p1, p2, p3, p4} |->
     CASE p = p1 -> [Plain EXCEPT !.guarded = TRUE, !.daily = 1, !.window = 2,
                       !.budgets = shared :> Limit(3, 3),
                       !.sku = sku1, !.maxUnits = 2]
       [] p = p2 -> [Plain EXCEPT !.cost = 2, !.mode = "PREEMPTIVE",
                       !.actions = <<"fragment", "refused">>,
                       !.budgets = shared :> Limit(3, 3), !.sku = sku1, !.maxUnits = 2]
       [] p = p3 -> [Plain EXCEPT !.actions = <<"wallet", "throws">>,
                       !.budgets = own :> Limit(3, 1) @@ shared :> Limit(3, 3)]
       [] p = p4 -> [Plain EXCEPT !.mode = "SOFT_EXCLUSIVE", !.maxWinners = 2,
                       !.actions = <<"fragment">>,
                       !.conflictSet = "other", !.instances = 3,
                       !.budgets = other :> Limit(1, 1)]]

\* Two stackable policies that share a pool with room for one
StackablePolicies ==
  [p \in {p1, p2} |->
     [Plain EXCEPT !.mode = "STACKABLE",
                   !.budgets = shared :> Limit(1, 1)]]

\* An event, its retry, and another user's
ThreeCalls ==
  [c \in {c1, c2, c3} |->
     CASE c = c1 -> CallBy(u1, e1, {p1, p2, p3})
       [] c = c2 -> CallBy(u1, e1, {p1, p3})
       [] c = c3 -> CallBy(u2, e2, {p2, p3, p4})]

TwoCalls == [c \in {c1, c2} |-> CallBy(u1, e1, Policies)]
=============================================================================
