--------------------------- MODULE PolicyDecision ---------------------------
(***************************************************************************)
(* policyos/decisionService.ts, evaluateEvent in mode EXECUTE: the active  *)
(* policies an event triggers are checked against their constraints, all   *)
(* of them first; overlap rules choose winners; each winner in turn        *)
(* reserves, runs its actions, awaiting every one, and gives back what it  *)
(* reserved if one of them refuses.                                        *)
(*                                                                         *)
(* Every step runs from one await to the next.  Decisions of one merchant  *)
(* overlap: those of payments and of the owner come under locks of their   *)
(* own, those of customers who enter come under none.                      *)
(***************************************************************************)
EXTENDS Integers, Sequences, FiniteSets, Functions

CONSTANTS
  Users, Policies, Pools, Skus, NoSku,
  Ranking,        \* the policies by lane, utility and tie breaker, best first
  PolicySpec,     \* the specification of each policy, which the event's context is part of
  Calls,          \* calls of executeDecision, each made once; a retry is another call
  CallOf,         \* the user, the event id and the policies whose trigger and segment match
  Minute,         \* the 60 seconds of a pacing window
  MaxNow          \* bound on the clock, for TLC

Modes == {"HARD_EXCLUSIVE", "SOFT_EXCLUSIVE", "STACKABLE", "PREEMPTIVE"}

(***************************************************************************)
(* What an action does: wallet_grant_v1 and voucher_grant_v1 give once per *)
(* event and policy, fragment_grant_v1 each time, story_inject_v1 and      *)
(* noop_v1 nothing; an amount of zero is refused, and one that rounds to   *)
(* zero throws.  A policy has one action that gives, or none.              *)
(***************************************************************************)
ActionKinds == {"wallet", "fragment", "story", "refused", "throws"}
Giving == {"wallet", "fragment"}

ASSUME DecisionAssumption ==
  /\ Ranking \in Seq(Policies) /\ \A p \in Policies : \E i \in DOMAIN Ranking : Ranking[i] = p
  /\ Len(Ranking) = Cardinality(Policies)
  /\ \A p \in Policies :
       LET spec == PolicySpec[p]
       IN  /\ spec.cost \in Nat /\ spec.guarded \in BOOLEAN
           /\ DOMAIN spec.budgets \subseteq Pools
           /\ \A pool \in DOMAIN spec.budgets : spec.budgets[pool] \in [cap : Nat, pace : Nat]
           /\ spec.sku \in Skus \cup {NoSku} /\ spec.units \in Nat \ {0} /\ spec.maxUnits \in Nat
           /\ spec.daily \in Nat /\ spec.window \in Nat
           /\ spec.mode \in Modes /\ spec.maxWinners \in Nat \ {0}
           /\ spec.instances \in Nat \ {0}
           /\ spec.actions \in Seq(ActionKinds) \ {<<>>}
           /\ Cardinality({i \in DOMAIN spec.actions : spec.actions[i] \in Giving}) <= 1
  /\ IsFiniteSet(Calls)
  /\ \A c \in Calls : CallOf[c].userId \in Users /\ CallOf[c].matches \subseteq Policies
  /\ Minute \in Nat \ {0} /\ MaxNow \in Nat
  /\ NoSku \notin Skus

VARIABLES
  now,
  killed,         \* merchant.killSwitchEnabled
  active,         \* what listActivePolicies answers
  resources,      \* db.policyOs.resourceStates: budget, inventory, frequency
  ledgerKeys,     \* the grants the ledger has idempotency records of
  granted,        \* how often an event's policy has granted to a user
  calls,
  reservations,   \* history: what was reserved and not given back
  checked         \* history: what was reserved when a call under way checked its candidates

vars == <<now, killed, active, resources, ledgerKeys, granted, calls, reservations, checked>>

-----------------------------------------------------------------------------
(***************************************************************************)
(* Resource states.                                                        *)
(***************************************************************************)
\* A pool never used: its window began at the epoch, long ago.
FreshBudget == [used |-> 0, minuteWindowStart |-> -Minute, minuteSpent |-> 0]

NoResources ==
  [budget |-> [pool \in Pools |-> FreshBudget],
   inventory |-> [sku \in {} |-> 0],
   frequency |-> [k \in Policies \X Users |-> <<>>]]

SameWindow(b) == now - b.minuteWindowStart < Minute

\* Mutant: the branches are swapped, and an open window starts over.
StartsOver(b) == IF SameWindow(b) THEN 0 ELSE b.minuteSpent

MinuteSpent(b) == IF SameWindow(b) THEN b.minuteSpent ELSE 0

InventoryOf(res, spec) ==
  IF spec.sku \in DOMAIN res.inventory THEN res.inventory[spec.sku]
  ELSE [reserved |-> 0, hardCap |-> spec.maxUnits]

Recent(markers, window) == {i \in DOMAIN markers : now - markers[i] < window}

BudgetsAllow(res, spec) ==
  \A pool \in DOMAIN spec.budgets :
    /\ res.budget[pool].used + spec.cost <= spec.budgets[pool].cap
    /\ MinuteSpent(res.budget[pool]) + spec.cost <= spec.budgets[pool].pace

\* Against the cap on record, not the policy's own.
InventoryAllows(res, spec) ==
  spec.sku # NoSku =>
    InventoryOf(res, spec).reserved + spec.units <= InventoryOf(res, spec).hardCap

\* Mutant: one more than the cap.
FrequencyAllowsOneMore(res, spec, p, u) ==
  spec.daily > 0 => Cardinality(Recent(res.frequency[<<p, u>>], spec.window)) <= spec.daily

\* daily is 0 for a policy without the constraint.
FrequencyAllows(res, spec, p, u) ==
  spec.daily > 0 => Cardinality(Recent(res.frequency[<<p, u>>], spec.window)) < spec.daily

\* The constraints' check: all must pass.
Passes(p, u) ==
  LET spec == PolicySpec[p]
  IN  /\ spec.guarded => ~killed
      /\ BudgetsAllow(resources, spec)
      /\ InventoryAllows(resources, spec)
      /\ FrequencyAllows(resources, spec, p, u)

\* The constraints' reserve, which checks nothing.
Reserve(res, p, u) ==
  LET spec == PolicySpec[p]
      inv == InventoryOf(res, spec)
  IN  [budget |-> [pool \in Pools |->
         LET b == res.budget[pool]
         IN  IF pool \notin DOMAIN spec.budgets THEN b
             ELSE [used |-> b.used + spec.cost,
                   minuteWindowStart |-> IF SameWindow(b) THEN b.minuteWindowStart ELSE now,
                   minuteSpent |-> MinuteSpent(b) + spec.cost]],
       inventory |-> IF spec.sku = NoSku THEN res.inventory
                     ELSE [sku \in DOMAIN res.inventory \cup {spec.sku} |->
                             IF sku = spec.sku
                             THEN [reserved |-> inv.reserved + spec.units,
                                   hardCap |-> spec.maxUnits]
                             ELSE res.inventory[sku]],
       frequency |-> IF spec.daily = 0 THEN res.frequency
                     ELSE [res.frequency EXCEPT ![<<p, u>>] = Append(@, now)]]

\* The markers of every other instant, in their order
Without(markers, at) ==
  LET kept[n \in 0 .. Len(markers)] ==
        IF n = 0 THEN <<>>
        ELSE IF markers[n] = at THEN kept[n - 1] ELSE Append(kept[n - 1], markers[n])
  IN  kept[Len(markers)]

\* Mutant: no floor.
Unbounded(n) == n

AtLeastZero(n) == IF n < 0 THEN 0 ELSE n

\* Mutant: nothing is given back.
ReleaseNothing(res, p, u, at) == res

\* The constraints' release: every marker of that instant goes, and the amount leaves
\* the current minute, whichever it was reserved in.
Release(res, p, u, at) ==
  LET spec == PolicySpec[p]
  IN  [budget |-> [pool \in Pools |->
         LET b == res.budget[pool]
         IN  IF pool \notin DOMAIN spec.budgets THEN b
             ELSE [b EXCEPT !.used = AtLeastZero(@ - spec.cost),
                            !.minuteSpent = AtLeastZero(@ - spec.cost)]],
       inventory |-> IF spec.sku = NoSku THEN res.inventory
                     ELSE [res.inventory EXCEPT
                             ![spec.sku].reserved = AtLeastZero(@ - spec.units)],
       frequency |-> IF spec.daily = 0 THEN res.frequency
                     ELSE [res.frequency EXCEPT ![<<p, u>>] = Without(@, at)]]

-----------------------------------------------------------------------------
(***************************************************************************)
(* Candidates and winners.                                                 *)
(***************************************************************************)
\* One candidate per instance of each policy that matches and passes, best ranked first.
Candidates(c) ==
  LET passing == {p \in active \cap CallOf[c].matches : Passes(p, CallOf[c].userId)}
      instances(p) == IF p \in passing THEN [k \in 1..PolicySpec[p].instances |-> p] ELSE <<>>
      best[n \in 0 .. Len(Ranking)] ==
        IF n = 0 THEN <<>> ELSE best[n - 1] \o instances(Ranking[n])
  IN  best[Len(Ranking)]

\* Among the winners so far of its conflict set there is room for one more.
Admitted(winners, p) ==
  LET spec == PolicySpec[p]
      rivals == {i \in DOMAIN winners : PolicySpec[winners[i]].conflictSet = spec.conflictSet}
  IN  \/ spec.mode = "STACKABLE"
      \/ Cardinality(rivals) < IF spec.mode = "SOFT_EXCLUSIVE" THEN spec.maxWinners ELSE 1

\* allocateCandidates
Winners(candidates) ==
  LET winners[n \in 0 .. Len(candidates)] ==
        IF n = 0 THEN <<>>
        ELSE IF Admitted(winners[n - 1], candidates[n]) THEN Append(winners[n - 1], candidates[n])
        ELSE winners[n - 1]
  IN  winners[Len(candidates)]

-----------------------------------------------------------------------------
(***************************************************************************)
(* A decision.  left holds the winners yet to run, the running one first;  *)
(* acted counts its actions so far, good says that none of them refused.   *)
(***************************************************************************)
Waiting == [status |-> "waiting", left |-> <<>>, acted |-> 0, good |-> TRUE, at |-> 0]

Init ==
  /\ now = 0
  /\ killed = FALSE
  /\ active = Policies
  /\ resources = NoResources
  /\ ledgerKeys = {}
  /\ granted = [k \in Calls \X Policies |-> 0]
  /\ calls = [c \in Calls |-> Waiting]
  /\ reservations = {}
  /\ checked = [c \in Calls |-> {}]

Key(c, p) == <<CallOf[c].eventId, p>>

\* Mutant: the wallet is paid again whenever the event is.
PaysAgain(c, p, kind) == kind \in Giving

Pays(c, p, kind) == kind = "fragment" \/ (kind = "wallet" /\ Key(c, p) \notin ledgerKeys)

\* The next action of the winner that runs, up to the await.
Act(c, left, acted, good, at) ==
  LET p == Head(left)
      kind == PolicySpec[p].actions[acted]
  IN  /\ calls' = [calls EXCEPT ![c] =
            [status |-> IF kind = "throws" THEN "failed" ELSE "running",
             left |-> left, acted |-> acted, good |-> good /\ kind # "refused", at |-> at]]
      /\ granted' = IF Pays(c, p, kind) THEN [granted EXCEPT ![<<c, p>>] = @ + 1] ELSE granted
      /\ ledgerKeys' = IF kind = "wallet" THEN ledgerKeys \cup {Key(c, p)} ELSE ledgerKeys

Reservation(c, left) ==
  [call |-> c, policy |-> Head(left), turn |-> Len(left), at |-> calls[c].at]

\* Mutant: a winner inherits the refusals of the one before.
RunNextCarried(c, left, res, held) ==
  IF left = <<>>
  THEN /\ calls' = [calls EXCEPT ![c] = [Waiting EXCEPT !.status = "done"]]
       /\ resources' = res
       /\ reservations' = held
       /\ UNCHANGED <<ledgerKeys, granted>>
  ELSE /\ resources' = Reserve(res, Head(left), CallOf[c].userId)
       /\ reservations' = held \cup {[Reservation(c, left) EXCEPT !.at = now]}
       /\ Act(c, left, 1, calls[c].good, now)

\* The next winner reserves and begins to act; when there is none the decision is saved.
RunNext(c, left, res, held) ==
  IF left = <<>>
  THEN /\ calls' = [calls EXCEPT ![c] = [Waiting EXCEPT !.status = "done"]]
       /\ resources' = res
       /\ reservations' = held
       /\ UNCHANGED <<ledgerKeys, granted>>
  ELSE /\ resources' = Reserve(res, Head(left), CallOf[c].userId)
       /\ reservations' = held \cup {[Reservation(c, left) EXCEPT !.at = now]}
       /\ Act(c, left, 1, TRUE, now)

\* The history forgets what a finished call knew.
Remembers(c, held) ==
  checked' = [checked EXCEPT ![c] = IF calls'[c].status = "done" THEN {} ELSE held]

Decide(c) ==
  /\ calls[c].status = "waiting"
  /\ RunNext(c, Winners(Candidates(c)), resources, reservations)
  /\ Remembers(c, reservations)
  /\ UNCHANGED <<now, killed, active>>

Continue(c) ==
  LET call == calls[c]
  IN  /\ call.status = "running"
      /\ call.acted < Len(PolicySpec[Head(call.left)].actions)
      /\ Act(c, call.left, call.acted + 1, call.good, call.at)
      /\ UNCHANGED <<now, killed, active, resources, reservations, checked>>

Settle(c) ==
  LET call == calls[c]
      p == Head(call.left)
  IN  /\ call.status = "running"
      /\ call.acted = Len(PolicySpec[p].actions)
      /\ IF call.good
         THEN RunNext(c, Tail(call.left), resources, reservations)
         ELSE RunNext(c, Tail(call.left), Release(resources, p, CallOf[c].userId, call.at),
                      reservations \ {Reservation(c, call.left)})
      /\ Remembers(c, checked[c])
      /\ UNCHANGED <<now, killed, active>>

-----------------------------------------------------------------------------
\* The owner publishes, pauses and resumes, and turns the kill switch; time passes.
SetActive(p) ==
  /\ active' = IF p \in active THEN active \ {p} ELSE active \cup {p}
  /\ UNCHANGED <<now, killed, resources, ledgerKeys, granted, calls, reservations, checked>>

SetKillSwitch ==
  /\ killed' = ~killed
  /\ UNCHANGED <<now, active, resources, ledgerKeys, granted, calls, reservations, checked>>

Tick ==
  /\ now < MaxNow
  /\ now' = now + 1
  /\ UNCHANGED <<killed, active, resources, ledgerKeys, granted, calls, reservations, checked>>

Next ==
  \/ \E c \in Calls : Decide(c) \/ Continue(c) \/ Settle(c)
  \/ \E p \in Policies : SetActive(p)
  \/ SetKillSwitch
  \/ Tick

Spec == Init /\ [][Next]_vars

-----------------------------------------------------------------------------
(***************************************************************************)
(* Properties.                                                             *)
(***************************************************************************)
BudgetState == [used : Nat, minuteWindowStart : Int, minuteSpent : Nat]

Call ==
  [status : {"waiting", "running", "done", "failed"}, left : Seq(Policies), acted : Nat,
   good : BOOLEAN, at : Nat]

\* Types: resource states are counters, and a running call has a winner.
TypeOK ==
  /\ now \in Nat /\ killed \in BOOLEAN /\ active \subseteq Policies
  /\ resources.budget \in [Pools -> BudgetState]
  /\ DOMAIN resources.inventory \subseteq Skus
  /\ \A sku \in DOMAIN resources.inventory :
       resources.inventory[sku] \in [reserved : Nat, hardCap : Nat]
  /\ resources.frequency \in [Policies \X Users -> Seq(Nat)]
  /\ granted \in [Calls \X Policies -> Nat]
  /\ calls \in [Calls -> Call]
  /\ \A c \in Calls : calls[c].status = "running" => calls[c].left # <<>>

Charged(held) == SumFunctionOnSet([r \in held |-> PolicySpec[r.policy].cost], held)
Units(held) == SumFunctionOnSet([r \in held |-> PolicySpec[r.policy].units], held)

\* The reservations on a pool, and those of a sku, among any
OnPool(held, pool) == {r \in held : pool \in DOMAIN PolicySpec[r.policy].budgets}
OfSku(held, sku) == {r \in held : PolicySpec[r.policy].sku = sku}

\* The counters are what is reserved and not given back: every refusal gives back
\* exactly what its own winner took, and the floor at zero never hides a difference.
CountersAreReservations ==
  /\ \A pool \in Pools :
       resources.budget[pool].used = Charged(OnPool(reservations, pool))
  /\ \A sku \in DOMAIN resources.inventory :
       resources.inventory[sku].reserved = Units(OfSku(reservations, sku))

MayRefuse(p) == \E i \in DOMAIN PolicySpec[p].actions : PolicySpec[p].actions[i] = "refused"

\* Whatever was granted is charged to a reservation that stays, also when the decision
\* failed halfway and was never saved.  (Not so for a policy that also has an action
\* that refuses: its reservation is given back, and what it granted is not.)
GrantsAreCharged ==
  \A c \in Calls, p \in Policies : granted[<<c, p>>] > 0 /\ ~MayRefuse(p) =>
    \E r \in reservations : r.call = c /\ r.policy = p

\* The resources agree with what was reserved and granted.
DecisionInvariant == TypeOK /\ CountersAreReservations /\ GrantsAreCharged

\* The reservations of a policy by calls of a user that are in its window at an instant
Hits(held, p, u, at) ==
  {r \in held : r.policy = p /\ CallOf[r.call].userId = u /\ at - r.at < PolicySpec[p].window}

\* docs: automated execution does not bypass budget, risk and frequency limits.  At
\* the moment a winner reserves, the kill switch is off and no cap is exceeded,
\* however many decisions are under way.
HardGates ==
  [][\A r \in reservations' \ reservations :
       LET spec == PolicySpec[r.policy]
       IN  /\ spec.guarded => ~killed
           /\ \A pool \in DOMAIN spec.budgets :
                resources'.budget[pool].used <= spec.budgets[pool].cap
           /\ spec.sku # NoSku => resources'.inventory[spec.sku].reserved <= spec.maxUnits
           /\ spec.daily > 0 =>
                Cardinality(Hits(reservations', r.policy, CallOf[r.call].userId, now)) <= spec.daily
    ]_vars

\* Pools no policy gives anything back to: elsewhere a release leaves the minute it is
\* made in, not the one the amount was reserved in, and the pace is not kept.
OneWayPools ==
  {pool \in Pools : \A p \in Policies :
     pool \in DOMAIN PolicySpec[p].budgets => ~MayRefuse(p)}

\* What is held keeps the limits of policy p: the caps of its budgets, their pace since
\* its minute began, the cap of its stock, which may be the one another policy of the
\* sku set, and its daily hits per user, unless a refusal takes markers away.
Within(held, p, u, at, minuteStart) ==
  LET spec == PolicySpec[p]
  IN  /\ \A pool \in DOMAIN spec.budgets :
           /\ Charged(OnPool(held, pool)) <= spec.budgets[pool].cap
           /\ pool \in OneWayPools =>
                Charged({r \in OnPool(held, pool) : r.at >= minuteStart[pool]})
                  <= spec.budgets[pool].pace
      /\ spec.sku # NoSku => \E q \in Policies :
           PolicySpec[q].sku = spec.sku /\ Units(OfSku(held, spec.sku)) <= PolicySpec[q].maxUnits
      /\ spec.daily > 0 /\ ~MayRefuse(p) => Cardinality(Hits(held, p, u, at)) <= spec.daily

\* What a winner may know of when it reserves: of all that is held, what was held when
\* its call checked, and what it reserves itself.  For the first winner, that is all.
Known(r) == (reservations' \cap checked'[r.call]) \cup {r}

\* However decisions overlap, a winner reserves within the limits as far as its call's
\* check could see: the first one keeps them, for it reserves in the step of the check;
\* a later one exceeds them by what was reserved since, and by no more.
ChecksHold ==
  [][\A r \in reservations' \ reservations :
       /\ calls[r.call].status = "waiting" /\ PolicySpec[r.policy].guarded => ~killed
       /\ Within(Known(r), r.policy, CallOf[r.call].userId, now,
                 [pool \in Pools |-> resources'.budget[pool].minuteWindowStart])
    ]_vars

\* Pacing windows are fixed, so the end of one and the start of the next may meet: at
\* any time the last minute's spending is at most twice the pace, and never more.
PaceKept ==
  [][\A r \in reservations' \ reservations :
       \A pool \in OneWayPools \cap DOMAIN PolicySpec[r.policy].budgets :
         LET minute == {h \in reservations' : /\ pool \in DOMAIN PolicySpec[h.policy].budgets
                                             /\ now - h.at < Minute}
         IN  Charged(minute) <= 2 * PolicySpec[r.policy].budgets[pool].pace
    ]_vars

\* Grants are deduplicated: however often an event is sent, at once or later, and
\* however many instances of the policy win, its wallet grant is made once.
\* (A fragment grant is made each time.)
GrantedOnce ==
  \A e \in {CallOf[c].eventId : c \in Calls}, p \in Policies :
    (\A i \in DOMAIN PolicySpec[p].actions : PolicySpec[p].actions[i] # "fragment") =>
      SumFunctionOnSet([c \in Calls |-> granted[<<c, p>>]],
                       {c \in Calls : CallOf[c].eventId = e}) <= 1
=============================================================================
