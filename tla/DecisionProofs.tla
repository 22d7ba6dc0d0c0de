--------------------------- MODULE DecisionProofs ---------------------------
(***************************************************************************)
(* Theorems about PolicyDecision, for any policies, pools, users, events   *)
(* and calls, however their steps interleave.                              *)
(*                                                                         *)
(* The invariant behind the counters: a reservation belongs to a turn of   *)
(* its call, turns only go down, so that the next one is new and the one   *)
(* given back is there; and what it took of an inventory is on record.     *)
(* Behind the limits: what a decision knew when it checked only shrinks,   *)
(* so that a winner's turn finds the room its check saw, but for what      *)
(* others reserved in between.                                             *)
(***************************************************************************)
EXTENDS PolicyDecision, Sums

\* The parts of TypeOK about the resource states, of any resource states.
ResourceTypes(res) ==
  /\ res.budget \in [Pools -> BudgetState]
  /\ DOMAIN res.inventory \subseteq Skus
  /\ \A sku \in DOMAIN res.inventory : res.inventory[sku] \in [reserved : Nat, hardCap : Nat]
  /\ res.frequency \in [Policies \X Users -> Seq(Nat)]

\* Finitely many reservations, of known policies and calls.
HeldTypes(held) ==
  /\ IsFiniteSet(held)
  /\ \A r \in held : r.call \in Calls /\ r.policy \in Policies /\ r.turn \in Nat /\ r.at \in Nat

\* The counters are what is held, and so is every inventory something is held of.
Agree(res, held) ==
  /\ \A pool \in Pools : res.budget[pool].used = Charged(OnPool(held, pool))
  /\ \A sku \in DOMAIN res.inventory : res.inventory[sku].reserved = Units(OfSku(held, sku))
  /\ \A r \in held : PolicySpec[r.policy].sku # NoSku =>
                       PolicySpec[r.policy].sku \in DOMAIN res.inventory

\* A call that waits holds nothing, one that runs what its turns so far reserved, the
\* running one included.
TurnsGoDown ==
  /\ \A r \in reservations :
       /\ calls[r.call].status # "waiting"
       /\ calls[r.call].status = "running" => r.turn >= Len(calls[r.call].left)
  /\ \A c \in Calls : calls[c].status = "running" =>
       Reservation(c, calls[c].left) \in reservations

CountersInv ==
  /\ TypeOK
  /\ HeldTypes(reservations)
  /\ Agree(resources, reservations)
  /\ TurnsGoDown

-----------------------------------------------------------------------------
(***************************************************************************)
(* Lists built by recursion over the numbers up to a length.               *)
(***************************************************************************)
\* A set of numbers closed under successor from zero on has them all.
LEMMA NaturalsClosed ==
  ASSUME NEW S, 0 \in S, \A n \in Nat : n \in S => n + 1 \in S
  PROVE  Nat \subseteq S
<1> DEFINE B == Nat \ S
<1>1. SUFFICES ASSUME B # {} PROVE FALSE
  OBVIOUS
<1>2. PICK n \in B : \A k \in B : ~(k < n)
  <2>1. B \subseteq Nat
    OBVIOUS
  <2> HIDE DEF B
  <2>2. \E n \in B : \A k \in B : ~(<<k, n>> \in OpToRel(<, Nat))
    BY <1>1, <2>1, NatLessThanWellFounded, WFMin
  <2> QED BY <2>1, <2>2 DEF OpToRel
<1>3. n \in Nat /\ n # 0
  OBVIOUS
<1>4. n - 1 \in S
  BY <1>2, <1>3
<1> QED BY <1>3, <1>4

\* A list built step by step: from nothing, next[i][x] is made of x at step i.
Builds(f, next, n) ==
  f = [i \in 0 .. n |-> IF i = 0 THEN <<>> ELSE next[i][f[i - 1]]]

LEMMA BuildExists ==
  ASSUME NEW next, NEW n \in Nat
  PROVE  \E f : Builds(f, next, n)
<1> DEFINE S == {k \in Nat : \E f : Builds(f, next, k)}
<1>1. 0 \in S
  <2> DEFINE f == [i \in 0 .. 0 |-> <<>>]
  <2>1. f = [i \in 0 .. 0 |-> IF i = 0 THEN <<>> ELSE next[i][f[i - 1]]]
    OBVIOUS
  <2> QED BY <2>1 DEF Builds
<1>2. ASSUME NEW k \in Nat, k \in S
      PROVE  k + 1 \in S
  <2>1. PICK f : Builds(f, next, k)
    BY <1>2
  <2> DEFINE g == [i \in 0 .. k + 1 |-> IF i = k + 1 THEN next[i][f[k]] ELSE f[i]]
  <2>2. ASSUME NEW i \in 0 .. k + 1
        PROVE  g[i] = IF i = 0 THEN <<>> ELSE next[i][g[i - 1]]
    <3>1. CASE i = k + 1
      <4>1. g[i - 1] = f[k] /\ i # 0
        BY <3>1
      <4> QED BY <3>1, <4>1
    <3>2. CASE i = 0
      BY <2>1, <3>2 DEF Builds
    <3>3. CASE i # 0 /\ i # k + 1
      <4>1. i \in 0 .. k /\ i - 1 \in 0 .. k
        BY <3>3
      <4>2. g[i] = f[i] /\ g[i - 1] = f[i - 1]
        BY <3>3, <4>1
      <4>3. f[i] = next[i][f[i - 1]]
        BY <2>1, <3>3, <4>1 DEF Builds
      <4> QED BY <3>3, <4>2, <4>3
    <3> QED BY <3>1, <3>2, <3>3
  <2>3. g = [i \in 0 .. k + 1 |-> IF i = 0 THEN <<>> ELSE next[i][g[i - 1]]]
    BY <2>2
  <2> HIDE DEF g
  <2>4. \E h : Builds(h, next, k + 1)
    BY <2>3 DEF Builds
  <2> QED BY <2>4
<1> HIDE DEF S
<1>3. n \in S
  BY <1>1, <1>2, NaturalsClosed
<1> QED BY <1>3 DEF S

\* What each step keeps, every member of the list has.
LEMMA StepsStayIn ==
  ASSUME NEW n \in Nat, NEW T, NEW f, f[0] \in T,
         \A i \in 1 .. n : f[i - 1] \in T => f[i] \in T
  PROVE  \A i \in 0 .. n : f[i] \in T
<1> DEFINE S == {k \in Nat : k <= n => f[k] \in T}
<1>1. 0 \in S
  OBVIOUS
<1>2. ASSUME NEW k \in Nat, k \in S
      PROVE  k + 1 \in S
  <2> SUFFICES ASSUME k + 1 <= n PROVE f[k + 1] \in T
    OBVIOUS
  <2>1. f[k] \in T /\ k + 1 \in 1 .. n /\ (k + 1) - 1 = k
    BY <1>2
  <2> QED BY <2>1
<1> HIDE DEF S
<1>3. Nat \subseteq S
  BY <1>1, <1>2, NaturalsClosed
<1> QED BY <1>3 DEF S

\* A list of T, when each step makes a T of a T.
LEMMA TypedBuildExists ==
  ASSUME NEW T, <<>> \in T, NEW n \in Nat, NEW next \in [1 .. n -> [T -> T]]
  PROVE  \E f \in [0 .. n -> T] : /\ f[0] = <<>>
                                  /\ \A i \in 1 .. n : f[i] = next[i][f[i - 1]]
<1>1. PICK f : Builds(f, next, n)
  BY BuildExists
<1>2. f = [i \in 0 .. n |-> f[i]] /\ f[0] = <<>>
  BY <1>1 DEF Builds
<1>3. ASSUME NEW i \in 1 .. n
      PROVE  f[i] = next[i][f[i - 1]]
  <2>1. i \in 0 .. n /\ i # 0
    OBVIOUS
  <2> QED BY <1>1, <2>1 DEF Builds
<1>4. \A i \in 1 .. n : f[i - 1] \in T => f[i] \in T
  BY <1>3
<1>5. \A i \in 0 .. n : f[i] \in T
  BY <1>2, <1>4, StepsStayIn
<1>6. f \in [0 .. n -> T]
  BY <1>2, <1>5
<1> QED BY <1>2, <1>3, <1>6

\* What every admission keeps, the winners have.
LEMMA WinnersStayIn ==
  ASSUME NEW P, NEW candidates \in Seq(P), NEW T, <<>> \in T,
         \A x \in T : \A p \in P : Admitted(x, p) => Append(x, p) \in T
  PROVE  Winners(candidates) \in T
<1> DEFINE n == Len(candidates)
           Step(i, x) == IF Admitted(x, candidates[i]) THEN Append(x, candidates[i]) ELSE x
           Is(f) == f = [i \in 0 .. n |-> IF i = 0 THEN <<>> ELSE Step(i, f[i - 1])]
           w == CHOOSE f : Is(f)
<1>1. n \in Nat /\ \A i \in 1 .. n : candidates[i] \in P
  OBVIOUS
<1>2. \A i \in 1 .. n : \A x \in T : Step(i, x) \in T
  BY <1>1
<1>3. Winners(candidates) = w[n]
  BY DEF Winners
<1>4. <<>> \in T
  OBVIOUS
<1> HIDE DEF n, Step
<1>5. \E f : Is(f)
  <2> DEFINE next == [i \in 1 .. n |-> [x \in T |-> Step(i, x)]]
  <2>1. next \in [1 .. n -> [T -> T]] /\ \A i \in 1 .. n : \A x \in T : next[i][x] = Step(i, x)
    BY <1>2
  <2> HIDE DEF next
  <2>2. PICK f \in [0 .. n -> T] :
               f[0] = <<>> /\ \A i \in 1 .. n : f[i] = next[i][f[i - 1]]
    <3>1. n \in Nat /\ <<>> \in T /\ next \in [1 .. n -> [T -> T]]
      BY <1>1, <1>4, <2>1
    <3> QED BY <3>1, TypedBuildExists
  <2>3. \A i \in 0 .. n : f[i] = IF i = 0 THEN <<>> ELSE Step(i, f[i - 1])
    <3> TAKE i \in 0 .. n
    <3>1. CASE i # 0
      <4>1. i \in 1 .. n /\ i - 1 \in 0 .. n
        BY <1>1, <3>1
      <4> QED BY <2>1, <2>2, <3>1, <4>1
    <3> QED BY <2>2, <3>1
  <2>4. Is(f)
    BY <2>3
  <2> QED BY <2>4
<1>6. Is(w)
  BY <1>5
<1> HIDE DEF w
<1>7. w[0] \in T
  BY <1>1, <1>4, <1>6
<1>8. ASSUME NEW i \in 1 .. n, w[i - 1] \in T
      PROVE  w[i] \in T
  <2>1. i \in 0 .. n /\ i # 0
    BY <1>1
  <2>2. w[i] = Step(i, w[i - 1])
    BY <1>6, <2>1
  <2> QED BY <1>2, <1>8, <2>2
<1>9. \A i \in 0 .. n : w[i] \in T
  BY <1>1, <1>7, <1>8, StepsStayIn
<1>10. n \in 0 .. n
  BY <1>1
<1> QED BY <1>3, <1>9, <1>10

LEMMA WinnersType ==
  ASSUME NEW P, NEW candidates \in Seq(P)
  PROVE  Winners(candidates) \in Seq(P)
<1> DEFINE T == Seq(P)
<1>1. <<>> \in T /\ \A x \in T : \A p \in P : Append(x, p) \in T
  OBVIOUS
<1> HIDE DEF T
<1>2. Winners(candidates) \in T
  BY <1>1, WinnersStayIn
<1> QED BY <1>2 DEF T

\* The policies an event's decision may choose from.
Passing(c) == {p \in active \cap CallOf[c].matches : Passes(p, CallOf[c].userId)}

LEMMA CandidatesType ==
  ASSUME NEW c \in Calls
  PROVE  Candidates(c) \in Seq(Passing(c))
<1> DEFINE T == Seq(Passing(c))
           n == Len(Ranking)
           instances(p) ==
             IF p \in Passing(c) THEN [k \in 1 .. PolicySpec[p].instances |-> p] ELSE <<>>
           Step(i, x) == x \o instances(Ranking[i])
           Is(f) == f = [i \in 0 .. n |-> IF i = 0 THEN <<>> ELSE Step(i, f[i - 1])]
           w == CHOOSE f : Is(f)
<1>1. n \in Nat /\ \A i \in 1 .. n : Ranking[i] \in Policies
  BY DecisionAssumption
<1>2. \A i \in 1 .. n : \A x \in T : Step(i, x) \in T
  <2>1. ASSUME NEW p \in Policies
        PROVE  instances(p) \in T
    <3>1. PolicySpec[p].instances \in Nat
      BY DecisionAssumption
    <3>2. p \in Passing(c) => [k \in 1 .. PolicySpec[p].instances |-> p] \in T
      BY <3>1
    <3> QED BY <3>2
  <2> HIDE DEF instances
  <2> QED BY <1>1, <2>1
<1>3. Candidates(c) = w[n]
  BY DEF Candidates, Passing
<1>4. <<>> \in T
  OBVIOUS
<1> HIDE DEF T, n, Step
<1>5. \E f : Is(f)
  <2> DEFINE next == [i \in 1 .. n |-> [x \in T |-> Step(i, x)]]
  <2>1. next \in [1 .. n -> [T -> T]] /\ \A i \in 1 .. n : \A x \in T : next[i][x] = Step(i, x)
    BY <1>2
  <2> HIDE DEF next
  <2>2. PICK f \in [0 .. n -> T] :
               f[0] = <<>> /\ \A i \in 1 .. n : f[i] = next[i][f[i - 1]]
    <3>1. n \in Nat /\ <<>> \in T /\ next \in [1 .. n -> [T -> T]]
      BY <1>1, <1>4, <2>1
    <3> QED BY <3>1, TypedBuildExists
  <2>3. \A i \in 0 .. n : f[i] = IF i = 0 THEN <<>> ELSE Step(i, f[i - 1])
    <3> TAKE i \in 0 .. n
    <3>1. CASE i # 0
      <4>1. i \in 1 .. n /\ i - 1 \in 0 .. n
        BY <1>1, <3>1
      <4> QED BY <2>1, <2>2, <3>1, <4>1
    <3> QED BY <2>2, <3>1
  <2>4. Is(f)
    BY <2>3
  <2> QED BY <2>4
<1>6. Is(w)
  BY <1>5
<1> HIDE DEF w
<1>7. w[0] \in T
  BY <1>1, <1>4, <1>6
<1>8. ASSUME NEW i \in 1 .. n, w[i - 1] \in T
      PROVE  w[i] \in T
  <2>1. i \in 0 .. n /\ i # 0
    BY <1>1
  <2>2. w[i] = Step(i, w[i - 1])
    BY <1>6, <2>1
  <2> QED BY <1>2, <1>8, <2>2
<1>9. \A i \in 0 .. n : w[i] \in T
  BY <1>1, <1>7, <1>8, StepsStayIn
<1>10. n \in 0 .. n
  BY <1>1
<1> QED BY <1>3, <1>9, <1>10 DEF T

LEMMA WithoutType ==
  ASSUME NEW markers \in Seq(Nat), NEW at
  PROVE  Without(markers, at) \in Seq(Nat)
<1> DEFINE T == Seq(Nat)
           n == Len(markers)
           Step(i, x) == IF markers[i] = at THEN x ELSE Append(x, markers[i])
           Is(f) == f = [i \in 0 .. n |-> IF i = 0 THEN <<>> ELSE Step(i, f[i - 1])]
           w == CHOOSE f : Is(f)
<1>1. n \in Nat /\ \A i \in 1 .. n : markers[i] \in Nat
  OBVIOUS
<1>2. \A i \in 1 .. n : \A x \in T : Step(i, x) \in T
  BY <1>1
<1>3. Without(markers, at) = w[n]
  BY DEF Without
<1>4. <<>> \in T
  OBVIOUS
<1> HIDE DEF T, n, Step
<1>5. \E f : Is(f)
  <2> DEFINE next == [i \in 1 .. n |-> [x \in T |-> Step(i, x)]]
  <2>1. next \in [1 .. n -> [T -> T]] /\ \A i \in 1 .. n : \A x \in T : next[i][x] = Step(i, x)
    BY <1>2
  <2> HIDE DEF next
  <2>2. PICK f \in [0 .. n -> T] :
               f[0] = <<>> /\ \A i \in 1 .. n : f[i] = next[i][f[i - 1]]
    <3>1. n \in Nat /\ <<>> \in T /\ next \in [1 .. n -> [T -> T]]
      BY <1>1, <1>4, <2>1
    <3> QED BY <3>1, TypedBuildExists
  <2>3. \A i \in 0 .. n : f[i] = IF i = 0 THEN <<>> ELSE Step(i, f[i - 1])
    <3> TAKE i \in 0 .. n
    <3>1. CASE i # 0
      <4>1. i \in 1 .. n /\ i - 1 \in 0 .. n
        BY <1>1, <3>1
      <4> QED BY <2>1, <2>2, <3>1, <4>1
    <3> QED BY <2>2, <3>1
  <2>4. Is(f)
    BY <2>3
  <2> QED BY <2>4
<1>6. Is(w)
  BY <1>5
<1> HIDE DEF w
<1>7. w[0] \in T
  BY <1>1, <1>4, <1>6
<1>8. ASSUME NEW i \in 1 .. n, w[i - 1] \in T
      PROVE  w[i] \in T
  <2>1. i \in 0 .. n /\ i # 0
    BY <1>1
  <2>2. w[i] = Step(i, w[i - 1])
    BY <1>6, <2>1
  <2> QED BY <1>2, <1>8, <2>2
<1>9. \A i \in 0 .. n : w[i] \in T
  BY <1>1, <1>7, <1>8, StepsStayIn
<1>10. n \in 0 .. n
  BY <1>1
<1> QED BY <1>3, <1>9, <1>10 DEF T

\* What a decision runs: policies that pass.
LEMMA ChosenType ==
  ASSUME NEW c \in Calls
  PROVE  /\ Winners(Candidates(c)) \in Seq(Passing(c))
         /\ Winners(Candidates(c)) \in Seq(Policies)
<1>1. Winners(Candidates(c)) \in Seq(Passing(c))
  BY CandidatesType, WinnersType
<1>2. Passing(c) \subseteq Policies
  BY DecisionAssumption DEF Passing
<1> QED BY <1>1, <1>2

-----------------------------------------------------------------------------
(***************************************************************************)
(* What a set of reservations amounts to.                                  *)
(***************************************************************************)
LEMMA SpecTypes ==
  ASSUME NEW p \in Policies
  PROVE  /\ PolicySpec[p].cost \in Nat /\ PolicySpec[p].units \in Nat
         /\ PolicySpec[p].maxUnits \in Nat
         /\ PolicySpec[p].sku \in Skus \cup {NoSku}
         /\ PolicySpec[p].actions \in Seq(ActionKinds) /\ PolicySpec[p].actions # <<>>
BY DecisionAssumption

LEMMA ChargedAdds ==
  ASSUME NEW S, IsFiniteSet(S), \A x \in S : x.policy \in Policies,
         NEW r, r \notin S, r.policy \in Policies
  PROVE  /\ Charged(S) \in Nat
         /\ Charged(S \cup {r}) = Charged(S) + PolicySpec[r.policy].cost
<1> DEFINE f == [x \in S |-> PolicySpec[x.policy].cost]
           g == [x \in S \cup {r} |-> PolicySpec[x.policy].cost]
<1>1. /\ \A x \in S : f[x] \in Nat /\ f[x] = g[x]
      /\ \A x \in S \cup {r} : g[x] \in Nat
      /\ g[r] = PolicySpec[r.policy].cost
  BY SpecTypes
<1>2. Charged(S) = SumFunctionOnSet(f, S) /\ Charged(S \cup {r}) = SumFunctionOnSet(g, S \cup {r})
  BY DEF Charged
<1> HIDE DEF f, g
<1>3. SumFunctionOnSet(f, S) \in Nat
  BY <1>1, SumNatural
<1>4. SumFunctionOnSet(g, S \cup {r}) = SumFunctionOnSet(g, S) + g[r]
  BY <1>1, SumAdds DEF IntegersOn
<1>5. SumFunctionOnSet(f, S) = SumFunctionOnSet(g, S)
  BY <1>1, SumCongruent
<1> QED BY <1>1, <1>2, <1>3, <1>4, <1>5

LEMMA ChargedTakes ==
  ASSUME NEW S, IsFiniteSet(S), \A x \in S : x.policy \in Policies, NEW r \in S
  PROVE  /\ Charged(S \ {r}) \in Nat
         /\ Charged(S) = Charged(S \ {r}) + PolicySpec[r.policy].cost
<1>1. /\ IsFiniteSet(S \ {r}) /\ r \notin S \ {r} /\ (S \ {r}) \cup {r} = S
      /\ \A x \in S \ {r} : x.policy \in Policies
  BY FS_RemoveElement
<1> QED BY <1>1, ChargedAdds

LEMMA UnitsAdd ==
  ASSUME NEW S, IsFiniteSet(S), \A x \in S : x.policy \in Policies,
         NEW r, r \notin S, r.policy \in Policies
  PROVE  /\ Units(S) \in Nat
         /\ Units(S \cup {r}) = Units(S) + PolicySpec[r.policy].units
<1> DEFINE f == [x \in S |-> PolicySpec[x.policy].units]
           g == [x \in S \cup {r} |-> PolicySpec[x.policy].units]
<1>1. /\ \A x \in S : f[x] \in Nat /\ f[x] = g[x]
      /\ \A x \in S \cup {r} : g[x] \in Nat
      /\ g[r] = PolicySpec[r.policy].units
  BY SpecTypes
<1>2. Units(S) = SumFunctionOnSet(f, S) /\ Units(S \cup {r}) = SumFunctionOnSet(g, S \cup {r})
  BY DEF Units
<1> HIDE DEF f, g
<1>3. SumFunctionOnSet(f, S) \in Nat
  BY <1>1, SumNatural
<1>4. SumFunctionOnSet(g, S \cup {r}) = SumFunctionOnSet(g, S) + g[r]
  BY <1>1, SumAdds DEF IntegersOn
<1>5. SumFunctionOnSet(f, S) = SumFunctionOnSet(g, S)
  BY <1>1, SumCongruent
<1> QED BY <1>1, <1>2, <1>3, <1>4, <1>5

LEMMA UnitsTake ==
  ASSUME NEW S, IsFiniteSet(S), \A x \in S : x.policy \in Policies, NEW r \in S
  PROVE  /\ Units(S \ {r}) \in Nat
         /\ Units(S) = Units(S \ {r}) + PolicySpec[r.policy].units
<1>1. /\ IsFiniteSet(S \ {r}) /\ r \notin S \ {r} /\ (S \ {r}) \cup {r} = S
      /\ \A x \in S \ {r} : x.policy \in Policies
  BY FS_RemoveElement
<1> QED BY <1>1, UnitsAdd

LEMMA PartsFinite ==
  ASSUME NEW held, HeldTypes(held)
  PROVE  /\ \A pool : /\ IsFiniteSet(OnPool(held, pool))
                      /\ \A x \in OnPool(held, pool) : x.policy \in Policies
         /\ \A sku : /\ IsFiniteSet(OfSku(held, sku))
                     /\ \A x \in OfSku(held, sku) : x.policy \in Policies
<1>1. ASSUME NEW pool
      PROVE  IsFiniteSet(OnPool(held, pool))
  BY FS_Subset, OnPool(held, pool) \subseteq held DEF HeldTypes, OnPool
<1>2. ASSUME NEW sku
      PROVE  IsFiniteSet(OfSku(held, sku))
  BY FS_Subset, OfSku(held, sku) \subseteq held DEF HeldTypes, OfSku
<1> QED BY <1>1, <1>2 DEF HeldTypes, OnPool, OfSku

-----------------------------------------------------------------------------
(***************************************************************************)
(* Reserving and releasing keep the counters in step with what is held.    *)
(***************************************************************************)
LEMMA Floor ==
  /\ \A n \in Int : AtLeastZero(n) \in Nat
  /\ \A n \in Nat, k \in Nat : AtLeastZero((n + k) - k) = n
BY DEF AtLeastZero

LEMMA ReserveTypes ==
  ASSUME now \in Nat, NEW res, ResourceTypes(res), NEW p \in Policies, NEW u \in Users
  PROVE  ResourceTypes(Reserve(res, p, u))
<1> DEFINE spec == PolicySpec[p]
           inv == InventoryOf(res, spec)
           next == Reserve(res, p, u)
<1>1. /\ spec.cost \in Nat /\ spec.units \in Nat /\ spec.maxUnits \in Nat
      /\ spec.sku \in Skus \cup {NoSku}
  BY SpecTypes
<1>2. next.budget \in [Pools -> BudgetState]
  <2> DEFINE New(b) ==
        IF TRUE THEN [used |-> b.used + spec.cost,
                      minuteWindowStart |-> IF SameWindow(b) THEN b.minuteWindowStart ELSE now,
                      minuteSpent |-> MinuteSpent(b) + spec.cost]
        ELSE b
  <2>1. next.budget = [pool \in Pools |-> IF pool \notin DOMAIN spec.budgets
                                          THEN res.budget[pool] ELSE New(res.budget[pool])]
    BY DEF Reserve
  <2>2. ASSUME NEW b \in BudgetState
        PROVE  New(b) \in BudgetState
    BY <1>1 DEF BudgetState, MinuteSpent
  <2> HIDE DEF New, spec, next
  <2> QED BY <2>1, <2>2 DEF ResourceTypes
<1>3. next.inventory = IF spec.sku = NoSku THEN res.inventory
                       ELSE [sku \in DOMAIN res.inventory \cup {spec.sku} |->
                               IF sku = spec.sku
                               THEN [reserved |-> inv.reserved + spec.units,
                                     hardCap |-> spec.maxUnits]
                               ELSE res.inventory[sku]]
  BY DEF Reserve
<1>4. inv.reserved \in Nat
  BY <1>1 DEF InventoryOf, ResourceTypes
<1>5. next.frequency \in [Policies \X Users -> Seq(Nat)]
  <2>1. next.frequency = IF spec.daily = 0 THEN res.frequency
                         ELSE [res.frequency EXCEPT ![<<p, u>>] = Append(@, now)]
    BY DEF Reserve
  <2>2. res.frequency \in [Policies \X Users -> Seq(Nat)]
    BY DEF ResourceTypes
  <2>3. Append(res.frequency[<<p, u>>], now) \in Seq(Nat)
    BY <2>2
  <2> HIDE DEF next, spec
  <2> QED BY <2>1, <2>2, <2>3
<1> HIDE DEF next, inv, spec
<1>6. /\ DOMAIN next.inventory \subseteq Skus
      /\ \A sku \in DOMAIN next.inventory :
           next.inventory[sku] \in [reserved : Nat, hardCap : Nat]
  BY <1>1, <1>3, <1>4 DEF ResourceTypes
<1> QED BY <1>2, <1>5, <1>6 DEF ResourceTypes, next

LEMMA ReserveAgrees ==
  ASSUME NEW res, ResourceTypes(res), NEW held, HeldTypes(held), Agree(res, held),
         NEW r, r \notin held, r.policy \in Policies, NEW u
  PROVE  Agree(Reserve(res, r.policy, u), held \cup {r})
<1> DEFINE p == r.policy
           spec == PolicySpec[p]
           inv == InventoryOf(res, spec)
           next == Reserve(res, p, u)
<1>1. ASSUME NEW pool \in Pools
      PROVE  next.budget[pool].used = Charged(OnPool(held \cup {r}, pool))
  <2>1. next.budget[pool].used = IF pool \notin DOMAIN spec.budgets THEN res.budget[pool].used
                                 ELSE res.budget[pool].used + spec.cost
    BY DEF Reserve
  <2>2. res.budget[pool].used = Charged(OnPool(held, pool))
    BY DEF Agree
  <2> HIDE DEF next
  <2>3. CASE pool \in DOMAIN spec.budgets
    <3>1. OnPool(held \cup {r}, pool) = OnPool(held, pool) \cup {r} /\ r \notin OnPool(held, pool)
      BY <2>3 DEF OnPool
    <3>2. Charged(OnPool(held, pool) \cup {r}) = Charged(OnPool(held, pool)) + spec.cost
      BY <3>1, PartsFinite, ChargedAdds
    <3> QED BY <2>1, <2>2, <2>3, <3>1, <3>2
  <2>4. CASE pool \notin DOMAIN spec.budgets
    <3>1. OnPool(held \cup {r}, pool) = OnPool(held, pool)
      BY <2>4 DEF OnPool
    <3> QED BY <2>1, <2>2, <2>4, <3>1
  <2> QED BY <2>3, <2>4
<1>2. next.inventory = IF spec.sku = NoSku THEN res.inventory
                       ELSE [sku \in DOMAIN res.inventory \cup {spec.sku} |->
                               IF sku = spec.sku
                               THEN [reserved |-> inv.reserved + spec.units,
                                     hardCap |-> spec.maxUnits]
                               ELSE res.inventory[sku]]
  BY DEF Reserve
<1> HIDE DEF next
<1>3. NoSku \notin DOMAIN res.inventory
  BY DecisionAssumption DEF ResourceTypes
<1>4. ASSUME NEW sku \in DOMAIN next.inventory
      PROVE  next.inventory[sku].reserved = Units(OfSku(held \cup {r}, sku))
  <2>1. CASE sku = spec.sku
    <3>1. sku # NoSku
      BY <1>2, <1>3, <2>1
    <3>2. next.inventory[sku].reserved = inv.reserved + spec.units
      BY <1>2, <2>1, <3>1
    <3>3. inv.reserved = Units(OfSku(held, sku))
      <4>1. CASE sku \in DOMAIN res.inventory
        BY <2>1, <4>1 DEF InventoryOf, Agree
      <4>2. CASE sku \notin DOMAIN res.inventory
        <5>1. OfSku(held, sku) = {}
          BY <3>1, <4>2 DEF Agree, OfSku
        <5>2. Units({}) = 0
          BY SumEmpty DEF Units
        <5>3. inv.reserved = 0
          BY <2>1, <4>2 DEF InventoryOf
        <5> QED BY <5>1, <5>2, <5>3
      <4> QED BY <4>1, <4>2
    <3>4. OfSku(held \cup {r}, sku) = OfSku(held, sku) \cup {r} /\ r \notin OfSku(held, sku)
      BY <2>1 DEF OfSku
    <3>5. Units(OfSku(held, sku) \cup {r}) = Units(OfSku(held, sku)) + spec.units
      BY <3>4, PartsFinite, UnitsAdd
    <3> QED BY <3>2, <3>3, <3>4, <3>5
  <2>2. CASE sku # spec.sku
    <3>1. OfSku(held \cup {r}, sku) = OfSku(held, sku)
      BY <2>2 DEF OfSku
    <3>2. sku \in DOMAIN res.inventory /\ next.inventory[sku] = res.inventory[sku]
      BY <1>2, <2>2
    <3> QED BY <3>1, <3>2 DEF Agree
  <2> QED BY <2>1, <2>2
<1>5. \A x \in held \cup {r} : PolicySpec[x.policy].sku # NoSku =>
        PolicySpec[x.policy].sku \in DOMAIN next.inventory
  BY <1>2 DEF Agree
<1> HIDE DEF inv, spec
<1> QED BY <1>1, <1>4, <1>5 DEF Agree, next

LEMMA ReleaseTypes ==
  ASSUME NEW res, ResourceTypes(res), NEW p \in Policies, NEW u \in Users, NEW at
  PROVE  ResourceTypes(Release(res, p, u, at))
<1> DEFINE spec == PolicySpec[p]
           next == Release(res, p, u, at)
<1>1. spec.cost \in Nat /\ spec.units \in Nat
  BY SpecTypes
<1>2. next.budget \in [Pools -> BudgetState]
  <2> DEFINE New(b) == [b EXCEPT !.used = AtLeastZero(@ - spec.cost),
                                 !.minuteSpent = AtLeastZero(@ - spec.cost)]
  <2>1. next.budget = [pool \in Pools |-> IF pool \notin DOMAIN spec.budgets
                                          THEN res.budget[pool] ELSE New(res.budget[pool])]
    BY DEF Release
  <2>2. ASSUME NEW b \in BudgetState
        PROVE  New(b) \in BudgetState
    <3>1. AtLeastZero(b.used - spec.cost) \in Nat /\ AtLeastZero(b.minuteSpent - spec.cost) \in Nat
      BY <1>1, Floor DEF BudgetState
    <3> QED BY <3>1 DEF BudgetState
  <2> HIDE DEF New, spec, next
  <2> QED BY <2>1, <2>2 DEF ResourceTypes
<1>3. next.inventory = IF spec.sku = NoSku THEN res.inventory
                       ELSE [res.inventory EXCEPT
                               ![spec.sku].reserved = AtLeastZero(@ - spec.units)]
  BY DEF Release
<1>4. next.frequency \in [Policies \X Users -> Seq(Nat)]
  <2>1. next.frequency = IF spec.daily = 0 THEN res.frequency
                         ELSE [res.frequency EXCEPT ![<<p, u>>] = Without(@, at)]
    BY DEF Release
  <2>2. res.frequency \in [Policies \X Users -> Seq(Nat)]
    BY DEF ResourceTypes
  <2>3. Without(res.frequency[<<p, u>>], at) \in Seq(Nat)
    BY <2>2, WithoutType
  <2> HIDE DEF next, spec
  <2> QED BY <2>1, <2>2, <2>3
<1> HIDE DEF next, spec
<1>5. /\ DOMAIN next.inventory \subseteq Skus
      /\ \A sku \in DOMAIN next.inventory :
           next.inventory[sku] \in [reserved : Nat, hardCap : Nat]
  <2>1. spec.sku \in DOMAIN res.inventory =>
          AtLeastZero(res.inventory[spec.sku].reserved - spec.units) \in Nat
    <3> SUFFICES ASSUME spec.sku \in DOMAIN res.inventory
                 PROVE  AtLeastZero(res.inventory[spec.sku].reserved - spec.units) \in Nat
      OBVIOUS
    <3>1. res.inventory[spec.sku].reserved \in Nat
      BY DEF ResourceTypes
    <3>2. res.inventory[spec.sku].reserved - spec.units \in Int
      BY <1>1, <3>1
    <3> QED BY <3>2, Floor
  <2> QED BY <1>3, <2>1 DEF ResourceTypes
<1> QED BY <1>2, <1>4, <1>5 DEF ResourceTypes, next

LEMMA ReleaseAgrees ==
  ASSUME NEW res, ResourceTypes(res), NEW held, HeldTypes(held), Agree(res, held),
         NEW r \in held, NEW u, NEW at
  PROVE  Agree(Release(res, r.policy, u, at), held \ {r})
<1> DEFINE p == r.policy
           spec == PolicySpec[p]
           next == Release(res, p, u, at)
<1>0. p \in Policies /\ spec.cost \in Nat /\ spec.units \in Nat
  BY SpecTypes DEF HeldTypes
<1>1. ASSUME NEW pool \in Pools
      PROVE  next.budget[pool].used = Charged(OnPool(held \ {r}, pool))
  <2>1. next.budget[pool].used = IF pool \notin DOMAIN spec.budgets THEN res.budget[pool].used
                                 ELSE AtLeastZero(res.budget[pool].used - spec.cost)
    BY DEF Release, ResourceTypes, BudgetState
  <2>2. res.budget[pool].used = Charged(OnPool(held, pool))
    BY DEF Agree
  <2> HIDE DEF next
  <2>3. CASE pool \in DOMAIN spec.budgets
    <3>1. OnPool(held \ {r}, pool) = OnPool(held, pool) \ {r} /\ r \in OnPool(held, pool)
      BY <2>3 DEF OnPool
    <3>2. /\ Charged(OnPool(held, pool)) = Charged(OnPool(held, pool) \ {r}) + spec.cost
          /\ Charged(OnPool(held, pool) \ {r}) \in Nat
      BY <3>1, PartsFinite, ChargedTakes
    <3> HIDE DEF spec
    <3> QED BY <1>0, <2>1, <2>2, <2>3, <3>1, <3>2, Floor
  <2>4. CASE pool \notin DOMAIN spec.budgets
    <3>1. OnPool(held \ {r}, pool) = OnPool(held, pool)
      BY <2>4 DEF OnPool
    <3> QED BY <2>1, <2>2, <2>4, <3>1
  <2> QED BY <2>3, <2>4
<1>2. next.inventory = IF spec.sku = NoSku THEN res.inventory
                       ELSE [res.inventory EXCEPT
                               ![spec.sku].reserved = AtLeastZero(@ - spec.units)]
  BY DEF Release
<1> HIDE DEF next
<1>3. DOMAIN next.inventory = DOMAIN res.inventory /\ NoSku \notin DOMAIN res.inventory
  BY <1>2, DecisionAssumption DEF ResourceTypes
<1>4. ASSUME NEW sku \in DOMAIN next.inventory
      PROVE  next.inventory[sku].reserved = Units(OfSku(held \ {r}, sku))
  <2>1. res.inventory[sku].reserved = Units(OfSku(held, sku))
    BY <1>3 DEF Agree
  <2>2. CASE sku = spec.sku
    <3>1. next.inventory[sku].reserved = AtLeastZero(res.inventory[sku].reserved - spec.units)
      BY <1>2, <1>3, <2>2 DEF ResourceTypes
    <3>2. OfSku(held \ {r}, sku) = OfSku(held, sku) \ {r} /\ r \in OfSku(held, sku)
      BY <2>2 DEF OfSku
    <3>3. /\ Units(OfSku(held, sku)) = Units(OfSku(held, sku) \ {r}) + spec.units
          /\ Units(OfSku(held, sku) \ {r}) \in Nat
      BY <3>2, PartsFinite, UnitsTake
    <3> HIDE DEF spec
    <3> QED BY <1>0, <2>1, <3>1, <3>2, <3>3, Floor
  <2>3. CASE sku # spec.sku
    <3>1. OfSku(held \ {r}, sku) = OfSku(held, sku)
      BY <2>3 DEF OfSku
    <3>2. next.inventory[sku] = res.inventory[sku]
      BY <1>2, <1>3, <2>3
    <3> QED BY <2>1, <3>1, <3>2
  <2> QED BY <2>2, <2>3
<1>5. \A x \in held \ {r} : PolicySpec[x.policy].sku # NoSku =>
        PolicySpec[x.policy].sku \in DOMAIN next.inventory
  BY <1>3 DEF Agree
<1> HIDE DEF spec
<1> QED BY <1>1, <1>4, <1>5 DEF Agree, next

-----------------------------------------------------------------------------
(***************************************************************************)
(* One step of a call.                                                     *)
(***************************************************************************)
\* What the next action makes of the call.
LEMMA ActShape ==
  ASSUME TypeOK, NEW c \in Calls, NEW left \in Seq(Policies), left # <<>>, NEW acted \in Nat,
         NEW good \in BOOLEAN, NEW at \in Nat, Act(c, left, acted, good, at)
  PROVE  /\ granted' \in [Calls \X Policies -> Nat]
         /\ \E new \in Call :
              /\ calls' = [calls EXCEPT ![c] = new]
              /\ new.status \in {"running", "failed"}
              /\ new.left = left
              /\ new.acted = acted
              /\ good /\ PolicySpec[Head(left)].actions[acted] # "refused" => new.good
              /\ new.at = at
<1> DEFINE kind == PolicySpec[Head(left)].actions[acted]
           new == [status |-> IF kind = "throws" THEN "failed" ELSE "running",
                   left |-> left, acted |-> acted, good |-> good /\ kind # "refused", at |-> at]
<1>1. calls' = [calls EXCEPT ![c] = new]
  BY DEF Act
<1>2. new \in Call
  BY DEF Call
<1>3. granted' \in [Calls \X Policies -> Nat]
  <2>1. Head(left) \in Policies /\ granted \in [Calls \X Policies -> Nat]
    BY DEF TypeOK
  <2>2. granted[<<c, Head(left)>>] + 1 \in Nat
    BY <2>1
  <2>3. granted' = granted \/ granted' = [granted EXCEPT ![<<c, Head(left)>>] = @ + 1]
    BY DEF Act
  <2> QED BY <2>1, <2>2, <2>3
<1> QED BY <1>1, <1>2, <1>3

LEMMA FirstAct ==
  ASSUME TypeOK, NEW c \in Calls, NEW left \in Seq(Policies), left # <<>>,
         Act(c, left, 1, TRUE, now)
  PROVE  /\ granted' \in [Calls \X Policies -> Nat]
         /\ \E new \in Call :
              /\ calls' = [calls EXCEPT ![c] = new]
              /\ new.status \in {"running", "failed"}
              /\ new.left = left
              /\ PolicySpec[Head(left)].actions[1] # "refused" => new.good
              /\ new.at = now
<1> DEFINE kind == PolicySpec[Head(left)].actions[1]
           new == [status |-> IF kind = "throws" THEN "failed" ELSE "running",
                   left |-> left, acted |-> 1, good |-> TRUE /\ kind # "refused", at |-> now]
<1>1. calls' = [calls EXCEPT ![c] = new]
  BY DEF Act
<1>2. new \in Call
  BY DEF Call, TypeOK
<1>3. granted' \in [Calls \X Policies -> Nat]
  <2>1. Head(left) \in Policies /\ granted \in [Calls \X Policies -> Nat]
    BY DEF TypeOK
  <2>2. granted[<<c, Head(left)>>] + 1 \in Nat
    BY <2>1
  <2>3. granted' = granted \/ granted' = [granted EXCEPT ![<<c, Head(left)>>] = @ + 1]
    BY DEF Act
  <2> QED BY <2>1, <2>2, <2>3
<1> QED BY <1>1, <1>2, <1>3

\* What is left of the state's types when a call has moved.
LEMMA TypesKept ==
  ASSUME TypeOK, NEW c \in Calls, NEW new \in Call, calls' = [calls EXCEPT ![c] = new],
         new.status = "running" => new.left # <<>>,
         ResourceTypes(resources'), granted' \in [Calls \X Policies -> Nat],
         UNCHANGED <<now, killed, active>>
  PROVE  TypeOK'
<1>1. calls' \in [Calls -> Call]
  BY DEF TypeOK
<1>2. \A d \in Calls : calls'[d].status = "running" => calls'[d].left # <<>>
  BY DEF TypeOK
<1> QED BY <1>1, <1>2 DEF TypeOK, ResourceTypes

LEMMA DoneType ==
  [Waiting EXCEPT !.status = "done"] \in Call /\ [Waiting EXCEPT !.status = "done"].status = "done"
<1>1. <<>> \in Seq(Policies)
  OBVIOUS
<1> QED BY <1>1 DEF Waiting, Call

LEMMA RunNextKeeps ==
  ASSUME TypeOK, TurnsGoDown, NEW c \in Calls, NEW left \in Seq(Policies),
         NEW res, ResourceTypes(res), NEW held, HeldTypes(held), Agree(res, held),
         held \subseteq reservations,
         \A r \in reservations : r.call # c => r \in held,
         \A r \in held : r.call = c => r.turn > Len(left),
         RunNext(c, left, res, held), UNCHANGED <<now, killed, active>>
  PROVE  CountersInv'
<1>0. now \in Nat /\ calls \in [Calls -> Call]
  BY DEF TypeOK
<1>1. CASE left = <<>>
  <2> DEFINE new == [Waiting EXCEPT !.status = "done"]
  <2>1. /\ calls' = [calls EXCEPT ![c] = new]
        /\ resources' = res
        /\ reservations' = held
        /\ granted' = granted
    BY <1>1 DEF RunNext
  <2>2. new \in Call /\ new.status = "done"
    BY DoneType
  <2> HIDE DEF new
  <2>3. TypeOK'
    BY <2>1, <2>2, TypesKept DEF TypeOK
  <2>4. TurnsGoDown'
    <3>1. calls'[c].status = "done" /\ \A d \in Calls \ {c} : calls'[d] = calls[d]
      BY <1>0, <2>1, <2>2
    <3>2. \A r \in held : r.call \in Calls
      BY DEF HeldTypes
    <3>3. ASSUME NEW r \in reservations'
          PROVE  /\ calls'[r.call].status # "waiting"
                 /\ calls'[r.call].status = "running" => r.turn >= Len(calls'[r.call].left)
      BY <2>1, <3>1, <3>2 DEF TurnsGoDown
    <3>4. ASSUME NEW d \in Calls, calls'[d].status = "running"
          PROVE  Reservation(d, calls[d].left)' \in reservations'
      <4>1. d # c /\ calls'[d] = calls[d]
        BY <3>1, <3>4
      <4>2. Reservation(d, calls[d].left) \in reservations
        BY <3>4, <4>1 DEF TurnsGoDown
      <4>3. Reservation(d, calls[d].left)' = Reservation(d, calls[d].left)
        BY <4>1 DEF Reservation
      <4>4. Reservation(d, calls[d].left).call = d
        BY DEF Reservation
      <4> QED BY <2>1, <4>1, <4>2, <4>3, <4>4
    <3> QED BY <3>3, <3>4 DEF TurnsGoDown
  <2>5. HeldTypes(reservations)' /\ Agree(resources, reservations)'
    BY <2>1 DEF HeldTypes, Agree
  <2> QED BY <2>3, <2>4, <2>5 DEF CountersInv
<1>2. CASE left # <<>>
  <2> DEFINE p == Head(left)
             u == CallOf[c].userId
             r0 == [Reservation(c, left) EXCEPT !.at = now]
  <2>1. /\ resources' = Reserve(res, p, u)
        /\ reservations' = held \cup {r0}
        /\ Act(c, left, 1, TRUE, now)
    BY <1>2 DEF RunNext
  <2>2. p \in Policies /\ u \in Users /\ Len(left) \in Nat
    BY <1>2, DecisionAssumption
  <2>3. r0 = [call |-> c, policy |-> p, turn |-> Len(left), at |-> now]
    BY DEF Reservation
  <2>4. r0.call = c /\ r0.policy = p /\ r0.turn = Len(left) /\ r0.at = now
    BY <2>3
  <2> HIDE DEF p, u, r0
  <2>5. r0 \notin held
    BY <2>2, <2>4
  <2>6. granted' \in [Calls \X Policies -> Nat]
    BY <1>0, <1>2, <2>1, FirstAct
  <2>7. PICK new \in Call :
          /\ calls' = [calls EXCEPT ![c] = new]
          /\ new.status \in {"running", "failed"}
          /\ new.left = left
          /\ new.at = now
    BY <1>0, <1>2, <2>1, FirstAct
  <2>8. TypeOK'
    <3>1. ResourceTypes(resources')
      BY <1>0, <2>1, <2>2, ReserveTypes
    <3> QED BY <1>2, <2>6, <2>7, <3>1, TypesKept
  <2>9. Agree(resources', reservations')
    BY <2>1, <2>2, <2>4, <2>5, ReserveAgrees
  <2>10. HeldTypes(reservations')
    BY <1>0, <2>1, <2>2, <2>4, FS_AddElement DEF HeldTypes
  <2>11. TurnsGoDown'
    <3>1. calls'[c] = new /\ \A d \in Calls \ {c} : calls'[d] = calls[d]
      BY <1>0, <2>7
    <3>2. ASSUME NEW r \in reservations'
          PROVE  /\ calls'[r.call].status # "waiting"
                 /\ calls'[r.call].status = "running" => r.turn >= Len(calls'[r.call].left)
      <4>1. r.call \in Calls /\ r.turn \in Nat
        BY <2>10 DEF HeldTypes
      <4>2. CASE r.call = c
        <5>1. r.turn >= Len(left)
          BY <2>1, <2>2, <2>4, <4>1, <4>2
        <5> QED BY <2>7, <3>1, <4>2, <5>1
      <4>3. CASE r.call # c
        <5>1. r \in reservations /\ calls'[r.call] = calls[r.call]
          BY <2>1, <2>4, <3>1, <4>1, <4>3
        <5> QED BY <5>1 DEF TurnsGoDown
      <4> QED BY <4>2, <4>3
    <3>3. ASSUME NEW d \in Calls, calls'[d].status = "running"
          PROVE  Reservation(d, calls[d].left)' \in reservations'
      <4>1. CASE d = c
        <5>1. Reservation(d, calls[d].left)' = [call |-> c, policy |-> p, turn |-> Len(left), at |-> now]
          BY <2>7, <3>1, <4>1 DEF Reservation, p
        <5> QED BY <2>1, <2>3, <5>1
      <4>2. CASE d # c
        <5>1. calls'[d] = calls[d]
          BY <3>1, <4>2
        <5>2. Reservation(d, calls[d].left) \in reservations
          BY <3>3, <5>1 DEF TurnsGoDown
        <5>3. Reservation(d, calls[d].left)' = Reservation(d, calls[d].left)
          BY <5>1 DEF Reservation
        <5>4. Reservation(d, calls[d].left).call = d
          BY DEF Reservation
        <5> QED BY <2>1, <4>2, <5>2, <5>3, <5>4
      <4> QED BY <4>1, <4>2
    <3> QED BY <3>2, <3>3 DEF TurnsGoDown
  <2> QED BY <2>8, <2>9, <2>10, <2>11 DEF CountersInv, HeldTypes, Agree, OnPool, OfSku, Charged, Units
<1> QED BY <1>1, <1>2

-----------------------------------------------------------------------------
(***************************************************************************)
(* The counters' invariant, action by action.                              *)
(***************************************************************************)
LEMMA DecideKeeps ==
  ASSUME CountersInv, NEW c \in Calls, Decide(c)
  PROVE  CountersInv'
<1> DEFINE left == Winners(Candidates(c))
<1>1. left \in Seq(Policies)
  BY ChosenType
<1>2. /\ calls[c].status = "waiting"
      /\ RunNext(c, left, resources, reservations)
      /\ UNCHANGED <<now, killed, active>>
  BY DEF Decide
<1> HIDE DEF left
<1>3. \A r \in reservations : r.call # c
  BY <1>2 DEF CountersInv, TurnsGoDown
<1>4. ResourceTypes(resources)
  BY DEF CountersInv, TypeOK, ResourceTypes
<1> QED BY <1>1, <1>2, <1>3, <1>4, RunNextKeeps DEF CountersInv

LEMMA ContinueKeeps ==
  ASSUME CountersInv, NEW c \in Calls, Continue(c)
  PROVE  CountersInv'
<1> DEFINE call == calls[c]
           left == call.left
<1>1. /\ call.status = "running" /\ call \in Call
      /\ left \in Seq(Policies) /\ left # <<>>
      /\ Act(c, left, call.acted + 1, call.good, call.at)
      /\ call.acted + 1 \in Nat /\ call.good \in BOOLEAN /\ call.at \in Nat
      /\ UNCHANGED <<now, killed, active, resources, reservations>>
  BY DEF Continue, CountersInv, TypeOK, Call
<1>2. TypeOK
  BY DEF CountersInv
<1> HIDE DEF call, left
<1>3. granted' \in [Calls \X Policies -> Nat]
  BY <1>1, <1>2, ActShape
<1>4. PICK new \in Call :
        /\ calls' = [calls EXCEPT ![c] = new]
        /\ new.status \in {"running", "failed"}
        /\ new.left = left
        /\ new.at = call.at
  BY <1>1, <1>2, ActShape
<1>5. TypeOK'
  <2>1. ResourceTypes(resources')
    BY <1>1, <1>2 DEF TypeOK, ResourceTypes
  <2> QED BY <1>1, <1>2, <1>3, <1>4, <2>1, TypesKept
<1>6. HeldTypes(reservations') /\ Agree(resources', reservations')
  BY <1>1 DEF CountersInv
<1>7. calls'[c] = new /\ \A d \in Calls \ {c} : calls'[d] = calls[d]
  BY <1>2, <1>4 DEF TypeOK
<1>8. ASSUME NEW r \in reservations'
      PROVE  /\ calls'[r.call].status # "waiting"
             /\ calls'[r.call].status = "running" => r.turn >= Len(calls'[r.call].left)
  <2>1. r \in reservations /\ r.call \in Calls
    BY <1>1 DEF CountersInv, HeldTypes
  <2> QED BY <1>1, <1>4, <1>7, <2>1 DEF CountersInv, TurnsGoDown, call, left
<1>9. ASSUME NEW d \in Calls, calls'[d].status = "running"
      PROVE  Reservation(d, calls[d].left)' \in reservations'
  <2>1. calls[d].status = "running" /\ calls'[d].left = calls[d].left /\ calls'[d].at = calls[d].at
    BY <1>1, <1>4, <1>7, <1>9 DEF call, left
  <2>2. Reservation(d, calls[d].left)' = Reservation(d, calls[d].left)
    BY <2>1 DEF Reservation
  <2> QED BY <1>1, <2>1, <2>2 DEF CountersInv, TurnsGoDown
<1> QED BY <1>5, <1>6, <1>8, <1>9 DEF CountersInv, TurnsGoDown, HeldTypes, Agree, OnPool, OfSku,
                                       Charged, Units

LEMMA SettleKeeps ==
  ASSUME CountersInv, NEW c \in Calls, Settle(c)
  PROVE  CountersInv'
<1> DEFINE left == calls[c].left
           p == Head(left)
           r == Reservation(c, left)
           u == CallOf[c].userId
<1>1. /\ calls[c].status = "running" /\ left \in Seq(Policies) /\ left # <<>>
      /\ UNCHANGED <<now, killed, active>>
  BY DEF Settle, CountersInv, TypeOK, Call
<1>2. \/ RunNext(c, Tail(left), resources, reservations)
      \/ RunNext(c, Tail(left), Release(resources, p, u, calls[c].at), reservations \ {r})
  BY DEF Settle
<1>3. r \in reservations /\ r.call = c /\ r.policy = p /\ r.turn = Len(left)
  BY <1>1 DEF CountersInv, TurnsGoDown, Reservation
<1>4. /\ TypeOK /\ TurnsGoDown
      /\ HeldTypes(reservations) /\ Agree(resources, reservations) /\ ResourceTypes(resources)
  BY DEF CountersInv, TypeOK, ResourceTypes
<1>5. p \in Policies /\ u \in Users
  BY <1>1, DecisionAssumption
<1>6. /\ Tail(left) \in Seq(Policies)
      /\ Len(Tail(left)) < Len(left) /\ Len(left) \in Nat /\ Len(Tail(left)) \in Nat
  BY <1>1
<1>7. \A x \in reservations : x.call = c => x.turn > Len(Tail(left))
  <2> SUFFICES ASSUME NEW x \in reservations, x.call = c
               PROVE  x.turn > Len(Tail(left))
    OBVIOUS
  <2>1. x.turn \in Nat
    BY <1>4 DEF HeldTypes
  <2>2. x.turn >= Len(left)
    BY <1>1, <1>4 DEF TurnsGoDown
  <2> HIDE DEF left
  <2> QED BY <1>6, <2>1, <2>2
<1> DEFINE at == calls[c].at
           rest == Tail(left)
<1> HIDE DEF left, p, r, u, at, rest
<1>8. CASE RunNext(c, rest, resources, reservations)
  BY <1>1, <1>4, <1>6, <1>7, <1>8, RunNextKeeps DEF rest
<1>9. CASE RunNext(c, rest, Release(resources, p, u, at), reservations \ {r})
  <2>1. ResourceTypes(Release(resources, p, u, at))
    BY <1>4, <1>5, ReleaseTypes
  <2>2. Agree(Release(resources, p, u, at), reservations \ {r})
    BY <1>3, <1>4, ReleaseAgrees
  <2>3. HeldTypes(reservations \ {r})
    BY <1>4, FS_RemoveElement DEF HeldTypes
  <2>4. /\ reservations \ {r} \subseteq reservations
        /\ \A x \in reservations : x.call # c => x \in reservations \ {r}
        /\ \A x \in reservations \ {r} : x.call = c => x.turn > Len(rest)
    BY <1>3, <1>7 DEF rest
  <2> QED BY <1>1, <1>4, <1>6, <1>9, <2>1, <2>2, <2>3, <2>4, RunNextKeeps DEF rest
<1> QED BY <1>2, <1>8, <1>9 DEF at, rest

LEMMA CountersInvariance == Spec => []CountersInv
<1>1. Init => CountersInv
  <2> SUFFICES ASSUME Init PROVE CountersInv
    OBVIOUS
  <2>1. TypeOK
    <3>1. resources.budget \in [Pools -> BudgetState]
      BY DecisionAssumption DEF Init, NoResources, FreshBudget, BudgetState
    <3>2. DOMAIN resources.inventory = {}
      BY DEF Init, NoResources
    <3>3. <<>> \in Seq(Nat) /\ <<>> \in Seq(Policies)
      OBVIOUS
    <3>4. resources.frequency \in [Policies \X Users -> Seq(Nat)]
      BY <3>3 DEF Init, NoResources
    <3>5. calls \in [Calls -> Call] /\ \A c \in Calls : calls[c].status = "waiting"
      BY <3>3 DEF Init, Waiting, Call
    <3>6. granted \in [Calls \X Policies -> Nat]
      BY DEF Init
    <3>7. now \in Nat /\ killed \in BOOLEAN /\ active \subseteq Policies
      BY DEF Init
    <3> QED BY <3>1, <3>2, <3>4, <3>5, <3>6, <3>7 DEF TypeOK
  <2>2. HeldTypes(reservations) /\ reservations = {}
    BY FS_EmptySet DEF Init, HeldTypes
  <2>3. Agree(resources, reservations)
    <3>1. \A pool \in Pools : resources.budget[pool].used = 0
      BY DEF Init, NoResources, FreshBudget
    <3>2. DOMAIN resources.inventory = {}
      BY DEF Init, NoResources
    <3>3. \A pool : OnPool(reservations, pool) = {}
      BY <2>2 DEF OnPool
    <3>4. Charged({}) = 0
      BY SumEmpty DEF Charged
    <3> QED BY <2>2, <3>1, <3>2, <3>3, <3>4 DEF Agree
  <2>4. TurnsGoDown
    BY <2>2 DEF TurnsGoDown, Init, Waiting
  <2> QED BY <2>1, <2>2, <2>3, <2>4 DEF CountersInv
<1>2. CountersInv /\ [Next]_vars => CountersInv'
  <2> SUFFICES ASSUME CountersInv, [Next]_vars PROVE CountersInv'
    OBVIOUS
  <2>1. CASE \E c \in Calls : Decide(c) \/ Continue(c) \/ Settle(c)
    BY <2>1, DecideKeeps, ContinueKeeps, SettleKeeps
  <2>2. CASE (\E p \in Policies : SetActive(p)) \/ SetKillSwitch \/ Tick \/ UNCHANGED vars
    <3>1. UNCHANGED <<resources, granted, calls, reservations>>
      BY <2>2 DEF SetActive, SetKillSwitch, Tick, vars
    <3>2. now' \in Nat /\ killed' \in BOOLEAN /\ active' \subseteq Policies
      <4>1. now \in Nat /\ killed \in BOOLEAN /\ active \subseteq Policies
        BY DEF CountersInv, TypeOK
      <4>2. CASE \E p \in Policies : SetActive(p)
        BY <4>1, <4>2 DEF SetActive
      <4>3. CASE SetKillSwitch
        BY <4>1, <4>3 DEF SetKillSwitch
      <4>4. CASE Tick
        BY <4>1, <4>4 DEF Tick
      <4>5. CASE UNCHANGED vars
        BY <4>1, <4>5 DEF vars
      <4> QED BY <2>2, <4>2, <4>3, <4>4, <4>5
    <3>3. TypeOK'
      BY <3>1, <3>2 DEF CountersInv, TypeOK
    <3> QED BY <3>1, <3>3 DEF CountersInv, TurnsGoDown, Reservation, HeldTypes, Agree, OnPool,
                              OfSku, Charged, Units
  <2> QED BY <2>1, <2>2 DEF Next
<1> QED BY <1>1, <1>2, PTL DEF Spec

-----------------------------------------------------------------------------
(***************************************************************************)
(* Grants: where they come from, and what is given back.                   *)
(***************************************************************************)
\* A step that grants runs a giving action of a policy that holds a reservation, and
\* a wallet grant has its ledger key taken by the same step.
Grants(c, p, i) ==
  /\ granted' = [granted EXCEPT ![<<c, p>>] = @ + 1]
  /\ PolicySpec[p].actions[i] \in Giving
  /\ PolicySpec[p].actions[i] = "wallet" => Key(c, p) \notin ledgerKeys /\ Key(c, p) \in ledgerKeys'
  /\ \E r \in reservations' : r.call = c /\ r.policy = p

LEMMA ActGrants ==
  ASSUME NEW c \in Calls, NEW left \in Seq(Policies), left # <<>>, NEW acted, NEW good, NEW at,
         Act(c, left, acted, good, at), acted \in DOMAIN PolicySpec[Head(left)].actions,
         \E r \in reservations' : r.call = c /\ r.policy = Head(left)
  PROVE  /\ ledgerKeys \subseteq ledgerKeys'
         /\ \/ granted' = granted
            \/ \E p \in Policies : \E i \in DOMAIN PolicySpec[p].actions : Grants(c, p, i)
<1> DEFINE p == Head(left)
           kind == PolicySpec[p].actions[acted]
<1>1. /\ granted' = IF Pays(c, p, kind) THEN [granted EXCEPT ![<<c, p>>] = @ + 1] ELSE granted
      /\ ledgerKeys' = IF kind = "wallet" THEN ledgerKeys \cup {Key(c, p)} ELSE ledgerKeys
  BY DEF Act
<1>2. p \in Policies
  OBVIOUS
<1>3. CASE Pays(c, p, kind)
  <2>1. kind \in Giving /\ (kind = "wallet" => Key(c, p) \notin ledgerKeys)
    BY <1>3 DEF Pays, Giving
  <2>2. Grants(c, p, acted)
    BY <1>1, <1>3, <2>1 DEF Grants
  <2> QED BY <1>1, <1>2, <2>2
<1>4. CASE ~Pays(c, p, kind)
  BY <1>1, <1>4
<1> QED BY <1>3, <1>4

LEMMA RunNextGrants ==
  ASSUME NEW c \in Calls, NEW left \in Seq(Policies), NEW res, NEW held,
         RunNext(c, left, res, held)
  PROVE  /\ ledgerKeys \subseteq ledgerKeys'
         /\ held \subseteq reservations'
         /\ \/ granted' = granted
            \/ \E p \in Policies : \E i \in DOMAIN PolicySpec[p].actions : Grants(c, p, i)
<1>1. CASE left = <<>>
  BY <1>1 DEF RunNext
<1>2. CASE left # <<>>
  <2> DEFINE r == [Reservation(c, left) EXCEPT !.at = now]
  <2>1. /\ reservations' = held \cup {r}
        /\ Act(c, left, 1, TRUE, now)
    BY <1>2 DEF RunNext
  <2>2. r.call = c /\ r.policy = Head(left)
    BY DEF Reservation
  <2>3. 1 \in DOMAIN PolicySpec[Head(left)].actions
    <3>1. Head(left) \in Policies
      BY <1>2
    <3>2. PolicySpec[Head(left)].actions \in Seq(ActionKinds) /\ PolicySpec[Head(left)].actions # <<>>
      BY <3>1, SpecTypes
    <3> QED BY <3>2
  <2>4. r \in reservations' /\ held \subseteq reservations'
    BY <2>1
  <2> HIDE DEF r
  <2> QED BY <1>2, <2>1, <2>2, <2>3, <2>4, ActGrants
<1> QED BY <1>1, <1>2

\* The winner of c that runs has refused.
Refuses(c) == calls[c].status = "running" /\ ~calls[c].good

LEMMA StepGrants ==
  ASSUME CountersInv, Next
  PROVE  /\ ledgerKeys \subseteq ledgerKeys'
         /\ \/ granted' = granted
            \/ \E c \in Calls, p \in Policies :
                 \E i \in DOMAIN PolicySpec[p].actions : Grants(c, p, i)
         /\ \A r \in reservations \ reservations' :
              Refuses(r.call) /\ r.policy = Head(calls[r.call].left)
<1>1. CASE \E c \in Calls : Decide(c)
  <2>1. PICK c \in Calls : Decide(c)
    BY <1>1
  <2>2. Winners(Candidates(c)) \in Seq(Policies)
    BY ChosenType
  <2> QED BY <2>1, <2>2, RunNextGrants DEF Decide
<1>2. CASE \E c \in Calls : Continue(c)
  <2>1. PICK c \in Calls : Continue(c)
    BY <1>2
  <2> DEFINE left == calls[c].left
             acted == calls[c].acted + 1
             good == calls[c].good
             at == calls[c].at
             p == Head(left)
  <2>2. /\ calls[c].status = "running" /\ left \in Seq(Policies) /\ left # <<>>
        /\ Act(c, left, acted, good, at)
        /\ calls[c].acted \in Nat /\ calls[c].acted < Len(PolicySpec[p].actions)
        /\ reservations' = reservations
    BY <2>1 DEF Continue, CountersInv, TypeOK, Call
  <2>3. acted \in DOMAIN PolicySpec[p].actions
    <3>1. p \in Policies
      BY <2>2
    <3>2. PolicySpec[p].actions \in Seq(ActionKinds)
      BY <3>1, SpecTypes
    <3> HIDE DEF p
    <3> QED BY <2>2, <3>2
  <2>4. \E r \in reservations' : r.call = c /\ r.policy = p
    <3>1. Reservation(c, left) \in reservations
      BY <2>2 DEF CountersInv, TurnsGoDown
    <3>2. Reservation(c, left).call = c /\ Reservation(c, left).policy = p
      BY DEF Reservation
    <3> QED BY <2>2, <3>1, <3>2
  <2> HIDE DEF left, acted, good, at
  <2> QED BY <2>2, <2>3, <2>4, ActGrants
<1>3. CASE \E c \in Calls : Settle(c)
  <2>1. PICK c \in Calls : Settle(c)
    BY <1>3
  <2> DEFINE left == calls[c].left
             rest == Tail(left)
             r == Reservation(c, left)
             back == Release(resources, Head(left), CallOf[c].userId, calls[c].at)
  <2>2. /\ calls[c].status = "running" /\ left \in Seq(Policies) /\ left # <<>>
        /\ \/ RunNext(c, rest, resources, reservations)
           \/ ~calls[c].good /\ RunNext(c, rest, back, reservations \ {r})
    BY <2>1 DEF Settle, CountersInv, TypeOK, Call
  <2>3. rest \in Seq(Policies) /\ r.call = c /\ r.policy = Head(left)
    BY <2>2 DEF Reservation
  <2> HIDE DEF rest, r, back
  <2>4. CASE RunNext(c, rest, resources, reservations)
    BY <2>3, <2>4, RunNextGrants
  <2>5. CASE ~calls[c].good /\ RunNext(c, rest, back, reservations \ {r})
    <3>1. /\ ledgerKeys \subseteq ledgerKeys'
          /\ reservations \ {r} \subseteq reservations'
          /\ \/ granted' = granted
             \/ \E p \in Policies : \E i \in DOMAIN PolicySpec[p].actions : Grants(c, p, i)
      BY <2>3, <2>5, RunNextGrants
    <3>2. \A x \in reservations \ reservations' : x = r
      BY <3>1
    <3>3. Refuses(c)
      BY <2>2, <2>5 DEF Refuses
    <3> QED BY <2>3, <3>1, <3>2, <3>3
  <2> QED BY <2>2, <2>4, <2>5
<1>4. CASE (\E p \in Policies : SetActive(p)) \/ SetKillSwitch \/ Tick
  BY <1>4 DEF SetActive, SetKillSwitch, Tick
<1> QED BY <1>1, <1>2, <1>3, <1>4 DEF Next

-----------------------------------------------------------------------------
(***************************************************************************)
(* Deduplication.                                                          *)
(***************************************************************************)
NoFragments(p) == \A i \in DOMAIN PolicySpec[p].actions : PolicySpec[p].actions[i] # "fragment"

\* A wallet grant is made once, has its ledger key taken, and no other call of the
\* event has made it.
Deduplicated ==
  \A c \in Calls, p \in Policies : NoFragments(p) /\ granted[<<c, p>>] > 0 =>
    /\ granted[<<c, p>>] = 1
    /\ Key(c, p) \in ledgerKeys
    /\ \A d \in Calls : d # c /\ CallOf[d].eventId = CallOf[c].eventId => granted[<<d, p>>] = 0

LEMMA DeduplicatedKept ==
  ASSUME CountersInv, Deduplicated, Next
  PROVE  Deduplicated'
<1>1. granted \in [Calls \X Policies -> Nat]
  BY DEF CountersInv, TypeOK
<1>2. CASE granted' = granted
  BY <1>2, StepGrants DEF Deduplicated, Key
<1>3. CASE granted' # granted
  <2>1. PICK c \in Calls, p \in Policies :
               \E i \in DOMAIN PolicySpec[p].actions : Grants(c, p, i)
    BY <1>3, StepGrants
  <2>2. PICK i \in DOMAIN PolicySpec[p].actions : Grants(c, p, i)
    BY <2>1
  <2>3. /\ granted'[<<c, p>>] = granted[<<c, p>>] + 1
        /\ \A d \in Calls, q \in Policies : <<d, q>> # <<c, p>> =>
             granted'[<<d, q>>] = granted[<<d, q>>]
    BY <1>1, <2>2 DEF Grants
  <2> SUFFICES ASSUME NEW d \in Calls, NEW q \in Policies,
                      NoFragments(q), granted'[<<d, q>>] > 0
               PROVE  /\ granted'[<<d, q>>] = 1
                      /\ Key(d, q) \in ledgerKeys'
                      /\ \A e \in Calls : e # d /\ CallOf[e].eventId = CallOf[d].eventId =>
                           granted'[<<e, q>>] = 0
    BY DEF Deduplicated, Key
  <2>4. ledgerKeys \subseteq ledgerKeys'
    BY StepGrants
  <2>5. CASE q # p
    <3>1. \A e \in Calls : granted'[<<e, q>>] = granted[<<e, q>>]
      BY <2>3, <2>5
    <3> QED BY <2>4, <3>1 DEF Deduplicated
  <2>6. CASE q = p
    <3>1. PolicySpec[p].actions[i] = "wallet"
      BY <2>2, <2>6 DEF Grants, Giving, NoFragments
    <3>2. Key(c, p) \notin ledgerKeys /\ Key(c, p) \in ledgerKeys'
      BY <2>2, <3>1 DEF Grants
    <3>3. ASSUME NEW e \in Calls, CallOf[e].eventId = CallOf[c].eventId
          PROVE  granted[<<e, p>>] = 0
      <4>1. Key(e, p) = Key(c, p)
        BY <3>3 DEF Key
      <4>2. ~(granted[<<e, p>>] > 0)
        BY <2>6, <3>2, <4>1 DEF Deduplicated
      <4>3. granted[<<e, p>>] \in Nat
        BY <1>1
      <4> QED BY <4>2, <4>3
    <3>4. CASE d = c
      BY <2>3, <2>6, <3>2, <3>3, <3>4
    <3>5. CASE d # c
      <4>1. granted[<<d, p>>] > 0 /\ granted'[<<d, p>>] = granted[<<d, p>>]
        BY <2>3, <2>6, <3>5
      <4>2. CallOf[d].eventId # CallOf[c].eventId
        BY <3>3, <4>1
      <4>3. \A e \in Calls : CallOf[e].eventId = CallOf[d].eventId =>
              granted'[<<e, p>>] = granted[<<e, p>>]
        BY <2>3, <4>2
      <4> QED BY <2>4, <2>6, <4>1, <4>3 DEF Deduplicated
    <3> QED BY <3>4, <3>5
  <2> QED BY <2>5, <2>6
<1> QED BY <1>2, <1>3

\* A sum with at most one value that is not zero, and that at most one.
LEMMA OnlyOneCounts ==
  ASSUME NEW f, NEW S, IsFiniteSet(S), \A x \in S : f[x] \in Nat /\ f[x] <= 1,
         \A x, y \in S : x # y /\ f[x] > 0 => f[y] = 0
  PROVE  SumFunctionOnSet(f, S) <= 1
<1>1. CASE \A x \in S : f[x] = 0
  <2>1. SumFunctionOnSet(f, S) = 0
    BY <1>1, SumZero
  <2> QED BY <2>1
<1>2. CASE \E x \in S : f[x] # 0
  <2>1. PICK x \in S : f[x] # 0
    BY <1>2
  <2>2. SumFunctionOnSet(f, S) = f[x] + SumFunctionOnSet(f, S \ {x})
    BY SumTakesOut DEF IntegersOn
  <2>3. \A y \in S \ {x} : f[y] = 0
    BY <2>1
  <2>4. IsFiniteSet(S \ {x})
    BY FS_RemoveElement
  <2>5. SumFunctionOnSet(f, S \ {x}) = 0
    BY <2>3, <2>4, SumZero
  <2> QED BY <2>2, <2>5
<1> QED BY <1>1, <1>2

LEMMA DeduplicatedCounts ==
  ASSUME granted \in [Calls \X Policies -> Nat], Deduplicated
  PROVE  GrantedOnce
<1> SUFFICES ASSUME NEW c \in Calls, NEW p \in Policies, NoFragments(p)
             PROVE  SumFunctionOnSet([d \in Calls |-> granted[<<d, p>>]],
                                     {d \in Calls : CallOf[d].eventId = CallOf[c].eventId}) <= 1
  BY DEF GrantedOnce, NoFragments
<1> DEFINE f == [d \in Calls |-> granted[<<d, p>>]]
           S == {d \in Calls : CallOf[d].eventId = CallOf[c].eventId}
<1>1. IsFiniteSet(S)
  BY FS_Subset, DecisionAssumption
<1>2. \A d \in S : f[d] \in Nat /\ f[d] <= 1
  BY DEF Deduplicated
<1>3. \A d, e \in S : d # e /\ f[d] > 0 => f[e] = 0
  BY DEF Deduplicated
<1> HIDE DEF f, S
<1>4. SumFunctionOnSet(f, S) <= 1
  BY <1>1, <1>2, <1>3, OnlyOneCounts
<1> QED BY <1>4 DEF f, S

LEMMA DeduplicatedInvariance == Spec => []Deduplicated
<1>1. Init => Deduplicated
  BY DEF Init, Deduplicated
<1>2. CountersInv /\ Deduplicated /\ [Next]_vars => Deduplicated'
  <2> SUFFICES ASSUME CountersInv, Deduplicated, [Next]_vars PROVE Deduplicated'
    OBVIOUS
  <2>1. CASE UNCHANGED vars
    BY <2>1 DEF vars, Deduplicated, Key
  <2> QED BY <2>1, DeduplicatedKept
<1> QED BY <1>1, <1>2, CountersInvariance, PTL DEF Spec

-----------------------------------------------------------------------------
(***************************************************************************)
(* Charging.                                                               *)
(***************************************************************************)
RefusalsOwn == \A c \in Calls : Refuses(c) => MayRefuse(Head(calls[c].left))

GrantsInv ==
  /\ RefusalsOwn
  /\ GrantsAreCharged

LEMMA RefusalsKept ==
  ASSUME CountersInv, Next, RefusalsOwn
  PROVE  RefusalsOwn'
<1> SUFFICES \A c \in Calls : Refuses(c)' => MayRefuse(Head(calls[c].left))'
  BY DEF RefusalsOwn
<1> USE DEF RefusalsOwn
<1>0. TypeOK
  BY DEF CountersInv
<1>1. ASSUME NEW c \in Calls, NEW left \in Seq(Policies), NEW res, NEW held,
             RunNext(c, left, res, held)
      PROVE  \A d \in Calls : Refuses(d)' => MayRefuse(Head(calls[d].left))'
  <2>1. CASE left = <<>>
    <3>1. calls' = [calls EXCEPT ![c] = [Waiting EXCEPT !.status = "done"]]
      BY <1>1, <2>1 DEF RunNext
    <3> QED BY <1>0, <3>1, DoneType DEF Refuses, TypeOK
  <2>2. CASE left # <<>>
    <3>1. Act(c, left, 1, TRUE, now)
      BY <1>1, <2>2 DEF RunNext
    <3>2. PICK new \in Call :
            /\ calls' = [calls EXCEPT ![c] = new]
            /\ new.left = left
            /\ PolicySpec[Head(left)].actions[1] # "refused" => new.good
      BY <1>0, <2>2, <3>1, FirstAct
    <3>3. 1 \in DOMAIN PolicySpec[Head(left)].actions
      <4>1. Head(left) \in Policies
        BY <2>2
      <4>2. PolicySpec[Head(left)].actions \in Seq(ActionKinds) /\ PolicySpec[Head(left)].actions # <<>>
        BY <4>1, SpecTypes
      <4> QED BY <4>2
    <3>4. calls'[c] = new /\ \A d \in Calls \ {c} : calls'[d] = calls[d]
      BY <1>0, <3>2 DEF TypeOK
    <3> QED BY <3>2, <3>3, <3>4 DEF Refuses, MayRefuse
  <2> QED BY <2>1, <2>2
<1>2. CASE \E c \in Calls : Decide(c)
  <2>1. PICK c \in Calls : Decide(c)
    BY <1>2
  <2>2. Winners(Candidates(c)) \in Seq(Policies)
    BY ChosenType
  <2> QED BY <1>1, <2>1, <2>2 DEF Decide
<1>3. CASE \E c \in Calls : Settle(c)
  <2>1. PICK c \in Calls : Settle(c)
    BY <1>3
  <2>2. Tail(calls[c].left) \in Seq(Policies)
    BY <2>1 DEF Settle, CountersInv, TypeOK, Call
  <2> QED BY <1>1, <2>1, <2>2 DEF Settle
<1>4. CASE \E c \in Calls : Continue(c)
  <2>1. PICK c \in Calls : Continue(c)
    BY <1>4
  <2> DEFINE left == calls[c].left
             acted == calls[c].acted + 1
             good == calls[c].good
             at == calls[c].at
  <2>2. /\ calls[c].status = "running" /\ left \in Seq(Policies) /\ left # <<>>
        /\ Act(c, left, acted, good, at)
        /\ calls[c].acted \in Nat /\ acted \in Nat /\ good \in BOOLEAN /\ at \in Nat
        /\ calls[c].acted < Len(PolicySpec[Head(left)].actions)
    BY <2>1 DEF Continue, CountersInv, TypeOK, Call
  <2>3. acted \in DOMAIN PolicySpec[Head(left)].actions
    <3>1. Head(left) \in Policies
      BY <2>2
    <3>2. PolicySpec[Head(left)].actions \in Seq(ActionKinds)
      BY <3>1, SpecTypes
    <3> QED BY <2>2, <3>2
  <2> HIDE DEF left, acted, good, at
  <2>4. PICK new \in Call :
          /\ calls' = [calls EXCEPT ![c] = new]
          /\ new.left = left
          /\ good /\ PolicySpec[Head(left)].actions[acted] # "refused" => new.good
    BY <1>0, <2>2, ActShape
  <2>5. calls'[c] = new /\ \A d \in Calls \ {c} : calls'[d] = calls[d]
    BY <1>0, <2>4 DEF TypeOK
  <2>6. Refuses(c)' => MayRefuse(Head(left))
    <3>1. Refuses(c)' => ~good \/ PolicySpec[Head(left)].actions[acted] = "refused"
      BY <2>4, <2>5 DEF Refuses
    <3>2. ~good => MayRefuse(Head(left))
      BY <2>2 DEF Refuses, good, left
    <3> QED BY <2>3, <3>1, <3>2 DEF MayRefuse
  <2> QED BY <2>4, <2>5, <2>6 DEF Refuses, MayRefuse
<1>5. CASE (\E p \in Policies : SetActive(p)) \/ SetKillSwitch \/ Tick
  BY <1>5 DEF SetActive, SetKillSwitch, Tick, Refuses, MayRefuse
<1> QED BY <1>2, <1>3, <1>4, <1>5 DEF Next

LEMMA GrantsKept ==
  ASSUME CountersInv, GrantsInv, Next
  PROVE  GrantsInv'
<1>1. granted \in [Calls \X Policies -> Nat]
  BY DEF CountersInv, TypeOK
<1>2. RefusalsOwn'
  BY RefusalsKept DEF GrantsInv
<1>3. ASSUME NEW c \in Calls, NEW p \in Policies, granted'[<<c, p>>] > 0, ~MayRefuse(p)
      PROVE  \E r \in reservations' : r.call = c /\ r.policy = p
  <2>1. CASE granted[<<c, p>>] > 0
    <3>1. PICK r \in reservations : r.call = c /\ r.policy = p
      BY <1>3, <2>1 DEF GrantsInv, GrantsAreCharged
    <3>2. r \in reservations'
      <4>1. r \notin reservations' => Refuses(c) /\ p = Head(calls[c].left)
        BY <3>1, StepGrants
      <4> QED BY <1>3, <4>1 DEF GrantsInv, RefusalsOwn
    <3> QED BY <3>1, <3>2
  <2>2. CASE ~(granted[<<c, p>>] > 0)
    <3>1. granted' # granted
      BY <1>3, <2>2
    <3>2. PICK d \in Calls, q \in Policies :
                 \E i \in DOMAIN PolicySpec[q].actions : Grants(d, q, i)
      BY <3>1, StepGrants
    <3>3. PICK i \in DOMAIN PolicySpec[q].actions : Grants(d, q, i)
      BY <3>2
    <3>4. d = c /\ q = p
      BY <1>1, <1>3, <2>2, <3>3 DEF Grants
    <3> QED BY <3>3, <3>4 DEF Grants
  <2> QED BY <2>1, <2>2
<1> QED BY <1>2, <1>3 DEF GrantsInv, GrantsAreCharged, MayRefuse

LEMMA GrantsInvariance == Spec => []GrantsInv
<1>1. Init => GrantsInv
  BY DEF Init, GrantsInv, RefusalsOwn, GrantsAreCharged, Refuses, Waiting
<1>2. CountersInv /\ GrantsInv /\ [Next]_vars => GrantsInv'
  <2> SUFFICES ASSUME CountersInv, GrantsInv, [Next]_vars PROVE GrantsInv'
    OBVIOUS
  <2>1. CASE UNCHANGED vars
    BY <2>1 DEF vars, GrantsInv, RefusalsOwn, GrantsAreCharged, Refuses, MayRefuse
  <2> QED BY <2>1, GrantsKept
<1> QED BY <1>1, <1>2, CountersInvariance, PTL DEF Spec

-----------------------------------------------------------------------------
(***************************************************************************)
(* The books, whatever the policies: which caps, markers and minutes are   *)
(* on record next to what is held.                                         *)
(***************************************************************************)
\* A cap on record is that of some policy that draws on the inventory.
CapsOnRecord(res) ==
  \A sku \in DOMAIN res.inventory : \E q \in Policies :
    PolicySpec[q].sku = sku /\ res.inventory[sku].hardCap = PolicySpec[q].maxUnits

HeldSince(held, p, u, t) ==
  {r \in held : r.policy = p /\ CallOf[r.call].userId = u /\ r.at > t}

MarkedSince(markers, t) == {i \in DOMAIN markers : markers[i] > t}

\* A release takes every marker of its instant, other calls' included: a policy that
\* never refuses has a marker of each of its reservations.
MarkersKept(res, held) ==
  \A p \in Policies, u \in Users, t \in Int : PolicySpec[p].daily > 0 /\ ~MayRefuse(p) =>
    Cardinality(HeldSince(held, p, u, t))
      <= Cardinality(MarkedSince(res.frequency[<<p, u>>], t))

\* What is held on a pool from t on.
From(held, pool, t) == {r \in OnPool(held, pool) : r.at >= t}

\* At time t, the minute of a pool that began at start and has spent that much: nothing
\* was reserved after its end, and all since its start is its spending.
Minutes(held, pool, start, spent, t) ==
  /\ start <= t
  /\ \A r \in OnPool(held, pool) : r.at < start + Minute
  /\ spent = Charged(From(held, pool, start))

MinutesKept(res, held, t) ==
  \A pool \in OneWayPools :
    Minutes(held, pool, res.budget[pool].minuteWindowStart, res.budget[pool].minuteSpent, t)

Books(res, held, t) == CapsOnRecord(res) /\ MarkersKept(res, held) /\ MinutesKept(res, held, t)

\* When the minute began that a reservation made at t counts in.
MinuteStart(b, t) == IF t - b.minuteWindowStart < Minute THEN b.minuteWindowStart ELSE t

MinuteStarts(res, t) == [pool \in Pools |-> MinuteStart(res.budget[pool], t)]

LEMMA MarkedType ==
  ASSUME NEW markers \in Seq(Nat), NEW t
  PROVE  IsFiniteSet(MarkedSince(markers, t)) /\ Cardinality(MarkedSince(markers, t)) \in Nat
<1>1. Len(markers) \in Nat /\ DOMAIN markers = 1 .. Len(markers)
  OBVIOUS
<1>2. IsFiniteSet(1 .. Len(markers))
  <2>1. 1 \in Int /\ Len(markers) \in Int
    BY <1>1
  <2> QED BY <2>1, FS_Interval
<1>3. MarkedSince(markers, t) \subseteq 1 .. Len(markers)
  BY <1>1 DEF MarkedSince
<1> QED BY <1>2, <1>3, FS_Subset, FS_CardinalityType

LEMMA HeldSinceFinite ==
  ASSUME NEW held, IsFiniteSet(held), NEW p, NEW u, NEW t
  PROVE  /\ IsFiniteSet(HeldSince(held, p, u, t))
         /\ Cardinality(HeldSince(held, p, u, t)) \in Nat
<1>1. HeldSince(held, p, u, t) \subseteq held
  BY DEF HeldSince
<1> QED BY <1>1, FS_Subset, FS_CardinalityType

\* One more marker counts from before its instant.
LEMMA MarkedAppend ==
  ASSUME NEW markers \in Seq(Nat), NEW at \in Nat, NEW t \in Int
  PROVE  Cardinality(MarkedSince(Append(markers, at), t)) =
           Cardinality(MarkedSince(markers, t)) + (IF at > t THEN 1 ELSE 0)
<1> DEFINE n == Len(markers)
           more == Append(markers, at)
<1>1. /\ n \in Nat /\ DOMAIN markers = 1 .. n /\ DOMAIN more = 1 .. (n + 1)
      /\ more[n + 1] = at /\ \A i \in 1 .. n : more[i] = markers[i]
  OBVIOUS
<1>2. IsFiniteSet(MarkedSince(markers, t)) /\ Cardinality(MarkedSince(markers, t)) \in Nat
  BY MarkedType
<1> HIDE DEF n, more
<1>3. CASE at > t
  <2>1. MarkedSince(more, t) = MarkedSince(markers, t) \cup {n + 1}
    BY <1>1, <1>3 DEF MarkedSince
  <2>2. n + 1 \notin MarkedSince(markers, t)
    BY <1>1 DEF MarkedSince
  <2>3. Cardinality(MarkedSince(more, t)) = Cardinality(MarkedSince(markers, t)) + 1
    BY <1>2, <2>1, <2>2, FS_AddElement
  <2> QED BY <1>3, <2>3 DEF more
<1>4. CASE ~(at > t)
  <2>1. MarkedSince(more, t) = MarkedSince(markers, t)
    BY <1>1, <1>4 DEF MarkedSince
  <2> QED BY <1>2, <1>4, <2>1 DEF more
<1> QED BY <1>3, <1>4

LEMMA CapsAfterReserve ==
  ASSUME NEW res, CapsOnRecord(res), NEW p \in Policies, NEW u
  PROVE  CapsOnRecord(Reserve(res, p, u))
<1> DEFINE spec == PolicySpec[p]
           inv == InventoryOf(res, spec)
           next == Reserve(res, p, u)
<1>1. next.inventory = IF spec.sku = NoSku THEN res.inventory
                       ELSE [sku \in DOMAIN res.inventory \cup {spec.sku} |->
                               IF sku = spec.sku
                               THEN [reserved |-> inv.reserved + spec.units,
                                     hardCap |-> spec.maxUnits]
                               ELSE res.inventory[sku]]
  BY DEF Reserve
<1> HIDE DEF inv, next
<1>2. CASE spec.sku = NoSku
  BY <1>1, <1>2 DEF CapsOnRecord, next
<1>3. CASE spec.sku # NoSku
  <2> SUFFICES ASSUME NEW sku \in DOMAIN next.inventory
               PROVE  \E q \in Policies : /\ PolicySpec[q].sku = sku
                                          /\ next.inventory[sku].hardCap = PolicySpec[q].maxUnits
    BY DEF CapsOnRecord, next
  <2>1. CASE sku = spec.sku
    BY <1>1, <1>3, <2>1
  <2>2. CASE sku # spec.sku
    <3>1. sku \in DOMAIN res.inventory /\ next.inventory[sku] = res.inventory[sku]
      BY <1>1, <1>3, <2>2
    <3> QED BY <3>1 DEF CapsOnRecord
  <2> QED BY <2>1, <2>2
<1> QED BY <1>2, <1>3

LEMMA MarkersAfterReserve ==
  ASSUME now \in Nat, NEW res, ResourceTypes(res), NEW held, HeldTypes(held),
         MarkersKept(res, held),
         NEW r, r \notin held, r.policy \in Policies, r.call \in Calls, r.at = now
  PROVE  MarkersKept(Reserve(res, r.policy, CallOf[r.call].userId), held \cup {r})
<1> DEFINE q == r.policy
           v == CallOf[r.call].userId
           next == Reserve(res, q, v)
<1>1. next.frequency = IF PolicySpec[q].daily = 0 THEN res.frequency
                       ELSE [res.frequency EXCEPT ![<<q, v>>] = Append(@, now)]
  BY DEF Reserve
<1>2. q \in Policies /\ v \in Users
  BY DecisionAssumption
<1> HIDE DEF next
<1> SUFFICES ASSUME NEW p \in Policies, NEW u \in Users, NEW t \in Int,
                    PolicySpec[p].daily > 0, ~MayRefuse(p)
             PROVE  Cardinality(HeldSince(held \cup {r}, p, u, t))
                      <= Cardinality(MarkedSince(next.frequency[<<p, u>>], t))
  BY DEF MarkersKept, next
<1>3. /\ Cardinality(HeldSince(held, p, u, t))
           <= Cardinality(MarkedSince(res.frequency[<<p, u>>], t))
      /\ Cardinality(HeldSince(held, p, u, t)) \in Nat
      /\ IsFiniteSet(HeldSince(held, p, u, t))
      /\ res.frequency \in [Policies \X Users -> Seq(Nat)]
  BY HeldSinceFinite DEF MarkersKept, HeldTypes, ResourceTypes
<1>4. CASE q = p /\ v = u
  <2>1. next.frequency[<<p, u>>] = Append(res.frequency[<<p, u>>], now)
    BY <1>1, <1>2, <1>3, <1>4
  <2>2. Cardinality(MarkedSince(next.frequency[<<p, u>>], t)) =
          Cardinality(MarkedSince(res.frequency[<<p, u>>], t)) + (IF now > t THEN 1 ELSE 0)
    BY <1>3, <2>1, MarkedAppend
  <2>3. Cardinality(MarkedSince(res.frequency[<<p, u>>], t)) \in Nat
    BY <1>3, MarkedType
  <2>4. CASE now > t
    <3>1. /\ HeldSince(held \cup {r}, p, u, t) = HeldSince(held, p, u, t) \cup {r}
          /\ r \notin HeldSince(held, p, u, t)
      BY <1>4, <2>4 DEF HeldSince
    <3>2. Cardinality(HeldSince(held \cup {r}, p, u, t)) = Cardinality(HeldSince(held, p, u, t)) + 1
      BY <1>3, <3>1, FS_AddElement
    <3> QED BY <1>3, <2>2, <2>3, <2>4, <3>2
  <2>5. CASE ~(now > t)
    <3>1. HeldSince(held \cup {r}, p, u, t) = HeldSince(held, p, u, t)
      BY <2>5 DEF HeldSince
    <3> QED BY <1>3, <2>2, <2>3, <2>5, <3>1
  <2> QED BY <2>4, <2>5
<1>5. CASE ~(q = p /\ v = u)
  <2>1. next.frequency[<<p, u>>] = res.frequency[<<p, u>>]
    BY <1>1, <1>2, <1>3, <1>5
  <2>2. HeldSince(held \cup {r}, p, u, t) = HeldSince(held, p, u, t)
    BY <1>5 DEF HeldSince
  <2> QED BY <1>3, <2>1, <2>2
<1> QED BY <1>4, <1>5

LEMMA NoneCharged == Charged({}) = 0
BY SumEmpty DEF Charged

LEMMA FromFinite ==
  ASSUME NEW held, HeldTypes(held), NEW pool, NEW t
  PROVE  /\ IsFiniteSet(From(held, pool, t))
         /\ \A h \in From(held, pool, t) : h.policy \in Policies
<1>1. From(held, pool, t) \subseteq held
  BY DEF From, OnPool
<1> QED BY <1>1, FS_Subset DEF HeldTypes

\* A reservation begins a minute or counts in the one under way.
LEMMA MinutesAfterReserve ==
  ASSUME now \in Nat, NEW res, ResourceTypes(res), NEW held, HeldTypes(held),
         MinutesKept(res, held, now),
         NEW r, r \notin held, r.policy \in Policies, r.at = now, NEW u
  PROVE  MinutesKept(Reserve(res, r.policy, u), held \cup {r}, now)
<1> DEFINE spec == PolicySpec[r.policy]
           next == Reserve(res, r.policy, u)
<1> SUFFICES ASSUME NEW pool \in OneWayPools
             PROVE  Minutes(held \cup {r}, pool, next.budget[pool].minuteWindowStart,
                            next.budget[pool].minuteSpent, now)
  BY DEF MinutesKept
<1>1. pool \in Pools /\ spec.cost \in Nat /\ Minute \in Nat \ {0}
  BY SpecTypes, DecisionAssumption DEF OneWayPools
<1> DEFINE b == res.budget[pool]
           start == b.minuteWindowStart
           spent == b.minuteSpent
<1>2. start \in Int /\ spent \in Nat /\ Minutes(held, pool, start, spent, now)
  BY <1>1 DEF ResourceTypes, BudgetState, MinutesKept
<1>3. \A h \in OnPool(held, pool) : h.at \in Nat /\ h.policy \in Policies
  BY DEF HeldTypes, OnPool
<1>4. CASE pool \notin DOMAIN spec.budgets
  <2>1. next.budget[pool] = b
    BY <1>1, <1>4 DEF Reserve
  <2>2. OnPool(held \cup {r}, pool) = OnPool(held, pool)
    BY <1>4 DEF OnPool
  <2> QED BY <1>2, <2>1, <2>2 DEF Minutes, From
<1>5. CASE pool \in DOMAIN spec.budgets
  <2>1. /\ next.budget[pool].minuteWindowStart = IF SameWindow(b) THEN start ELSE now
        /\ next.budget[pool].minuteSpent = MinuteSpent(b) + spec.cost
    BY <1>1, <1>5 DEF Reserve
  <2>2. OnPool(held \cup {r}, pool) = OnPool(held, pool) \cup {r} /\ r \notin OnPool(held, pool)
    BY <1>5 DEF OnPool
  <2> HIDE DEF next, b, start, spent
  <2>3. /\ start <= now
        /\ \A h \in OnPool(held, pool) : h.at < start + Minute
        /\ spent = Charged(From(held, pool, start))
    BY <1>2 DEF Minutes
  <2>4. CASE SameWindow(b)
    <3>1. now - start < Minute /\ MinuteSpent(b) = spent
      BY <2>4 DEF SameWindow, MinuteSpent, b, start, spent
    <3>2. /\ From(held \cup {r}, pool, start) = From(held, pool, start) \cup {r}
          /\ r \notin From(held, pool, start)
      BY <2>2, <2>3 DEF From
    <3>3. Charged(From(held \cup {r}, pool, start)) = spent + spec.cost
      <4>1. /\ IsFiniteSet(From(held, pool, start))
            /\ \A h \in From(held, pool, start) : h.policy \in Policies
        BY FromFinite
      <4> QED BY <2>3, <3>2, <4>1, ChargedAdds
    <3>4. \A h \in OnPool(held \cup {r}, pool) : h.at < start + Minute
      BY <1>1, <1>2, <2>2, <2>3, <3>1
    <3>5. Minutes(held \cup {r}, pool, start, spent + spec.cost, now)
      BY <2>3, <3>3, <3>4 DEF Minutes
    <3> QED BY <2>1, <2>4, <3>1, <3>5
  <2>5. CASE ~SameWindow(b)
    <3>1. start + Minute <= now /\ MinuteSpent(b) = 0
      BY <1>1, <1>2, <2>5 DEF SameWindow, MinuteSpent, b, start
    <3>2. \A h \in OnPool(held, pool) : h.at < now
      BY <1>1, <1>2, <1>3, <2>3, <3>1
    <3>3. From(held \cup {r}, pool, now) = {} \cup {r}
      <4>1. \A h \in OnPool(held, pool) : ~(h.at >= now)
        BY <1>3, <3>2
      <4>2. r.at >= now
        OBVIOUS
      <4> QED BY <2>2, <4>1, <4>2 DEF From
    <3>4. Charged(From(held \cup {r}, pool, now)) = spec.cost
      <4>1. IsFiniteSet({}) /\ r \notin {} /\ r.policy \in Policies
        BY FS_EmptySet
      <4>2. Charged({} \cup {r}) = Charged({}) + PolicySpec[r.policy].cost
        BY <4>1, ChargedAdds
      <4>3. Charged({} \cup {r}) = spec.cost
        BY <1>1, <4>2, NoneCharged
      <4> HIDE DEF spec
      <4> QED BY <3>3, <4>3
    <3>5. \A h \in OnPool(held \cup {r}, pool) : h.at < now + Minute
      BY <1>1, <1>3, <2>2, <3>2
    <3>6. Minutes(held \cup {r}, pool, now, spec.cost, now)
      BY <3>4, <3>5 DEF Minutes
    <3>7. MinuteSpent(b) + spec.cost = spec.cost
      BY <1>1, <3>1
    <3> QED BY <2>1, <2>5, <3>6, <3>7
  <2> QED BY <2>4, <2>5
<1> QED BY <1>4, <1>5

LEMMA ReserveBooks ==
  ASSUME now \in Nat, NEW res, ResourceTypes(res), NEW held, HeldTypes(held),
         Books(res, held, now),
         NEW r, r \notin held, r.policy \in Policies, r.call \in Calls, r.at = now
  PROVE  Books(Reserve(res, r.policy, CallOf[r.call].userId), held \cup {r}, now)
BY CapsAfterReserve, MarkersAfterReserve, MinutesAfterReserve DEF Books

LEMMA ReleaseBooks ==
  ASSUME NEW res, ResourceTypes(res), NEW held, HeldTypes(held), NEW t, Books(res, held, t),
         NEW r \in held, MayRefuse(r.policy), NEW u, NEW at
  PROVE  Books(Release(res, r.policy, u, at), held \ {r}, t)
<1> DEFINE q == r.policy
           spec == PolicySpec[q]
           next == Release(res, q, u, at)
<1>1. CapsOnRecord(next)
  <2>1. next.inventory = IF spec.sku = NoSku THEN res.inventory
                         ELSE [res.inventory EXCEPT
                                 ![spec.sku].reserved = AtLeastZero(@ - spec.units)]
    BY DEF Release
  <2> HIDE DEF spec, next
  <2>2. /\ DOMAIN next.inventory = DOMAIN res.inventory
        /\ \A sku \in DOMAIN res.inventory :
             next.inventory[sku].hardCap = res.inventory[sku].hardCap
    BY <2>1 DEF ResourceTypes
  <2> QED BY <2>2 DEF CapsOnRecord, Books
<1>2. MarkersKept(next, held \ {r})
  <2>1. next.frequency = IF spec.daily = 0 THEN res.frequency
                         ELSE [res.frequency EXCEPT ![<<q, u>>] = Without(@, at)]
    BY DEF Release
  <2> HIDE DEF next, spec
  <2> SUFFICES ASSUME NEW p \in Policies, NEW v \in Users, NEW s \in Int,
                      PolicySpec[p].daily > 0, ~MayRefuse(p)
               PROVE  Cardinality(HeldSince(held \ {r}, p, v, s))
                        <= Cardinality(MarkedSince(next.frequency[<<p, v>>], s))
    BY DEF MarkersKept
  <2>2. q # p
    OBVIOUS
  <2>3. next.frequency[<<p, v>>] = res.frequency[<<p, v>>]
    BY <2>1, <2>2 DEF ResourceTypes
  <2>4. HeldSince(held \ {r}, p, v, s) = HeldSince(held, p, v, s)
    BY <2>2 DEF HeldSince
  <2> QED BY <2>3, <2>4 DEF MarkersKept, Books
<1>3. MinutesKept(next, held \ {r}, t)
  <2> SUFFICES ASSUME NEW pool \in OneWayPools
               PROVE  Minutes(held \ {r}, pool, next.budget[pool].minuteWindowStart,
                              next.budget[pool].minuteSpent, t)
    BY DEF MinutesKept
  <2>1. q \in Policies /\ pool \in Pools
    BY DEF HeldTypes, OneWayPools
  <2>2. pool \notin DOMAIN spec.budgets
    BY <2>1 DEF OneWayPools
  <2>3. next.budget[pool] = res.budget[pool]
    BY <2>1, <2>2 DEF Release
  <2>4. OnPool(held \ {r}, pool) = OnPool(held, pool)
    BY <2>2 DEF OnPool
  <2> HIDE DEF next
  <2> QED BY <2>3, <2>4 DEF Minutes, From, MinutesKept, Books
<1> QED BY <1>1, <1>2, <1>3 DEF Books

-----------------------------------------------------------------------------
(***************************************************************************)
(* Limits: what a check sees, and what is left of it later.                *)
(***************************************************************************)
\* Reserving begins no minute but the one the reservation counts in, and releasing none.
LEMMA ReserveStarts ==
  ASSUME now \in Nat, NEW res, ResourceTypes(res), NEW p \in Policies, NEW u
  PROVE  /\ MinuteStarts(Reserve(res, p, u), now) = MinuteStarts(res, now)
         /\ \A pool \in Pools \cap DOMAIN PolicySpec[p].budgets :
              Reserve(res, p, u).budget[pool].minuteWindowStart = MinuteStarts(res, now)[pool]
<1> DEFINE spec == PolicySpec[p]
           next == Reserve(res, p, u)
<1>1. ASSUME NEW pool \in Pools
      PROVE  /\ MinuteStart(next.budget[pool], now) = MinuteStart(res.budget[pool], now)
             /\ pool \in DOMAIN spec.budgets =>
                  next.budget[pool].minuteWindowStart = MinuteStart(res.budget[pool], now)
  <2> DEFINE b == res.budget[pool]
  <2>1. b.minuteWindowStart \in Int /\ Minute \in Nat \ {0}
    BY DecisionAssumption DEF ResourceTypes, BudgetState
  <2>2. CASE pool \notin DOMAIN spec.budgets
    BY <2>2 DEF Reserve
  <2>3. CASE pool \in DOMAIN spec.budgets
    <3>1. next.budget[pool].minuteWindowStart = MinuteStart(b, now)
      BY <2>3 DEF Reserve, SameWindow, MinuteStart
    <3> HIDE DEF next, b
    <3>2. MinuteStart(next.budget[pool], now) = MinuteStart(b, now)
      BY <2>1, <3>1 DEF MinuteStart
    <3> QED BY <3>1, <3>2 DEF b
  <2> QED BY <2>2, <2>3
<1> HIDE DEF next
<1> QED BY <1>1 DEF MinuteStarts, next

LEMMA ReleaseStarts ==
  ASSUME NEW res, ResourceTypes(res), NEW p, NEW u, NEW at, NEW t
  PROVE  MinuteStarts(Release(res, p, u, at), t) = MinuteStarts(res, t)
<1> DEFINE next == Release(res, p, u, at)
<1>1. ASSUME NEW pool \in Pools
      PROVE  next.budget[pool].minuteWindowStart = res.budget[pool].minuteWindowStart
  BY DEF Release, ResourceTypes, BudgetState
<1> HIDE DEF next
<1> QED BY <1>1 DEF MinuteStarts, MinuteStart, next

LEMMA ChargedUnion ==
  ASSUME NEW S, IsFiniteSet(S), NEW T, IsFiniteSet(T), S \cap T = {},
         \A r \in S \cup T : r.policy \in Policies
  PROVE  /\ Charged(S) \in Nat /\ Charged(T) \in Nat
         /\ Charged(S \cup T) = Charged(S) + Charged(T)
<1> DEFINE f == [r \in S |-> PolicySpec[r.policy].cost]
           g == [r \in T |-> PolicySpec[r.policy].cost]
           h == [r \in S \cup T |-> PolicySpec[r.policy].cost]
<1>1. /\ \A r \in S : f[r] \in Nat /\ f[r] = h[r]
      /\ \A r \in T : g[r] \in Nat /\ g[r] = h[r]
      /\ \A r \in S \cup T : h[r] \in Nat
  BY SpecTypes
<1>2. /\ Charged(S) = SumFunctionOnSet(f, S) /\ Charged(T) = SumFunctionOnSet(g, T)
      /\ Charged(S \cup T) = SumFunctionOnSet(h, S \cup T)
  BY DEF Charged
<1> HIDE DEF f, g, h
<1>3. SumFunctionOnSet(f, S) \in Nat /\ SumFunctionOnSet(g, T) \in Nat
  BY <1>1, SumNatural
<1>4. SumFunctionOnSet(h, S \cup T) = SumFunctionOnSet(h, S) + SumFunctionOnSet(h, T)
  BY <1>1, SumUnion DEF IntegersOn
<1>5. /\ SumFunctionOnSet(f, S) = SumFunctionOnSet(h, S)
      /\ SumFunctionOnSet(g, T) = SumFunctionOnSet(h, T)
  BY <1>1, SumCongruent
<1> QED BY <1>2, <1>3, <1>4, <1>5

\* A part is charged no more than the whole.
LEMMA ChargedPart ==
  ASSUME NEW T, IsFiniteSet(T), \A r \in T : r.policy \in Policies, NEW S, S \subseteq T
  PROVE  Charged(S) \in Nat /\ Charged(T) \in Nat /\ Charged(S) <= Charged(T)
<1> DEFINE R == T \ S
<1>1. /\ IsFiniteSet(S) /\ IsFiniteSet(R) /\ S \cap R = {} /\ S \cup R = T
      /\ \A r \in S \cup R : r.policy \in Policies
  BY FS_Subset
<1> HIDE DEF R
<1>2. Charged(S) \in Nat /\ Charged(R) \in Nat /\ Charged(S \cup R) = Charged(S) + Charged(R)
  BY <1>1, ChargedUnion
<1>3. Charged(T) = Charged(S) + Charged(R)
  BY <1>1, <1>2
<1> QED BY <1>2, <1>3

LEMMA UnitsPart ==
  ASSUME NEW T, IsFiniteSet(T), \A r \in T : r.policy \in Policies, NEW S, S \subseteq T
  PROVE  Units(S) \in Nat /\ Units(T) \in Nat /\ Units(S) <= Units(T)
<1> DEFINE R == T \ S
           f == [r \in S |-> PolicySpec[r.policy].units]
           h == [r \in T |-> PolicySpec[r.policy].units]
<1>1. /\ IsFiniteSet(S) /\ IsFiniteSet(R) /\ S \cap R = {} /\ S \cup R = T
  BY FS_Subset
<1>2. /\ \A r \in S : f[r] \in Nat /\ f[r] = h[r]
      /\ \A r \in T : h[r] \in Nat
  BY SpecTypes
<1>3. Units(S) = SumFunctionOnSet(f, S) /\ Units(T) = SumFunctionOnSet(h, T)
  BY DEF Units
<1> HIDE DEF f, h, R
<1>4. /\ SumFunctionOnSet(f, S) \in Nat /\ SumFunctionOnSet(h, S) \in Nat
      /\ SumFunctionOnSet(h, R) \in Nat /\ SumFunctionOnSet(h, T) \in Nat
  BY <1>1, <1>2, SumNatural
<1>5. SumFunctionOnSet(h, S \cup R) = SumFunctionOnSet(h, S) + SumFunctionOnSet(h, R)
  BY <1>1, <1>2, SumUnion DEF IntegersOn
<1>6. SumFunctionOnSet(f, S) = SumFunctionOnSet(h, S)
  BY <1>1, <1>2, SumCongruent
<1> QED BY <1>1, <1>3, <1>4, <1>5, <1>6

LEMMA LimitTypes ==
  ASSUME NEW p \in Policies
  PROVE  /\ PolicySpec[p].daily \in Nat /\ PolicySpec[p].window \in Nat
         /\ DOMAIN PolicySpec[p].budgets \subseteq Pools
         /\ \A pool \in DOMAIN PolicySpec[p].budgets :
              PolicySpec[p].budgets[pool].cap \in Nat /\ PolicySpec[p].budgets[pool].pace \in Nat
BY DecisionAssumption

\* Finitely many reservations, but for their turns.
Numbered(held) ==
  IsFiniteSet(held) /\ \A r \in held : r.policy \in Policies /\ r.at \in Nat

\* A part of what keeps the limits keeps them, and later too.
LEMMA WithinSubset ==
  ASSUME NEW big, Numbered(big), NEW small, small \subseteq big, NEW p \in Policies, NEW u,
         NEW at \in Nat, NEW later \in Nat, at <= later, NEW from, NEW after,
         \A pool \in OneWayPools \cap DOMAIN PolicySpec[p].budgets :
           from[pool] \in Int /\ after[pool] \in Int /\ from[pool] <= after[pool],
         Within(big, p, u, at, from)
  PROVE  Within(small, p, u, later, after)
<1> DEFINE spec == PolicySpec[p]
<1>1. \A S, T : T \subseteq big /\ S \subseteq T =>
        /\ Charged(S) \in Nat /\ Charged(T) \in Nat /\ Charged(S) <= Charged(T)
        /\ Units(S) \in Nat /\ Units(T) \in Nat /\ Units(S) <= Units(T)
  <2> SUFFICES ASSUME NEW S, NEW T, T \subseteq big, S \subseteq T
               PROVE  /\ Charged(S) \in Nat /\ Charged(T) \in Nat /\ Charged(S) <= Charged(T)
                      /\ Units(S) \in Nat /\ Units(T) \in Nat /\ Units(S) <= Units(T)
    OBVIOUS
  <2>1. IsFiniteSet(T) /\ \A r \in T : r.policy \in Policies
    BY FS_Subset DEF Numbered
  <2> QED BY <2>1, ChargedPart, UnitsPart
<1>2. ASSUME NEW pool \in DOMAIN spec.budgets
      PROVE  Charged(OnPool(small, pool)) <= spec.budgets[pool].cap
  <2>1. Charged(OnPool(big, pool)) <= spec.budgets[pool].cap
    BY DEF Within
  <2>2. OnPool(small, pool) \subseteq OnPool(big, pool) /\ OnPool(big, pool) \subseteq big
    BY DEF OnPool
  <2>3. spec.budgets[pool].cap \in Nat
    BY LimitTypes
  <2> QED BY <1>1, <2>1, <2>2, <2>3
<1>3. ASSUME NEW pool \in DOMAIN spec.budgets, pool \in OneWayPools
      PROVE  Charged({r \in OnPool(small, pool) : r.at >= after[pool]}) <= spec.budgets[pool].pace
  <2> DEFINE S == {r \in OnPool(small, pool) : r.at >= after[pool]}
             T == {r \in OnPool(big, pool) : r.at >= from[pool]}
  <2>1. Charged(T) <= spec.budgets[pool].pace
    BY <1>3 DEF Within
  <2>2. S \subseteq T
    <3>1. from[pool] \in Int /\ after[pool] \in Int /\ from[pool] <= after[pool]
      BY <1>3
    <3>2. \A r \in OnPool(small, pool) : r \in OnPool(big, pool) /\ r.at \in Nat
      BY DEF OnPool, Numbered
    <3> QED BY <3>1, <3>2
  <2>3. T \subseteq big
    BY DEF OnPool
  <2>4. spec.budgets[pool].pace \in Nat
    BY LimitTypes
  <2> HIDE DEF S, T
  <2>5. Charged(S) <= spec.budgets[pool].pace
    BY <1>1, <2>1, <2>2, <2>3, <2>4
  <2> QED BY <2>5 DEF S
<1>4. ASSUME spec.sku # NoSku
      PROVE  \E q \in Policies : /\ PolicySpec[q].sku = spec.sku
                                 /\ Units(OfSku(small, spec.sku)) <= PolicySpec[q].maxUnits
  <2>1. PICK q \in Policies : /\ PolicySpec[q].sku = spec.sku
                              /\ Units(OfSku(big, spec.sku)) <= PolicySpec[q].maxUnits
    BY <1>4 DEF Within
  <2>2. OfSku(small, spec.sku) \subseteq OfSku(big, spec.sku) /\ OfSku(big, spec.sku) \subseteq big
    BY DEF OfSku
  <2>3. PolicySpec[q].maxUnits \in Nat
    BY SpecTypes
  <2>4. Units(OfSku(small, spec.sku)) <= PolicySpec[q].maxUnits
    BY <1>1, <2>1, <2>2, <2>3
  <2> QED BY <2>1, <2>4
<1>5. ASSUME spec.daily > 0, ~MayRefuse(p)
      PROVE  Cardinality(Hits(small, p, u, later)) <= spec.daily
  <2>1. Cardinality(Hits(big, p, u, at)) <= spec.daily
    BY <1>5 DEF Within
  <2>2. spec.window \in Nat /\ spec.daily \in Nat
    BY LimitTypes
  <2>3. Hits(small, p, u, later) \subseteq Hits(big, p, u, at)
    BY <2>2 DEF Hits, Numbered
  <2>4. IsFiniteSet(Hits(big, p, u, at))
    <3>1. Hits(big, p, u, at) \subseteq big
      BY DEF Hits
    <3> QED BY <3>1, FS_Subset DEF Numbered
  <2>5. /\ Cardinality(Hits(small, p, u, later)) \in Nat /\ Cardinality(Hits(big, p, u, at)) \in Nat
        /\ Cardinality(Hits(small, p, u, later)) <= Cardinality(Hits(big, p, u, at))
    BY <2>3, <2>4, FS_Subset, FS_CardinalityType
  <2> QED BY <2>1, <2>2, <2>5
<1> QED BY <1>2, <1>3, <1>4, <1>5 DEF Within

\* What passes its check is within its limits if it reserves at once.
LEMMA PassingIsWithin ==
  ASSUME CountersInv, Books(resources, reservations, now), NEW c \in Calls, NEW p \in Passing(c),
         NEW r, r \notin reservations, r.call = c, r.policy = p, r.at \in Nat
  PROVE  Within(reservations \cup {r}, p, CallOf[c].userId, now, MinuteStarts(resources, now))
<1> DEFINE spec == PolicySpec[p]
           u == CallOf[c].userId
           all == reservations \cup {r}
<1>1. p \in Policies /\ u \in Users /\ Passes(p, u)
  BY DecisionAssumption DEF Passing
<1>2. /\ spec.cost \in Nat /\ spec.units \in Nat /\ spec.daily \in Nat /\ spec.window \in Nat
      /\ DOMAIN spec.budgets \subseteq Pools /\ now \in Nat /\ Minute \in Nat \ {0}
  BY <1>1, SpecTypes, LimitTypes, DecisionAssumption DEF CountersInv, TypeOK
<1>3. HeldTypes(reservations) /\ ResourceTypes(resources) /\ Agree(resources, reservations)
  BY DEF CountersInv, TypeOK, ResourceTypes
<1>4. ASSUME NEW pool \in DOMAIN spec.budgets
      PROVE  Charged(OnPool(all, pool)) <= spec.budgets[pool].cap
  <2>1. resources.budget[pool].used + spec.cost <= spec.budgets[pool].cap
    BY <1>1 DEF Passes, BudgetsAllow
  <2>2. resources.budget[pool].used = Charged(OnPool(reservations, pool))
    BY <1>2, <1>3 DEF Agree
  <2>3. OnPool(all, pool) = OnPool(reservations, pool) \cup {r} /\ r \notin OnPool(reservations, pool)
    BY DEF OnPool
  <2>4. Charged(OnPool(reservations, pool) \cup {r}) =
          Charged(OnPool(reservations, pool)) + spec.cost
    BY <1>1, <1>3, <2>3, PartsFinite, ChargedAdds
  <2> QED BY <2>1, <2>2, <2>3, <2>4
<1>5. ASSUME NEW pool \in DOMAIN spec.budgets, pool \in OneWayPools
      PROVE  Charged({h \in OnPool(all, pool) : h.at >= MinuteStarts(resources, now)[pool]})
               <= spec.budgets[pool].pace
  <2> DEFINE b == resources.budget[pool]
             start == b.minuteWindowStart
             begin == MinuteStarts(resources, now)[pool]
  <2>1. MinuteSpent(b) + spec.cost <= spec.budgets[pool].pace
    BY <1>1 DEF Passes, BudgetsAllow
  <2>2. begin = IF now - start < Minute THEN start ELSE now
    BY <1>2, <1>5 DEF MinuteStarts, MinuteStart
  <2>3. start \in Int /\ b.minuteSpent \in Nat /\ Minutes(reservations, pool, start, b.minuteSpent, now)
    BY <1>2, <1>3, <1>5 DEF ResourceTypes, BudgetState, Books, MinutesKept
  <2>4. spec.budgets[pool].pace \in Nat
    BY <1>1, LimitTypes
  <2>5. Charged(From(reservations, pool, begin)) = MinuteSpent(b)
    <3>1. CASE now - start < Minute
      BY <2>2, <2>3, <3>1 DEF MinuteSpent, SameWindow, Minutes
    <3>2. CASE ~(now - start < Minute)
      <4>1. MinuteSpent(b) = 0 /\ begin = now
        BY <2>2, <3>2 DEF MinuteSpent, SameWindow
      <4>2. From(reservations, pool, now) = {}
        <5>1. \A h \in OnPool(reservations, pool) : h.at \in Nat /\ h.at < start + Minute
          BY <1>3, <2>3 DEF HeldTypes, OnPool, Minutes
        <5>2. \A h \in OnPool(reservations, pool) : ~(h.at >= now)
          BY <1>2, <2>3, <3>2, <5>1
        <5> QED BY <5>2 DEF From
      <4> QED BY <4>1, <4>2, NoneCharged
    <3> QED BY <3>1, <3>2
  <2> DEFINE T == From(reservations, pool, begin) \cup {r}
             S == {h \in OnPool(all, pool) : h.at >= begin}
  <2>6. S \subseteq T
    BY DEF From, OnPool
  <2>7. /\ IsFiniteSet(From(reservations, pool, begin))
        /\ \A h \in From(reservations, pool, begin) : h.policy \in Policies
        /\ r \notin From(reservations, pool, begin)
    BY <1>3, FromFinite DEF From, OnPool
  <2>8. Charged(T) = MinuteSpent(b) + spec.cost
    BY <1>1, <2>5, <2>7, ChargedAdds
  <2>9. IsFiniteSet(T) /\ \A h \in T : h.policy \in Policies
    BY <1>1, <2>7, FS_AddElement
  <2> HIDE DEF S, T, begin
  <2>10. Charged(S) \in Nat /\ Charged(T) \in Nat /\ Charged(S) <= Charged(T)
    BY <2>6, <2>9, ChargedPart
  <2>11. Charged(S) <= spec.budgets[pool].pace
    BY <2>1, <2>4, <2>8, <2>10
  <2> QED BY <2>11 DEF S, begin
<1>6. ASSUME spec.sku # NoSku
      PROVE  \E q \in Policies : /\ PolicySpec[q].sku = spec.sku
                                 /\ Units(OfSku(all, spec.sku)) <= PolicySpec[q].maxUnits
  <2> DEFINE inv == InventoryOf(resources, spec)
             sku == spec.sku
  <2>1. inv.reserved + spec.units <= inv.hardCap
    BY <1>1, <1>6 DEF Passes, InventoryAllows
  <2>2. \E q \in Policies : PolicySpec[q].sku = sku /\ inv.hardCap = PolicySpec[q].maxUnits
    <3>1. CASE sku \in DOMAIN resources.inventory
      BY <3>1 DEF InventoryOf, Books, CapsOnRecord
    <3>2. CASE sku \notin DOMAIN resources.inventory
      BY <1>1, <3>2 DEF InventoryOf
    <3> QED BY <3>1, <3>2
  <2>3. inv.reserved = Units(OfSku(reservations, sku))
    <3>1. CASE sku \in DOMAIN resources.inventory
      BY <1>3, <3>1 DEF InventoryOf, Agree
    <3>2. CASE sku \notin DOMAIN resources.inventory
      <4>1. OfSku(reservations, sku) = {}
        BY <1>3, <1>6, <3>2 DEF Agree, OfSku
      <4>2. Units({}) = 0
        BY SumEmpty DEF Units
      <4>3. inv.reserved = 0
        BY <3>2 DEF InventoryOf
      <4> QED BY <4>1, <4>2, <4>3
    <3> QED BY <3>1, <3>2
  <2>4. OfSku(all, sku) = OfSku(reservations, sku) \cup {r} /\ r \notin OfSku(reservations, sku)
    BY DEF OfSku
  <2>5. Units(OfSku(reservations, sku) \cup {r}) = Units(OfSku(reservations, sku)) + spec.units
    BY <1>1, <1>3, <2>4, PartsFinite, UnitsAdd
  <2> HIDE DEF inv
  <2> QED BY <2>1, <2>2, <2>3, <2>4, <2>5
<1>7. ASSUME spec.daily > 0, ~MayRefuse(p)
      PROVE  Cardinality(Hits(all, p, u, now)) <= spec.daily
  <2> DEFINE t == now - spec.window
             held == HeldSince(reservations, p, u, t)
             marked == MarkedSince(resources.frequency[<<p, u>>], t)
  <2>1. t \in Int
    BY <1>2
  <2>2. resources.frequency[<<p, u>>] \in Seq(Nat)
    BY <1>1, <1>3 DEF ResourceTypes
  <2>3. Cardinality(marked) < spec.daily
    <3>1. Cardinality(Recent(resources.frequency[<<p, u>>], spec.window)) < spec.daily
      BY <1>1, <1>7 DEF Passes, FrequencyAllows
    <3>2. \A i \in DOMAIN resources.frequency[<<p, u>>] :
            resources.frequency[<<p, u>>][i] \in Nat
      BY <2>2
    <3>3. Recent(resources.frequency[<<p, u>>], spec.window) = marked
      BY <1>2, <3>2 DEF Recent, MarkedSince
    <3> QED BY <3>1, <3>3
  <2>4. Cardinality(held) <= Cardinality(marked)
    BY <1>1, <1>7, <2>1 DEF Books, MarkersKept
  <2>5. Cardinality(marked) \in Nat
    BY <2>2, MarkedType
  <2>6. IsFiniteSet(held) /\ Cardinality(held) \in Nat
    BY <1>3, HeldSinceFinite DEF HeldTypes
  <2>7. Hits(all, p, u, now) \subseteq held \cup {r}
    <3>1. \A h \in reservations : h.at \in Nat
      BY <1>3 DEF HeldTypes
    <3> QED BY <1>2, <3>1 DEF Hits, HeldSince
  <2> HIDE DEF held, marked, t
  <2>8. IsFiniteSet(held \cup {r}) /\ Cardinality(held \cup {r}) <= Cardinality(held) + 1
    <3>1. /\ IsFiniteSet(held \cup {r})
          /\ Cardinality(held \cup {r}) =
               IF r \in held THEN Cardinality(held) ELSE Cardinality(held) + 1
      BY <2>6, FS_AddElement
    <3> QED BY <2>6, <3>1
  <2>9. /\ Cardinality(Hits(all, p, u, now)) \in Nat /\ Cardinality(held \cup {r}) \in Nat
        /\ Cardinality(Hits(all, p, u, now)) <= Cardinality(held \cup {r})
    BY <2>7, <2>8, FS_Subset, FS_CardinalityType
  <2> QED BY <1>2, <2>3, <2>4, <2>5, <2>6, <2>8, <2>9
<1> QED BY <1>4, <1>5, <1>6, <1>7 DEF Within

\* What a call under way knew when it checked is of turns already taken.
SeenTurns ==
  /\ DOMAIN checked = Calls /\ checked = [d \in DOMAIN checked |-> checked[d]]
  /\ \A d \in Calls : \A r \in checked[d] :
       /\ r.call \in Calls /\ r.turn \in Nat
       /\ calls[r.call].status # "waiting"
       /\ calls[r.call].status = "running" => r.turn >= Len(calls[r.call].left)

\* Of what call c knew, so much is left that p may still reserve within its limits.
Fits(c, p) ==
  \A r : r.call = c /\ r.policy = p /\ r.at \in Nat =>
    Within((checked[c] \cap reservations) \cup {r}, p, CallOf[c].userId, now,
           MinuteStarts(resources, now))

RoomLeft ==
  \A c \in Calls : calls[c].status = "running" =>
    \A i \in 2 .. Len(calls[c].left) : Fits(c, calls[c].left[i])

LimitsInv == Books(resources, reservations, now) /\ SeenTurns /\ RoomLeft

\* What becomes of call c when its next winner, the first of left, reserves besides held.
Moves(c, left, held) ==
  /\ calls[c].status # "done"
  /\ \A d \in Calls \ {c} : calls'[d] = calls[d]
  /\ calls'[c].status # "waiting"
  /\ calls'[c].status = "running" => calls'[c].left = left
  /\ held \subseteq reservations'
  /\ \A r \in reservations' \ held :
       /\ left # <<>> /\ r.call = c /\ r.policy = Head(left) /\ r.turn = Len(left) /\ r.at = now
       /\ \A pool \in Pools \cap DOMAIN PolicySpec[r.policy].budgets :
            resources'.budget[pool].minuteWindowStart = MinuteStarts(resources', now)[pool]

LEMMA RunNextMoves ==
  ASSUME TypeOK, NEW c \in Calls, calls[c].status # "done", NEW left \in Seq(Policies),
         NEW res, ResourceTypes(res), NEW held, HeldTypes(held), Books(res, held, now),
         \A r \in held : r.call = c => r.turn > Len(left),
         RunNext(c, left, res, held)
  PROVE  /\ Moves(c, left, held)
         /\ Books(resources', reservations', now)
         /\ MinuteStarts(resources', now) = MinuteStarts(res, now)
<1>0. now \in Nat /\ calls \in [Calls -> Call]
  BY DEF TypeOK
<1>1. CASE left = <<>>
  <2> DEFINE new == [Waiting EXCEPT !.status = "done"]
  <2>1. calls' = [calls EXCEPT ![c] = new] /\ resources' = res /\ reservations' = held
    BY <1>1 DEF RunNext
  <2>2. new.status = "done"
    BY DoneType
  <2> HIDE DEF new
  <2> QED BY <1>0, <2>1, <2>2 DEF Moves
<1>2. CASE left # <<>>
  <2> DEFINE p == Head(left)
             u == CallOf[c].userId
             r0 == [Reservation(c, left) EXCEPT !.at = now]
  <2>1. /\ resources' = Reserve(res, p, u)
        /\ reservations' = held \cup {r0}
        /\ Act(c, left, 1, TRUE, now)
    BY <1>2 DEF RunNext
  <2>2. p \in Policies /\ u \in Users /\ Len(left) \in Nat
    BY <1>2, DecisionAssumption
  <2>3. r0.call = c /\ r0.policy = p /\ r0.turn = Len(left) /\ r0.at = now
    BY DEF Reservation
  <2>4. PICK new \in Call :
          /\ calls' = [calls EXCEPT ![c] = new]
          /\ new.status \in {"running", "failed"}
          /\ new.left = left
          /\ new.at = now
    BY <1>0, <1>2, <2>1, FirstAct
  <2> HIDE DEF p, u, r0
  <2>5. r0 \notin held
    BY <2>2, <2>3
  <2>6. Books(Reserve(res, r0.policy, CallOf[r0.call].userId), held \cup {r0}, now)
    BY <1>0, <2>2, <2>3, <2>5, ReserveBooks
  <2>7. Books(resources', reservations', now)
    BY <2>1, <2>3, <2>6 DEF u
  <2>8. /\ MinuteStarts(resources', now) = MinuteStarts(res, now)
        /\ \A pool \in Pools \cap DOMAIN PolicySpec[p].budgets :
             resources'.budget[pool].minuteWindowStart = MinuteStarts(res, now)[pool]
    BY <1>0, <2>1, <2>2, ReserveStarts
  <2>9. calls'[c] = new /\ \A d \in Calls \ {c} : calls'[d] = calls[d]
    BY <1>0, <2>4
  <2>10. \A r \in reservations' \ held : r = r0
    BY <2>1
  <2>11. Moves(c, left, held)
    BY <1>2, <2>1, <2>3, <2>4, <2>8, <2>9, <2>10 DEF Moves, p
  <2> QED BY <2>7, <2>8, <2>11
<1> QED BY <1>1, <1>2

\* Whatever a step reserves and gives back, it takes no room from those who wait their turn.
LEMMA FitsKept ==
  ASSUME HeldTypes(reservations), HeldTypes(reservations'), now \in Nat, now' \in Nat, now <= now',
         NEW c \in Calls, NEW p \in Policies, Fits(c, p),
         checked'[c] \cap reservations' \subseteq checked[c] \cap reservations,
         \A pool \in OneWayPools :
           /\ MinuteStarts(resources, now)[pool] \in Int
           /\ MinuteStarts(resources', now')[pool] \in Int
           /\ MinuteStarts(resources, now)[pool] <= MinuteStarts(resources', now')[pool]
  PROVE  Fits(c, p)'
<1> DEFINE K == checked[c] \cap reservations
           L == checked'[c] \cap reservations'
           from == MinuteStarts(resources, now)
           after == MinuteStarts(resources', now')
           u == CallOf[c].userId
<1> SUFFICES ASSUME NEW r, r.call = c, r.policy = p, r.at \in Nat
             PROVE  Within(L \cup {r}, p, u, now', after)
  BY DEF Fits
<1>1. Within(K \cup {r}, p, u, now, from)
  BY DEF Fits
<1>2. Numbered(K \cup {r})
  <2>1. IsFiniteSet(K)
    BY FS_Subset DEF HeldTypes
  <2>2. IsFiniteSet(K \cup {r})
    BY <2>1, FS_AddElement
  <2>3. \A x \in K : x.policy \in Policies /\ x.at \in Nat
    BY DEF HeldTypes
  <2> HIDE DEF K
  <2> QED BY <2>2, <2>3 DEF Numbered
<1>3. L \cup {r} \subseteq K \cup {r}
  OBVIOUS
<1>4. \A pool \in OneWayPools \cap DOMAIN PolicySpec[p].budgets :
        from[pool] \in Int /\ after[pool] \in Int /\ from[pool] <= after[pool]
  OBVIOUS
<1> HIDE DEF K, L, from, after, u
<1> QED BY <1>1, <1>2, <1>3, <1>4, WithinSubset

LEMMA StartType ==
  ASSUME now \in Nat, NEW res, ResourceTypes(res), NEW pool \in OneWayPools
  PROVE  MinuteStarts(res, now)[pool] \in Int
<1>1. pool \in Pools /\ res.budget[pool].minuteWindowStart \in Int
  BY DEF OneWayPools, ResourceTypes, BudgetState
<1> QED BY <1>1 DEF MinuteStarts, MinuteStart

LEMMA TurnsSeen ==
  ASSUME CountersInv, LimitsInv, NEW c \in Calls, NEW left, Len(left) \in Nat,
         NEW held, Moves(c, left, held),
         NEW knew, checked' = [checked EXCEPT ![c] = knew], knew \subseteq checked[c] \cup reservations,
         \/ calls[c].status = "waiting"
         \/ calls[c].status = "running" /\ Len(left) < Len(calls[c].left)
  PROVE  SeenTurns'
<1>0. DOMAIN checked = Calls
  BY DEF LimitsInv, SeenTurns
<1> SUFFICES ASSUME NEW d \in Calls, NEW r \in checked'[d]
             PROVE  /\ r.call \in Calls /\ r.turn \in Nat
                    /\ calls'[r.call].status # "waiting"
                    /\ calls'[r.call].status = "running" => r.turn >= Len(calls'[r.call].left)
  BY <1>0 DEF SeenTurns
<1>1. /\ r.call \in Calls /\ r.turn \in Nat
      /\ calls[r.call].status # "waiting"
      /\ calls[r.call].status = "running" => r.turn >= Len(calls[r.call].left)
  <2>1. CASE r \in checked[d]
    BY <2>1 DEF LimitsInv, SeenTurns
  <2>2. CASE r \in reservations
    BY <2>2 DEF CountersInv, HeldTypes, TurnsGoDown
  <2> QED BY <1>0, <2>1, <2>2
<1>2. CASE r.call # c
  BY <1>1, <1>2 DEF Moves
<1>3. CASE r.call = c
  <2>1. calls[c].status = "running" /\ r.turn >= Len(calls[c].left) /\ Len(left) < Len(calls[c].left)
    BY <1>1, <1>3
  <2>2. calls[c].left \in Seq(Policies)
    BY DEF CountersInv, TypeOK, Call
  <2>3. r.turn >= Len(left)
    <3>1. Len(calls[c].left) \in Nat
      BY <2>2
    <3> QED BY <1>1, <2>1, <3>1
  <2> QED BY <1>1, <1>3, <2>3 DEF Moves
<1> QED BY <1>2, <1>3

\* A step of one call leaves the others theirs.
LEMMA OthersFit ==
  ASSUME CountersInv, CountersInv', LimitsInv, NEW c \in Calls, NEW left, Len(left) \in Nat,
         NEW held, Moves(c, left, held), held \subseteq reservations,
         now' = now, MinuteStarts(resources', now) = MinuteStarts(resources, now),
         \/ calls[c].status = "waiting"
         \/ calls[c].status = "running" /\ Len(left) < Len(calls[c].left),
         NEW d \in Calls, checked'[d] \subseteq checked[d], NEW p \in Policies, Fits(d, p)
  PROVE  Fits(d, p)'
<1>1. HeldTypes(reservations) /\ HeldTypes(reservations') /\ now \in Nat /\ ResourceTypes(resources)
  BY DEF CountersInv, TypeOK, ResourceTypes, HeldTypes
<1>2. ASSUME NEW r \in checked'[d] \cap reservations'
      PROVE  r \in checked[d] \cap reservations
  <2>1. r \in checked[d]
    OBVIOUS
  <2>2. /\ r.turn \in Nat
        /\ calls[r.call].status # "waiting"
        /\ calls[r.call].status = "running" => r.turn >= Len(calls[r.call].left)
    BY <2>1 DEF LimitsInv, SeenTurns
  <2>3. CASE r \in held
    BY <2>1, <2>3
  <2>4. CASE r \notin held
    <3>1. r.call = c /\ r.turn = Len(left)
      BY <2>4 DEF Moves
    <3>2. calls[c].status = "running" /\ Len(left) < Len(calls[c].left) /\ Len(left) >= Len(calls[c].left)
      BY <2>2, <3>1
    <3>3. calls[c].left \in Seq(Policies)
      BY DEF CountersInv, TypeOK, Call
    <3>4. Len(calls[c].left) \in Nat
      BY <3>3
    <3> QED BY <3>2, <3>4
  <2> QED BY <2>3, <2>4
<1>3. \A pool \in OneWayPools : MinuteStarts(resources, now)[pool] \in Int
  BY <1>1, StartType
<1>4. \A pool \in OneWayPools :
        /\ MinuteStarts(resources, now)[pool] \in Int
        /\ MinuteStarts(resources', now')[pool] \in Int
        /\ MinuteStarts(resources, now)[pool] <= MinuteStarts(resources', now')[pool]
  <2>1. \A n \in Int : n <= n
    OBVIOUS
  <2> QED BY <1>3, <2>1
<1>5. checked'[d] \cap reservations' \subseteq checked[d] \cap reservations
  BY <1>2
<1>6. now' \in Nat /\ now <= now'
  BY <1>1
<1> QED BY <1>1, <1>4, <1>5, <1>6, FitsKept

LEMMA DecideFits ==
  ASSUME CountersInv, CountersInv', LimitsInv, NEW c \in Calls, Decide(c)
  PROVE  /\ LimitsInv'
         /\ Moves(c, Winners(Candidates(c)), reservations)
         /\ MinuteStarts(resources', now) = MinuteStarts(resources, now)
<1> DEFINE left == Winners(Candidates(c))
<1>1. left \in Seq(Policies) /\ left \in Seq(Passing(c))
  BY ChosenType
<1>2. /\ calls[c].status = "waiting"
      /\ RunNext(c, left, resources, reservations)
      /\ Remembers(c, reservations)
      /\ now' = now
  BY DEF Decide
<1> HIDE DEF left
<1>3. \A r \in reservations : r.call # c
  BY <1>2 DEF CountersInv, TurnsGoDown
<1>4. /\ TypeOK /\ ResourceTypes(resources) /\ HeldTypes(reservations)
      /\ HeldTypes(reservations') /\ now \in Nat
      /\ Books(resources, reservations, now) /\ calls[c].status # "done"
  BY <1>2 DEF CountersInv, TypeOK, ResourceTypes, LimitsInv, HeldTypes
<1>5. /\ Moves(c, left, reservations)
      /\ Books(resources', reservations', now)
      /\ MinuteStarts(resources', now) = MinuteStarts(resources, now)
  BY <1>1, <1>2, <1>3, <1>4, RunNextMoves
<1>6. PICK knew \in SUBSET reservations : checked' = [checked EXCEPT ![c] = knew]
  BY <1>2 DEF Remembers
<1>11. checked'[c] = knew /\ \A d \in Calls \ {c} : checked'[d] = checked[d]
  BY <1>6 DEF LimitsInv, SeenTurns
<1>7. Len(left) \in Nat
  BY <1>1
<1>8. SeenTurns'
  BY <1>2, <1>5, <1>6, <1>7, TurnsSeen
<1>9. ASSUME NEW d \in Calls, calls'[d].status = "running", NEW i \in 2 .. Len(calls'[d].left)
      PROVE  Fits(d, calls[d].left[i])'
  <2>1. CASE d # c
    <3>1. calls'[d] = calls[d]
      BY <1>5, <2>1 DEF Moves
    <3>2. Fits(d, calls[d].left[i])
      BY <1>9, <3>1 DEF LimitsInv, RoomLeft
    <3>3. calls[d].left[i] \in Policies
      <4>1. calls[d].left \in Seq(Policies)
        BY DEF CountersInv, TypeOK, Call
      <4> QED BY <3>1, <4>1
    <3>4. reservations \subseteq reservations
      OBVIOUS
    <3>5. PICK p \in Policies : p = calls[d].left[i]
      BY <3>3
    <3>6. checked'[d] \subseteq checked[d]
      BY <1>11, <2>1
    <3>7. Fits(d, p)'
      BY <1>2, <1>5, <1>7, <3>2, <3>4, <3>5, <3>6, OthersFit
    <3> QED BY <3>1, <3>5, <3>7 DEF Fits
  <2>2. CASE d = c
    <3>1. calls'[c].left = left
      BY <1>5, <1>9, <2>2 DEF Moves
    <3>2. PICK p \in Passing(c) : p = left[i]
      BY <1>1, <1>9, <2>2, <3>1
    <3>3. p \in Policies
      BY DecisionAssumption DEF Passing
    <3> DEFINE K == checked'[c] \cap reservations'
               from == MinuteStarts(resources, now)
               u == CallOf[c].userId
    <3>4. ASSUME NEW r, r.call = c, r.policy = p, r.at \in Nat
          PROVE  Within(K \cup {r}, p, u, now, from)
      <4>1. r \notin reservations
        BY <1>3, <3>4
      <4>2. Within(reservations \cup {r}, p, u, now, from)
        BY <1>4, <3>4, <4>1, PassingIsWithin
      <4>3. Numbered(reservations \cup {r})
        BY <1>4, <3>3, <3>4, FS_AddElement DEF HeldTypes, Numbered
      <4>4. K \cup {r} \subseteq reservations \cup {r}
        BY <1>11
      <4>5. \A pool \in OneWayPools : from[pool] \in Int
        BY <1>4, StartType
      <4>6. now <= now /\ \A n \in Int : n <= n
        BY <1>4
      <4> HIDE DEF K, from, u
      <4> QED BY <1>4, <3>3, <4>2, <4>3, <4>4, <4>5, <4>6, WithinSubset
    <3>5. Fits(c, p)'
      BY <1>2, <1>5, <3>4 DEF Fits
    <3> QED BY <2>2, <3>1, <3>2, <3>5 DEF Fits
  <2> QED BY <2>1, <2>2
<1>10. RoomLeft'
  BY <1>9 DEF RoomLeft
<1> QED BY <1>2, <1>5, <1>8, <1>10 DEF LimitsInv, left

LEMMA SettleFits ==
  ASSUME CountersInv, CountersInv', LimitsInv, RefusalsOwn, NEW c \in Calls, Settle(c)
  PROVE  /\ LimitsInv'
         /\ \E held : Moves(c, Tail(calls[c].left), held) /\ held \subseteq reservations
         /\ MinuteStarts(resources', now) = MinuteStarts(resources, now)
<1> DEFINE left == calls[c].left
           rest == Tail(left)
           p == Head(left)
           r == Reservation(c, left)
           u == CallOf[c].userId
           back == Release(resources, p, u, calls[c].at)
<1>1. /\ calls[c].status = "running" /\ left \in Seq(Policies) /\ left # <<>>
      /\ now' = now /\ Remembers(c, checked[c])
  BY DEF Settle, CountersInv, TypeOK, Call
<1>2. \/ RunNext(c, rest, resources, reservations)
      \/ ~calls[c].good /\ RunNext(c, rest, back, reservations \ {r})
  BY DEF Settle
<1>3. r \in reservations /\ r.call = c /\ r.policy = p
  BY <1>1 DEF CountersInv, TurnsGoDown, Reservation
<1>4. /\ TypeOK /\ ResourceTypes(resources) /\ HeldTypes(reservations)
      /\ HeldTypes(reservations') /\ now \in Nat
      /\ Books(resources, reservations, now)
  BY DEF CountersInv, TypeOK, ResourceTypes, LimitsInv, HeldTypes
<1>5. p \in Policies /\ u \in Users
  BY <1>1, DecisionAssumption
<1>6. /\ rest \in Seq(Policies) /\ Len(rest) < Len(left)
      /\ Len(left) \in Nat /\ Len(rest) \in Nat
      /\ \A i \in 1 .. Len(rest) : rest[i] = left[i + 1] /\ i + 1 \in 1 .. Len(left)
  BY <1>1
<1>7. \A x \in reservations : x.call = c => x.turn > Len(rest)
  <2> SUFFICES ASSUME NEW x \in reservations, x.call = c
               PROVE  x.turn > Len(rest)
    OBVIOUS
  <2>1. x.turn \in Nat
    BY <1>4 DEF HeldTypes
  <2>2. x.turn >= Len(left)
    BY <1>1 DEF CountersInv, TurnsGoDown
  <2> HIDE DEF left, rest
  <2> QED BY <1>6, <2>1, <2>2
<1> HIDE DEF left, rest, p, r, u, back
<1>8. \E held : /\ held \subseteq reservations
                /\ Moves(c, rest, held)
                /\ Books(resources', reservations', now)
                /\ MinuteStarts(resources', now) = MinuteStarts(resources, now)
  <2>1. CASE RunNext(c, rest, resources, reservations)
    <3>1. /\ Moves(c, rest, reservations)
          /\ Books(resources', reservations', now)
          /\ MinuteStarts(resources', now) = MinuteStarts(resources, now)
      BY <1>1, <1>4, <1>6, <1>7, <2>1, RunNextMoves
    <3> QED BY <3>1
  <2>2. CASE ~calls[c].good /\ RunNext(c, rest, back, reservations \ {r})
    <3>1. MayRefuse(r.policy)
      BY <1>1, <1>3, <2>2 DEF RefusalsOwn, Refuses, p, left
    <3>2. ResourceTypes(back)
      BY <1>4, <1>5, ReleaseTypes DEF back
    <3>3. HeldTypes(reservations \ {r})
      BY <1>4, FS_RemoveElement DEF HeldTypes
    <3>4. Books(back, reservations \ {r}, now)
      BY <1>3, <1>4, <3>1, ReleaseBooks DEF back
    <3>5. MinuteStarts(back, now) = MinuteStarts(resources, now)
      BY <1>4, ReleaseStarts DEF back
    <3>6. \A x \in reservations \ {r} : x.call = c => x.turn > Len(rest)
      BY <1>7
    <3>7. /\ Moves(c, rest, reservations \ {r})
          /\ Books(resources', reservations', now)
          /\ MinuteStarts(resources', now) = MinuteStarts(back, now)
      BY <1>1, <1>4, <1>6, <2>2, <3>2, <3>3, <3>4, <3>6, RunNextMoves
    <3> QED BY <3>5, <3>7
  <2> QED BY <1>2, <2>1, <2>2
<1>9. PICK held : /\ held \subseteq reservations
                  /\ Moves(c, rest, held)
                  /\ Books(resources', reservations', now)
                  /\ MinuteStarts(resources', now) = MinuteStarts(resources, now)
  BY <1>8
<1>10. PICK knew \in SUBSET checked[c] : checked' = [checked EXCEPT ![c] = knew]
  BY <1>1 DEF Remembers
<1>11. \A d \in Calls : checked'[d] \subseteq checked[d]
  BY <1>10 DEF LimitsInv, SeenTurns
<1>12. Len(rest) < Len(calls[c].left)
  BY <1>6 DEF left
<1>13. SeenTurns'
  BY <1>1, <1>6, <1>9, <1>10, <1>12, TurnsSeen
<1>14. ASSUME NEW d \in Calls, NEW q \in Policies, Fits(d, q)
       PROVE  Fits(d, q)'
  <2>1. checked'[d] \subseteq checked[d]
    BY <1>11
  <2> QED BY <1>1, <1>6, <1>9, <1>12, <1>14, <2>1, OthersFit
<1>15. ASSUME NEW d \in Calls, calls'[d].status = "running", NEW i \in 2 .. Len(calls'[d].left)
       PROVE  \E q \in Policies : q = calls'[d].left[i] /\ Fits(d, q)
  <2>1. CASE d # c
    <3>1. calls'[d] = calls[d]
      BY <1>9, <2>1 DEF Moves
    <3>2. Fits(d, calls[d].left[i])
      BY <1>15, <3>1 DEF LimitsInv, RoomLeft
    <3>3. calls[d].left \in Seq(Policies)
      BY DEF CountersInv, TypeOK, Call
    <3>4. calls[d].left[i] \in Policies
      BY <3>1, <3>3
    <3> QED BY <3>1, <3>2, <3>4
  <2>2. CASE d = c
    <3>1. calls'[c].left = rest
      BY <1>9, <1>15, <2>2 DEF Moves
    <3>2. i \in 1 .. Len(rest) /\ i \in 2 .. Len(rest) /\ i + 1 \in 2 .. Len(left)
      BY <1>6, <1>15, <2>2, <3>1
    <3>3. rest[i] = left[i + 1] /\ rest[i] \in Policies
      BY <1>6, <3>2
    <3>4. Fits(c, left[i + 1])
      BY <1>1, <3>2 DEF LimitsInv, RoomLeft, left
    <3> QED BY <2>2, <3>1, <3>3, <3>4
  <2> QED BY <2>1, <2>2
<1>16. RoomLeft'
  <2> SUFFICES ASSUME NEW d \in Calls, calls'[d].status = "running",
                      NEW i \in 2 .. Len(calls'[d].left)
               PROVE  Fits(d, calls[d].left[i])'
    BY DEF RoomLeft
  <2>1. PICK q \in Policies : q = calls'[d].left[i] /\ Fits(d, q)
    BY <1>15
  <2>2. Fits(d, q)'
    BY <1>14, <2>1
  <2> QED BY <2>1, <2>2 DEF Fits
<1> QED BY <1>1, <1>9, <1>13, <1>16 DEF LimitsInv, rest, left

LEMMA OtherStepsFit ==
  ASSUME CountersInv, CountersInv', LimitsInv,
         UNCHANGED <<resources, reservations, checked>>, now' = now \/ now' = now + 1,
         \A c \in Calls : /\ calls'[c].status # "waiting" \/ calls'[c].status = calls[c].status
                          /\ calls'[c].status = "running" => /\ calls[c].status = "running"
                                                             /\ calls'[c].left = calls[c].left
  PROVE  LimitsInv'
<1>1. /\ HeldTypes(reservations) /\ HeldTypes(reservations') /\ ResourceTypes(resources)
      /\ now \in Nat /\ now' \in Nat /\ now <= now'
  BY DEF CountersInv, TypeOK, ResourceTypes, HeldTypes
<1>2. Books(resources', reservations', now')
  <2>1. Books(resources, reservations, now)
    BY DEF LimitsInv
  <2>2. ASSUME NEW pool \in OneWayPools
        PROVE  Minutes(reservations, pool, resources.budget[pool].minuteWindowStart,
                       resources.budget[pool].minuteSpent, now')
    <3>1. Minutes(reservations, pool, resources.budget[pool].minuteWindowStart,
                  resources.budget[pool].minuteSpent, now)
      BY <2>1 DEF Books, MinutesKept
    <3>2. pool \in Pools
      BY DEF OneWayPools
    <3>3. resources.budget[pool].minuteWindowStart \in Int
      BY <1>1, <3>2 DEF ResourceTypes, BudgetState
    <3>4. resources.budget[pool].minuteWindowStart <= now'
      BY <1>1, <3>1, <3>3 DEF Minutes
    <3> QED BY <3>1, <3>4 DEF Minutes
  <2> QED BY <2>1, <2>2 DEF Books, MinutesKept
<1>3. SeenTurns'
  <2>1. SeenTurns
    BY DEF LimitsInv
  <2> QED BY <2>1 DEF SeenTurns
<1>4. \A pool \in OneWayPools :
        /\ MinuteStarts(resources, now)[pool] \in Int
        /\ MinuteStarts(resources', now')[pool] \in Int
        /\ MinuteStarts(resources, now)[pool] <= MinuteStarts(resources', now')[pool]
  <2> SUFFICES ASSUME NEW pool \in OneWayPools
               PROVE  /\ MinuteStarts(resources, now)[pool] \in Int
                      /\ MinuteStarts(resources, now')[pool] \in Int
                      /\ MinuteStarts(resources, now)[pool] <= MinuteStarts(resources, now')[pool]
    OBVIOUS
  <2> DEFINE start == resources.budget[pool].minuteWindowStart
  <2>1. pool \in Pools
    BY DEF OneWayPools
  <2>2. start \in Int /\ Minute \in Nat
    BY <1>1, <2>1, DecisionAssumption DEF ResourceTypes, BudgetState
  <2>3. start <= now
    BY DEF LimitsInv, Books, MinutesKept, Minutes
  <2>4. /\ MinuteStarts(resources, now)[pool] = IF now - start < Minute THEN start ELSE now
        /\ MinuteStarts(resources, now')[pool] = IF now' - start < Minute THEN start ELSE now'
    BY <2>1 DEF MinuteStarts, MinuteStart
  <2> HIDE DEF start
  <2>5. \A s \in Int, m \in Nat, a \in Nat, b \in Nat : s <= a /\ a <= b =>
          /\ (IF a - s < m THEN s ELSE a) \in Int
          /\ (IF b - s < m THEN s ELSE b) \in Int
          /\ (IF a - s < m THEN s ELSE a) <= (IF b - s < m THEN s ELSE b)
    OBVIOUS
  <2>6. /\ (IF now - start < Minute THEN start ELSE now) \in Int
        /\ (IF now' - start < Minute THEN start ELSE now') \in Int
        /\ (IF now - start < Minute THEN start ELSE now)
             <= (IF now' - start < Minute THEN start ELSE now')
    BY <1>1, <2>2, <2>3, <2>5
  <2> QED BY <2>4, <2>6
<1>5. ASSUME NEW c \in Calls, calls'[c].status = "running", NEW i \in 2 .. Len(calls'[c].left)
      PROVE  Fits(c, calls[c].left[i])'
  <2>1. calls[c].status = "running" /\ calls'[c].left = calls[c].left
    BY <1>5
  <2>2. Fits(c, calls[c].left[i])
    BY <1>5, <2>1 DEF LimitsInv, RoomLeft
  <2>3. calls[c].left \in Seq(Policies)
    BY DEF CountersInv, TypeOK, Call
  <2>4. PICK p \in Policies : p = calls[c].left[i]
    BY <1>5, <2>1, <2>3
  <2>5. checked'[c] \cap reservations' \subseteq checked[c] \cap reservations
    OBVIOUS
  <2>6. Fits(c, p)'
    BY <1>1, <1>4, <2>2, <2>4, <2>5, FitsKept
  <2> QED BY <2>1, <2>4, <2>6 DEF Fits
<1>6. RoomLeft'
  BY <1>5 DEF RoomLeft
<1> QED BY <1>2, <1>3, <1>6 DEF LimitsInv

LEMMA LimitsInvariance == Spec => []LimitsInv
<1>1. Init => LimitsInv
  <2> SUFFICES ASSUME Init PROVE LimitsInv
    OBVIOUS
  <2>1. CapsOnRecord(resources)
    <3>1. DOMAIN resources.inventory = {}
      BY DEF Init, NoResources
    <3> QED BY <3>1 DEF CapsOnRecord
  <2>2. MarkersKept(resources, reservations)
    <3> SUFFICES ASSUME NEW p \in Policies, NEW u \in Users, NEW t \in Int
                 PROVE  Cardinality(HeldSince(reservations, p, u, t))
                          <= Cardinality(MarkedSince(resources.frequency[<<p, u>>], t))
      BY DEF MarkersKept
    <3>1. HeldSince(reservations, p, u, t) = {}
      BY DEF Init, HeldSince
    <3>2. resources.frequency[<<p, u>>] = <<>>
      BY DEF Init, NoResources
    <3>3. MarkedSince(<<>>, t) = {}
      BY DEF MarkedSince
    <3>4. Cardinality({}) = 0
      BY FS_EmptySet
    <3>5. Cardinality(HeldSince(reservations, p, u, t)) = 0
      BY <3>1, <3>4
    <3>6. Cardinality(MarkedSince(resources.frequency[<<p, u>>], t)) = 0
      BY <3>2, <3>3, <3>4
    <3> QED BY <3>5, <3>6
  <2>3. MinutesKept(resources, reservations, now)
    <3> SUFFICES ASSUME NEW pool \in OneWayPools
                 PROVE  Minutes(reservations, pool, resources.budget[pool].minuteWindowStart,
                                resources.budget[pool].minuteSpent, now)
      BY DEF MinutesKept
    <3>1. pool \in Pools
      BY DEF OneWayPools
    <3>2. resources.budget[pool] = FreshBudget /\ now = 0 /\ Minute \in Nat
      BY <3>1, DecisionAssumption DEF Init, NoResources
    <3>3. OnPool(reservations, pool) = {} /\ \A t : From(reservations, pool, t) = {}
      BY DEF Init, OnPool, From
    <3>4. /\ resources.budget[pool].minuteWindowStart = -Minute
          /\ resources.budget[pool].minuteSpent = 0
      BY <3>2 DEF FreshBudget
    <3>5. -Minute <= 0
      BY <3>2
    <3> QED BY <3>2, <3>3, <3>4, <3>5, NoneCharged DEF Minutes
  <2>4. SeenTurns /\ RoomLeft
    BY DEF Init, SeenTurns, RoomLeft, Waiting
  <2> QED BY <2>1, <2>2, <2>3, <2>4 DEF LimitsInv, Books
<1>2. CountersInv /\ CountersInv' /\ GrantsInv /\ LimitsInv /\ [Next]_vars => LimitsInv'
  <2> SUFFICES ASSUME CountersInv, CountersInv', GrantsInv, LimitsInv, [Next]_vars
               PROVE  LimitsInv'
    OBVIOUS
  <2>1. CASE \E c \in Calls : Decide(c)
    BY <2>1, DecideFits
  <2>2. CASE \E c \in Calls : Settle(c)
    BY <2>2, SettleFits DEF GrantsInv
  <2>3. CASE \E c \in Calls : Continue(c)
    <3>1. PICK c \in Calls : Continue(c)
      BY <2>3
    <3>2. /\ UNCHANGED <<resources, reservations, checked>> /\ now' = now
          /\ calls[c].status = "running"
          /\ Act(c, calls[c].left, calls[c].acted + 1, calls[c].good, calls[c].at)
      BY <3>1 DEF Continue
    <3>3. calls \in [Calls -> Call]
      BY DEF CountersInv, TypeOK
    <3> DEFINE new == [status |-> IF PolicySpec[Head(calls[c].left)].actions[calls[c].acted + 1]
                                       = "throws" THEN "failed" ELSE "running",
                       left |-> calls[c].left, acted |-> calls[c].acted + 1,
                       good |-> /\ calls[c].good
                                /\ PolicySpec[Head(calls[c].left)].actions[calls[c].acted + 1]
                                     # "refused",
                       at |-> calls[c].at]
    <3>4. calls' = [calls EXCEPT ![c] = new] /\ new.left = calls[c].left /\ new.status # "waiting"
      BY <3>2 DEF Act
    <3> HIDE DEF new
    <3>5. ASSUME NEW d \in Calls
          PROVE  /\ calls'[d].status # "waiting" \/ calls'[d].status = calls[d].status
                 /\ calls'[d].status = "running" => /\ calls[d].status = "running"
                                                    /\ calls'[d].left = calls[d].left
      BY <3>2, <3>3, <3>4
    <3> QED BY <3>2, <3>5, OtherStepsFit
  <2>4. CASE (\E p \in Policies : SetActive(p)) \/ SetKillSwitch \/ Tick \/ UNCHANGED vars
    <3>1. UNCHANGED <<resources, calls, reservations, checked>> /\ (now' = now \/ now' = now + 1)
      BY <2>4 DEF SetActive, SetKillSwitch, Tick, vars
    <3> QED BY <3>1, OtherStepsFit
  <2> QED BY <2>1, <2>2, <2>3, <2>4 DEF Next
<1> QED BY <1>1, <1>2, CountersInvariance, GrantsInvariance, PTL DEF Spec

-----------------------------------------------------------------------------
(***************************************************************************)
(* Theorems.                                                               *)
(***************************************************************************)
\* The budget and inventory counters are exactly what is reserved and not given back,
\* however decisions overlap: no release is missed or made twice, and none is cut off
\* by the floor at zero.
THEOREM CountersHold == Spec => [](TypeOK /\ CountersAreReservations)
<1>1. CountersInv => TypeOK /\ CountersAreReservations
  BY DEF CountersInv, CountersAreReservations, Agree
<1> QED BY <1>1, CountersInvariance, PTL

\* However often an event is sent and however its decisions overlap, a policy without
\* fragments grants once for it.
THEOREM GrantedOnceHolds == Spec => []GrantedOnce
<1>1. CountersInv /\ Deduplicated => GrantedOnce
  BY DeduplicatedCounts DEF CountersInv, TypeOK
<1> QED BY <1>1, CountersInvariance, DeduplicatedInvariance, PTL

\* For any policies, the resources agree with what was reserved, and whatever a policy
\* granted stays charged, unless it also has an action that refuses.
THEOREM DecisionInvariantHolds == Spec => []DecisionInvariant
<1>1. CountersInv /\ GrantsInv => DecisionInvariant
  BY DEF CountersInv, GrantsInv, DecisionInvariant, CountersAreReservations, Agree
<1> QED BY <1>1, CountersInvariance, GrantsInvariance, PTL

\* For any policies and however decisions overlap, a winner reserves within the limits of
\* its policy as far as its call's check could see: the first winner of a decision keeps
\* the kill switch, the budgets, their pace, the stock and the daily hits; a later one
\* goes past them by what others reserved since the check, and by no more.
THEOREM ChecksHoldAlways == Spec => ChecksHold
<1> DEFINE Inv == CountersInv /\ GrantsInv /\ LimitsInv
           Checked ==
             \A r \in reservations' \ reservations :
               /\ calls[r.call].status = "waiting" /\ PolicySpec[r.policy].guarded => ~killed
               /\ Within(Known(r), r.policy, CallOf[r.call].userId, now,
                         [pool \in Pools |-> resources'.budget[pool].minuteWindowStart])
<1>1. Inv /\ CountersInv' /\ [Next]_vars => [Checked]_vars
  <2> SUFFICES ASSUME CountersInv, GrantsInv, LimitsInv, CountersInv', Next,
                      NEW r \in reservations' \ reservations
               PROVE  /\ calls[r.call].status = "waiting" /\ PolicySpec[r.policy].guarded => ~killed
                      /\ Within(Known(r), r.policy, CallOf[r.call].userId, now,
                           [pool \in Pools |-> resources'.budget[pool].minuteWindowStart])
    OBVIOUS
  <2> DEFINE begun == [pool \in Pools |-> resources'.budget[pool].minuteWindowStart]
             from == MinuteStarts(resources, now)
  <2>1. HeldTypes(reservations) /\ ResourceTypes(resources) /\ now \in Nat /\ now <= now
    BY DEF CountersInv, TypeOK, ResourceTypes, HeldTypes
  <2>2. ASSUME NEW c \in Calls, NEW left \in Seq(Policies), NEW held, Moves(c, left, held),
               r \notin held, MinuteStarts(resources', now) = from,
               NEW big, big \subseteq reservations, Known(r) \subseteq big \cup {r},
               Within(big \cup {r}, Head(left), CallOf[c].userId, now, from)
        PROVE  Within(Known(r), r.policy, CallOf[r.call].userId, now, begun)
    <3>1. r.call = c /\ r.policy = Head(left) /\ left # <<>> /\ r.at = now
      BY <2>2 DEF Moves
    <3>2. \A pool \in Pools \cap DOMAIN PolicySpec[r.policy].budgets : begun[pool] = from[pool]
      BY <2>2 DEF Moves
    <3>3. PICK p \in Policies : p = r.policy
      BY <3>1
    <3>4. Numbered(big \cup {r})
      <4>1. IsFiniteSet(big) /\ \A x \in big : x.policy \in Policies /\ x.at \in Nat
        BY <2>1, <2>2, FS_Subset DEF HeldTypes
      <4> QED BY <2>1, <3>1, <3>3, <4>1, FS_AddElement DEF Numbered
    <3>5. \A pool \in OneWayPools \cap DOMAIN PolicySpec[p].budgets :
            from[pool] \in Int /\ begun[pool] \in Int /\ from[pool] <= begun[pool]
      <4> SUFFICES ASSUME NEW pool \in OneWayPools \cap DOMAIN PolicySpec[p].budgets
                   PROVE  from[pool] \in Int /\ begun[pool] \in Int /\ from[pool] <= begun[pool]
        OBVIOUS
      <4>1. from[pool] \in Int
        BY <2>1, StartType
      <4>2. pool \in Pools
        BY DEF OneWayPools
      <4>3. begun[pool] = from[pool]
        BY <3>2, <3>3, <4>2
      <4> QED BY <4>1, <4>3
    <3>6. Within(big \cup {r}, p, CallOf[c].userId, now, from)
      BY <2>2, <3>1, <3>3
    <3> HIDE DEF begun, from
    <3>7. Within(Known(r), p, CallOf[c].userId, now, begun)
      BY <2>1, <2>2, <3>4, <3>5, <3>6, WithinSubset
    <3> QED BY <3>1, <3>3, <3>7
  <2>3. CASE \E c \in Calls : Decide(c)
    <3>1. PICK c \in Calls : Decide(c)
      BY <2>3
    <3> DEFINE left == Winners(Candidates(c))
    <3>2. /\ Moves(c, left, reservations)
          /\ MinuteStarts(resources', now) = from
      BY <3>1, DecideFits
    <3>3. left \in Seq(Policies) /\ left \in Seq(Passing(c))
      BY ChosenType
    <3>4. calls[c].status = "waiting" /\ Remembers(c, reservations)
      BY <3>1 DEF Decide
    <3> HIDE DEF left
    <3>5. r.call = c /\ r.policy = Head(left) /\ left # <<>> /\ r.at = now
      BY <3>2 DEF Moves
    <3>6. PICK p \in Passing(c) : p = Head(left)
      BY <3>3, <3>5
    <3>7. PolicySpec[p].guarded => ~killed
      BY DEF Passing, Passes
    <3>8. Within(reservations \cup {r}, p, CallOf[c].userId, now, from)
      BY <2>1, <3>5, <3>6, PassingIsWithin DEF LimitsInv
    <3>9. Known(r) \subseteq reservations \cup {r}
      <4>1. checked'[c] \subseteq reservations
        BY <3>4 DEF Remembers, LimitsInv, SeenTurns
      <4> QED BY <3>5, <4>1 DEF Known
    <3>10. Within(Known(r), r.policy, CallOf[r.call].userId, now, begun)
      BY <2>2, <3>2, <3>3, <3>6, <3>8, <3>9
    <3> QED BY <3>5, <3>6, <3>7, <3>10
  <2>4. CASE \E c \in Calls : Settle(c)
    <3>1. PICK c \in Calls : Settle(c)
      BY <2>4
    <3> DEFINE left == Tail(calls[c].left)
    <3>2. calls[c].status = "running" /\ calls[c].left \in Seq(Policies) /\ calls[c].left # <<>>
      BY <3>1 DEF Settle, CountersInv, TypeOK, Call
    <3>3. PICK held : Moves(c, left, held) /\ held \subseteq reservations
      BY <3>1, SettleFits DEF GrantsInv
    <3>4. MinuteStarts(resources', now) = from
      BY <3>1, SettleFits DEF GrantsInv
    <3>5. left \in Seq(Policies)
      BY <3>2
    <3>6. r \notin held
      BY <3>3
    <3>7. left # <<>> => Head(left) = calls[c].left[2] /\ 2 \in 2 .. Len(calls[c].left)
      BY <3>2
    <3> HIDE DEF left
    <3>8. r.call = c /\ r.policy = Head(left) /\ left # <<>> /\ r.at = now
      BY <3>3, <3>6 DEF Moves
    <3>9. Fits(c, Head(left))
      BY <3>2, <3>7, <3>8 DEF LimitsInv, RoomLeft
    <3>10. Within((checked[c] \cap reservations) \cup {r}, Head(left), CallOf[c].userId, now, from)
      BY <2>1, <3>8, <3>9 DEF Fits
    <3>11. Known(r) \subseteq (checked[c] \cap reservations) \cup {r}
      <4>1. checked'[c] \subseteq checked[c]
        BY <3>1 DEF Settle, Remembers, LimitsInv, SeenTurns
      <4>2. \A x \in reservations' \ held : x \in checked[c] => FALSE
        <5> SUFFICES ASSUME NEW x \in reservations' \ held, x \in checked[c] PROVE FALSE
          OBVIOUS
        <5>1. x.call = c /\ x.turn = Len(left)
          BY <3>3 DEF Moves
        <5>2. x.turn >= Len(calls[c].left)
          BY <3>2, <5>1 DEF LimitsInv, SeenTurns
        <5>3. Len(left) < Len(calls[c].left) /\ Len(left) \in Nat /\ Len(calls[c].left) \in Nat
          BY <3>2 DEF left
        <5> QED BY <5>1, <5>2, <5>3
      <4> QED BY <3>3, <3>8, <4>1, <4>2 DEF Known
    <3>12. Within(Known(r), r.policy, CallOf[r.call].userId, now, begun)
      <4>1. checked[c] \cap reservations \subseteq reservations
        OBVIOUS
      <4> QED BY <2>2, <3>3, <3>4, <3>5, <3>6, <3>10, <3>11, <4>1
    <3> QED BY <3>2, <3>8, <3>12
  <2>5. CASE \E c \in Calls : Continue(c)
    BY <2>5 DEF Continue
  <2>6. CASE (\E p \in Policies : SetActive(p)) \/ SetKillSwitch \/ Tick
    BY <2>6 DEF SetActive, SetKillSwitch, Tick
  <2> QED BY <2>3, <2>4, <2>5, <2>6 DEF Next
<1> QED BY <1>1, CountersInvariance, GrantsInvariance, LimitsInvariance, PTL DEF Spec, ChecksHold
=============================================================================
