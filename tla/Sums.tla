-------------------------------- MODULE Sums --------------------------------
(***************************************************************************)
(* Sums over finite sets, for the proofs about money and counters:         *)
(* SumFunctionOnSet(f, S) of the community modules adds f[x] for the x in  *)
(* S, by a recursion that picks one element after the other.  The theorems *)
(* say that the order does not matter and what one step does to a sum.     *)
(*                                                                         *)
(* Induction: the strict subset ordering of finite sets is well founded,   *)
(* so a claim that fails for a finite set fails for a least one.           *)
(***************************************************************************)
EXTENDS Functions, FiniteSetTheorems, TLAPS

\* The recursion inside SumFunctionOnSet, on the subsets of S.
Recursion(g, f, S) ==
  g = [s \in SUBSET S |->
         IF s = {} THEN 0
         ELSE LET x == CHOOSE x \in s : TRUE IN f[x] + g[s \ {x}]]

IntegersOn(f, S) == \A x \in S : f[x] \in Int

-----------------------------------------------------------------------------
\* A set of finite sets has a member with no smaller one.
LEMMA LeastSet ==
  ASSUME NEW S, NEW B, B \subseteq FiniteSubsetsOf(S), B # {}
  PROVE  \E T \in B : \A U \in B : ~(U \subseteq T /\ U # T)
<1>1. IsWellFoundedOn(StrictSubsetOrdering(S), FiniteSubsetsOf(S))
  BY FS_StrictSubsetOrderingWellFounded
<1>2. \E T \in B : \A U \in B : ~(<<U, T>> \in StrictSubsetOrdering(S))
  BY <1>1, WFMin
<1> QED BY <1>2 DEF StrictSubsetOrdering, FiniteSubsetsOf

\* A finite set of numbers that is not empty has a least one.
LEMMA LeastNumber ==
  ASSUME NEW S \in SUBSET Nat, IsFiniteSet(S), S # {}
  PROVE  \E m \in S : \A i \in S : m <= i
<1> DEFINE Below(i) == {j \in S : j <= i}
           B == {Below(i) : i \in S}
<1>1. PICK T \in B : \A U \in B : ~(U \subseteq T /\ U # T)
  <2>1. B \subseteq FiniteSubsetsOf(S) /\ B # {}
    <3>1. \A i \in S : Below(i) \in SUBSET S
      OBVIOUS
    <3>2. \A V \in SUBSET S : IsFiniteSet(V)
      BY FS_Subset
    <3> HIDE DEF Below
    <3> QED BY <3>1, <3>2 DEF FiniteSubsetsOf
  <2> HIDE DEF B
  <2> QED BY <2>1, LeastSet
<1>2. PICK m \in S : T = Below(m)
  OBVIOUS
<1>3. ASSUME NEW i \in S, ~(m <= i) PROVE FALSE
  <2>1. i \in Nat /\ m \in Nat /\ \A j \in S : j \in Nat
    OBVIOUS
  <2>2. Below(i) \subseteq Below(m)
    <3> SUFFICES ASSUME NEW j \in S, j <= i PROVE j <= m
      OBVIOUS
    <3> QED BY <1>3, <2>1
  <2>3. m \in Below(m) /\ m \notin Below(i)
    BY <1>3, <2>1
  <2>4. Below(i) \in B
    OBVIOUS
  <2> HIDE DEF B, Below
  <2> QED BY <1>1, <1>2, <2>2, <2>3, <2>4
<1> QED BY <1>3

\* Removing an element of a finite set gives a smaller one.
LEMMA Smaller ==
  ASSUME NEW S, IsFiniteSet(S), NEW T \in SUBSET S, NEW x \in T
  PROVE  /\ T \ {x} \in FiniteSubsetsOf(S)
         /\ T \ {x} \subseteq T /\ T \ {x} # T
  BY FS_Subset DEF FiniteSubsetsOf

LEMMA RecursionUnique ==
  ASSUME NEW f, NEW S, IsFiniteSet(S), NEW g, NEW h, Recursion(g, f, S), Recursion(h, f, S)
  PROVE  \A s \in SUBSET S : g[s] = h[s]
<1> DEFINE B == {s \in FiniteSubsetsOf(S) : g[s] # h[s]}
<1>1. SUFFICES ASSUME B # {} PROVE FALSE
  BY FS_Subset DEF FiniteSubsetsOf
<1>2. PICK T \in B : \A U \in B : ~(U \subseteq T /\ U # T)
  <2>1. B \subseteq FiniteSubsetsOf(S)
    OBVIOUS
  <2> HIDE DEF B
  <2> QED BY <1>1, <2>1, LeastSet
<1>3. T \in SUBSET S
  BY DEF FiniteSubsetsOf
<1>4. T # {}
  BY <1>3 DEF Recursion
<1> DEFINE x == CHOOSE x \in T : TRUE
<1>5. x \in T
  BY <1>4
<1>6. g[T \ {x}] = h[T \ {x}]
  <2>1. T \ {x} \in FiniteSubsetsOf(S) /\ T \ {x} \subseteq T /\ T \ {x} # T
    BY <1>3, <1>5, Smaller
  <2>2. T \ {x} \notin B
    BY <1>2, <2>1
  <2> QED BY <2>1, <2>2
<1>7. g[T] = f[x] + g[T \ {x}] /\ h[T] = f[x] + h[T \ {x}]
  BY <1>3, <1>4 DEF Recursion
<1> QED BY <1>6, <1>7

LEMMA RecursionRestricts ==
  ASSUME NEW f, NEW S, NEW T \in SUBSET S, NEW g, Recursion(g, f, S)
  PROVE  Recursion([s \in SUBSET T |-> g[s]], f, T)
<1> DEFINE h == [s \in SUBSET T |-> g[s]]
<1>1. ASSUME NEW s \in SUBSET T
      PROVE  h[s] = IF s = {} THEN 0
                    ELSE LET x == CHOOSE x \in s : TRUE IN f[x] + h[s \ {x}]
  BY <1>1 DEF Recursion
<1> HIDE DEF h
<1>2. h = [s \in SUBSET T |-> h[s]]
  BY DEF h
<1> QED BY <1>1, <1>2 DEF Recursion, h

\* What SumFunctionOnSet returns is the recursion's value.
LEMMA SumIsRecursion ==
  ASSUME NEW f, NEW S
  PROVE  SumFunctionOnSet(f, S) = (CHOOSE g : Recursion(g, f, S))[S]
  BY DEF SumFunctionOnSet, FoldFunctionOnSet, MapThenFoldSet, Recursion

LEMMA RecursionExists ==
  ASSUME NEW f, NEW S, IsFiniteSet(S)
  PROVE  \E g : Recursion(g, f, S)
<1> DEFINE B == {s \in FiniteSubsetsOf(S) : ~ \E g : Recursion(g, f, s)}
<1>1. SUFFICES ASSUME B # {} PROVE FALSE
  BY FS_Subset DEF FiniteSubsetsOf
<1>2. PICK T \in B : \A U \in B : ~(U \subseteq T /\ U # T)
  <2>1. B \subseteq FiniteSubsetsOf(S)
    OBVIOUS
  <2> HIDE DEF B
  <2> QED BY <1>1, <2>1, LeastSet
<1>3. T \in SUBSET S /\ IsFiniteSet(T) /\ ~ \E g : Recursion(g, f, T)
  BY DEF FiniteSubsetsOf
<1> DEFINE Value(s) == (CHOOSE g : Recursion(g, f, s))[s]
<1>4. ASSUME NEW s \in SUBSET T, s # T
      PROVE  Recursion(CHOOSE g : Recursion(g, f, s), f, s)
  <2>1. s \in FiniteSubsetsOf(S)
    BY <1>3, FS_Subset DEF FiniteSubsetsOf
  <2>2. \E g : Recursion(g, f, s)
    BY <1>2, <1>4, <2>1
  <2> QED BY <2>2
<1>5. ASSUME NEW s \in SUBSET T, s # T, s # {}
      PROVE  LET x == CHOOSE x \in s : TRUE IN Value(s) = f[x] + Value(s \ {x})
  <2> DEFINE x == CHOOSE x \in s : TRUE
             g == CHOOSE g : Recursion(g, f, s)
             h == CHOOSE h : Recursion(h, f, s \ {x})
  <2>1. x \in s
    BY <1>5
  <2>2. Recursion(g, f, s) /\ Recursion(h, f, s \ {x})
    BY <1>4, <1>5, <2>1
  <2> HIDE DEF g, h, x
  <2>3. IsFiniteSet(s \ {x})
    BY <1>3, FS_Subset
  <2>4. Recursion([r \in SUBSET (s \ {x}) |-> g[r]], f, s \ {x})
    BY <2>2, RecursionRestricts
  <2>5. g[s \ {x}] = h[s \ {x}]
    BY <2>2, <2>3, <2>4, RecursionUnique
  <2>6. g[s] = f[x] + g[s \ {x}]
    BY <1>5, <2>2 DEF Recursion, x
  <2> QED BY <2>5, <2>6 DEF g, h, x
<1>6. T # {} => Value({}) = 0
  <2>1. ASSUME T # {} PROVE Recursion(CHOOSE g : Recursion(g, f, {}), f, {})
    BY <1>4, <2>1
  <2> QED BY <2>1 DEF Recursion
<1> DEFINE g == [s \in SUBSET T |->
                   IF s = {} THEN 0
                   ELSE IF s = T THEN LET x == CHOOSE x \in s : TRUE IN f[x] + Value(s \ {x})
                   ELSE Value(s)]
<1>7. ASSUME NEW s \in SUBSET T, s # {}
      PROVE  LET x == CHOOSE x \in s : TRUE IN g[s] = f[x] + g[s \ {x}]
  <2> DEFINE x == CHOOSE x \in s : TRUE
  <2>1. x \in s /\ s \ {x} \in SUBSET T /\ s \ {x} # T
    BY <1>7
  <2> HIDE DEF Value
  <2>2. g[s \ {x}] = Value(s \ {x})
    BY <1>6, <1>7, <2>1
  <2>3. g[s] = f[x] + Value(s \ {x})
    <3>1. CASE s = T BY <1>7, <3>1
    <3>2. CASE s # T BY <1>5, <1>7, <3>2
    <3> QED BY <3>1, <3>2
  <2> QED BY <2>2, <2>3
<1>8. g[{}] = 0 /\ g = [s \in SUBSET T |-> g[s]]
  OBVIOUS
<1> HIDE DEF g
<1>9. Recursion(g, f, T)
  BY <1>7, <1>8 DEF Recursion
<1> QED BY <1>3, <1>9

-----------------------------------------------------------------------------
\* One unfolding: nothing, or the chosen element and the sum of the others.
LEMMA SumStep ==
  ASSUME NEW f, NEW S, IsFiniteSet(S)
  PROVE  /\ S = {} => SumFunctionOnSet(f, S) = 0
         /\ S # {} => LET x == CHOOSE x \in S : TRUE
                      IN  SumFunctionOnSet(f, S) = f[x] + SumFunctionOnSet(f, S \ {x})
<1> DEFINE g == CHOOSE g : Recursion(g, f, S)
<1>1. Recursion(g, f, S) /\ SumFunctionOnSet(f, S) = g[S]
  BY RecursionExists, SumIsRecursion
<1> HIDE DEF g
<1>2. S = {} => g[S] = 0
  BY <1>1 DEF Recursion
<1>3. ASSUME S # {}
      PROVE  LET x == CHOOSE x \in S : TRUE
             IN  g[S] = f[x] + SumFunctionOnSet(f, S \ {x})
  <2> DEFINE x == CHOOSE x \in S : TRUE
             R == S \ {x}
             h == CHOOSE h : Recursion(h, f, R)
  <2>1. x \in S /\ R \in SUBSET S /\ IsFiniteSet(R)
    BY <1>3, FS_Subset
  <2>2. Recursion(h, f, R) /\ SumFunctionOnSet(f, R) = h[R]
    BY <2>1, RecursionExists, SumIsRecursion
  <2>3. g[S] = f[x] + g[R]
    BY <1>1, <1>3 DEF Recursion
  <2> HIDE DEF h, x, R
  <2>4. Recursion([r \in SUBSET R |-> g[r]], f, R)
    BY <1>1, <2>1, RecursionRestricts
  <2>5. g[R] = h[R]
    BY <2>1, <2>2, <2>4, RecursionUnique
  <2> QED BY <2>2, <2>3, <2>5 DEF x, R
<1> QED BY <1>1, <1>2, <1>3

LEMMA SumEmpty ==
  ASSUME NEW f
  PROVE  SumFunctionOnSet(f, {}) = 0
  BY SumStep, FS_EmptySet

\* A sum of integers is an integer.
LEMMA SumType ==
  ASSUME NEW f, NEW S, IsFiniteSet(S), IntegersOn(f, S)
  PROVE  SumFunctionOnSet(f, S) \in Int
<1> DEFINE B == {s \in FiniteSubsetsOf(S) : SumFunctionOnSet(f, s) \notin Int}
<1>1. SUFFICES ASSUME B # {} PROVE FALSE
  BY DEF FiniteSubsetsOf
<1>2. PICK T \in B : \A U \in B : ~(U \subseteq T /\ U # T)
  <2>1. B \subseteq FiniteSubsetsOf(S)
    OBVIOUS
  <2> HIDE DEF B
  <2> QED BY <1>1, <2>1, LeastSet
<1>3. T \in SUBSET S /\ IsFiniteSet(T) /\ SumFunctionOnSet(f, T) \notin Int
  BY DEF FiniteSubsetsOf
<1> DEFINE x == CHOOSE x \in T : TRUE
<1>4. T # {} /\ x \in T
  BY <1>3, SumEmpty
<1>5. SumFunctionOnSet(f, T) = f[x] + SumFunctionOnSet(f, T \ {x})
  BY <1>3, <1>4, SumStep
<1> HIDE DEF x
<1>6. SumFunctionOnSet(f, T \ {x}) \in Int
  <2>1. T \ {x} \in FiniteSubsetsOf(S) /\ T \ {x} \subseteq T /\ T \ {x} # T
    BY <1>3, <1>4, Smaller
  <2>2. T \ {x} \notin B
    BY <1>2, <2>1
  <2> QED BY <2>1, <2>2
<1>7. f[x] \in Int
  BY <1>3, <1>4 DEF IntegersOn
<1> QED BY <1>3, <1>5, <1>6, <1>7

\* A sum of natural numbers is one.
LEMMA SumNatural ==
  ASSUME NEW f, NEW S, IsFiniteSet(S), \A x \in S : f[x] \in Nat
  PROVE  SumFunctionOnSet(f, S) \in Nat
<1> DEFINE B == {s \in FiniteSubsetsOf(S) : SumFunctionOnSet(f, s) \notin Nat}
<1>1. SUFFICES ASSUME B # {} PROVE FALSE
  BY DEF FiniteSubsetsOf
<1>2. PICK T \in B : \A U \in B : ~(U \subseteq T /\ U # T)
  <2>1. B \subseteq FiniteSubsetsOf(S)
    OBVIOUS
  <2> HIDE DEF B
  <2> QED BY <1>1, <2>1, LeastSet
<1>3. T \in SUBSET S /\ IsFiniteSet(T) /\ SumFunctionOnSet(f, T) \notin Nat
  BY DEF FiniteSubsetsOf
<1> DEFINE x == CHOOSE x \in T : TRUE
<1>4. T # {} /\ x \in T
  BY <1>3, SumEmpty
<1>5. SumFunctionOnSet(f, T) = f[x] + SumFunctionOnSet(f, T \ {x})
  BY <1>3, <1>4, SumStep
<1> HIDE DEF x
<1>6. SumFunctionOnSet(f, T \ {x}) \in Nat
  <2>1. T \ {x} \in FiniteSubsetsOf(S) /\ T \ {x} \subseteq T /\ T \ {x} # T
    BY <1>3, <1>4, Smaller
  <2>2. T \ {x} \notin B
    BY <1>2, <2>1
  <2> QED BY <2>1, <2>2
<1>7. f[x] \in Nat
  BY <1>3, <1>4
<1> QED BY <1>3, <1>5, <1>6, <1>7

\* Any element may be taken out first, not only the one CHOOSE picks.
LEMMA SumTakesOut ==
  ASSUME NEW f, NEW S, IsFiniteSet(S), IntegersOn(f, S), NEW x \in S
  PROVE  SumFunctionOnSet(f, S) = f[x] + SumFunctionOnSet(f, S \ {x})
<1> DEFINE Out(s, z) == SumFunctionOnSet(f, s) = f[z] + SumFunctionOnSet(f, s \ {z})
           B == {s \in FiniteSubsetsOf(S) : \E z \in s : ~Out(s, z)}
<1>1. SUFFICES ASSUME B # {} PROVE FALSE
  BY DEF FiniteSubsetsOf
<1>2. PICK T \in B : \A U \in B : ~(U \subseteq T /\ U # T)
  <2>1. B \subseteq FiniteSubsetsOf(S)
    OBVIOUS
  <2> HIDE DEF B
  <2> QED BY <1>1, <2>1, LeastSet
<1>3. T \in SUBSET S /\ IsFiniteSet(T)
  BY DEF FiniteSubsetsOf
<1>4. PICK z \in T : ~Out(T, z)
  OBVIOUS
<1> DEFINE y == CHOOSE y \in T : TRUE
<1>5. y \in T /\ Out(T, y)
  BY <1>3, <1>4, SumStep
<1> HIDE DEF y
<1>6. y # z
  BY <1>4, <1>5
<1>7. ASSUME NEW v \in T, NEW w \in T \ {v}
      PROVE  Out(T \ {v}, w)
  <2>1. T \ {v} \in FiniteSubsetsOf(S) /\ T \ {v} \subseteq T /\ T \ {v} # T
    BY <1>3, Smaller
  <2>2. T \ {v} \notin B
    BY <1>2, <2>1
  <2> HIDE DEF Out
  <2> QED BY <2>1, <2>2
<1> DEFINE R == (T \ {y}) \ {z}
<1>8. /\ SumFunctionOnSet(f, T) = f[y] + SumFunctionOnSet(f, T \ {y})
      /\ SumFunctionOnSet(f, T \ {y}) = f[z] + SumFunctionOnSet(f, R)
  BY <1>5, <1>6, <1>7
<1>9. SumFunctionOnSet(f, T \ {z}) = f[y] + SumFunctionOnSet(f, R)
  <2>1. (T \ {z}) \ {y} = R
    OBVIOUS
  <2> HIDE DEF R
  <2> QED BY <1>5, <1>6, <1>7, <2>1
<1>10. f[y] \in Int /\ f[z] \in Int /\ SumFunctionOnSet(f, R) \in Int
  <2>1. IsFiniteSet(R) /\ R \subseteq S
    BY <1>3, FS_Subset
  <2> QED BY <1>3, <1>5, <2>1, SumType DEF IntegersOn
<1> HIDE DEF R
<1> QED BY <1>4, <1>8, <1>9, <1>10

\* A sum of zeros.
LEMMA SumZero ==
  ASSUME NEW f, NEW S, IsFiniteSet(S), \A x \in S : f[x] = 0
  PROVE  SumFunctionOnSet(f, S) = 0
<1> DEFINE B == {s \in FiniteSubsetsOf(S) : SumFunctionOnSet(f, s) # 0}
<1>1. SUFFICES ASSUME B # {} PROVE FALSE
  BY DEF FiniteSubsetsOf
<1>2. PICK T \in B : \A U \in B : ~(U \subseteq T /\ U # T)
  <2>1. B \subseteq FiniteSubsetsOf(S)
    OBVIOUS
  <2> HIDE DEF B
  <2> QED BY <1>1, <2>1, LeastSet
<1>3. T \in SUBSET S /\ IsFiniteSet(T) /\ SumFunctionOnSet(f, T) # 0
  BY DEF FiniteSubsetsOf
<1> DEFINE x == CHOOSE x \in T : TRUE
<1>4. T # {} /\ x \in T
  BY <1>3, SumEmpty
<1>5. SumFunctionOnSet(f, T) = f[x] + SumFunctionOnSet(f, T \ {x})
  BY <1>3, <1>4, SumStep
<1> HIDE DEF x
<1>6. T \ {x} \in FiniteSubsetsOf(S) /\ T \ {x} \subseteq T /\ T \ {x} # T
  BY <1>3, <1>4, Smaller
<1>7. T \ {x} \notin B
  BY <1>2, <1>6
<1> QED BY <1>3, <1>4, <1>5, <1>6, <1>7

\* A new element adds its own value.
LEMMA SumAdds ==
  ASSUME NEW f, NEW S, IsFiniteSet(S), NEW x, x \notin S, IntegersOn(f, S \cup {x})
  PROVE  SumFunctionOnSet(f, S \cup {x}) = SumFunctionOnSet(f, S) + f[x]
<1>1. IsFiniteSet(S \cup {x}) /\ (S \cup {x}) \ {x} = S
  BY FS_AddElement
<1>2. SumFunctionOnSet(f, S \cup {x}) = f[x] + SumFunctionOnSet(f, S)
  BY <1>1, SumTakesOut
<1>3. f[x] \in Int /\ SumFunctionOnSet(f, S) \in Int
  BY SumType DEF IntegersOn
<1> QED BY <1>2, <1>3

\* The sum over two sets without common elements.
LEMMA SumUnion ==
  ASSUME NEW f, NEW S, IsFiniteSet(S), NEW T, IsFiniteSet(T), S \cap T = {},
         IntegersOn(f, S \cup T)
  PROVE  SumFunctionOnSet(f, S \cup T) = SumFunctionOnSet(f, S) + SumFunctionOnSet(f, T)
<1> DEFINE Adds(s) == SumFunctionOnSet(f, S \cup s) = SumFunctionOnSet(f, S) + SumFunctionOnSet(f, s)
           B == {s \in FiniteSubsetsOf(T) : ~Adds(s)}
<1>1. SUFFICES ASSUME B # {} PROVE FALSE
  BY DEF FiniteSubsetsOf
<1>2. PICK U \in B : \A V \in B : ~(V \subseteq U /\ V # U)
  <2>1. B \subseteq FiniteSubsetsOf(T)
    OBVIOUS
  <2> HIDE DEF B
  <2> QED BY <1>1, <2>1, LeastSet
<1>3. U \in SUBSET T /\ IsFiniteSet(U) /\ ~Adds(U)
  BY DEF FiniteSubsetsOf
<1>4. SumFunctionOnSet(f, S) \in Int
  BY SumType DEF IntegersOn
<1>5. U # {}
  <2>1. S \cup {} = S
    OBVIOUS
  <2>2. Adds({})
    BY <1>4, <2>1, SumEmpty
  <2> QED BY <1>3, <2>2
<1>6. PICK x \in U : TRUE
  BY <1>5
<1> DEFINE R == U \ {x}
<1>7. Adds(R)
  <2>1. R \in FiniteSubsetsOf(T) /\ R \subseteq U /\ R # U
    BY <1>3, Smaller
  <2>2. R \notin B
    BY <1>2, <2>1
  <2> HIDE DEF Adds, R
  <2> QED BY <2>1, <2>2
<1>8. SumFunctionOnSet(f, U) = f[x] + SumFunctionOnSet(f, R)
  BY <1>3, SumTakesOut DEF IntegersOn
<1>9. SumFunctionOnSet(f, S \cup U) = f[x] + SumFunctionOnSet(f, S \cup R)
  <2>1. (S \cup U) \ {x} = S \cup R
    BY <1>3
  <2>2. IsFiniteSet(S \cup U) /\ x \in S \cup U /\ IntegersOn(f, S \cup U)
    BY <1>3, FS_Union DEF IntegersOn
  <2> HIDE DEF R
  <2>3. SumFunctionOnSet(f, S \cup U) = f[x] + SumFunctionOnSet(f, (S \cup U) \ {x})
    BY <2>2, SumTakesOut
  <2> QED BY <2>1, <2>3
<1>10. f[x] \in Int /\ SumFunctionOnSet(f, R) \in Int
  <2>1. IsFiniteSet(R) /\ R \subseteq T
    BY <1>3, FS_Subset
  <2> QED BY <1>3, <2>1, SumType DEF IntegersOn
<1> HIDE DEF R
<1> QED BY <1>3, <1>4, <1>7, <1>8, <1>9, <1>10

\* Functions that agree on a set have one sum over it.
LEMMA SumCongruent ==
  ASSUME NEW f, NEW g, NEW S, IsFiniteSet(S), \A x \in S : f[x] = g[x]
  PROVE  SumFunctionOnSet(f, S) = SumFunctionOnSet(g, S)
<1> DEFINE B == {s \in FiniteSubsetsOf(S) : SumFunctionOnSet(f, s) # SumFunctionOnSet(g, s)}
<1>1. SUFFICES ASSUME B # {} PROVE FALSE
  BY DEF FiniteSubsetsOf
<1>2. PICK T \in B : \A U \in B : ~(U \subseteq T /\ U # T)
  <2>1. B \subseteq FiniteSubsetsOf(S)
    OBVIOUS
  <2> HIDE DEF B
  <2> QED BY <1>1, <2>1, LeastSet
<1>3. T \in SUBSET S /\ IsFiniteSet(T) /\ SumFunctionOnSet(f, T) # SumFunctionOnSet(g, T)
  BY DEF FiniteSubsetsOf
<1> DEFINE x == CHOOSE x \in T : TRUE
<1>4. T # {} /\ x \in T
  BY <1>3, SumEmpty
<1>5. /\ SumFunctionOnSet(f, T) = f[x] + SumFunctionOnSet(f, T \ {x})
      /\ SumFunctionOnSet(g, T) = g[x] + SumFunctionOnSet(g, T \ {x})
  BY <1>3, <1>4, SumStep
<1> HIDE DEF x
<1>6. SumFunctionOnSet(f, T \ {x}) = SumFunctionOnSet(g, T \ {x})
  <2>1. T \ {x} \in FiniteSubsetsOf(S) /\ T \ {x} \subseteq T /\ T \ {x} # T
    BY <1>3, <1>4, Smaller
  <2>2. T \ {x} \notin B
    BY <1>2, <2>1
  <2> QED BY <2>1, <2>2
<1> QED BY <1>3, <1>4, <1>5, <1>6

\* A change of one value changes the sum by the difference.
LEMMA SumChangesAt ==
  ASSUME NEW f, NEW g, NEW S, IsFiniteSet(S), IntegersOn(f, S), IntegersOn(g, S),
         NEW x \in S, \A y \in S \ {x} : g[y] = f[y]
  PROVE  SumFunctionOnSet(g, S) = SumFunctionOnSet(f, S) + (g[x] - f[x])
<1>1. /\ SumFunctionOnSet(f, S) = f[x] + SumFunctionOnSet(f, S \ {x})
      /\ SumFunctionOnSet(g, S) = g[x] + SumFunctionOnSet(g, S \ {x})
  BY SumTakesOut
<1>2. IsFiniteSet(S \ {x})
  BY FS_Subset
<1>3. SumFunctionOnSet(g, S \ {x}) = SumFunctionOnSet(f, S \ {x})
  BY <1>2, SumCongruent
<1>4. f[x] \in Int /\ g[x] \in Int /\ SumFunctionOnSet(f, S \ {x}) \in Int
  BY <1>2, SumType DEF IntegersOn
<1> QED BY <1>1, <1>3, <1>4

\* A sum of figures of at least c is at least c times their number.
LEMMA SumAtLeast ==
  ASSUME NEW f, NEW S, IsFiniteSet(S), IntegersOn(f, S), NEW c \in Nat, \A x \in S : c <= f[x]
  PROVE  c * Cardinality(S) <= SumFunctionOnSet(f, S)
<1> DEFINE B == {s \in FiniteSubsetsOf(S) : ~(c * Cardinality(s) <= SumFunctionOnSet(f, s))}
<1>1. SUFFICES ASSUME B # {} PROVE FALSE
  BY DEF FiniteSubsetsOf
<1>2. PICK T \in B : \A U \in B : ~(U \subseteq T /\ U # T)
  <2>1. B \subseteq FiniteSubsetsOf(S)
    OBVIOUS
  <2> HIDE DEF B
  <2> QED BY <1>1, <2>1, LeastSet
<1>3. T \in SUBSET S /\ IsFiniteSet(T) /\ ~(c * Cardinality(T) <= SumFunctionOnSet(f, T))
  BY DEF FiniteSubsetsOf
<1>4. T # {}
  <2>1. SUFFICES ASSUME T = {} PROVE FALSE
    OBVIOUS
  <2>2. Cardinality(T) = 0 /\ SumFunctionOnSet(f, T) = 0
    BY <2>1, FS_EmptySet, SumEmpty
  <2> QED BY <1>3, <2>2
<1>5. PICK x \in T : TRUE
  BY <1>4
<1> DEFINE R == T \ {x}
           n == Cardinality(R)
<1>6. /\ R \in FiniteSubsetsOf(S) /\ R \subseteq T /\ R # T
  BY <1>3, <1>5, FS_Subset DEF FiniteSubsetsOf
<1>7. c * n <= SumFunctionOnSet(f, R)
  BY <1>2, <1>6
<1>8. /\ IsFiniteSet(R) /\ n \in Nat /\ Cardinality(T) = n + 1
  <2>1. IsFiniteSet(R)
    BY <1>3, FS_Subset
  <2>2. x \notin R /\ T = R \cup {x}
    BY <1>5
  <2> HIDE DEF R
  <2> QED BY <2>1, <2>2, FS_AddElement, FS_CardinalityType
<1>9. SumFunctionOnSet(f, T) = f[x] + SumFunctionOnSet(f, R) /\ SumFunctionOnSet(f, R) \in Int
  <2>1. IntegersOn(f, T) /\ IntegersOn(f, R)
    BY <1>3 DEF IntegersOn
  <2> QED BY <1>3, <1>5, <1>8, <2>1, SumTakesOut, SumType
<1>10. f[x] \in Int /\ c <= f[x]
  BY <1>3, <1>5 DEF IntegersOn
<1> HIDE DEF R, n
<1>11. c * (n + 1) = c * n + c /\ c * n \in Int
  BY <1>8
<1> QED BY <1>3, <1>7, <1>8, <1>9, <1>10, <1>11
=============================================================================
