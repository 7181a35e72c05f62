-------------------------------- MODULE Sums --------------------------------
(***************************************************************************)
(* Facts about sums over finite sets, and about the extremes of a finite   *)
(* set of numbers, that the proofs about several modules rest on.          *)
(***************************************************************************)
EXTENDS Integers, FiniteSets, FiniteSetsExt, FiniteSetTheorems, WellFoundedInduction, TLAPS

-----------------------------------------------------------------------------
(* Sums over finite sets.  The induction theorems of the library have an     *)
(* operator parameter; those about well-founded orders have none, and the    *)
(* things to prove are given as a set of good sets instead.                  *)

LEMMA FiniteInduction ==
    ASSUME NEW S, IsFiniteSet(S), NEW Good,
           \A T \in SUBSET S : (\A U \in SUBSET T : U # T => U \in Good) => T \in Good
    PROVE  \A T \in SUBSET S : T \in Good
<1> DEFINE R == StrictSubsetOrdering(S)
           Bad == {T \in SUBSET S : T \notin Good}
<1>1. IsWellFoundedOn(R, SUBSET S)
  BY FS_StrictSubsetOrderingWellFounded, FS_FiniteSubsetsOfFinite
<1>2. SUFFICES ASSUME Bad # {} PROVE FALSE
  OBVIOUS
<1>3. Bad \subseteq SUBSET S
  OBVIOUS
<1>4. PICK T \in Bad : \A U \in Bad : <<U, T>> \notin R
  <2> HIDE DEF R, Bad
  <2> QED
    BY <1>1, <1>2, <1>3, WFMin
<1>5. ASSUME NEW U \in SUBSET T, U # T PROVE U \in Good
  <2>1. <<U, T>> \in R
    BY <1>5 DEF StrictSubsetOrdering
  <2> QED
    BY <1>4, <2>1
<1> QED
  BY <1>5

\* The numbers up to n have a property that 0 has and each passes on to the next.
LEMMA UpTo ==
    ASSUME NEW n \in Nat, NEW Good, 0 \in Good, \A k \in 0..(n - 1) : k \in Good => k + 1 \in Good
    PROVE  n \in Good
<1> DEFINE Fine == {T \in SUBSET (0..n) : \A k \in 0..n : T = 0..k => k \in Good}
<1>1. IsFiniteSet(0..n)
  BY FS_Interval
<1>2. ASSUME NEW T \in SUBSET (0..n), \A U \in SUBSET T : U # T => U \in Fine
      PROVE  T \in Fine
  <2> SUFFICES ASSUME NEW k \in 0..n, T = 0..k PROVE k \in Good
    OBVIOUS
  <2>1. CASE k = 0
    BY <2>1
  <2>2. CASE k # 0
    <3>1. k - 1 \in 0..n /\ k - 1 \in 0..(n - 1) /\ k = (k - 1) + 1
      BY <2>2
    <3>2. 0..(k - 1) \in SUBSET T /\ 0..(k - 1) # T
      BY <2>2
    <3>3. 0..(k - 1) \in Fine
      BY <1>2, <3>2
    <3>4. k - 1 \in Good
      BY <3>1, <3>3
    <3> QED
      BY <3>1, <3>4
  <2> QED
    BY <2>1, <2>2
<1>3. 0..n \in Fine
  <2>1. \A T \in SUBSET (0..n) : (\A U \in SUBSET T : U # T => U \in Fine) => T \in Fine
    BY <1>2
  <2> HIDE DEF Fine
  <2>2. \A T \in SUBSET (0..n) : T \in Fine
    BY <1>1, <2>1, FiniteInduction, Zenon
  <2> QED
    BY <2>2
<1>4. n \in 0..n
  OBVIOUS
<1> QED
  BY <1>3, <1>4, Zenon

Sum(f, S) == MapThenSumSet(LAMBDA x : f[x], S)

Pick(s) == CHOOSE x \in s : TRUE

\* The sum of s in terms of the sum of a smaller set.
NextSum(f, g, s) == IF s = {} THEN 0 ELSE f[Pick(s)] + g[s \ {Pick(s)}]

SumsOf(f, S) == CHOOSE g : g = [s \in SUBSET S |-> NextSum(f, g, s)]

LEMMA SumByDefinition ==
    ASSUME NEW f, NEW S
    PROVE  Sum(f, S) = SumsOf(f, S)[S]
BY DEF Sum, MapThenSumSet, MapThenFoldSet, SumsOf, NextSum, Pick

LEMMA SumsExist ==
    ASSUME NEW f, NEW S, IsFiniteSet(S)
    PROVE  \A s \in SUBSET S : SumsOf(f, S)[s] = NextSum(f, SumsOf(f, S), s)
<1> DEFINE Small(n) == {s \in SUBSET S : Cardinality(s) <= n}
           Good == {n \in Nat : \E g : g = [s \in Small(n) |-> NextSum(f, g, s)]}
<1>0. \A s \in SUBSET S : IsFiniteSet(s) /\ Cardinality(s) \in Nat
  BY FS_Subset, FS_CardinalityType
<1>1. 0 \in Good
  <2> DEFINE g == [s \in Small(0) |-> 0]
  <2>1. \A s \in Small(0) : s = {}
    BY <1>0, FS_EmptySet
  <2>2. \A s \in Small(0) : NextSum(f, g, s) = 0
    BY <2>1 DEF NextSum
  <2>3. g = [s \in Small(0) |-> NextSum(f, g, s)]
    BY <2>2
  <2> QED
    BY <2>3
<1>2. ASSUME NEW n \in Nat, n \in Good PROVE n + 1 \in Good
  <2>1. PICK g : g = [s \in Small(n) |-> NextSum(f, g, s)]
    BY <1>2
  <2> DEFINE h == [s \in Small(n + 1) |-> NextSum(f, g, s)]
  <2>2. Small(n) \subseteq Small(n + 1)
    BY <1>0
  <2>3. \A s \in Small(n) : h[s] = g[s]
    <3>1. \A s \in Small(n) : h[s] = NextSum(f, g, s)
      BY <2>2
    <3>2. \A s \in Small(n) : g[s] = NextSum(f, g, s)
      BY <2>1
    <3> QED
      BY <3>1, <3>2
  <2>4. ASSUME NEW s \in Small(n + 1), s # {} PROVE s \ {Pick(s)} \in Small(n)
    <3>1. Pick(s) \in s
      BY <2>4 DEF Pick
    <3>2. Cardinality(s \ {Pick(s)}) = Cardinality(s) - 1
      BY <1>0, <3>1, FS_RemoveElement
    <3> QED
      BY <1>0, <3>2
  <2>5. \A s \in Small(n + 1) : NextSum(f, h, s) = NextSum(f, g, s)
    <3> HIDE DEF h, Small
    <3> QED
      BY <2>3, <2>4 DEF NextSum
  <2>6. h = [s \in Small(n + 1) |-> NextSum(f, h, s)]
    <3> HIDE DEF Small
    <3> QED
      BY <2>5
  <2>7. \E e : e = [s \in Small(n + 1) |-> NextSum(f, e, s)]
    <3> HIDE DEF h, Small
    <3> QED
      BY <2>6, Zenon
  <2>8. n + 1 \in Nat
    OBVIOUS
  <2> QED
    <3> HIDE DEF h, Small
    <3> QED
      BY <2>7, <2>8, Zenon
<1>3. Cardinality(S) \in Good
  <2> HIDE DEF Good
  <2>1. Cardinality(S) \in Nat
    BY FS_CardinalityType
  <2>2. \A k \in 0..(Cardinality(S) - 1) : k \in Good => k + 1 \in Good
    BY <1>2, <2>1
  <2> QED
    BY <1>1, <2>1, <2>2, UpTo
<1>4. Small(Cardinality(S)) = SUBSET S
  BY FS_Subset
<1>5. PICK g : g = [s \in SUBSET S |-> NextSum(f, g, s)]
  BY <1>3, <1>4
<1>6. SumsOf(f, S) = [s \in SUBSET S |-> NextSum(f, SumsOf(f, S), s)]
  BY <1>5 DEF SumsOf
<1> HIDE DEF Small, Good
<1> QED
  BY <1>6

\* The sum of a set is the same wherever it is computed.
LEMMA SumWithin ==
    ASSUME NEW f, NEW S, IsFiniteSet(S), NEW T \in SUBSET S
    PROVE  Sum(f, T) = SumsOf(f, S)[T]
<1>1. IsFiniteSet(T)
  BY FS_Subset
<1>2. PICK here : here = SumsOf(f, T) /\ \A s \in SUBSET T : here[s] = NextSum(f, here, s)
  BY <1>1, SumsExist
<1>3. PICK there : there = SumsOf(f, S) /\ \A s \in SUBSET S : there[s] = NextSum(f, there, s)
  BY SumsExist
<1> DEFINE Good == {U \in SUBSET T : here[U] = there[U]}
<1>4. ASSUME NEW U \in SUBSET T, \A V \in SUBSET U : V # U => V \in Good
      PROVE  U \in Good
  <2>1. here[U] = NextSum(f, here, U)
    BY <1>2
  <2>2. U \in SUBSET S
    OBVIOUS
  <2>3. there[U] = NextSum(f, there, U)
    BY <1>3, <2>2
  <2>4. CASE U = {}
    BY <2>1, <2>3, <2>4 DEF NextSum
  <2>5. CASE U # {}
    <3>1. U \ {Pick(U)} \in SUBSET U /\ U \ {Pick(U)} # U
      BY <2>5 DEF Pick
    <3>2. here[U \ {Pick(U)}] = there[U \ {Pick(U)}]
      BY <1>4, <3>1
    <3> QED
      BY <2>1, <2>3, <2>5, <3>2 DEF NextSum
  <2> QED
    BY <2>4, <2>5
<1>5. T \in Good
  <2>1. \A U \in SUBSET T : (\A V \in SUBSET U : V # U => V \in Good) => U \in Good
    BY <1>4
  <2> HIDE DEF Good
  <2>2. \A U \in SUBSET T : U \in Good
    BY <1>1, <2>1, FiniteInduction, Zenon
  <2> QED
    BY <2>2
<1>6. here[T] = there[T]
  BY <1>5
<1>7. Sum(f, T) = SumsOf(f, T)[T]
  BY SumByDefinition
<1> QED
  BY <1>2, <1>3, <1>6, <1>7

LEMMA SumEmpty ==
    ASSUME NEW f
    PROVE  Sum(f, {}) = 0
<1>1. PICK S : S = {}
  OBVIOUS
<1>2. IsFiniteSet(S) /\ S \in SUBSET S
  BY <1>1, FS_EmptySet
<1>3. SumsOf(f, S)[S] = NextSum(f, SumsOf(f, S), S)
  BY <1>2, SumsExist
<1>4. Sum(f, S) = NextSum(f, SumsOf(f, S), S)
  BY <1>3, SumByDefinition
<1> QED
  BY <1>1, <1>4 DEF NextSum

LEMMA SumPick ==
    ASSUME NEW f, NEW S, IsFiniteSet(S), S # {}
    PROVE  /\ Pick(S) \in S
           /\ Sum(f, S) = f[Pick(S)] + Sum(f, S \ {Pick(S)})
<1>1. \A s \in SUBSET S : SumsOf(f, S)[s] = NextSum(f, SumsOf(f, S), s)
  BY SumsExist
<1>2. Pick(S) \in S
  BY DEF Pick
<1>3. Sum(f, S \ {Pick(S)}) = SumsOf(f, S)[S \ {Pick(S)}]
  <2>1. S \ {Pick(S)} \in SUBSET S
    OBVIOUS
  <2> QED
    BY <2>1, SumWithin
<1>4. SumsOf(f, S)[S] = NextSum(f, SumsOf(f, S), S)
  BY <1>1
<1> QED
  BY <1>2, <1>3, <1>4, SumByDefinition DEF NextSum

LEMMA SumType ==
    ASSUME NEW f, NEW S, IsFiniteSet(S), \A x \in S : f[x] \in Int
    PROVE  Sum(f, S) \in Int
<1> DEFINE Good == {T \in SUBSET S : Sum(f, T) \in Int}
<1>1. ASSUME NEW T \in SUBSET S, \A U \in SUBSET T : U # T => U \in Good
      PROVE  T \in Good
  <2>1. IsFiniteSet(T)
    BY FS_Subset
  <2>2. CASE T = {}
    BY <2>2, SumEmpty
  <2>3. CASE T # {}
    <3>1. Pick(T) \in T /\ Sum(f, T) = f[Pick(T)] + Sum(f, T \ {Pick(T)})
      BY <2>1, <2>3, SumPick
    <3>2. Sum(f, T \ {Pick(T)}) \in Int
      BY <1>1, <3>1
    <3> QED
      BY <3>1, <3>2
  <2> QED
    BY <2>2, <2>3
<1>2. S \in Good
  <2>1. \A T \in SUBSET S : (\A U \in SUBSET T : U # T => U \in Good) => T \in Good
    BY <1>1
  <2> HIDE DEF Good
  <2>2. \A T \in SUBSET S : T \in Good
    BY <2>1, FiniteInduction, Zenon
  <2> QED
    BY <2>2
<1> QED
  BY <1>2

LEMMA SumNat ==
    ASSUME NEW f, NEW S, IsFiniteSet(S), \A x \in S : f[x] \in Nat
    PROVE  Sum(f, S) \in Nat
<1> DEFINE Good == {T \in SUBSET S : Sum(f, T) \in Nat}
<1>1. ASSUME NEW T \in SUBSET S, \A U \in SUBSET T : U # T => U \in Good
      PROVE  T \in Good
  <2>1. IsFiniteSet(T)
    BY FS_Subset
  <2>2. CASE T = {}
    BY <2>2, SumEmpty
  <2>3. CASE T # {}
    <3>1. Pick(T) \in T /\ Sum(f, T) = f[Pick(T)] + Sum(f, T \ {Pick(T)})
      BY <2>1, <2>3, SumPick
    <3>2. Sum(f, T \ {Pick(T)}) \in Nat
      BY <1>1, <3>1
    <3> QED
      BY <3>1, <3>2
  <2> QED
    BY <2>2, <2>3
<1>2. S \in Good
  <2>1. \A T \in SUBSET S : (\A U \in SUBSET T : U # T => U \in Good) => T \in Good
    BY <1>1
  <2> HIDE DEF Good
  <2>2. \A T \in SUBSET S : T \in Good
    BY <2>1, FiniteInduction, Zenon
  <2> QED
    BY <2>2
<1> QED
  BY <1>2

\* Any element can be taken out of a sum, not only the one its definition takes.
LEMMA SumRemove ==
    ASSUME NEW f, NEW S, IsFiniteSet(S), \A x \in S : f[x] \in Int, NEW e \in S
    PROVE  Sum(f, S) = f[e] + Sum(f, S \ {e})
<1> DEFINE Good == {T \in SUBSET S : \A x \in T : Sum(f, T) = f[x] + Sum(f, T \ {x})}
<1>1. ASSUME NEW T \in SUBSET S, \A U \in SUBSET T : U # T => U \in Good
      PROVE  T \in Good
  <2> SUFFICES ASSUME NEW x \in T PROVE Sum(f, T) = f[x] + Sum(f, T \ {x})
    OBVIOUS
  <2> DEFINE p == Pick(T)
             both == T \ {x, p}
  <2>1. IsFiniteSet(T) /\ IsFiniteSet(both)
    BY FS_Subset
  <2>2. p \in T /\ Sum(f, T) = f[p] + Sum(f, T \ {p})
    BY <2>1, SumPick
  <2>3. CASE x = p
    BY <2>2, <2>3
  <2>4. CASE x # p
    <3>1. Sum(f, T \ {p}) = f[x] + Sum(f, both)
      <4>1. T \ {p} \in Good /\ x \in T \ {p} /\ (T \ {p}) \ {x} = both
        BY <1>1, <2>2, <2>4
      <4> QED
        BY <4>1
    <3>2. Sum(f, T \ {x}) = f[p] + Sum(f, both)
      <4>1. T \ {x} \in Good /\ p \in T \ {x} /\ (T \ {x}) \ {p} = both
        BY <1>1, <2>2, <2>4
      <4> QED
        BY <4>1
    <3>3. f[x] \in Int /\ f[p] \in Int /\ Sum(f, both) \in Int
      BY <2>1, <2>2, SumType
    <3> HIDE DEF p, both
    <3> QED
      BY <2>2, <3>1, <3>2, <3>3
  <2> QED
    BY <2>3, <2>4
<1>2. S \in Good
  <2>1. \A T \in SUBSET S : (\A U \in SUBSET T : U # T => U \in Good) => T \in Good
    BY <1>1
  <2> HIDE DEF Good
  <2>2. \A T \in SUBSET S : T \in Good
    BY <2>1, FiniteInduction, Zenon
  <2> QED
    BY <2>2
<1> QED
  BY <1>2

LEMMA SumAdd ==
    ASSUME NEW f, NEW S, IsFiniteSet(S), \A x \in S : f[x] \in Int,
           NEW e, e \notin S, f[e] \in Int
    PROVE  Sum(f, S \cup {e}) = Sum(f, S) + f[e]
<1>1. IsFiniteSet(S \cup {e}) /\ (S \cup {e}) \ {e} = S
  BY FS_AddElement
<1>2. Sum(f, S \cup {e}) = f[e] + Sum(f, (S \cup {e}) \ {e})
  <2>1. \A x \in S \cup {e} : f[x] \in Int
    OBVIOUS
  <2> QED
    BY <1>1, <2>1, SumRemove
<1>3. Sum(f, S) \in Int
  BY SumType
<1>4. Sum(f, S \cup {e}) = f[e] + Sum(f, S)
  BY <1>1, <1>2, Zenon
<1> QED
  BY <1>3, <1>4

LEMMA SumUnion ==
    ASSUME NEW f, NEW S, NEW T, IsFiniteSet(S), IsFiniteSet(T), S \cap T = {},
           \A x \in S \cup T : f[x] \in Int
    PROVE  Sum(f, S \cup T) = Sum(f, S) + Sum(f, T)
<1> DEFINE Good == {U \in SUBSET T : Sum(f, S \cup U) = Sum(f, S) + Sum(f, U)}
<1>1. ASSUME NEW U \in SUBSET T, \A V \in SUBSET U : V # U => V \in Good
      PROVE  U \in Good
  <2>1. IsFiniteSet(U) /\ Sum(f, S) \in Int
    BY FS_Subset, SumType
  <2>2. CASE U = {}
    <3>1. S \cup U = S
      BY <2>2
    <3> QED
      BY <2>1, <2>2, <3>1, SumEmpty
  <2>3. CASE U # {}
    <3>1. PICK e \in U : TRUE
      BY <2>3
    <3> DEFINE V == U \ {e}
    <3>2. IsFiniteSet(V) /\ IsFiniteSet(S \cup V) /\ V \in Good
      BY <1>1, <2>1, FS_Subset, FS_Union
    <3>3. Sum(f, S \cup V) = Sum(f, S) + Sum(f, V)
      BY <3>2
    <3>4. Sum(f, U) = f[e] + Sum(f, V)
      BY <2>1, <3>1, SumRemove
    <3>5. Sum(f, (S \cup V) \cup {e}) = Sum(f, S \cup V) + f[e]
      <4>1. \A x \in S \cup V : f[x] \in Int
        OBVIOUS
      <4>2. e \notin S \cup V /\ f[e] \in Int
        BY <3>1
      <4> HIDE DEF V
      <4> QED
        BY <3>2, <4>1, <4>2, SumAdd
    <3>6. (S \cup V) \cup {e} = S \cup U
      BY <3>1
    <3>7. f[e] \in Int /\ Sum(f, V) \in Int
      BY <3>1, <3>2, SumType
    <3> HIDE DEF V
    <3>8. Sum(f, S \cup U) = Sum(f, S \cup V) + f[e]
      BY <3>5, <3>6, Zenon
    <3>9. Sum(f, S \cup U) = Sum(f, S) + Sum(f, U)
      BY <2>1, <3>3, <3>4, <3>7, <3>8
    <3> QED
      BY <3>9
  <2> QED
    BY <2>2, <2>3
<1>2. T \in Good
  <2>1. \A U \in SUBSET T : (\A V \in SUBSET U : V # U => V \in Good) => U \in Good
    BY <1>1
  <2> HIDE DEF Good
  <2>2. \A U \in SUBSET T : U \in Good
    BY <2>1, FiniteInduction, Zenon
  <2> QED
    BY <2>2
<1> QED
  BY <1>2

\* The sum is what any function has that follows its definition.
LEMMA SumUnique ==
    ASSUME NEW f, NEW S, IsFiniteSet(S), NEW g, \A s \in SUBSET S : g[s] = NextSum(f, g, s)
    PROVE  g[S] = Sum(f, S)
<1> DEFINE Good == {T \in SUBSET S : g[T] = Sum(f, T)}
<1>1. ASSUME NEW T \in SUBSET S, \A U \in SUBSET T : U # T => U \in Good
      PROVE  T \in Good
  <2>1. IsFiniteSet(T)
    BY FS_Subset
  <2>2. g[T] = NextSum(f, g, T)
    OBVIOUS
  <2>3. CASE T = {}
    BY <2>2, <2>3, SumEmpty DEF NextSum
  <2>4. CASE T # {}
    <3>1. Pick(T) \in T /\ Sum(f, T) = f[Pick(T)] + Sum(f, T \ {Pick(T)})
      BY <2>1, <2>4, SumPick
    <3>2. g[T \ {Pick(T)}] = Sum(f, T \ {Pick(T)})
      BY <1>1, <3>1
    <3> QED
      BY <2>2, <2>4, <3>1, <3>2 DEF NextSum
  <2> QED
    BY <2>3, <2>4
<1>2. S \in Good
  <2>1. \A T \in SUBSET S : (\A U \in SUBSET T : U # T => U \in Good) => T \in Good
    BY <1>1
  <2> HIDE DEF Good
  <2>2. \A T \in SUBSET S : T \in Good
    BY <2>1, FiniteInduction, Zenon
  <2> QED
    BY <2>2
<1> QED
  BY <1>2

\* What a fold finds is the sum, given that it is one.
LEMMA FoldIsSum ==
    ASSUME NEW f, NEW S, IsFiniteSet(S)
    PROVE  \E g : g = [s \in SUBSET S |-> NextSum(f, g, s)]
<1>1. PICK e : e = SumsOf(f, S) /\ \A s \in SUBSET S : e[s] = NextSum(f, e, s)
  BY SumsExist
<1> DEFINE g == [s \in SUBSET S |-> e[s]]
<1>2. \A s \in SUBSET S : s \ {Pick(s)} \in SUBSET S
  OBVIOUS
<1>3. \A s \in SUBSET S : e[s] = NextSum(f, g, s)
  BY <1>1, <1>2 DEF NextSum
<1>4. g = [s \in SUBSET S |-> NextSum(f, g, s)]
  <2> HIDE DEF g
  <2>1. g = [s \in SUBSET S |-> e[s]]
    BY DEF g
  <2> QED
    BY <1>3, <2>1
<1> HIDE DEF g
<1> QED
  BY <1>4

\* As many things, and the same sum, wherever each has a counterpart.
LEMMA IsBijection ==
    ASSUME NEW S, NEW T, NEW k, k \in [T -> S],
           \A t \in T, u \in T : k[t] = k[u] => t = u, \A s \in S : \E t \in T : k[t] = s
    PROVE  k \in Bijection(T, S)
BY DEF Bijection, Injection, IsInjective, Surjection

LEMMA Matched ==
    ASSUME NEW S, IsFiniteSet(S), NEW T, NEW k \in Bijection(T, S)
    PROVE  IsFiniteSet(T) /\ Cardinality(T) = Cardinality(S)
<1>1. k \in Injection(T, S) /\ k \in Surjection(T, S)
  BY DEF Bijection
<1> QED
  BY <1>1, FS_Injection

LEMMA MatchedSum ==
    ASSUME NEW S, IsFiniteSet(S), NEW T, NEW k \in Bijection(T, S), NEW f, NEW g,
           \A s \in S : f[s] \in Int, \A t \in T : g[t] = f[k[t]]
    PROVE  Sum(g, T) = Sum(f, S)
<1> DEFINE Of(U) == {t \in T : k[t] \in U}
           Good == {U \in SUBSET S : Sum(g, Of(U)) = Sum(f, U)}
<1>1. IsFiniteSet(T)
  BY Matched
<1>2. /\ k \in [T -> S] /\ \A s \in S : \E t \in T : k[t] = s
      /\ \A t \in T, u \in T : k[t] = k[u] => t = u
  BY DEF Bijection, Injection, IsInjective, Surjection
<1>3. ASSUME NEW U \in SUBSET S, \A V \in SUBSET U : V # U => V \in Good
      PROVE  U \in Good
  <2>1. IsFiniteSet(U) /\ IsFiniteSet(Of(U))
    BY <1>1, FS_Subset
  <2>2. CASE U = {}
    <3>1. Of(U) = {}
      BY <2>2
    <3>2. Sum(g, Of(U)) = 0
      BY <3>1, SumEmpty, Zenon
    <3>3. Sum(f, U) = 0
      BY <2>2, SumEmpty, Zenon
    <3> QED
      BY <3>2, <3>3
  <2>3. CASE U # {}
    <3>1. PICK s \in U : TRUE
      BY <2>3
    <3>2. PICK t \in T : k[t] = s
      BY <1>2, <3>1
    <3> DEFINE V == U \ {s}
    <3>3. V \in Good /\ Of(V) = Of(U) \ {t} /\ t \in Of(U)
      BY <1>3, <1>2, <3>1, <3>2
    <3>4. Sum(f, U) = f[s] + Sum(f, V)
      BY <2>1, <3>1, SumRemove
    <3>5. \A u \in Of(U) : g[u] \in Int
      OBVIOUS
    <3>6. Sum(g, Of(U)) = g[t] + Sum(g, Of(U) \ {t})
      <4> HIDE DEF Of
      <4> QED
        BY <2>1, <3>3, <3>5, SumRemove
    <3>7. Sum(g, Of(U) \ {t}) = Sum(f, V)
      BY <3>3
    <3>8. g[t] = f[s]
      BY <3>2
    <3> HIDE DEF Of, V
    <3>9. Sum(g, Of(U)) = Sum(f, U)
      BY <3>4, <3>6, <3>7, <3>8
    <3> QED
      BY <3>9
  <2> QED
    BY <2>2, <2>3
<1>4. S \in Good
  <2>1. \A U \in SUBSET S : (\A V \in SUBSET U : V # U => V \in Good) => U \in Good
    BY <1>3
  <2> HIDE DEF Good
  <2>2. \A U \in SUBSET S : U \in Good
    BY <2>1, FiniteInduction, Zenon
  <2> QED
    BY <2>2
<1>5. Of(S) = T
  BY <1>2
<1>6. Sum(g, Of(S)) = Sum(f, S)
  BY <1>4
<1> QED
  BY <1>5, <1>6, Zenon

LEMMA SumSame ==
    ASSUME NEW S, IsFiniteSet(S), NEW f, NEW g, \A x \in S : f[x] \in Int /\ g[x] = f[x]
    PROVE  Sum(g, S) = Sum(f, S)
<1> DEFINE k == [x \in S |-> x]
<1>1. k \in Bijection(S, S)
  <2>1. k \in [S -> S] /\ \A x \in S : k[x] = x
    OBVIOUS
  <2> HIDE DEF k
  <2> QED
    BY <2>1, IsBijection
<1>2. \A x \in S : g[x] = f[k[x]]
  OBVIOUS
<1> HIDE DEF k
<1> QED
  BY <1>1, <1>2, MatchedSum

\* Things add up to what the groups add up to that they are divided into.
LEMMA SumOfGroups ==
    ASSUME NEW S, IsFiniteSet(S), NEW f, \A x \in S : f[x] \in Int,
           NEW K, IsFiniteSet(K), NEW key, \A x \in S : key[x] \in K,
           NEW group, \A c \in K : \A x : x \in group[c] <=> x \in S /\ key[x] = c,
           NEW g, \A c \in K : g[c] = Sum(f, group[c])
    PROVE  Sum(g, K) = Sum(f, S)
<1> DEFINE Of(U) == {x \in S : key[x] \in U}
           Group(c) == {x \in S : key[x] = c}
           Good == {U \in SUBSET K : Sum(g, U) = Sum(f, Of(U))}
<1>3. \A c \in K : group[c] = Group(c)
  OBVIOUS
<1>0. \A c \in K : g[c] \in Int
  <2> SUFFICES ASSUME NEW c \in K PROVE g[c] \in Int
    OBVIOUS
  <2>1. IsFiniteSet(Group(c)) /\ \A x \in Group(c) : f[x] \in Int
    BY FS_Subset
  <2>2. g[c] = Sum(f, Group(c))
    <3> HIDE DEF Group
    <3> QED
      BY <1>3
  <2> HIDE DEF Group
  <2> QED
    BY <2>1, <2>2, SumType
<1>1. ASSUME NEW U \in SUBSET K, \A V \in SUBSET U : V # U => V \in Good
      PROVE  U \in Good
  <2>1. IsFiniteSet(U)
    BY FS_Subset
  <2>2. CASE U = {}
    <3>1. Of(U) = {}
      BY <2>2
    <3>2. Sum(f, Of(U)) = 0
      BY <3>1, SumEmpty, Zenon
    <3>3. Sum(g, U) = 0
      BY <2>2, SumEmpty, Zenon
    <3> QED
      BY <3>2, <3>3
  <2>3. CASE U # {}
    <3>1. PICK c \in U : TRUE
      BY <2>3
    <3> DEFINE V == U \ {c}
    <3>2. V \in Good /\ IsFiniteSet(V)
      BY <1>1, <2>1, <3>1, FS_Subset
    <3>3. Sum(g, V) = Sum(f, Of(V))
      BY <3>2
    <3>4. Of(U) = Of(V) \cup Group(c) /\ Of(V) \cap Group(c) = {}
      BY <3>1
    <3>5. /\ IsFiniteSet(Of(V)) /\ IsFiniteSet(Group(c))
          /\ \A x \in Of(V) \cup Group(c) : f[x] \in Int
      BY FS_Subset
    <3>6. g[c] = Sum(f, Group(c))
      <4> HIDE DEF Group
      <4> QED
        BY <1>3, <3>1
    <3>7. Sum(g, U) = g[c] + Sum(g, V)
      <4>1. \A x \in U : g[x] \in Int
        BY <1>0
      <4> QED
        BY <2>1, <3>1, <4>1, SumRemove
    <3> HIDE DEF Of, Group, V
    <3>8. Sum(f, Of(V) \cup Group(c)) = Sum(f, Of(V)) + Sum(f, Group(c))
      BY <3>4, <3>5, SumUnion
    <3>9. Sum(f, Of(V)) \in Int /\ Sum(f, Group(c)) \in Int
      BY <3>5, SumType
    <3>10. Sum(g, U) = Sum(f, Of(U))
      BY <3>3, <3>4, <3>6, <3>7, <3>8, <3>9
    <3> QED
      BY <3>10
  <2> QED
    BY <2>2, <2>3
<1>2. K \in Good
  <2>1. \A U \in SUBSET K : (\A V \in SUBSET U : V # U => V \in Good) => U \in Good
    BY <1>1
  <2> HIDE DEF Good
  <2>2. \A U \in SUBSET K : U \in Good
    BY <2>1, FiniteInduction, Zenon
  <2> QED
    BY <2>2
<1>5. Of(K) = S
  OBVIOUS
<1>4. Sum(g, K) = Sum(f, Of(K))
  BY <1>2
<1> QED
  BY <1>4, <1>5, Zenon

LEMMA SumConstant ==
    ASSUME NEW S, IsFiniteSet(S), NEW f, NEW c \in Int, \A x \in S : f[x] = c
    PROVE  Sum(f, S) = c * Cardinality(S)
<1> DEFINE Good == {T \in SUBSET S : Sum(f, T) = c * Cardinality(T)}
<1>1. ASSUME NEW T \in SUBSET S, \A U \in SUBSET T : U # T => U \in Good
      PROVE  T \in Good
  <2>1. IsFiniteSet(T)
    BY FS_Subset
  <2>2. CASE T = {}
    BY <2>2, SumEmpty, FS_EmptySet
  <2>3. CASE T # {}
    <3>1. PICK x \in T : TRUE
      BY <2>3
    <3>2. Sum(f, T) = f[x] + Sum(f, T \ {x})
      BY <2>1, SumRemove
    <3>3. Sum(f, T \ {x}) = c * Cardinality(T \ {x})
      BY <1>1, <3>1
    <3>4. Cardinality(T \ {x}) = Cardinality(T) - 1 /\ Cardinality(T) \in Nat
      BY <2>1, FS_RemoveElement, FS_CardinalityType
    <3>5. PICK n \in Int : n = Cardinality(T)
      BY <3>4
    <3>6. Sum(f, T) = c + c * (n - 1)
      BY <3>2, <3>3, <3>4, <3>5
    <3>7. c + c * (n - 1) = c * n
      OBVIOUS
    <3> QED
      BY <3>5, <3>6, <3>7
  <2> QED
    BY <2>2, <2>3
<1>2. S \in Good
  <2>1. \A T \in SUBSET S : (\A U \in SUBSET T : U # T => U \in Good) => T \in Good
    BY <1>1
  <2> HIDE DEF Good
  <2>2. \A T \in SUBSET S : T \in Good
    BY <2>1, FiniteInduction, Zenon
  <2> QED
    BY <2>2
<1> QED
  BY <1>2

\* A finite set of numbers has a greatest and a least.
LEMMA Extremes ==
    ASSUME NEW S, IsFiniteSet(S), S \subseteq Int, S # {}
    PROVE  /\ Max(S) \in S /\ \A y \in S : y <= Max(S)
           /\ Min(S) \in S /\ \A y \in S : Min(S) <= y
<1> DEFINE Good == {T \in SUBSET S : T # {} => /\ \E x \in T : \A y \in T : x >= y
                                               /\ \E x \in T : \A y \in T : x =< y}
<1>1. ASSUME NEW T \in SUBSET S, \A U \in SUBSET T : U # T => U \in Good
      PROVE  T \in Good
  <2> SUFFICES ASSUME T # {} PROVE T \in Good
    OBVIOUS
  <2>1. PICK e \in T : TRUE
    OBVIOUS
  <2>2. CASE T = {e}
    BY <2>2
  <2>3. CASE T # {e}
    <3>1. T \ {e} \in Good /\ T \ {e} # {}
      <4>1. T \ {e} \in SUBSET T /\ T \ {e} # T /\ T \ {e} # {}
        BY <2>1, <2>3
      <4> HIDE DEF Good
      <4> QED
        BY <1>1, <4>1
    <3>2. PICK a \in T \ {e} : \A y \in T \ {e} : a >= y
      BY <3>1
    <3>3. PICK b \in T \ {e} : \A y \in T \ {e} : b =< y
      BY <3>1
    <3>4. \E x \in T : \A y \in T : x >= y
      <4>1. CASE a >= e
        BY <3>2, <4>1
      <4>2. CASE e >= a
        BY <3>2, <4>2
      <4> QED
        BY <4>1, <4>2
    <3>5. \E x \in T : \A y \in T : x =< y
      <4>1. CASE b =< e
        BY <3>3, <4>1
      <4>2. CASE e =< b
        BY <3>3, <4>2
      <4> QED
        BY <4>1, <4>2
    <3> QED
      BY <3>4, <3>5
  <2> QED
    BY <2>2, <2>3
<1>2. S \in Good
  <2>1. \A T \in SUBSET S : (\A U \in SUBSET T : U # T => U \in Good) => T \in Good
    BY <1>1
  <2> HIDE DEF Good
  <2>2. \A T \in SUBSET S : T \in Good
    BY <2>1, FiniteInduction, Zenon
  <2> QED
    BY <2>2
<1>3. (\E x \in S : \A y \in S : x >= y) /\ (\E x \in S : \A y \in S : x =< y)
  BY <1>2
<1> HIDE DEF Good
<1>4. Max(S) \in S /\ \A y \in S : Max(S) >= y
  BY <1>3 DEF Max
<1>5. Min(S) \in S /\ \A y \in S : Min(S) =< y
  BY <1>3 DEF Min
<1> QED
  BY <1>4, <1>5
=============================================================================
