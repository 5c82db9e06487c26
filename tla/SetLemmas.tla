----------------------------- MODULE SetLemmas ------------------------------
(***************************************************************************)
(* Facts about finite sets and sums that the proofs of the components use. *)
(*                                                                         *)
(* The provers cannot instantiate an induction theorem that takes an       *)
(* operator, but a statement about the subsets of a finite set can be      *)
(* proved without one: if it failed for some subset it would fail for a    *)
(* minimal one (FiniteMinimal), and a minimal one without one of its       *)
(* members gives the contradiction.                                        *)
(***************************************************************************)
EXTENDS Integers, Sequences, FiniteSets, Functions, Ordering, FiniteSetTheorems, TLAPS

MinimalIn(x, T) == x \in T /\ \A y \in T : y \subseteq x => y = x

\* A set of finite sets has a minimal member: the form in which finite
\* induction is used here.
LEMMA FiniteMinimal ==
    ASSUME NEW S, IsFiniteSet(S), NEW T \in SUBSET SUBSET S, T # {}
    PROVE  \E x : MinimalIn(x, T)
<1>1. T \subseteq FiniteSubsetsOf(S)
  BY FS_FiniteSubsetsOfFinite
<1>2. PICK x \in T : \A y \in T : ~(<<y, x>> \in StrictSubsetOrdering(S))
  <2>1. IsWellFoundedOn(StrictSubsetOrdering(S), FiniteSubsetsOf(S))
    BY FS_StrictSubsetOrderingWellFounded, Zenon
  <2> QED BY <1>1, <2>1, WFMin, Zenon
<1>3. MinimalIn(x, T)
  BY <1>2, Zenon DEF StrictSubsetOrdering, MinimalIn
<1> QED BY <1>3

\* A finite set of numbers has a largest.
LEMMA HasLargest ==
    ASSUME NEW S, IsFiniteSet(S), S \subseteq Int, S # {}
    PROVE  \E m \in S : \A s \in S : s <= m
<1> DEFINE Above(s) == {t \in S : s <= t}
           T == {Above(s) : s \in S}
<1>1. PICK x : MinimalIn(x, T)
  <2>1. T \in SUBSET SUBSET S /\ T # {}
    BY Zenon
  <2> HIDE DEF T
  <2> QED BY <2>1, FiniteMinimal, Zenon
<1>2. PICK m \in S : x = Above(m)
  BY <1>1 DEF MinimalIn
<1>3. ASSUME NEW s \in S PROVE s <= m
  <2>1. CASE m < s
    <3>1. \A t \in Above(s) : m <= t
      BY <2>1
    <3>2. Above(s) \subseteq x
      BY <3>1, <1>2, Zenon
    <3>3. Above(s) = x
      BY <3>2, <1>1, Zenon DEF MinimalIn
    <3> QED BY <3>3, <1>2, <2>1
  <2> QED BY <2>1
<1> QED BY <1>3

\* A finite set of numbers can be put in order: no step that sorts waits for
\* a list.
LEMMA SortedExists ==
    ASSUME NEW S, IsFiniteSet(S), S \subseteq Int
    PROVE  Sorted(S) # {}
<1> DEFINE T == {x \in SUBSET S : Sorted(x) = {}}
<1>1. SUFFICES ASSUME T # {} PROVE FALSE
  OBVIOUS
<1>2. PICK x : MinimalIn(x, T)
  <2>1. T \in SUBSET SUBSET S
    OBVIOUS
  <2> HIDE DEF T
  <2> QED BY <1>1, <2>1, FiniteMinimal, Zenon
<1>3. x \in T /\ x \subseteq S /\ IsFiniteSet(x)
  BY <1>2, FS_Subset, Zenon DEF MinimalIn
<1>4. CASE x = {}
  <2>1. Cardinality(x) = 0
    BY <1>4, FS_EmptySet
  <2>2. <<>> \in [1..0 -> x]
    BY <1>4
  <2>3. <<>> \in Sorted(x)
    BY <2>1, <2>2, <1>4 DEF Sorted
  <2> QED BY <2>3, <1>3
<1>5. CASE x # {}
  <2>1. PICK m \in x : \A s \in x : s <= m
    BY <1>3, <1>5, HasLargest, Zenon
  <2> DEFINE y == x \ {m}
  <2>2. y \notin T
    BY <1>2, <2>1 DEF MinimalIn
  <2>3. PICK q : q \in Sorted(y)
    BY <2>2, <1>3
  <2>4. IsFiniteSet(y) /\ Cardinality(y) \in Nat /\ Cardinality(x) = Cardinality(y) + 1
    <3>1. IsFiniteSet(y) /\ Cardinality(y) = Cardinality(x) - 1
      BY <1>3, <2>1, FS_RemoveElement
    <3>2. Cardinality(y) \in Nat /\ Cardinality(x) \in Nat
      BY <3>1, <1>3, FS_CardinalityType
    <3> QED BY <3>1, <3>2
  <2>5. PICK n \in 0..Cardinality(y) : q \in [1..n -> y]
    BY <2>3 DEF Sorted
  <2> DEFINE r == [i \in 1..(n + 1) |-> IF i <= n THEN q[i] ELSE m]
  <2>6. \A i \in 1..n : q[i] \in x /\ q[i] # m
    BY <2>5
  <2>7. \A i \in 1..n : q[i] \in Int /\ m \in Int /\ q[i] <= m
    BY <2>6, <2>1, <1>3, Zenon
  <2>8. (\A i, j \in 1..n : i < j => q[i] < q[j]) /\ \A s \in y : \E i \in 1..n : q[i] = s
    BY <2>3, <2>5 DEF Sorted
  <2>9. r \in [1..(n + 1) -> x] /\ n + 1 \in 0..Cardinality(x)
    BY <2>6, <2>4, <2>5
  <2>10. ASSUME NEW i \in 1..(n + 1), NEW j \in 1..(n + 1), i < j PROVE r[i] < r[j]
    BY <2>10, <2>6, <2>7, <2>8, <2>4, <2>5
  <2>11. ASSUME NEW s \in x PROVE \E i \in 1..(n + 1) : r[i] = s
    <3>1. CASE s = m
      <4>1. n + 1 \in 1..(n + 1) /\ r[n + 1] = m
        BY <2>4
      <4> QED BY <4>1, <3>1
    <3>2. CASE s # m
      <4>1. PICK i \in 1..n : q[i] = s
        BY <3>2, <2>8
      <4>2. i \in 1..(n + 1) /\ r[i] = s
        BY <4>1, <2>4
      <4> QED BY <4>2
    <3> QED BY <3>1, <3>2
  <2>12. r \in Sorted(x)
    <3> HIDE DEF r
    <3> QED BY <2>9, <2>10, <2>11 DEF Sorted
  <2> QED BY <2>12, <1>3
<1> QED BY <1>4, <1>5

-----------------------------------------------------------------------------
(***************************************************************************)
(* Sums.                                                                   *)
(***************************************************************************)

\* The member that a sum takes first.
Pick(s) == CHOOSE x \in s : TRUE

\* g is the table of the sums of f over the subsets of S.
Sums(g, f, S) == g = [s \in SUBSET S |-> IF s = {} THEN 0 ELSE f[Pick(s)] + g[s \ {Pick(s)}]]

\* Two tables of sums agree wherever both are defined.
LEMMA SumsAgree ==
  ASSUME NEW f, NEW S, IsFiniteSet(S), NEW R, NEW g, NEW h, Sums(g, f, S), Sums(h, f, R),
         NEW s \in SUBSET S, s \in SUBSET R
  PROVE  g[s] = h[s]
<1> DEFINE T == {x \in SUBSET S : x \in SUBSET R /\ g[x] # h[x]}
<1>1. SUFFICES ASSUME T # {} PROVE FALSE
  OBVIOUS
<1>2. PICK x : MinimalIn(x, T)
  <2>1. T \in SUBSET SUBSET S
    OBVIOUS
  <2> HIDE DEF T
  <2> QED BY <1>1, <2>1, FiniteMinimal
<1>3. x \in SUBSET S /\ x \in SUBSET R /\ g[x] # h[x] /\ x \in T
  BY <1>2 DEF MinimalIn
<1>4. x # {}
  BY <1>3 DEF Sums
<1>5. Pick(x) \in x
  BY <1>4 DEF Pick
<1>6. x \ {Pick(x)} \notin T
  BY <1>5, <1>2 DEF MinimalIn
<1>7. g[x \ {Pick(x)}] = h[x \ {Pick(x)}]
  BY <1>6, <1>3
<1>8. g[x] = f[Pick(x)] + g[x \ {Pick(x)}] /\ h[x] = f[Pick(x)] + h[x \ {Pick(x)}]
  BY <1>3, <1>4, Zenon DEF Sums
<1> QED BY <1>3, <1>7, <1>8

\* A finite set has a table of sums.
LEMMA SumsExist ==
  ASSUME NEW f, NEW S, IsFiniteSet(S)
  PROVE  \E g : Sums(g, f, S)
<1> DEFINE T == {x \in SUBSET S : ~ \E g : Sums(g, f, x)}
<1>1. SUFFICES ASSUME T # {} PROVE FALSE
  OBVIOUS
<1>2. PICK x : MinimalIn(x, T)
  <2>1. T \in SUBSET SUBSET S
    OBVIOUS
  <2> HIDE DEF T
  <2> QED BY <1>1, <2>1, FiniteMinimal
<1>3. x \in SUBSET S /\ x \in T /\ \A g : ~Sums(g, f, x)
  BY <1>2 DEF MinimalIn
<1> DEFINE Tab(s) == CHOOSE g : Sums(g, f, s)
           h == [s \in SUBSET x |-> IF s = {} THEN 0
                                    ELSE f[Pick(s)] + Tab(s \ {Pick(s)})[s \ {Pick(s)}]]
<1>4. ASSUME NEW s \in SUBSET x, s # x PROVE Sums(Tab(s), f, s)
  <2>1. s \notin T
    BY <1>2, <1>4 DEF MinimalIn
  <2>2. \E g : Sums(g, f, s)
    BY <2>1, <1>3
  <2> QED BY <2>2
<1>5. ASSUME NEW s \in SUBSET x, s # x PROVE h[s] = Tab(s)[s]
  <2>1. Sums(Tab(s), f, s)
    BY <1>4, <1>5
  <2>2. CASE s = {}
    BY <2>1, <2>2, Zenon DEF Sums
  <2>3. CASE s # {}
    <3> DEFINE r == s \ {Pick(s)}
    <3>1. Pick(s) \in s
      BY <2>3 DEF Pick
    <3>2. r \in SUBSET x /\ r # x /\ r \in SUBSET s /\ r \in SUBSET r
      BY <3>1
    <3>3. Sums(Tab(r), f, r)
      BY <3>2, <1>4, Zenon
    <3>4. IsFiniteSet(s)
      BY <1>3, FS_Subset
    <3>5. Tab(s)[r] = Tab(r)[r]
      <4> HIDE DEF Tab, r
      <4> QED BY <3>2, <3>3, <3>4, <2>1, SumsAgree
    <3>6. Tab(s)[s] = f[Pick(s)] + Tab(s)[r]
      BY <2>1, <2>3, Zenon DEF Sums
    <3>7. h[s] = f[Pick(s)] + Tab(r)[r]
      BY <2>3
    <3> QED BY <3>5, <3>6, <3>7
  <2> QED BY <2>2, <2>3
<1>6. ASSUME NEW s \in SUBSET x, s # {} PROVE h[s] = f[Pick(s)] + h[s \ {Pick(s)}]
  <2> DEFINE r == s \ {Pick(s)}
  <2>1. Pick(s) \in s
    BY <1>6 DEF Pick
  <2>2. r \in SUBSET x /\ r # x
    BY <2>1
  <2>3. h[r] = Tab(r)[r]
    BY <2>2, <1>5, Zenon
  <2>4. h[s] = f[Pick(s)] + Tab(r)[r]
    BY <1>6
  <2> QED BY <2>3, <2>4
<1>7. h[{}] = 0
  OBVIOUS
<1>8. h = [s \in SUBSET x |-> h[s]]
  OBVIOUS
<1>9. Sums(h, f, x)
  <2> HIDE DEF h
  <2> QED BY <1>6, <1>7, <1>8, Zenon DEF Sums
<1> QED BY <1>9, <1>3

\* The recursion behind a sum.
LEMMA SumUnfold ==
  ASSUME NEW f, NEW S, IsFiniteSet(S)
  PROVE  /\ SumFunctionOnSet(f, {}) = 0
         /\ S # {} => Pick(S) \in S /\ SumFunctionOnSet(f, S) = f[Pick(S)] + SumFunctionOnSet(f, S \ {Pick(S)})
<1> DEFINE Tab(s) == CHOOSE g : Sums(g, f, s)
<1>1. \A s : SumFunctionOnSet(f, s) = Tab(s)[s]
  BY Zenon DEF SumFunctionOnSet, FoldFunctionOnSet, MapThenFoldSet, Sums, Pick
<1>2. ASSUME NEW s, IsFiniteSet(s) PROVE Sums(Tab(s), f, s)
  BY <1>2, SumsExist
<1>3. SumFunctionOnSet(f, {}) = 0
  <2>1. Sums(Tab({}), f, {})
    BY <1>2, FS_EmptySet
  <2>2. Tab({})[{}] = 0
    <3> HIDE DEF Tab
    <3> QED BY <2>1, Zenon DEF Sums
  <2> QED BY <2>2, <1>1
<1>4. ASSUME S # {} PROVE Pick(S) \in S /\ SumFunctionOnSet(f, S) = f[Pick(S)] + SumFunctionOnSet(f, S \ {Pick(S)})
  <2> DEFINE r == S \ {Pick(S)}
  <2>1. Pick(S) \in S
    BY <1>4 DEF Pick
  <2>2. IsFiniteSet(r)
    BY FS_RemoveElement
  <2>3. Sums(Tab(S), f, S) /\ Sums(Tab(r), f, r)
    BY <1>2, <2>2
  <2>4. r \in SUBSET S /\ r \in SUBSET r
    OBVIOUS
  <2>5. Tab(S)[r] = Tab(r)[r]
    <3> HIDE DEF Tab, r
    <3> QED BY <2>3, <2>4, SumsAgree
  <2>6. Tab(S)[S] = f[Pick(S)] + Tab(S)[r]
    <3> HIDE DEF Tab
    <3> QED BY <2>3, <1>4, Zenon DEF Sums
  <2> QED BY <2>1, <2>5, <2>6, <1>1, Zenon
<1> QED BY <1>3, <1>4

\* A sum of integers is an integer.
LEMMA SumType ==
  ASSUME NEW f, NEW S, IsFiniteSet(S), \A x \in S : f[x] \in Int
  PROVE  SumFunctionOnSet(f, S) \in Int
<1> DEFINE T == {x \in SUBSET S : SumFunctionOnSet(f, x) \notin Int}
<1>1. SUFFICES ASSUME T # {} PROVE FALSE
  OBVIOUS
<1>2. PICK x : MinimalIn(x, T)
  <2>1. T \in SUBSET SUBSET S
    OBVIOUS
  <2> HIDE DEF T
  <2> QED BY <1>1, <2>1, FiniteMinimal
<1>3. x \in SUBSET S /\ SumFunctionOnSet(f, x) \notin Int
  BY <1>2 DEF MinimalIn
<1>4. IsFiniteSet(x)
  BY <1>3, FS_Subset
<1>5. x # {}
  <2>1. SumFunctionOnSet(f, {}) = 0
    BY SumUnfold, FS_EmptySet, Zenon
  <2> QED BY <2>1, <1>3
<1>6. /\ Pick(x) \in x
      /\ SumFunctionOnSet(f, x) = f[Pick(x)] + SumFunctionOnSet(f, x \ {Pick(x)})
  BY <1>4, <1>5, SumUnfold, Zenon
<1>7. x \ {Pick(x)} \notin T
  BY <1>6, <1>2 DEF MinimalIn
<1> QED BY <1>3, <1>6, <1>7

\* A sum is any one of its terms and the sum of the others.
LEMMA SumRemove ==
  ASSUME NEW f, NEW S, IsFiniteSet(S), \A x \in S : f[x] \in Int, NEW x \in S
  PROVE  SumFunctionOnSet(f, S) = f[x] + SumFunctionOnSet(f, S \ {x})
<1> DEFINE T == {s \in SUBSET S : \E y \in s : SumFunctionOnSet(f, s) # f[y] + SumFunctionOnSet(f, s \ {y})}
<1>1. SUFFICES ASSUME T # {} PROVE FALSE
  BY Zenon
<1>2. PICK s : MinimalIn(s, T)
  <2>1. T \in SUBSET SUBSET S
    OBVIOUS
  <2> HIDE DEF T
  <2> QED BY <1>1, <2>1, FiniteMinimal
<1>3. s \in SUBSET S /\ \E y \in s : SumFunctionOnSet(f, s) # f[y] + SumFunctionOnSet(f, s \ {y})
  BY <1>2 DEF MinimalIn
<1>4. PICK y \in s : SumFunctionOnSet(f, s) # f[y] + SumFunctionOnSet(f, s \ {y})
  BY <1>3, Zenon
<1> DEFINE p == Pick(s)
<1>5. IsFiniteSet(s)
  BY <1>3, FS_Subset
<1>6. p \in s /\ SumFunctionOnSet(f, s) = f[p] + SumFunctionOnSet(f, s \ {p})
  BY <1>4, <1>5, SumUnfold
<1>7. p # y
  BY <1>4, <1>6
<1>8. ASSUME NEW a \in s, NEW b \in s, a # b
      PROVE  SumFunctionOnSet(f, s \ {a}) = f[b] + SumFunctionOnSet(f, (s \ {a}) \ {b})
  <2>1. s \ {a} \notin T
    BY <1>2, Zenon DEF MinimalIn
  <2> QED BY <2>1, <1>3, <1>8, Zenon
<1>9. SumFunctionOnSet(f, s \ {p}) = f[y] + SumFunctionOnSet(f, (s \ {p}) \ {y})
  BY <1>4, <1>6, <1>7, <1>8
<1>10. SumFunctionOnSet(f, s \ {y}) = f[p] + SumFunctionOnSet(f, (s \ {y}) \ {p})
  BY <1>4, <1>6, <1>7, <1>8
<1>11. (s \ {p}) \ {y} = (s \ {y}) \ {p}
  OBVIOUS
<1>12. SumFunctionOnSet(f, (s \ {y}) \ {p}) \in Int
  <2>1. (s \ {y}) \ {p} \in SUBSET S
    BY <1>3
  <2>2. IsFiniteSet((s \ {y}) \ {p})
    BY <2>1, FS_Subset
  <2> QED BY <2>1, <2>2, SumType
<1>13. f[p] \in Int /\ f[y] \in Int
  BY <1>3, <1>4, <1>6
<1>14. PICK a, b, c : a = f[p] /\ b = f[y] /\ c = SumFunctionOnSet(f, (s \ {y}) \ {p})
  OBVIOUS
<1>15. a + (b + c) = b + (a + c)
  BY <1>12, <1>13, <1>14
<1> QED BY <1>4, <1>6, <1>9, <1>10, <1>11, <1>14, <1>15

\* Functions that agree on a set have the same sum over it.
LEMMA SumAgree ==
  ASSUME NEW f, NEW g, NEW S, IsFiniteSet(S), \A x \in S : f[x] = g[x]
  PROVE  SumFunctionOnSet(f, S) = SumFunctionOnSet(g, S)
<1> DEFINE T == {x \in SUBSET S : SumFunctionOnSet(f, x) # SumFunctionOnSet(g, x)}
<1>1. SUFFICES ASSUME T # {} PROVE FALSE
  OBVIOUS
<1>2. PICK x : MinimalIn(x, T)
  <2>1. T \in SUBSET SUBSET S
    OBVIOUS
  <2> HIDE DEF T
  <2> QED BY <1>1, <2>1, FiniteMinimal
<1>3. x \in SUBSET S /\ SumFunctionOnSet(f, x) # SumFunctionOnSet(g, x)
  BY <1>2 DEF MinimalIn
<1>4. IsFiniteSet(x)
  BY <1>3, FS_Subset
<1>5. x # {}
  <2>1. SumFunctionOnSet(f, {}) = 0 /\ SumFunctionOnSet(g, {}) = 0
    BY SumUnfold, FS_EmptySet, Zenon
  <2> QED BY <2>1, <1>3
<1>6. Pick(x) \in x /\ SumFunctionOnSet(f, x) = f[Pick(x)] + SumFunctionOnSet(f, x \ {Pick(x)})
      /\ SumFunctionOnSet(g, x) = g[Pick(x)] + SumFunctionOnSet(g, x \ {Pick(x)})
  BY <1>4, <1>5, SumUnfold
<1>7. x \ {Pick(x)} \notin T
  BY <1>6, <1>2 DEF MinimalIn
<1> QED BY <1>3, <1>6, <1>7

\* Adding a member to a set adds its term to the sum.
LEMMA SumAdd ==
  ASSUME NEW f, NEW S, IsFiniteSet(S), NEW x, x \notin S, f[x] \in Int, \A y \in S : f[y] \in Int
  PROVE  SumFunctionOnSet(f, S \cup {x}) = f[x] + SumFunctionOnSet(f, S)
<1>1. IsFiniteSet(S \cup {x})
  BY FS_AddElement
<1>2. (S \cup {x}) \ {x} = S
  OBVIOUS
<1>3. \A y \in S \cup {x} : f[y] \in Int
  OBVIOUS
<1>4. SumFunctionOnSet(f, S \cup {x}) = f[x] + SumFunctionOnSet(f, (S \cup {x}) \ {x})
  BY <1>1, <1>3, SumRemove
<1> QED BY <1>2, <1>4, Zenon

\* A sum of natural numbers is one, and is 0 only if every term is.
LEMMA SumNat ==
  ASSUME NEW f, NEW S, IsFiniteSet(S), \A x \in S : f[x] \in Nat
  PROVE  /\ SumFunctionOnSet(f, S) \in Nat
         /\ \A x \in S : f[x] <= SumFunctionOnSet(f, S)
<1> DEFINE T == {x \in SUBSET S : SumFunctionOnSet(f, x) \notin Nat}
<1>1. ASSUME NEW x \in SUBSET S PROVE SumFunctionOnSet(f, x) \in Nat
  <2>1. SUFFICES ASSUME T # {} PROVE FALSE
    OBVIOUS
  <2>2. PICK y : MinimalIn(y, T)
    <3>1. T \in SUBSET SUBSET S
      OBVIOUS
    <3> HIDE DEF T
    <3> QED BY <2>1, <3>1, FiniteMinimal
  <2>3. y \in SUBSET S /\ SumFunctionOnSet(f, y) \notin Nat
    BY <2>2 DEF MinimalIn
  <2>4. y # {}
    <3>1. SumFunctionOnSet(f, {}) = 0
      BY SumUnfold, FS_EmptySet, Zenon
    <3> QED BY <3>1, <2>3
  <2>5. /\ Pick(y) \in y
        /\ SumFunctionOnSet(f, y) = f[Pick(y)] + SumFunctionOnSet(f, y \ {Pick(y)})
    BY <2>3, <2>4, FS_Subset, SumUnfold
  <2>6. y \ {Pick(y)} \notin T
    BY <2>5, <2>2 DEF MinimalIn
  <2> QED BY <2>3, <2>5, <2>6
<1>2. ASSUME NEW x \in S PROVE f[x] <= SumFunctionOnSet(f, S)
  <2>1. \A y \in S : f[y] \in Int
    OBVIOUS
  <2>2. SumFunctionOnSet(f, S) = f[x] + SumFunctionOnSet(f, S \ {x})
    BY <2>1, SumRemove
  <2>3. SumFunctionOnSet(f, S \ {x}) \in Nat
    BY <1>1
  <2> QED BY <2>2, <2>3
<1> QED BY <1>1, <1>2

\* Taking a subset out of a set takes its sum out.
LEMMA SumSplit ==
  ASSUME NEW f, NEW S, IsFiniteSet(S), \A x \in S : f[x] \in Int, NEW R \in SUBSET S
  PROVE  SumFunctionOnSet(f, S) = SumFunctionOnSet(f, S \ R) + SumFunctionOnSet(f, R)
<1> DEFINE T == {s \in SUBSET S : SumFunctionOnSet(f, S) # SumFunctionOnSet(f, S \ s) + SumFunctionOnSet(f, s)}
<1>1. SUFFICES ASSUME T # {} PROVE FALSE
  BY Zenon
<1>2. PICK s : MinimalIn(s, T)
  <2>1. T \in SUBSET SUBSET S
    OBVIOUS
  <2> HIDE DEF T
  <2> QED BY <1>1, <2>1, FiniteMinimal
<1>3. s \in SUBSET S /\ SumFunctionOnSet(f, S) # SumFunctionOnSet(f, S \ s) + SumFunctionOnSet(f, s)
  BY <1>2 DEF MinimalIn
<1>4. \A x \in SUBSET S : IsFiniteSet(x) /\ SumFunctionOnSet(f, x) \in Int
  BY FS_Subset, SumType
<1>5. s # {}
  <2>1. SumFunctionOnSet(f, {}) = 0
    BY SumUnfold, FS_EmptySet, Zenon
  <2>2. S \ {} = S
    OBVIOUS
  <2>3. SumFunctionOnSet(f, S) \in Int
    BY <1>4
  <2>4. SumFunctionOnSet(f, S) = SumFunctionOnSet(f, S) + SumFunctionOnSet(f, {})
    BY <2>1, <2>3
  <2> QED BY <2>2, <2>4, <1>3, Zenon
<1>6. PICK x \in s : TRUE
  BY <1>5
<1> DEFINE r == s \ {x}
<1>7. r \in SUBSET S /\ SumFunctionOnSet(f, S) = SumFunctionOnSet(f, S \ r) + SumFunctionOnSet(f, r)
  <2>1. r \notin T
    BY <1>2, <1>6 DEF MinimalIn
  <2> QED BY <2>1, <1>3
<1>8. SumFunctionOnSet(f, s) = f[x] + SumFunctionOnSet(f, r)
  <2>1. IsFiniteSet(s) /\ \A y \in s : f[y] \in Int
    BY <1>3, <1>4
  <2> QED BY <2>1, <1>6, SumRemove
<1>9. SumFunctionOnSet(f, S \ r) = f[x] + SumFunctionOnSet(f, S \ s)
  <2>1. x \in S \ r /\ (S \ r) \ {x} = S \ s
    BY <1>3, <1>6
  <2>2. IsFiniteSet(S \ r) /\ \A y \in S \ r : f[y] \in Int
    BY <1>4
  <2>3. SumFunctionOnSet(f, S \ r) = f[x] + SumFunctionOnSet(f, (S \ r) \ {x})
    <3> HIDE DEF r
    <3> QED BY <2>1, <2>2, SumRemove
  <2> QED BY <2>1, <2>3
<1>10. PICK a, b, c : a = f[x] /\ b = SumFunctionOnSet(f, S \ s) /\ c = SumFunctionOnSet(f, r)
  OBVIOUS
<1>11. a \in Int /\ b \in Int /\ c \in Int
  BY <1>3, <1>4, <1>6, <1>7, <1>10
<1>12. (a + b) + c = b + (a + c)
  BY <1>11
<1> QED BY <1>3, <1>7, <1>8, <1>9, <1>10, <1>12

\* A sum over a set is the sum over any list of its members.
LEMMA SumRename ==
  ASSUME NEW f, NEW g, NEW q, NEW D, IsFiniteSet(D),
         \A k \in D : g[k] = f[q[k]] /\ g[k] \in Int,
         \A j, k \in D : q[j] = q[k] => j = k
  PROVE  SumFunctionOnSet(g, D) = SumFunctionOnSet(f, {q[k] : k \in D})
<1> DEFINE Image(s) == {q[k] : k \in s}
           T == {s \in SUBSET D : SumFunctionOnSet(g, s) # SumFunctionOnSet(f, Image(s))}
<1>1. SUFFICES ASSUME T # {} PROVE FALSE
  BY Zenon
<1>2. PICK s : MinimalIn(s, T)
  <2>1. T \in SUBSET SUBSET D
    OBVIOUS
  <2> HIDE DEF T
  <2> QED BY <1>1, <2>1, FiniteMinimal
<1>3. s \in SUBSET D /\ SumFunctionOnSet(g, s) # SumFunctionOnSet(f, Image(s))
  BY <1>2 DEF MinimalIn
<1>4. IsFiniteSet(s)
  BY <1>3, FS_Subset
<1>5. s # {}
  <2>1. SumFunctionOnSet(f, {}) = 0 /\ SumFunctionOnSet(g, {}) = 0
    BY SumUnfold, FS_EmptySet, Zenon
  <2>2. Image({}) = {}
    OBVIOUS
  <2> QED BY <2>1, <2>2, <1>3
<1>6. PICK k \in s : TRUE
  BY <1>5
<1> DEFINE r == s \ {k}
<1>7. SumFunctionOnSet(g, r) = SumFunctionOnSet(f, Image(r))
  <2>1. r \notin T
    BY <1>2, <1>6 DEF MinimalIn
  <2> QED BY <2>1, <1>3
<1>8. SumFunctionOnSet(g, s) = g[k] + SumFunctionOnSet(g, r)
  <2>1. \A j \in s : g[j] \in Int
    BY <1>3
  <2> QED BY <2>1, <1>4, <1>6, SumRemove
<1>9. SumFunctionOnSet(f, Image(s)) = f[q[k]] + SumFunctionOnSet(f, Image(r))
  <2>1. IsFiniteSet(Image(s))
    <3> DEFINE e == [j \in s |-> q[j]]
    <3>1. e \in Surjection(s, Image(s))
      BY DEF Surjection
    <3> HIDE DEF e, Image
    <3> QED BY <3>1, <1>4, FS_Surjection
  <2>2. \A y \in Image(s) : f[y] \in Int
    BY <1>3
  <2>3. q[k] \in Image(s)
    BY <1>6
  <2>4. Image(s) \ {q[k]} = Image(r)
    BY <1>3, <1>6
  <2>5. SumFunctionOnSet(f, Image(s)) = f[q[k]] + SumFunctionOnSet(f, Image(s) \ {q[k]})
    <3> HIDE DEF Image
    <3> QED BY <2>1, <2>2, <2>3, SumRemove
  <2> QED BY <2>4, <2>5, Zenon
<1>10. g[k] = f[q[k]]
  BY <1>3, <1>6
<1> QED BY <1>3, <1>7, <1>8, <1>9, <1>10

-----------------------------------------------------------------------------
\* The bytes of the packets that q lists, in the table P of packets.
Load(P, q) == SumFunction([s \in DOMAIN q |-> P[q[s]].size])

\* Packets have bytes, so a load is positive unless nothing is listed.
LEMMA LoadType ==
    ASSUME NEW P, NEW q, IsFiniteSet(DOMAIN q), \A s \in DOMAIN q : P[q[s]].size \in Nat \ {0}
    PROVE  /\ Load(P, q) \in Nat
           /\ DOMAIN q # {} => Load(P, q) > 0
           /\ DOMAIN q = {} => Load(P, q) = 0
<1> DEFINE f == [s \in DOMAIN q |-> P[q[s]].size]
           D == DOMAIN q
<1>1. Load(P, q) = SumFunctionOnSet(f, D)
  BY DEF Load, SumFunction
<1>2. \A s \in D : f[s] \in Nat /\ f[s] > 0
  OBVIOUS
<1> HIDE DEF f, D
<1>3. SumFunctionOnSet(f, D) \in Nat /\ \A s \in D : f[s] <= SumFunctionOnSet(f, D)
  BY <1>2, SumNat DEF D
<1>4. D # {} => SumFunctionOnSet(f, D) > 0
  BY <1>2, <1>3
<1>5. D = {} => SumFunctionOnSet(f, D) = 0
  BY SumUnfold, FS_EmptySet, Zenon
<1> QED BY <1>1, <1>3, <1>4, <1>5, Zenon DEF D

\* The load depends on the sizes only.
SameSizes(P, q, Q, r) ==
    /\ DOMAIN q = DOMAIN r /\ IsFiniteSet(DOMAIN q)
    /\ \A s \in DOMAIN q : P[q[s]].size = Q[r[s]].size

\* Lists of equal sizes weigh the same.
LEMMA LoadSame ==
    ASSUME NEW P, NEW Q, NEW q, NEW r, SameSizes(P, q, Q, r)
    PROVE  Load(P, q) = Load(Q, r)
<1> USE DEF SameSizes
<1> DEFINE f == [s \in DOMAIN q |-> P[q[s]].size]
           g == [s \in DOMAIN r |-> Q[r[s]].size]
           D == DOMAIN q
<1>1. Load(P, q) = SumFunctionOnSet(f, D) /\ Load(Q, r) = SumFunctionOnSet(g, D)
  BY Zenon DEF Load, SumFunction
<1>2. \A s \in D : f[s] = g[s]
  OBVIOUS
<1> HIDE DEF f, g, D
<1> QED BY <1>1, <1>2, SumAgree, SMTT(20) DEF D

\* One more packet listed, under n.
OneMore(P, q, Q, r, n) ==
    /\ n \notin DOMAIN q /\ IsFiniteSet(DOMAIN q) /\ DOMAIN r = DOMAIN q \cup {n}
    /\ Q[r[n]].size \in Nat
    /\ \A s \in DOMAIN q : P[q[s]].size \in Nat /\ P[q[s]].size = Q[r[s]].size

\* Listing one more packet adds its size.
LEMMA LoadAdd ==
    ASSUME NEW P, NEW Q, NEW q, NEW r, NEW n, OneMore(P, q, Q, r, n)
    PROVE  Load(Q, r) = Q[r[n]].size + Load(P, q)
<1> USE DEF OneMore
<1> DEFINE f == [s \in DOMAIN q |-> P[q[s]].size]
           g == [s \in DOMAIN r |-> Q[r[s]].size]
           D == DOMAIN q
<1>1. Load(P, q) = SumFunctionOnSet(f, D) /\ Load(Q, r) = SumFunctionOnSet(g, D \cup {n})
  BY DEF Load, SumFunction
<1>2. \A s \in D : f[s] = g[s] /\ g[s] \in Int
  OBVIOUS
<1>3. g[n] = Q[r[n]].size /\ g[n] \in Int /\ n \notin D /\ IsFiniteSet(D)
  OBVIOUS
<1> HIDE DEF f, g, D
<1>4. SumFunctionOnSet(g, D \cup {n}) = g[n] + SumFunctionOnSet(g, D)
  BY <1>2, <1>3, SumAdd
<1>5. SumFunctionOnSet(f, D) = SumFunctionOnSet(g, D)
  BY <1>2, <1>3, SumAgree, SMTT(20)
<1> QED BY <1>1, <1>3, <1>4, <1>5, Zenon

\* Packets are taken out of the list q, leaving r, into the list h.
TakenOut(P, q, Q, r, h, a, n, gone) ==
    /\ n \in Nat /\ gone \in SUBSET DOMAIN q /\ IsFiniteSet(DOMAIN q)
    /\ DOMAIN r = DOMAIN q \ gone /\ DOMAIN h = 1..n
    /\ \A s \in DOMAIN q : P[q[s]].size \in Nat /\ P[q[s]].size = Q[q[s]].size
    /\ \A s \in DOMAIN r : r[s] = q[s]
    /\ \A k \in 1..n : a[k] \in gone /\ h[k] = q[a[k]]
    /\ \A j, k \in 1..n : a[j] = a[k] => j = k
    /\ \A s \in gone : \E k \in 1..n : a[k] = s

\* Taking packets out of the list moves their sizes to what was taken.
LEMMA LoadSplit ==
    ASSUME NEW P, NEW Q, NEW q, NEW r, NEW h, NEW a, NEW n, NEW gone,
           TakenOut(P, q, Q, r, h, a, n, gone)
    PROVE  Load(P, q) = Load(Q, r) + Load(Q, h)
<1> USE DEF TakenOut
<1> DEFINE f == [s \in DOMAIN q |-> P[q[s]].size]
           g == [s \in DOMAIN r |-> Q[r[s]].size]
           e == [s \in DOMAIN h |-> Q[h[s]].size]
           D == DOMAIN q
           R == DOMAIN q \ gone
           N == 1..n
<1>1. /\ Load(P, q) = SumFunctionOnSet(f, D) /\ Load(Q, r) = SumFunctionOnSet(g, R)
      /\ Load(Q, h) = SumFunctionOnSet(e, N)
  BY DEF Load, SumFunction
<1>2. \A s \in D : f[s] \in Int
  OBVIOUS
<1>3. \A s \in R : f[s] = g[s]
  OBVIOUS
<1>4. \A k \in N : e[k] = f[a[k]] /\ e[k] \in Int
  OBVIOUS
<1>5. IsFiniteSet(N) /\ IsFiniteSet(D) /\ IsFiniteSet(R) /\ gone \in SUBSET D /\ R = D \ gone
  BY FS_Interval, FS_Subset
<1>6. {a[k] : k \in N} = gone /\ \A j, k \in N : a[j] = a[k] => j = k
  OBVIOUS
<1> HIDE DEF f, g, e, D, R, N
<1>7. SumFunctionOnSet(f, D) = SumFunctionOnSet(f, R) + SumFunctionOnSet(f, gone)
  BY <1>2, <1>5, SumSplit
<1>8. SumFunctionOnSet(f, R) = SumFunctionOnSet(g, R)
  BY <1>3, <1>5, SumAgree
<1>9. SumFunctionOnSet(e, N) = SumFunctionOnSet(f, {a[k] : k \in N})
  BY <1>4, <1>5, <1>6, SumRename
<1> QED BY <1>1, <1>6, <1>7, <1>8, <1>9, Zenon

\* One packet in hand.
LEMMA LoadOne ==
    ASSUME NEW P, NEW i, P[i].size \in Nat
    PROVE  Load(P, <<i>>) = P[i].size
<1>1. PICK q, e : q = <<i>> /\ e = <<>>
  BY Zenon
<1>2. DOMAIN e = {} /\ DOMAIN q = DOMAIN e \cup {1} /\ 1 \notin DOMAIN e /\ q[1] = i
  BY <1>1
<1>3. IsFiniteSet(DOMAIN e)
  BY <1>2, FS_EmptySet
<1>4. Load(P, q) = P[q[1]].size + Load(P, e)
  <2>1. OneMore(P, e, P, q, 1)
    BY <1>2, <1>3 DEF OneMore
  <2> QED BY <2>1, LoadAdd
<1>5. Load(P, e) = 0
  BY <1>2, <1>3, LoadType
<1> QED BY <1>1, <1>2, <1>4, <1>5

=============================================================================
