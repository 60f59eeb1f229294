------------------------------ MODULE SetFacts ------------------------------
(***************************************************************************)
(* Sums over finite sets.  MapThenSumSet of FiniteSetsExt is a fold: it    *)
(* takes the elements in the order CHOOSE picks them.  The lemmas say that *)
(* the order does not matter, so that a sum can be followed through a step *)
(* that adds or removes one element.  They are proved without an induction *)
(* rule: the subsets of a finite set are well founded under inclusion, so a *)
(* claim that fails for some subset fails for a minimal one.               *)
(***************************************************************************)
EXTENDS FiniteSetsExt, FiniteSetTheorems, TLAPS

\* The sum of f over S, as Accounting writes it.
SumOver(f, S) == MapThenSumSet(LAMBDA r : f[r], S)

\* The element the fold of FiniteSetsExt takes first.
Pick(s) == CHOOSE x \in s : TRUE

\* g sums f over every subset of S.
IsSum(g, f, S) ==
    g = [s \in SUBSET S |-> IF s = {} THEN 0 ELSE f[Pick(s)] + g[s \ {Pick(s)}]]

\* The function the fold builds.
Summing(f, S) == CHOOSE g : IsSum(g, f, S)

\* MapThenSumSet is the value of that function at the whole set.
LEMMA SumDef == ASSUME NEW f, NEW S PROVE SumOver(f, S) = Summing(f, S)[S]
BY DEF SumOver, MapThenSumSet, MapThenFoldSet, Summing, IsSum, Pick

\* Minimal counterexamples: a nonempty family of subsets of a finite set has a
\* member none of whose proper subsets is in the family.
LEMMA LeastSubset ==
  ASSUME NEW S, IsFiniteSet(S), NEW C \in SUBSET (SUBSET S), C # {}
  PROVE  \E T \in C : \A U \in C : U \subseteq T => U = T
<1>1. IsWellFoundedOn(StrictSubsetOrdering(S), SUBSET S)
  BY FS_StrictSubsetOrderingWellFounded, FS_FiniteSubsetsOfFinite
<1>2. \E T \in C : \A U \in C : ~ (<<U, T>> \in StrictSubsetOrdering(S))
  BY <1>1, WFMin
<1>3. QED BY <1>2 DEF StrictSubsetOrdering

\* CHOOSE picks a member.
LEMMA PickIn == ASSUME NEW s, s # {} PROVE Pick(s) \in s
BY DEF Pick

\* The recursion equation at one subset.
LEMMA SumAt ==
  ASSUME NEW f, NEW S, NEW g, IsSum(g, f, S), NEW s \in SUBSET S
  PROVE  g[s] = IF s = {} THEN 0 ELSE f[Pick(s)] + g[s \ {Pick(s)}]
BY DEF IsSum

\* Two functions that satisfy the recursion agree on every common subset.
LEMMA SumsAgree ==
  ASSUME NEW f, NEW A, IsFiniteSet(A), NEW B, NEW g, NEW k, IsSum(g, f, A), IsSum(k, f, B),
         NEW U \in SUBSET A, U \in SUBSET B
  PROVE  g[U] = k[U]
<1> DEFINE Bad == {T \in SUBSET A : T \in SUBSET B /\ g[T] # k[T]}
<1>1. SUFFICES ASSUME Bad # {} PROVE FALSE
  OBVIOUS
<1>2. PICK T \in Bad : \A V \in Bad : V \subseteq T => V = T
  <2>1. Bad \in SUBSET (SUBSET A)
    OBVIOUS
  <2> HIDE DEF Bad
  <2>2. QED BY <1>1, <2>1, LeastSubset
<1>3. g[T] = (IF T = {} THEN 0 ELSE f[Pick(T)] + g[T \ {Pick(T)}])
  BY SumAt
<1>4. k[T] = (IF T = {} THEN 0 ELSE f[Pick(T)] + k[T \ {Pick(T)}])
  BY SumAt
<1>5. T # {}
  BY <1>3, <1>4
<1>6. T \ {Pick(T)} \notin Bad
  BY <1>2, <1>5, PickIn
<1>7. g[T \ {Pick(T)}] = k[T \ {Pick(T)}]
  BY <1>6
<1>8. QED BY <1>3, <1>4, <1>5, <1>7

\* A function that satisfies the recursion exists on every finite set.
LEMMA SumExists ==
  ASSUME NEW f, NEW S, IsFiniteSet(S)
  PROVE  IsSum(Summing(f, S), f, S)
<1> DEFINE Bad == {T \in SUBSET S : ~ IsSum(Summing(f, T), f, T)}
<1>1. SUFFICES ASSUME Bad # {} PROVE FALSE
  OBVIOUS
<1>2. PICK T \in Bad : \A V \in Bad : V \subseteq T => V = T
  <2>1. Bad \in SUBSET (SUBSET S)
    OBVIOUS
  <2> HIDE DEF Bad
  <2>2. QED BY <1>1, <2>1, LeastSubset
<1> DEFINE rest(s) == s \ {Pick(s)}
           h == [s \in SUBSET T |->
                   IF s = {} THEN 0 ELSE f[Pick(s)] + Summing(f, rest(s))[rest(s)]]
<1>3. ASSUME NEW s \in SUBSET T, s # T
      PROVE  IsSum(Summing(f, s), f, s) /\ IsFiniteSet(s)
  <2>1. s \notin Bad
    BY <1>2, <1>3
  <2>2. QED BY <2>1, FS_Subset
<1>4. ASSUME NEW s \in SUBSET T, s # {}
      PROVE  h[rest(s)] = Summing(f, rest(s))[rest(s)]
  <2>1. Pick(s) \in s
    BY <1>4, PickIn
  <2> DEFINE u == rest(s)
  <2>2. u \in SUBSET T /\ u # T
    BY <2>1
  <2>3. IsSum(Summing(f, u), f, u) /\ IsFiniteSet(u)
    BY <1>3, <2>2
  <2>4. Summing(f, u)[u] = (IF u = {} THEN 0 ELSE f[Pick(u)] + Summing(f, u)[rest(u)])
    <3> HIDE DEF u
    <3>1. u \in SUBSET u
      OBVIOUS
    <3>2. QED BY <2>3, <3>1, SumAt
  <2>5. CASE u = {}
    BY <2>4, <2>5
  <2>6. CASE u # {}
    <3>1. Pick(u) \in u
      BY <2>6, PickIn
    <3> DEFINE v == rest(u)
    <3>2. v \in SUBSET T /\ v # T /\ v \in SUBSET u
      BY <3>1, <2>2
    <3>3. IsSum(Summing(f, v), f, v) /\ IsFiniteSet(v)
      BY <1>3, <3>2
    <3>4. Summing(f, u)[v] = Summing(f, v)[v]
      <4> HIDE DEF u, v
      <4> QED BY <2>3, <3>2, <3>3, SumsAgree
    <3>5. h[u] = f[Pick(u)] + Summing(f, v)[v]
      BY <2>2, <2>6
    <3>6. QED BY <3>4, <3>5, <2>4, <2>6
  <2>7. QED BY <2>5, <2>6
<1>5. IsSum(h, f, T)
  <2>1. \A s \in SUBSET T : h[s] = IF s = {} THEN 0 ELSE f[Pick(s)] + h[rest(s)]
    BY <1>4
  <2>2. QED BY <2>1 DEF IsSum
<1>6. IsSum(Summing(f, T), f, T)
  <2> HIDE DEF h
  <2> QED BY <1>5 DEF Summing
<1>7. QED BY <1>6

\* The empty sum.
LEMMA SumEmpty == ASSUME NEW f PROVE SumOver(f, {}) = 0
<1>1. IsSum(Summing(f, {}), f, {})
  BY SumExists, FS_EmptySet
<1>2. QED BY <1>1, SumAt, SumDef

\* The sum splits at the element that CHOOSE picks.
LEMMA SumPicks ==
  ASSUME NEW f, NEW S, IsFiniteSet(S), S # {}
  PROVE  SumOver(f, S) = f[Pick(S)] + SumOver(f, S \ {Pick(S)})
<1> DEFINE T == S \ {Pick(S)}
<1>1. IsFiniteSet(T) /\ T \in SUBSET S
  BY FS_Subset
<1>2. IsSum(Summing(f, S), f, S) /\ IsSum(Summing(f, T), f, T)
  BY <1>1, SumExists
<1>3. Summing(f, S)[S] = f[Pick(S)] + Summing(f, S)[T]
  BY <1>2, SumAt
<1>4. Summing(f, T)[T] = Summing(f, S)[T]
  <2> HIDE DEF T
  <2> QED BY <1>1, <1>2, SumsAgree
<1>5. QED BY <1>3, <1>4, SumDef

\* A sum of naturals is a natural.
LEMMA SumNat ==
  ASSUME NEW f, NEW S, IsFiniteSet(S), \A x \in S : f[x] \in Nat
  PROVE  SumOver(f, S) \in Nat
<1> DEFINE Bad == {T \in SUBSET S : SumOver(f, T) \notin Nat}
<1>1. SUFFICES ASSUME Bad # {} PROVE FALSE
  OBVIOUS
<1>2. PICK T \in Bad : \A V \in Bad : V \subseteq T => V = T
  <2>1. Bad \in SUBSET (SUBSET S)
    OBVIOUS
  <2> HIDE DEF Bad
  <2>2. QED BY <1>1, <2>1, LeastSubset
<1>3. T # {}
  BY SumEmpty
<1>4. Pick(T) \in T /\ IsFiniteSet(T)
  BY <1>3, PickIn, FS_Subset
<1>5. T \ {Pick(T)} \notin Bad
  BY <1>2, <1>4
<1>6. SumOver(f, T) = f[Pick(T)] + SumOver(f, T \ {Pick(T)})
  BY <1>3, <1>4, SumPicks
<1>7. QED BY <1>4, <1>5, <1>6

\* The sum splits at any element: the order of the fold does not matter.
LEMMA SumRemove ==
  ASSUME NEW f, NEW S, IsFiniteSet(S), \A x \in S : f[x] \in Nat, NEW e \in S
  PROVE  SumOver(f, S) = f[e] + SumOver(f, S \ {e})
<1> DEFINE Bad == {T \in SUBSET S : \E x \in T : SumOver(f, T) # f[x] + SumOver(f, T \ {x})}
<1>1. SUFFICES ASSUME Bad # {} PROVE FALSE
  OBVIOUS
<1>2. PICK T \in Bad : \A V \in Bad : V \subseteq T => V = T
  <2>1. Bad \in SUBSET (SUBSET S)
    OBVIOUS
  <2> HIDE DEF Bad
  <2>2. QED BY <1>1, <2>1, LeastSubset
<1>3. PICK x \in T : SumOver(f, T) # f[x] + SumOver(f, T \ {x})
  OBVIOUS
<1> DEFINE p == Pick(T)
<1>4. p \in T /\ IsFiniteSet(T)
  BY PickIn, FS_Subset
<1>5. SumOver(f, T) = f[p] + SumOver(f, T \ {p})
  BY <1>4, SumPicks
<1>6. p # x
  BY <1>3, <1>5
<1>7. T \ {p} \notin Bad /\ T \ {x} \notin Bad
  BY <1>2, <1>4
<1>8. SumOver(f, T \ {p}) = f[x] + SumOver(f, (T \ {p}) \ {x})
  BY <1>4, <1>6, <1>7
<1>9. SumOver(f, T \ {x}) = f[p] + SumOver(f, (T \ {x}) \ {p})
  BY <1>4, <1>6, <1>7
<1>10. (T \ {p}) \ {x} = (T \ {x}) \ {p}
  OBVIOUS
<1>11. SumOver(f, (T \ {p}) \ {x}) \in Nat /\ f[x] \in Nat /\ f[p] \in Nat
  <2>1. IsFiniteSet((T \ {p}) \ {x})
    BY <1>4, FS_Subset
  <2>2. QED BY <2>1, <1>4, SumNat
<1> DEFINE v == SumOver(f, (T \ {p}) \ {x})
<1>12. SumOver(f, T) = f[p] + (f[x] + v) /\ SumOver(f, T \ {x}) = f[p] + v
  BY <1>5, <1>8, <1>9, <1>10
<1> HIDE DEF v, p
<1>13. v \in Nat /\ f[x] \in Nat /\ f[p] \in Nat
  BY <1>11 DEF v
<1>14. f[p] + (f[x] + v) = f[x] + (f[p] + v)
  BY <1>13
<1> QED BY <1>3, <1>12, <1>14

\* A new element adds its value.
LEMMA SumAdd ==
  ASSUME NEW f, NEW S, IsFiniteSet(S), NEW e, e \notin S, \A x \in S \cup {e} : f[x] \in Nat
  PROVE  SumOver(f, S \cup {e}) = f[e] + SumOver(f, S)
<1>1. IsFiniteSet(S \cup {e})
  BY FS_AddElement
<1>2. (S \cup {e}) \ {e} = S
  OBVIOUS
<1>3. QED BY <1>1, <1>2, SumRemove

=============================================================================
