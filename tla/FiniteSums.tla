----------------------------- MODULE FiniteSums -----------------------------
(***************************************************************************)
(* Sums over finite sets.  The properties about money add up amounts with  *)
(* MapThenSumSet, a fold whose order CHOOSE fixes; the lemmas below say    *)
(* what the proofs about them need of such a fold: it has a value, adding  *)
(* an element adds that element's value in whatever order the fold takes   *)
(* them, equal values give equal sums, and a bound on the values bounds    *)
(* the sum.  Induction is by the smallest counterexample.                  *)
(***************************************************************************)
EXTENDS Integers, FiniteSets, FiniteSetsExt, FiniteSetTheorems,
        WellFoundedInduction, TLAPS

SumOf(g, S) == MapThenSumSet(LAMBDA x : g[x], S)

Pick(s) == CHOOSE x \in s : TRUE

(* The fold of `g` over each member of a collection D of sets that is       *)
(* closed under taking elements away.                                       *)
AddsOn(it, g, D) ==
    it = [s \in D |-> IF s = {} THEN 0 ELSE g[Pick(s)] + it[s \ {Pick(s)}]]
Adds(it, g, S) == AddsOn(it, g, SUBSET S)

(* The subsets of S with at most n elements.                                *)
UpTo(S, n) == {s \in SUBSET S : Cardinality(s) <= n}

IntValued(g, S)  == \A x \in S : g[x] \in Int

----------------------------------------------------------------------------
LEMMA LeastNumber ==
    ASSUME NEW T, T \subseteq Nat, T # {}
    PROVE  \E n \in T : \A m \in T : n <= m
<1> DEFINE R == {ss \in Nat \X Nat : ss[1] < ss[2]}
<1>1. IsWellFoundedOn(R, Nat)
    BY NatLessThanWellFounded DEF OpToRel
<1>2. PICK n \in T : \A m \in T : ~ (<<m, n>> \in R)
    BY <1>1, WFMin
<1>3. ASSUME NEW m \in T PROVE n <= m
  <2>1. <<m, n>> \in Nat \X Nat /\ <<m, n>>[1] = m /\ <<m, n>>[2] = n
      OBVIOUS
  <2>2. ~ (m < n)
      BY <1>2, <2>1
  <2>3. QED BY <2>2
<1>4. QED BY <1>3

LEMMA PickIn == ASSUME NEW s, s # {} PROVE Pick(s) \in s
    BY DEF Pick

LEMMA SumIsFold ==
    ASSUME NEW g, NEW S
    PROVE  SumOf(g, S) = (CHOOSE it : Adds(it, g, S))[S]
BY DEF SumOf, MapThenSumSet, MapThenFoldSet, Pick, Adds, AddsOn

----------------------------------------------------------------------------
(* The fold exists: an initial part of it does for every size, and one more *)
(* element extends it.                                                      *)

LEMMA SmallerSets ==
    ASSUME NEW S, IsFiniteSet(S), NEW n \in Nat, NEW s \in UpTo(S, n + 1),
           s # {}
    PROVE  s \ {Pick(s)} \in UpTo(S, n)
<1>1. IsFiniteSet(s) /\ Pick(s) \in s
    BY FS_Subset, PickIn DEF UpTo
<1>2. Cardinality(s \ {Pick(s)}) = Cardinality(s) - 1
    BY <1>1, FS_RemoveElement
<1>3. Cardinality(s) \in Nat
    BY <1>1, FS_CardinalityType
<1>4. QED BY <1>2, <1>3 DEF UpTo

LEMMA FoldUpTo ==
    ASSUME NEW S, IsFiniteSet(S), NEW g, IntValued(g, S), NEW n \in Nat
    PROVE  \E it \in [UpTo(S, n) -> Int] : AddsOn(it, g, UpTo(S, n))
<1> DEFINE Built(k) == \E it \in [UpTo(S, k) -> Int] : AddsOn(it, g, UpTo(S, k))
           T == {k \in Nat : ~ Built(k)}
<1>1. SUFFICES ASSUME T # {} PROVE FALSE
    OBVIOUS
<1>2. PICK k \in T : \A m \in T : k <= m
    BY <1>1, LeastNumber, T \subseteq Nat
<1>3. Built(0)
  <2> DEFINE it0 == [s \in UpTo(S, 0) |-> 0]
  <2>1. \A s \in UpTo(S, 0) : s = {}
      BY FS_Subset, FS_EmptySet, FS_CardinalityType DEF UpTo
  <2>2. it0 \in [UpTo(S, 0) -> Int]
      OBVIOUS
  <2>3. AddsOn(it0, g, UpTo(S, 0))
      BY <2>1 DEF AddsOn
  <2>4. QED BY <2>2, <2>3
<1>4. ASSUME NEW m \in Nat, Built(m) PROVE Built(m + 1)
  <2>1. PICK it \in [UpTo(S, m) -> Int] : AddsOn(it, g, UpTo(S, m))
      BY <1>4
  <2> DEFINE it2 == [s \in UpTo(S, m + 1) |->
                        IF s = {} THEN 0
                        ELSE g[Pick(s)] + it[s \ {Pick(s)}]]
  <2>2. \A s \in UpTo(S, m + 1) : s # {} =>
            /\ Pick(s) \in S
            /\ s \ {Pick(s)} \in UpTo(S, m)
      BY SmallerSets, PickIn DEF UpTo
  <2>3. it2 \in [UpTo(S, m + 1) -> Int]
      BY <2>1, <2>2 DEF IntValued
  <2>4. \A s \in UpTo(S, m) : s \in UpTo(S, m + 1) /\ it2[s] = it[s]
    <3>1. \A s \in UpTo(S, m) : s \in UpTo(S, m + 1)
        BY FS_Subset, FS_CardinalityType DEF UpTo
    <3>2. \A s \in UpTo(S, m) :
              it[s] = IF s = {} THEN 0 ELSE g[Pick(s)] + it[s \ {Pick(s)}]
        BY <2>1 DEF AddsOn
    <3>3. QED BY <3>1, <3>2
  <2>5. AddsOn(it2, g, UpTo(S, m + 1))
    <3>1. \A s \in UpTo(S, m + 1) : s # {} =>
              it2[s \ {Pick(s)}] = it[s \ {Pick(s)}]
        BY <2>2, <2>4
    <3> HIDE DEF it2
    <3>2. it2 = [s \in UpTo(S, m + 1) |->
                    IF s = {} THEN 0
                    ELSE g[Pick(s)] + it2[s \ {Pick(s)}]]
        BY <3>1 DEF it2
    <3>3. QED BY <3>2 DEF AddsOn
  <2> HIDE DEF it2
  <2>6. QED BY <2>3, <2>5
<1> HIDE DEF Built
<1>5. k # 0 /\ k \in Nat /\ ~ Built(k)
    BY <1>2, <1>3
<1>6. k - 1 \in Nat /\ k - 1 \notin T
    BY <1>2, <1>5
<1>7. Built(k - 1)
    BY <1>6
<1>8. Built(k)
    BY <1>4, <1>5, <1>6, <1>7, (k - 1) + 1 = k
<1>9. QED BY <1>5, <1>8

LEMMA FoldExists ==
    ASSUME NEW S, IsFiniteSet(S), NEW g, IntValued(g, S)
    PROVE  \E it \in [SUBSET S -> Int] : Adds(it, g, S)
<1>1. Cardinality(S) \in Nat
    BY FS_CardinalityType
<1>2. UpTo(S, Cardinality(S)) = SUBSET S
    BY FS_Subset DEF UpTo
<1>3. PICK it \in [UpTo(S, Cardinality(S)) -> Int] :
          AddsOn(it, g, UpTo(S, Cardinality(S)))
    BY <1>1, FoldUpTo
<1>4. QED BY <1>2, <1>3 DEF Adds

(* Two folds of equal values agree on every subset, a smallest set on which *)
(* they did not being no counterexample.                                    *)
LEMMA FoldsAgree ==
    ASSUME NEW S, IsFiniteSet(S), NEW g, NEW h, NEW U \in SUBSET S,
           \A x \in U : g[x] = h[x],
           NEW it, Adds(it, g, S), NEW jt, Adds(jt, h, U)
    PROVE  \A s \in SUBSET U : it[s] = jt[s]
<1> DEFINE Wrong == {s \in SUBSET U : it[s] # jt[s]}
           Sizes == {Cardinality(s) : s \in Wrong}
<1>1. SUFFICES ASSUME Wrong # {} PROVE FALSE
    OBVIOUS
<1>2. \A s \in SUBSET U : IsFiniteSet(s) /\ Cardinality(s) \in Nat
    BY FS_Subset, FS_CardinalityType
<1>3. PICK s \in Wrong : \A t \in Wrong : Cardinality(s) <= Cardinality(t)
  <2>1. Sizes \subseteq Nat /\ Sizes # {}
      BY <1>1, <1>2
  <2>2. PICK n \in Sizes : \A m \in Sizes : n <= m
      BY <2>1, LeastNumber
  <2>3. QED BY <2>2
<1>4. \A t \in SUBSET U :
          /\ it[t] = IF t = {} THEN 0 ELSE g[Pick(t)] + it[t \ {Pick(t)}]
          /\ jt[t] = IF t = {} THEN 0 ELSE h[Pick(t)] + jt[t \ {Pick(t)}]
    BY DEF Adds, AddsOn
<1>5. s # {}
    BY <1>4
<1>6. Pick(s) \in s /\ s \ {Pick(s)} \in SUBSET U
    BY <1>5, PickIn
<1>7. Cardinality(s \ {Pick(s)}) = Cardinality(s) - 1
    BY <1>2, <1>6, FS_RemoveElement
<1>8. s \ {Pick(s)} \notin Wrong
    BY <1>2, <1>3, <1>6, <1>7
<1>9. it[s] = jt[s]
    BY <1>4, <1>5, <1>6, <1>8
<1>10. QED BY <1>9

(* Any fold of the values is the sum: of the whole set, and of its subsets. *)
LEMMA FoldIsSum ==
    ASSUME NEW S, IsFiniteSet(S), NEW g, IntValued(g, S),
           NEW it, Adds(it, g, S), NEW U \in SUBSET S
    PROVE  it[U] = SumOf(g, U)
<1>1. IsFiniteSet(U) /\ IntValued(g, U)
    BY FS_Subset DEF IntValued
<1>2. \E jt : Adds(jt, g, U)
    BY <1>1, FoldExists
<1> DEFINE jt == CHOOSE kt : Adds(kt, g, U)
<1>3. Adds(jt, g, U)
    BY <1>2
<1>4. SumOf(g, U) = jt[U]
    BY SumIsFold
<1> HIDE DEF jt
<1>5. QED BY <1>3, <1>4, FoldsAgree

(* The fold takes the elements in CHOOSE's order; any other order gives the *)
(* same sum.                                                                *)
LEMMA AnyOrder ==
    ASSUME NEW S, IsFiniteSet(S), NEW g, IntValued(g, S),
           NEW it \in [SUBSET S -> Int], Adds(it, g, S)
    PROVE  \A s \in SUBSET S : \A x \in s : it[s] = g[x] + it[s \ {x}]
<1> DEFINE Wrong == {s \in SUBSET S : \E x \in s : it[s] # g[x] + it[s \ {x}]}
           Sizes == {Cardinality(s) : s \in Wrong}
<1>1. SUFFICES ASSUME Wrong # {} PROVE FALSE
    OBVIOUS
<1>2. \A s \in SUBSET S : IsFiniteSet(s) /\ Cardinality(s) \in Nat
    BY FS_Subset, FS_CardinalityType
<1>3. PICK s \in Wrong : \A t \in Wrong : Cardinality(s) <= Cardinality(t)
  <2>1. Sizes \subseteq Nat /\ Sizes # {}
      BY <1>1, <1>2
  <2>2. PICK n \in Sizes : \A m \in Sizes : n <= m
      BY <2>1, LeastNumber
  <2>3. QED BY <2>2
<1>4. PICK x \in s : it[s] # g[x] + it[s \ {x}]
    OBVIOUS
<1> DEFINE y == Pick(s)
<1>5. y \in s
    BY PickIn
<1>6. it[s] = g[y] + it[s \ {y}]
    BY <1>5 DEF Adds, AddsOn
<1> HIDE DEF y
<1>7. x # y
    BY <1>4, <1>6
<1>8. s \ {x} \notin Wrong /\ s \ {y} \notin Wrong
  <2>1. Cardinality(s \ {x}) = Cardinality(s) - 1
      BY <1>2, FS_RemoveElement
  <2>2. Cardinality(s \ {y}) = Cardinality(s) - 1
      BY <1>2, <1>5, FS_RemoveElement
  <2>3. s \ {x} \in SUBSET S /\ s \ {y} \in SUBSET S
      OBVIOUS
  <2>4. s \ {x} \notin Wrong
      BY <1>2, <1>3, <2>1, <2>3
  <2>5. s \ {y} \notin Wrong
      BY <1>2, <1>3, <2>2, <2>3
  <2>6. QED BY <2>4, <2>5
<1>9. /\ it[s \ {y}] = g[x] + it[(s \ {y}) \ {x}]
      /\ it[s \ {x}] = g[y] + it[(s \ {x}) \ {y}]
    BY <1>5, <1>7, <1>8
<1>10. (s \ {y}) \ {x} = (s \ {x}) \ {y}
    OBVIOUS
<1>11. /\ g[x] \in Int /\ g[y] \in Int
       /\ it[(s \ {x}) \ {y}] \in Int
    BY <1>5 DEF IntValued
<1> HIDE DEF Wrong, Sizes
<1>12. it[s] = g[x] + it[s \ {x}]
  <2> DEFINE rest == it[(s \ {x}) \ {y}]
  <2>1. it[s] = g[y] + (g[x] + rest)
      BY <1>6, <1>9, <1>10
  <2>2. it[s \ {x}] = g[y] + rest
      BY <1>9
  <2> HIDE DEF rest
  <2>3. rest \in Int
      BY <1>11 DEF rest
  <2>4. QED BY <1>11, <2>1, <2>2, <2>3
<1>13. QED BY <1>4, <1>12

----------------------------------------------------------------------------
(* What the proofs about money use.                                         *)

LEMMA SumType ==
    ASSUME NEW S, IsFiniteSet(S), NEW g, IntValued(g, S)
    PROVE  SumOf(g, S) \in Int
<1>1. PICK it \in [SUBSET S -> Int] : Adds(it, g, S)
    BY FoldExists
<1>2. S \in SUBSET S
    OBVIOUS
<1>3. it[S] = SumOf(g, S)
    BY <1>1, <1>2, FoldIsSum
<1>4. QED BY <1>2, <1>3

LEMMA SumEmpty == ASSUME NEW g PROVE SumOf(g, {}) = 0
<1>1. IsFiniteSet({}) /\ IntValued(g, {})
    BY FS_EmptySet DEF IntValued
<1>2. PICK it : Adds(it, g, {})
    BY <1>1, FoldExists
<1>3. it[{}] = 0
    BY <1>2 DEF Adds, AddsOn
<1>4. {} \in SUBSET {}
    OBVIOUS
<1>5. it[{}] = SumOf(g, {})
    BY <1>1, <1>2, <1>4, FoldIsSum
<1>6. QED BY <1>3, <1>5

(* Taking an element out, or adding one, changes the sum by its value.      *)
LEMMA SumSplits ==
    ASSUME NEW S, IsFiniteSet(S), NEW g, IntValued(g, S), NEW x \in S
    PROVE  SumOf(g, S) = SumOf(g, S \ {x}) + g[x]
<1>1. PICK it \in [SUBSET S -> Int] : Adds(it, g, S)
    BY FoldExists
<1>2. S \in SUBSET S /\ S \ {x} \in SUBSET S
    OBVIOUS
<1>3. it[S] = SumOf(g, S) /\ it[S \ {x}] = SumOf(g, S \ {x})
    BY <1>1, <1>2, FoldIsSum
<1>4. it[S] = g[x] + it[S \ {x}]
    BY <1>1, <1>2, AnyOrder
<1>5. g[x] \in Int /\ it[S \ {x}] \in Int
    BY <1>2 DEF IntValued
<1>6. QED BY <1>3, <1>4, <1>5

LEMMA SumAdds ==
    ASSUME NEW S, IsFiniteSet(S), NEW x, x \notin S,
           NEW g, IntValued(g, S \cup {x})
    PROVE  SumOf(g, S \cup {x}) = SumOf(g, S) + g[x]
<1>1. IsFiniteSet(S \cup {x})
    BY FS_AddElement
<1>2. (S \cup {x}) \ {x} = S
    OBVIOUS
<1>3. QED BY <1>1, <1>2, SumSplits

LEMMA SumsAgree ==
    ASSUME NEW S, IsFiniteSet(S), NEW g, NEW h, IntValued(g, S),
           \A x \in S : g[x] = h[x]
    PROVE  SumOf(g, S) = SumOf(h, S)
<1>1. IntValued(h, S)
    BY DEF IntValued
<1>2. PICK it \in [SUBSET S -> Int] : Adds(it, g, S)
    BY FoldExists
<1>3. PICK jt \in [SUBSET S -> Int] : Adds(jt, h, S)
    BY <1>1, FoldExists
<1>4. S \in SUBSET S
    OBVIOUS
<1>5. it[S] = jt[S]
    BY <1>2, <1>3, <1>4, FoldsAgree
<1>6. it[S] = SumOf(g, S)
    BY <1>2, <1>4, FoldIsSum
<1>7. jt[S] = SumOf(h, S)
    BY <1>1, <1>3, <1>4, FoldIsSum
<1>8. QED BY <1>5, <1>6, <1>7

(* Values of at most c add up to at most c times their number.              *)
LEMMA SumBound ==
    ASSUME NEW S, IsFiniteSet(S), NEW g, IntValued(g, S), NEW c \in Int,
           \A x \in S : g[x] <= c
    PROVE  SumOf(g, S) <= c * Cardinality(S)
<1> DEFINE Wrong == {s \in SUBSET S : ~ (SumOf(g, s) <= c * Cardinality(s))}
           Sizes == {Cardinality(s) : s \in Wrong}
<1>1. SUFFICES ASSUME Wrong # {} PROVE FALSE
    OBVIOUS
<1>2. \A s \in SUBSET S :
          IsFiniteSet(s) /\ Cardinality(s) \in Nat /\ IntValued(g, s)
    BY FS_Subset, FS_CardinalityType DEF IntValued
<1>3. PICK s \in Wrong : \A t \in Wrong : Cardinality(s) <= Cardinality(t)
  <2>1. Sizes \subseteq Nat /\ Sizes # {}
      BY <1>1, <1>2
  <2>2. PICK n \in Sizes : \A m \in Sizes : n <= m
      BY <2>1, LeastNumber
  <2>3. QED BY <2>2
<1>4. s # {}
  <2>1. SumOf(g, {}) <= c * Cardinality({})
      BY SumEmpty, FS_EmptySet
  <2>2. QED BY <2>1
<1>5. PICK x : x \in s
    BY <1>4
<1>6. Cardinality(s \ {x}) = Cardinality(s) - 1
    BY <1>2, <1>5, FS_RemoveElement
<1>7. s \ {x} \in SUBSET S /\ s \ {x} \notin Wrong
    BY <1>2, <1>3, <1>6
<1>8. SumOf(g, s \ {x}) <= c * (Cardinality(s) - 1)
    BY <1>6, <1>7
<1>9. SumOf(g, s) = SumOf(g, s \ {x}) + g[x]
    BY <1>2, <1>5, SumSplits
<1>10. /\ SumOf(g, s \ {x}) \in Int
       /\ g[x] \in Int /\ g[x] <= c
    BY <1>2, <1>5, <1>7, SumType DEF IntValued
<1>11. c * (Cardinality(s) - 1) + c = c * Cardinality(s)
    BY <1>2
<1>12. SumOf(g, s) <= c * Cardinality(s)
  <2> DEFINE m == c * (Cardinality(s) - 1)
             n == c * Cardinality(s)
             p == SumOf(g, s \ {x})
             q == SumOf(g, s)
  <2>1. m \in Int /\ n \in Int
      BY <1>2
  <2> HIDE DEF m, n, p, q
  <2>2. p <= m /\ q = p + g[x] /\ p \in Int /\ m + c = n
      BY <1>8, <1>9, <1>10, <1>11 DEF m, n, p, q
  <2>3. q <= n
      BY <1>10, <2>1, <2>2
  <2>4. QED BY <2>3 DEF n, q
<1>13. QED BY <1>12
=============================================================================
