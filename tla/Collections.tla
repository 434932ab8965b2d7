----------------------------- MODULE Collections ------------------------------
(***************************************************************************)
(* Least and greatest elements, induction in the form the proofs use it (a *)
(* set of counterexamples has a least one), and the sums of the community  *)
(* modules' folds.                                                         *)
(***************************************************************************)
EXTENDS FiniteSetsExt, Functions, WellFoundedInduction, FiniteSetTheorems, TLAPS

LEMMA NatMinimum ==
  ASSUME NEW S \in SUBSET Nat, S # {}
  PROVE  \E m \in S : \A n \in S : m <= n
  <1>1. PICK m \in S : \A n \in S : <<n, m>> \notin OpToRel(<, Nat)
    BY WFMin, NatLessThanWellFounded, Zenon
  <1>2. \A n \in S : ~(n < m)
    BY <1>1, Zenon DEF OpToRel
  <1> QED
    BY <1>2

\* A set of naturals below a bound has a greatest element.
LEMMA NatMaximum ==
  ASSUME NEW S \in SUBSET Nat, S # {}, NEW bound \in Nat, \A n \in S : n <= bound
  PROVE  \E m \in S : \A n \in S : n <= m
  <1> DEFINE Bounds == {b \in Nat : \A n \in S : n <= b}
  <1>1. Bounds \in SUBSET Nat /\ Bounds # {}
    OBVIOUS
  <1>2. PICK b \in Bounds : \A other \in Bounds : b <= other
    BY <1>1, NatMinimum
  <1>3. b \in S
    <2>1. SUFFICES ASSUME b \notin S PROVE FALSE
      OBVIOUS
    <2>2. \A n \in S : n < b
      BY <1>2, <2>1
    <2>3. b \in Nat /\ 0 < b
      <3>1. PICK n \in S : n \in Nat
        OBVIOUS
      <3>2. n < b /\ b \in Nat
        BY <2>2, <3>1
      <3> QED
        BY <3>1, <3>2
    <2>4. b - 1 \in Nat /\ b - 1 < b
      BY <2>3
    <2>5. b - 1 \in Bounds
      BY <2>2, <2>3, <2>4
    <2> QED
      BY <1>2, <2>3, <2>4, <2>5
  <1> QED
    BY <1>2, <1>3

-----------------------------------------------------------------------------
(* Sums: what MapThenSumSet and SumFunction return.                        *)

\* A set of subsets that has the empty one and grows by any element has them all.
LEMMA SubsetInduction ==
  ASSUME NEW T, IsFiniteSet(T), NEW good \in SUBSET (SUBSET T), {} \in good,
         \A U \in good : \A x \in T \ U : U \cup {x} \in good
  PROVE  T \in good
  <1> DEFINE Bad == {n \in Nat : \E U \in SUBSET T : U \notin good /\ Cardinality(U) = n}
  <1>1. SUFFICES ASSUME T \notin good PROVE FALSE
    OBVIOUS
  <1>2. \A U \in SUBSET T : IsFiniteSet(U) /\ Cardinality(U) \in Nat
    BY FS_Subset, FS_CardinalityType
  <1>3. Bad \in SUBSET Nat /\ Bad # {}
    BY <1>1, <1>2
  <1>4. PICK n \in Bad : \A m \in Bad : n <= m
    BY <1>3, NatMinimum
  <1>5. PICK U \in SUBSET T : U \notin good /\ Cardinality(U) = n
    BY <1>4
  <1>6. PICK x \in U : TRUE
    BY <1>5
  <1>7. Cardinality(U \ {x}) = n - 1 /\ n - 1 \in Nat
    <2>1. /\ Cardinality(U \ {x}) = IF x \in U THEN Cardinality(U) - 1 ELSE Cardinality(U)
          /\ IsFiniteSet(U)
      BY <1>2, FS_RemoveElement
    <2>2. Cardinality(U \ {x}) \in Nat
      BY <1>2
    <2> QED
      BY <1>5, <1>6, <2>1, <2>2
  <1>8. U \ {x} \in good
    <2>1. SUFFICES ASSUME U \ {x} \notin good PROVE FALSE
      OBVIOUS
    <2>2. n - 1 \in Bad
      BY <1>5, <1>7, <2>1
    <2> QED
      BY <1>4, <2>2
  <1>9. U = (U \ {x}) \cup {x} /\ x \in T \ (U \ {x})
    BY <1>5, <1>6
  <1> QED
    BY <1>5, <1>8, <1>9

-----------------------------------------------------------------------------
(* The recursion that a sum stands for.                                    *)

Some(s) == CHOOSE x \in s : TRUE

Summable(f, T) == IsFiniteSet(T) /\ \A x \in T : f[x] \in Int

Unfolds(g, T, f) ==
  g = [s \in SUBSET T |-> IF s = {} THEN 0 ELSE f[Some(s)] + g[s \ {Some(s)}]]

Total(f, T) == MapThenSumSet(LAMBDA x : f[x], T)

\* The values of all the sums over subsets.
Tabulates(g, T, f) ==
  /\ g \in [SUBSET T -> Int] /\ Unfolds(g, T, f)
  /\ \A U \in SUBSET T : Total(f, U) = g[U]

LEMMA SomeIsIn ==
  ASSUME NEW s, s # {}
  PROVE  Some(s) \in s
  BY DEF Some

\* There is such a function, level by level.
LEMMA UnfoldsExists ==
  ASSUME NEW T, NEW f, Summable(f, T)
  PROVE  \E g \in [SUBSET T -> Int] : Unfolds(g, T, f)
  <1>0. IsFiniteSet(T) /\ \A x \in T : f[x] \in Int
    BY DEF Summable
  <1> DEFINE Level(n) == {s \in SUBSET T : Cardinality(s) <= n}
             Step(s, g) == IF s = {} THEN 0 ELSE f[Some(s)] + g[s \ {Some(s)}]
             Good(n) == \E g \in [Level(n) -> Int] : \A s \in Level(n) : g[s] = Step(s, g)
             Bad == {n \in Nat : ~Good(n)}
  <1>1. \A s \in SUBSET T : IsFiniteSet(s) /\ Cardinality(s) \in Nat
    BY <1>0, FS_Subset, FS_CardinalityType
  <1>2. \A s \in SUBSET T : s # {} =>
            /\ Some(s) \in T
            /\ s \ {Some(s)} \in SUBSET T
            /\ Cardinality(s \ {Some(s)}) = Cardinality(s) - 1
    <2>1. SUFFICES ASSUME NEW s \in SUBSET T, s # {}
                   PROVE  /\ Some(s) \in s
                          /\ Cardinality(s \ {Some(s)}) = Cardinality(s) - 1
      OBVIOUS
    <2> PICK x : x = Some(s)
      OBVIOUS
    <2>2. x \in s
      BY <2>1, SomeIsIn
    <2>3. Cardinality(s \ {x}) = IF x \in s THEN Cardinality(s) - 1 ELSE Cardinality(s)
      BY <1>1, FS_RemoveElement
    <2> QED
      BY <2>2, <2>3
  <1>3. Good(0)
    <2>1. \A s \in Level(0) : s = {}
      BY <1>1, FS_EmptySet
    <2> PICK g : g = [s \in Level(0) |-> 0]
      OBVIOUS
    <2>2. g \in [Level(0) -> Int] /\ \A s \in Level(0) : g[s] = Step(s, g)
      BY <2>1
    <2> QED
      BY <2>2
  <1>4. ASSUME NEW n \in Nat, Good(n) PROVE Good(n + 1)
    <2>1. PICK g \in [Level(n) -> Int] : \A s \in Level(n) : g[s] = Step(s, g)
      BY <1>4
    <2> PICK h : h = [s \in Level(n + 1) |-> Step(s, g)]
      OBVIOUS
    <2>2. \A s \in Level(n + 1) : s # {} => s \ {Some(s)} \in Level(n)
      BY <1>1, <1>2
    <2>3. \A s \in Level(n + 1) : Step(s, g) \in Int
      <3>1. TAKE s \in Level(n + 1)
      <3>2. CASE s = {}
        BY <3>2
      <3>3. CASE s # {}
        <4>1. s \ {Some(s)} \in Level(n) /\ Some(s) \in T
          BY <1>2, <2>2, <3>3
        <4> HIDE DEF Level
        <4>2. g[s \ {Some(s)}] \in Int /\ f[Some(s)] \in Int
          BY <1>0, <4>1
        <4> QED
          BY <3>3, <4>2
      <3> QED
        BY <3>2, <3>3
    <2>4. h \in [Level(n + 1) -> Int]
      BY <2>3
    <2>5. \A s \in Level(n) : s \in Level(n + 1) /\ h[s] = g[s]
      <3>1. \A s \in Level(n) : s \in Level(n + 1)
        BY <1>1
      <3> QED
        BY <2>1, <3>1
    <2>6. \A s \in Level(n + 1) : Step(s, g) = Step(s, h)
      BY <2>2, <2>5
    <2>7. \A s \in Level(n + 1) : h[s] = Step(s, h)
      BY <2>6
    <2> QED
      BY <2>4, <2>7
  <1> HIDE DEF Good
  <1>5. \A n \in Nat : Good(n)
    <2>1. SUFFICES ASSUME Bad # {} PROVE FALSE
      OBVIOUS
    <2>2. Bad \in SUBSET Nat
      OBVIOUS
    <2> HIDE DEF Bad
    <2>3. PICK n \in Bad : \A m \in Bad : n <= m
      BY <2>1, <2>2, NatMinimum
    <2>4. n \in Nat /\ ~Good(n)
      BY <2>3 DEF Bad
    <2>5. n # 0
      BY <1>3, <2>4
    <2>6. n - 1 \in Nat /\ n - 1 \notin Bad /\ n = (n - 1) + 1
      BY <2>3, <2>4, <2>5
    <2>7. Good(n - 1)
      BY <2>6 DEF Bad
    <2>8. Good((n - 1) + 1)
      BY <1>4, <2>6, <2>7
    <2> QED
      BY <2>4, <2>6, <2>8
  <1>6. Good(Cardinality(T))
    BY <1>1, <1>5
  <1>7. Level(Cardinality(T)) = SUBSET T
    <2>1. \A s \in SUBSET T : Cardinality(s) <= Cardinality(T)
      BY <1>0, FS_Subset
    <2> QED
      BY <2>1
  <1>8. PICK g \in [SUBSET T -> Int] : \A s \in SUBSET T : g[s] = Step(s, g)
    BY <1>6, <1>7 DEF Good
  <1>9. g = [s \in SUBSET T |-> g[s]]
    OBVIOUS
  <1>10. Unfolds(g, T, f)
    BY <1>8, <1>9 DEF Unfolds
  <1> QED
    BY <1>10

\* It is the only one, and a sum over a subset is its value there.
LEMMA UnfoldsOnce ==
  ASSUME NEW T, IsFiniteSet(T), NEW f, NEW g, NEW h, NEW U \in SUBSET T,
         Unfolds(g, T, f), Unfolds(h, U, f)
  PROVE  g[U] = h[U]
  <1> DEFINE Good == {s \in SUBSET U : \A r \in SUBSET s : g[r] = h[r]}
  <1>1. IsFiniteSet(U)
    BY FS_Subset
  <1>2. \A r \in SUBSET T : g[r] = IF r = {} THEN 0 ELSE f[Some(r)] + g[r \ {Some(r)}]
    BY DEF Unfolds
  <1>3. \A r \in SUBSET U : h[r] = IF r = {} THEN 0 ELSE f[Some(r)] + h[r \ {Some(r)}]
    BY DEF Unfolds
  <1> DEFINE Bad == {n \in Nat : \E r \in SUBSET U : g[r] # h[r] /\ Cardinality(r) = n}
  <1>4. SUFFICES ASSUME g[U] # h[U] PROVE FALSE
    OBVIOUS
  <1>5. \A r \in SUBSET U : IsFiniteSet(r) /\ Cardinality(r) \in Nat
    BY <1>1, FS_Subset, FS_CardinalityType
  <1>6. Bad \in SUBSET Nat /\ Bad # {}
    BY <1>4, <1>5
  <1>7. PICK n \in Bad : \A m \in Bad : n <= m
    BY <1>6, NatMinimum
  <1>8. PICK r \in SUBSET U : g[r] # h[r] /\ Cardinality(r) = n
    BY <1>7
  <1>9. r # {}
    BY <1>2, <1>3, <1>8
  <1> PICK x, rest : x = Some(r) /\ rest = r \ {x}
    OBVIOUS
  <1>10. x \in r
    BY <1>9, SomeIsIn
  <1>11. Cardinality(rest) = n - 1 /\ Cardinality(rest) \in Nat
    <2>1. Cardinality(r \ {x}) = IF x \in r THEN Cardinality(r) - 1 ELSE Cardinality(r)
      BY <1>5, FS_RemoveElement
    <2> QED
      BY <1>5, <1>8, <1>10, <2>1
  <1>12. g[rest] = h[rest]
    <2>1. SUFFICES ASSUME g[rest] # h[rest] PROVE FALSE
      OBVIOUS
    <2>2. Cardinality(rest) \in Bad
      BY <1>11, <2>1
    <2>3. n <= n - 1 /\ n \in Nat
      BY <1>7, <1>11, <2>2
    <2> QED
      BY <2>3
  <1> QED
    BY <1>2, <1>3, <1>8, <1>9, <1>12

LEMMA TotalUnfolds ==
  ASSUME NEW T, NEW f, Summable(f, T)
  PROVE  \E g : Tabulates(g, T, f)
  <1>0. IsFiniteSet(T)
    BY DEF Summable
  <1>1. ASSUME NEW U \in SUBSET T
        PROVE  \E h : Unfolds(h, U, f) /\ Total(f, U) = h[U]
    <2>1. PICK g : Unfolds(g, U, f)
      <3>1. Summable(f, U)
        BY FS_Subset DEF Summable
      <3> QED
        BY <3>1, UnfoldsExists
    <2> PICK it : it = (CHOOSE k : Unfolds(k, U, f))
      OBVIOUS
    <2>2. Unfolds(it, U, f)
      BY <2>1
    <2>3. Total(f, U) = it[U]
      BY DEF Total, MapThenSumSet, MapThenFoldSet, Unfolds, Some
    <2> QED
      BY <2>2, <2>3
  <1>2. PICK g \in [SUBSET T -> Int] : Unfolds(g, T, f)
    BY UnfoldsExists
  <1>3. \A U \in SUBSET T : Total(f, U) = g[U]
    BY <1>0, <1>1, <1>2, UnfoldsOnce
  <1> QED
    BY <1>2, <1>3 DEF Tabulates

LEMMA TotalType ==
  ASSUME NEW T, NEW f, Summable(f, T)
  PROVE  Total(f, {}) = 0 /\ Total(f, T) \in Int
  <1>i. PICK g : Tabulates(g, T, f)
    BY TotalUnfolds
  <1>1. /\ g \in [SUBSET T -> Int] /\ Unfolds(g, T, f)
        /\ \A U \in SUBSET T : Total(f, U) = g[U]
        /\ IsFiniteSet(T) /\ \A x \in T : f[x] \in Int
    BY <1>i DEF Tabulates, Summable
  <1>2. g[{}] = 0
    BY <1>1 DEF Unfolds
  <1> QED
    BY <1>1, <1>2

\* Any element may be taken out.
LEMMA TotalRemove ==
  ASSUME NEW T, NEW f, Summable(f, T), NEW e \in T
  PROVE  Total(f, T) = f[e] + Total(f, T \ {e})
  <1>i. PICK g : Tabulates(g, T, f)
    BY TotalUnfolds
  <1>1. /\ g \in [SUBSET T -> Int] /\ Unfolds(g, T, f)
        /\ \A U \in SUBSET T : Total(f, U) = g[U]
        /\ IsFiniteSet(T) /\ \A x \in T : f[x] \in Int
    BY <1>i DEF Tabulates, Summable
  <1>2. \A r \in SUBSET T : r # {} => g[r] = f[Some(r)] + g[r \ {Some(r)}]
    BY <1>1 DEF Unfolds
  <1> DEFINE Holds(r) == \A x \in r : g[r] = f[x] + g[r \ {x}]
             Bad == {n \in Nat : \E r \in SUBSET T : ~Holds(r) /\ Cardinality(r) = n}
  <1>3. Holds(T)
    <2>1. SUFFICES ASSUME ~Holds(T) PROVE FALSE
      OBVIOUS
    <2>2. \A r \in SUBSET T : IsFiniteSet(r) /\ Cardinality(r) \in Nat
      BY <1>1, FS_Subset, FS_CardinalityType
    <2>3. Bad \in SUBSET Nat /\ Bad # {}
      BY <2>1, <2>2
    <2>4. PICK n \in Bad : \A m \in Bad : n <= m
      BY <2>3, NatMinimum
    <2>5. PICK r \in SUBSET T : ~Holds(r) /\ Cardinality(r) = n
      BY <2>4
    <2>6. ASSUME NEW y \in r PROVE Holds(r \ {y})
      <3>1. Cardinality(r \ {y}) = n - 1 /\ n - 1 \in Nat
        <4>1. /\ Cardinality(r \ {y}) = IF y \in r THEN Cardinality(r) - 1 ELSE Cardinality(r)
              /\ Cardinality(r \ {y}) \in Nat
          BY <2>2, FS_RemoveElement
        <4> QED
          BY <2>5, <2>6, <4>1
      <3>2. SUFFICES ASSUME ~Holds(r \ {y}) PROVE FALSE
        OBVIOUS
      <3>3. n - 1 \in Bad
        BY <3>1, <3>2
      <3> QED
        BY <2>4, <3>3
    <2>7. PICK x \in r : g[r] # f[x] + g[r \ {x}]
      BY <2>5
    <2> PICK c : c = Some(r)
      OBVIOUS
    <2>8. c \in r /\ g[r] = f[c] + g[r \ {c}] /\ c # x
      <3>1. r # {}
        BY <2>7
      <3>2. c \in r /\ g[r] = f[c] + g[r \ {c}]
        BY <1>2, <3>1, SomeIsIn
      <3> QED
        BY <2>7, <3>2
    <2>9. g[r \ {c}] = f[x] + g[(r \ {c}) \ {x}]
      BY <2>6, <2>7, <2>8
    <2>10. g[r \ {x}] = f[c] + g[(r \ {x}) \ {c}]
      BY <2>6, <2>7, <2>8
    <2>11. (r \ {c}) \ {x} = (r \ {x}) \ {c}
      OBVIOUS
    <2>12. /\ f[x] \in Int /\ f[c] \in Int /\ g[r] \in Int /\ g[r \ {x}] \in Int
           /\ g[(r \ {x}) \ {c}] \in Int
      BY <1>1, <2>7, <2>8
    <2>i. PICK a, d, all, less, least :
              /\ a = f[x] /\ d = f[c] /\ all = g[r] /\ less = g[r \ {x}]
              /\ least = g[(r \ {x}) \ {c}]
      OBVIOUS
    <2>13. /\ a \in Int /\ d \in Int /\ all \in Int /\ less \in Int /\ least \in Int
           /\ all # a + less /\ all = d + (a + least) /\ less = d + least
      BY <2>i, <2>7, <2>8, <2>9, <2>10, <2>11, <2>12
    <2> QED
      BY <2>13
  <1>4. g[T] = f[e] + g[T \ {e}]
    BY <1>3
  <1> QED
    BY <1>1, <1>4

LEMMA TotalAdd ==
  ASSUME NEW T, NEW e, e \notin T, NEW f, Summable(f, T), f[e] \in Int
  PROVE  /\ Total(f, T \cup {e}) = f[e] + Total(f, T)
         /\ Summable(f, T \cup {e})
  <1>1. Summable(f, T \cup {e})
    BY FS_AddElement DEF Summable
  <1>2. (T \cup {e}) \ {e} = T
    OBVIOUS
  <1> QED
    BY <1>1, <1>2, TotalRemove

\* What a sum is of is what counts.
LEMMA TotalSame ==
  ASSUME NEW T, NEW f, NEW g, Summable(f, T), \A x \in T : f[x] = g[x]
  PROVE  Total(f, T) = Total(g, T)
  <1> DEFINE good == {U \in SUBSET T : Total(f, U) = Total(g, U)}
  <1>1. {} \in good
    <2>1. \A h : Total(h, {}) = 0
      <3>1. \A h : Summable(h, {})
        BY FS_EmptySet DEF Summable
      <3> QED
        BY <3>1, TotalType
    <2> QED
      BY <2>1
  <1>2. ASSUME NEW U \in good, NEW x \in T \ U PROVE U \cup {x} \in good
    <2>1. Summable(f, U) /\ Summable(g, U) /\ f[x] \in Int /\ g[x] \in Int /\ x \notin U
      BY <1>2, FS_Subset DEF Summable
    <2>2. Total(f, U \cup {x}) = f[x] + Total(f, U)
      BY <2>1, TotalAdd
    <2>3. Total(g, U \cup {x}) = g[x] + Total(g, U)
      BY <2>1, TotalAdd
    <2> QED
      BY <2>2, <2>3
  <1>3. good \in SUBSET (SUBSET T)
    OBVIOUS
  <1> HIDE DEF good
  <1>4. T \in good
    BY <1>1, <1>2, <1>3, SubsetInduction DEF Summable
  <1> QED
    BY <1>4 DEF good

LEMMA SubsetSummable ==
  ASSUME NEW T, NEW f, Summable(f, T), NEW U \in SUBSET T
  PROVE  Summable(f, U) /\ IsFiniteSet(U)
  BY FS_Subset DEF Summable

LEMMA EmptyTotal ==
  ASSUME NEW f
  PROVE  Total(f, {}) = 0
  <1>1. Summable(f, {})
    BY FS_EmptySet DEF Summable
  <1> QED
    BY <1>1, TotalType

\* Parts that have nothing in common.
LEMMA TotalUnion ==
  ASSUME NEW S, NEW T, S \cap T = {}, NEW f, Summable(f, S), Summable(f, T)
  PROVE  Summable(f, S \cup T) /\ Total(f, S \cup T) = Total(f, S) + Total(f, T)
  <1> DEFINE good == {U \in SUBSET T : Total(f, S \cup U) = Total(f, S) + Total(f, U)}
  <1>1. Summable(f, S \cup T)
    BY FS_Union DEF Summable
  <1>2. Total(f, S) \in Int /\ \A U \in SUBSET T : Total(f, U) \in Int
    <2>1. \A U \in SUBSET T : Summable(f, U)
      BY SubsetSummable
    <2> QED
      BY <2>1, TotalType
  <1>3. {} \in good
    <2>1. S \cup {} = S
      OBVIOUS
    <2>2. Total(f, S \cup {}) = Total(f, S) + Total(f, {})
      BY <1>2, <2>1, EmptyTotal
    <2> QED
      BY <2>2
  <1>4. ASSUME NEW U \in good, NEW x \in T \ U PROVE U \cup {x} \in good
    <2>1. /\ Summable(f, U) /\ Summable(f, S \cup U) /\ f[x] \in Int
          /\ x \notin U /\ x \notin S \cup U
      <3>1. U \in SUBSET T /\ S \cup U \in SUBSET (S \cup T)
        OBVIOUS
      <3> QED
        BY <1>1, <3>1, SubsetSummable DEF Summable
    <2>2. Total(f, U \cup {x}) = f[x] + Total(f, U)
      BY <2>1, TotalAdd
    <2>3. Total(f, (S \cup U) \cup {x}) = f[x] + Total(f, S \cup U)
      BY <2>1, TotalAdd
    <2>4. S \cup (U \cup {x}) = (S \cup U) \cup {x}
      OBVIOUS
    <2>5. Total(f, S \cup U) = Total(f, S) + Total(f, U)
      OBVIOUS
    <2>i. PICK a, b, c, d, e : /\ a = f[x] /\ b = Total(f, S) /\ c = Total(f, U)
                               /\ d = Total(f, S \cup (U \cup {x})) /\ e = Total(f, U \cup {x})
      OBVIOUS
    <2>6. a \in Int /\ b \in Int /\ c \in Int /\ d = a + (b + c) /\ e = a + c
      BY <1>2, <2>i, <2>1, <2>2, <2>3, <2>4, <2>5
    <2>7. d = b + e
      BY <2>6
    <2> QED
      BY <2>i, <2>7
  <1>5. good \in SUBSET (SUBSET T)
    OBVIOUS
  <1> HIDE DEF good
  <1>6. T \in good
    BY <1>3, <1>4, <1>5, SubsetInduction DEF Summable
  <1> QED
    BY <1>1, <1>6 DEF good

LEMMA TotalSplit ==
  ASSUME NEW T, NEW f, Summable(f, T), NEW U \in SUBSET T
  PROVE  Total(f, T) = Total(f, U) + Total(f, T \ U)
  <1>1. Summable(f, U) /\ Summable(f, T \ U) /\ U \cap (T \ U) = {} /\ U \cup (T \ U) = T
    BY SubsetSummable
  <1> QED
    BY <1>1, TotalUnion

\* A sum of sums.
LEMMA TotalLinear ==
  ASSUME NEW T, NEW f, NEW g, NEW h, Summable(f, T), Summable(g, T),
         \A x \in T : h[x] = f[x] + g[x]
  PROVE  Summable(h, T) /\ Total(h, T) = Total(f, T) + Total(g, T)
  <1> DEFINE good == {U \in SUBSET T : Total(h, U) = Total(f, U) + Total(g, U)}
  <1>1. Summable(h, T)
    BY DEF Summable
  <1>2. {} \in good
    <2>1. Total(h, {}) = Total(f, {}) + Total(g, {})
      BY EmptyTotal
    <2> QED
      BY <2>1
  <1>3. ASSUME NEW U \in good, NEW x \in T \ U PROVE U \cup {x} \in good
    <2>1. /\ Summable(f, U) /\ Summable(g, U) /\ Summable(h, U) /\ x \notin U
          /\ f[x] \in Int /\ g[x] \in Int /\ h[x] \in Int /\ h[x] = f[x] + g[x]
      BY <1>1, <1>3, SubsetSummable DEF Summable
    <2>2. /\ Total(f, U \cup {x}) = f[x] + Total(f, U)
          /\ Total(g, U \cup {x}) = g[x] + Total(g, U)
          /\ Total(h, U \cup {x}) = h[x] + Total(h, U)
      BY <2>1, TotalAdd
    <2>3. Total(f, U) \in Int /\ Total(g, U) \in Int
      BY <2>1, TotalType
    <2>i. PICK a, b, c, d : a = f[x] /\ b = g[x] /\ c = Total(f, U) /\ d = Total(g, U)
      OBVIOUS
    <2>4. a \in Int /\ b \in Int /\ c \in Int /\ d \in Int
      BY <2>i, <2>1, <2>3
    <2>5. (a + b) + (c + d) = (a + c) + (b + d)
      BY <2>4
    <2>6. Total(h, U) = c + d
      BY <2>i
    <2>7. Total(h, U \cup {x}) = Total(f, U \cup {x}) + Total(g, U \cup {x})
      BY <2>i, <2>1, <2>2, <2>5, <2>6
    <2> QED
      BY <2>7
  <1>4. good \in SUBSET (SUBSET T)
    OBVIOUS
  <1> HIDE DEF good
  <1>5. T \in good
    BY <1>2, <1>3, <1>4, SubsetInduction DEF Summable
  <1> QED
    BY <1>1, <1>5 DEF good

\* Naturals have a natural sum, and a part of them a smaller one.
LEMMA TotalNat ==
  ASSUME NEW T, NEW f, IsFiniteSet(T), \A x \in T : f[x] \in Nat
  PROVE  Summable(f, T) /\ Total(f, T) \in Nat
  <1> DEFINE good == {U \in SUBSET T : Total(f, U) \in Nat}
  <1>1. Summable(f, T)
    BY DEF Summable
  <1>2. {} \in good
    BY EmptyTotal
  <1>3. ASSUME NEW U \in good, NEW x \in T \ U PROVE U \cup {x} \in good
    <2>1. Summable(f, U) /\ x \notin U /\ f[x] \in Int /\ f[x] \in Nat
      BY <1>1, <1>3, SubsetSummable
    <2>2. Total(f, U \cup {x}) = f[x] + Total(f, U)
      BY <2>1, TotalAdd
    <2> QED
      BY <2>1, <2>2
  <1>4. good \in SUBSET (SUBSET T)
    OBVIOUS
  <1> HIDE DEF good
  <1>5. T \in good
    BY <1>2, <1>3, <1>4, SubsetInduction
  <1> QED
    BY <1>1, <1>5 DEF good

LEMMA TotalPart ==
  ASSUME NEW T, NEW f, IsFiniteSet(T), \A x \in T : f[x] \in Nat, NEW U \in SUBSET T
  PROVE  Total(f, U) \in Nat /\ Total(f, U) <= Total(f, T)
  <1>1. IsFiniteSet(U) /\ IsFiniteSet(T \ U)
    BY FS_Subset
  <1>2. Total(f, U) \in Nat /\ Total(f, T \ U) \in Nat /\ Summable(f, T)
    BY <1>1, TotalNat
  <1>3. Total(f, T) = Total(f, U) + Total(f, T \ U)
    BY <1>2, TotalSplit
  <1> QED
    BY <1>2, <1>3

\* As large as each of its elements.
LEMMA TotalAtLeast ==
  ASSUME NEW T, NEW f, IsFiniteSet(T), \A x \in T : f[x] \in Nat, NEW e \in T
  PROVE  f[e] <= Total(f, T)
  <1>1. Summable(f, T) /\ f[e] \in Nat
    BY TotalNat
  <1>2. Total(f, T) = f[e] + Total(f, T \ {e})
    BY <1>1, TotalRemove
  <1>3. Total(f, T \ {e}) \in Nat
    BY TotalPart
  <1> QED
    BY <1>1, <1>2, <1>3

LEMMA TotalOfOnes ==
  ASSUME NEW T, NEW f, IsFiniteSet(T), \A x \in T : f[x] = 1
  PROVE  Summable(f, T) /\ Total(f, T) = Cardinality(T)
  <1> DEFINE good == {U \in SUBSET T : Total(f, U) = Cardinality(U)}
  <1>1. Summable(f, T)
    BY DEF Summable
  <1>2. {} \in good
    BY EmptyTotal, FS_EmptySet
  <1>3. ASSUME NEW U \in good, NEW x \in T \ U PROVE U \cup {x} \in good
    <2>1. Summable(f, U) /\ x \notin U /\ f[x] = 1 /\ f[x] \in Int /\ IsFiniteSet(U)
      BY <1>1, <1>3, SubsetSummable
    <2>2. Total(f, U \cup {x}) = f[x] + Total(f, U)
      BY <2>1, TotalAdd
    <2>3. Cardinality(U \cup {x}) = Cardinality(U) + 1 /\ Cardinality(U) \in Nat
      BY <2>1, FS_AddElement, FS_CardinalityType
    <2> QED
      BY <2>1, <2>2, <2>3
  <1>4. good \in SUBSET (SUBSET T)
    OBVIOUS
  <1> HIDE DEF good
  <1>5. T \in good
    BY <1>2, <1>3, <1>4, SubsetInduction
  <1> QED
    BY <1>1, <1>5 DEF good

\* A sum of zeros.
LEMMA TotalOfZeros ==
  ASSUME NEW T, NEW f, IsFiniteSet(T), \A x \in T : f[x] = 0
  PROVE  Summable(f, T) /\ Total(f, T) = 0
  <1>1. Summable(f, T)
    BY DEF Summable
  <1>2. Total(f, T) \in Int
    BY <1>1, TotalType
  <1>3. \A x \in T : f[x] = f[x] + f[x]
    OBVIOUS
  <1>4. Total(f, T) = Total(f, T) + Total(f, T)
    BY <1>1, <1>3, TotalLinear
  <1>5. PICK total \in Int : total = Total(f, T)
    BY <1>2
  <1>6. total = total + total
    BY <1>4, <1>5
  <1>7. total = 0
    BY <1>6
  <1> QED
    BY <1>1, <1>5, <1>7

\* The same values, each counted at another place.
LEMMA TotalImage ==
  ASSUME NEW T, NEW k, NEW f, NEW h, Summable(h, T),
         \A x \in T : h[x] = f[k[x]], \A x, y \in T : k[x] = k[y] => x = y
  PROVE  LET image == {k[x] : x \in T} IN
         Summable(f, image) /\ Total(f, image) = Total(h, T)
  <1> DEFINE image(U) == {k[x] : x \in U}
             good == {U \in SUBSET T : Summable(f, image(U)) /\ Total(f, image(U)) = Total(h, U)}
  <1>1. {} \in good
    <2>1. image({}) = {}
      OBVIOUS
    <2>2. Summable(f, {})
      BY FS_EmptySet DEF Summable
    <2>3. Summable(f, image({})) /\ Total(f, image({})) = Total(h, {})
      BY <2>1, <2>2, EmptyTotal
    <2> HIDE DEF image
    <2> QED
      BY <2>3
  <1>2. ASSUME NEW U \in good, NEW x \in T \ U PROVE U \cup {x} \in good
    <2>1. Summable(h, U) /\ x \notin U /\ h[x] \in Int /\ h[x] = f[k[x]]
      BY <1>2, SubsetSummable DEF Summable
    <2>2. image(U \cup {x}) = image(U) \cup {k[x]} /\ k[x] \notin image(U)
      BY <1>2
    <2>3. Summable(f, image(U)) /\ Total(f, image(U)) = Total(h, U)
      BY <1>2
    <2> HIDE DEF image
    <2>4. /\ Total(f, image(U) \cup {k[x]}) = f[k[x]] + Total(f, image(U))
          /\ Summable(f, image(U) \cup {k[x]})
      BY <2>1, <2>2, <2>3, TotalAdd
    <2>5. Total(h, U \cup {x}) = h[x] + Total(h, U)
      BY <2>1, TotalAdd
    <2> QED
      BY <2>1, <2>2, <2>3, <2>4, <2>5
  <1>3. good \in SUBSET (SUBSET T)
    OBVIOUS
  <1> HIDE DEF good
  <1>4. T \in good
    BY <1>1, <1>2, <1>3, SubsetInduction DEF Summable
  <1> QED
    BY <1>4 DEF good

LEMMA TotalOfImage ==
  ASSUME NEW T, NEW k, NEW f, NEW h, Summable(h, T),
         \A x \in T : h[x] = f[k[x]], \A x, y \in T : k[x] = k[y] => x = y,
         NEW image, \A x \in T : k[x] \in image, \A y \in image : \E x \in T : k[x] = y
  PROVE  Summable(f, image) /\ Total(f, image) = Total(h, T)
  <1>1. image = {k[x] : x \in T}
    OBVIOUS
  <1> QED
    BY <1>1, TotalImage

\* Group by group: G has a key of every element, h the sum of every key.
PartOf(T, k, g) == {x \in T : k[x] = g}

LEMMA TotalOfGroups ==
  ASSUME NEW T, NEW f, Summable(f, T), NEW k, NEW G, IsFiniteSet(G), \A x \in T : k[x] \in G,
         NEW h, \A g \in G : h[g] = Total(f, PartOf(T, k, g))
  PROVE  Summable(h, G) /\ Total(h, G) = Total(f, T)
  <1> DEFINE sums(U) == [g \in G |-> Total(f, {x \in U : k[x] = g})]
             good == {U \in SUBSET T : Summable(sums(U), G) /\ Total(sums(U), G) = Total(f, U)}
  <1>1. {} \in good
    <2>1. \A g \in G : {x \in {} : k[x] = g} = {}
      OBVIOUS
    <2>2. \A g \in G : sums({})[g] = 0
      BY <2>1, EmptyTotal
    <2> HIDE DEF sums
    <2>3. Summable(sums({}), G) /\ Total(sums({}), G) = 0
      BY <2>2, TotalOfZeros
    <2> QED
      BY <2>3, EmptyTotal
  <1>2. ASSUME NEW U \in good, NEW x \in T \ U PROVE U \cup {x} \in good
    <2> PICK key, V : key = k[x] /\ V = U \cup {x}
      OBVIOUS
    <2>1. Summable(f, U) /\ x \notin U /\ f[x] \in Int /\ key \in G /\ V \in SUBSET T
      BY <1>2, SubsetSummable DEF Summable
    <2>2. {y \in V : k[y] = key} = {y \in U : k[y] = key} \cup {x}
      BY <2>1
    <2>3. Summable(f, {y \in U : k[y] = key}) /\ x \notin {y \in U : k[y] = key}
      <3>1. {y \in U : k[y] = key} \in SUBSET U
        OBVIOUS
      <3> QED
        BY <2>1, <3>1, SubsetSummable
    <2>4. Total(f, {y \in V : k[y] = key}) = f[x] + Total(f, {y \in U : k[y] = key})
      <3>i. PICK R, W : R = {y \in U : k[y] = key} /\ W = {y \in V : k[y] = key}
        OBVIOUS
      <3>1. Summable(f, R) /\ x \notin R /\ f[x] \in Int /\ W = R \cup {x}
        BY <3>i, <2>1, <2>2, <2>3
      <3>2. Total(f, W) = f[x] + Total(f, R)
        BY <3>1, TotalAdd
      <3> QED
        BY <3>i, <3>2
    <2>5. \A g \in G \ {key} : {y \in V : k[y] = g} = {y \in U : k[y] = g}
      OBVIOUS
    <2>6. /\ sums(V)[key] = f[x] + sums(U)[key]
          /\ \A g \in G \ {key} : sums(V)[g] = sums(U)[g]
      BY <2>1, <2>4, <2>5
    <2>7. Summable(sums(U), G) /\ Total(sums(U), G) = Total(f, U)
      BY <1>2
    <2> PICK old, new : old = sums(U) /\ new = sums(V)
      OBVIOUS
    <2>8. /\ Summable(old, G) /\ Total(old, G) = Total(f, U) /\ new[key] = f[x] + old[key]
          /\ \A g \in G \ {key} : new[g] = old[g]
      BY <2>6, <2>7
    <2> HIDE DEF sums
    <2>9. old[key] \in Int /\ \A g \in G : old[g] \in Int
      BY <2>1, <2>8 DEF Summable
    <2>10. Summable(new, G)
      <3>1. new[key] \in Int
        BY <2>1, <2>8, <2>9
      <3> QED
        BY <2>8, <2>9, <3>1 DEF Summable
    <2>11. Total(old, G) = old[key] + Total(old, G \ {key})
      BY <2>1, <2>8, TotalRemove
    <2>12. Total(new, G) = new[key] + Total(new, G \ {key})
      BY <2>1, <2>10, TotalRemove
    <2>13. Total(old, G \ {key}) = Total(new, G \ {key}) /\ Total(old, G \ {key}) \in Int
      <3>i. PICK rest : rest = G \ {key}
        OBVIOUS
      <3>1. Summable(old, rest) /\ \A g \in rest : old[g] = new[g]
        BY <3>i, <2>8, SubsetSummable
      <3>2. Total(old, rest) = Total(new, rest)
        BY <3>1, TotalSame
      <3>3. Total(old, rest) \in Int
        BY <3>1, TotalType
      <3> QED
        BY <3>i, <3>2, <3>3
    <2>14. Total(f, V) = f[x] + Total(f, U)
      BY <2>1, TotalAdd
    <2>15. Total(new, G) = Total(f, V)
      <3>i. PICK a, b, c : a = f[x] /\ b = old[key] /\ c = Total(old, G \ {key})
        OBVIOUS
      <3>1. a \in Int /\ b \in Int /\ c \in Int
        BY <3>i, <2>1, <2>9, <2>13
      <3>2. (a + b) + c = a + (b + c)
        BY <3>1
      <3> QED
        BY <3>i, <3>2, <2>8, <2>11, <2>12, <2>13, <2>14
    <2> QED
      BY <2>1, <2>10, <2>15
  <1>3. good \in SUBSET (SUBSET T)
    OBVIOUS
  <1>4. T \in good
    <2> HIDE DEF good
    <2> QED
      BY <1>1, <1>2, <1>3, SubsetInduction DEF Summable
  <1> PICK all : all = sums(T)
    OBVIOUS
  <1>5. Summable(all, G) /\ Total(all, G) = Total(f, T)
    BY <1>4
  <1>6. \A g \in G : all[g] = h[g]
    BY DEF PartOf
  <1> HIDE DEF sums, good
  <1>7. Summable(h, G)
    BY <1>5, <1>6 DEF Summable
  <1> QED
    BY <1>5, <1>6, <1>7, TotalSame

===============================================================================
