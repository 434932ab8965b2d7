---------------------------- MODULE HistoryProofs -----------------------------
(***************************************************************************)
(* What a reader of a space sees is whole, in order and of one moment, for *)
(* every book, every query and every interleaving of writes: what the queries*)
(* of BookQueries return, the history, its pages, and the overviews.       *)
(***************************************************************************)
EXTENDS Reports, Collections, SequenceTheorems

-----------------------------------------------------------------------------
(* A finite set in a strict total order, given as a set of pairs.          *)

StrictOrder(S, ord) ==
  /\ \A s \in S : <<s, s>> \notin ord
  /\ \A r, s, t \in S : <<r, s>> \in ord /\ <<s, t>> \in ord => <<r, t>> \in ord
  /\ \A r, s \in S : r = s \/ <<r, s>> \in ord \/ <<s, r>> \in ord

Before(S, ord, s) == {r \in S : <<r, s>> \in ord}
Rank(S, ord) == [s \in S |-> Cardinality(Before(S, ord, s))]

\* An earlier element has fewer elements before it.
LEMMA RankGrows ==
  ASSUME NEW S, IsFiniteSet(S), NEW ord, StrictOrder(S, ord), NEW r \in S, NEW s \in S,
         <<r, s>> \in ord
  PROVE  Cardinality(Before(S, ord, r)) < Cardinality(Before(S, ord, s))
  <1>1. Before(S, ord, r) \in SUBSET Before(S, ord, s)
    BY DEF Before, StrictOrder
  <1>2. r \in Before(S, ord, s) /\ r \notin Before(S, ord, r)
    BY DEF Before, StrictOrder
  <1>3. IsFiniteSet(Before(S, ord, s)) /\ Before(S, ord, s) \in SUBSET S
    <2>1. Before(S, ord, s) \in SUBSET S
      BY DEF Before
    <2> QED
      BY <2>1, FS_Subset
  <1>4. /\ Cardinality(Before(S, ord, r)) <= Cardinality(Before(S, ord, s))
        /\ Cardinality(Before(S, ord, r)) # Cardinality(Before(S, ord, s))
        /\ IsFiniteSet(Before(S, ord, r))
    BY <1>1, <1>2, <1>3, FS_Subset
  <1> QED
    BY <1>3, <1>4, FS_CardinalityType

\* The ranks are the numbers from 0, each of one element.
LEMMA Ranks ==
  ASSUME NEW S, IsFiniteSet(S), NEW ord, StrictOrder(S, ord)
  PROVE  /\ \A s \in S : Rank(S, ord)[s] \in 0..(Cardinality(S) - 1)
         /\ \A n \in 0..(Cardinality(S) - 1) : \E s \in S : Rank(S, ord)[s] = n
  <1> DEFINE rank == Rank(S, ord)
             numbers == 0..(Cardinality(S) - 1)
  <1>1. Cardinality(S) \in Nat
    BY FS_CardinalityType
  <1>2. \A s \in S : rank[s] \in numbers
    <2>1. TAKE s \in S
    <2>2. Before(S, ord, s) \in SUBSET S /\ Before(S, ord, s) # S
      BY DEF Before, StrictOrder
    <2>3. /\ IsFiniteSet(Before(S, ord, s))
          /\ Cardinality(Before(S, ord, s)) <= Cardinality(S)
          /\ Cardinality(Before(S, ord, s)) # Cardinality(S)
      BY <2>2, FS_Subset
    <2>4. Cardinality(Before(S, ord, s)) \in Nat
      BY <2>3, FS_CardinalityType
    <2> QED
      BY <1>1, <2>3, <2>4 DEF Rank
  <1>3. \A r, s \in S : rank[r] = rank[s] => r = s
    <2>1. TAKE r, s \in S
    <2>2. /\ <<r, s>> \in ord => rank[r] < rank[s]
          /\ <<s, r>> \in ord => rank[s] < rank[r]
      BY RankGrows DEF Rank
    <2> QED
      BY <1>1, <1>2, <2>2 DEF StrictOrder
  <1>4. rank \in Injection(S, numbers)
    BY <1>2, <1>3 DEF Injection, IsInjective, Rank
  <1>5. IsFiniteSet(numbers) /\ Cardinality(numbers) = Cardinality(S)
    <2>1. PICK n \in Nat : n = Cardinality(S)
      BY <1>1
    <2>2. /\ IsFiniteSet(0..(n - 1))
          /\ Cardinality(0..(n - 1)) = IF 0 > n - 1 THEN 0 ELSE (n - 1) - 0 + 1
      BY FS_Interval
    <2>3. (IF 0 > n - 1 THEN 0 ELSE (n - 1) - 0 + 1) = n
      OBVIOUS
    <2> QED
      BY <2>1, <2>2, <2>3
  <1>6. rank \in Surjection(S, numbers)
    BY <1>4, <1>5, FS_Injection
  <1> QED
    BY <1>2, <1>6 DEF Surjection

\* The elements in their order: the n-th has n - 1 others before it.
ByRank(S, ord) ==
  [n \in 1..Cardinality(S) |-> CHOOSE s \in S : Cardinality(Before(S, ord, s)) = n - 1]

Enumerates(s, S, ord) ==
  /\ IsFiniteSet(S) /\ s \in Seq(S) /\ Len(s) = Cardinality(S)
  /\ \A m, n \in 1..Len(s) : m < n => <<s[m], s[n]>> \in ord
  /\ \A r \in S : \E n \in 1..Len(s) : s[n] = r

LEMMA RankedInOrder ==
  ASSUME NEW S, IsFiniteSet(S), NEW ord, StrictOrder(S, ord)
  PROVE  Enumerates(ByRank(S, ord), S, ord)
  <1> DEFINE rank == Rank(S, ord)
             s == ByRank(S, ord)
  <1>1. Cardinality(S) \in Nat
    BY FS_CardinalityType
  <1>2. /\ \A i \in S : rank[i] \in 0..(Cardinality(S) - 1)
        /\ \A n \in 0..(Cardinality(S) - 1) : \E i \in S : rank[i] = n
    BY Ranks
  <1>3. \A i, j \in S : <<i, j>> \in ord => rank[i] < rank[j]
    BY RankGrows DEF Rank
  <1>4. \A j \in S : rank[j] = Cardinality(Before(S, ord, j))
    BY DEF Rank
  <1>5. s = [n \in 1..Cardinality(S) |->
               CHOOSE j \in S : Cardinality(Before(S, ord, j)) = n - 1]
    BY DEF ByRank
  <1> HIDE DEF rank, s
  <1>6. \A n \in 1..Cardinality(S) : s[n] \in S /\ rank[s[n]] = n - 1
    <2>1. TAKE n \in 1..Cardinality(S)
    <2>2. \E j \in S : rank[j] = n - 1
      BY <1>1, <1>2
    <2>3. \E j \in S : Cardinality(Before(S, ord, j)) = n - 1
      BY <1>4, <2>2
    <2> QED
      BY <1>4, <1>5, <2>3
  <1>7. s \in Seq(S) /\ Len(s) = Cardinality(S)
    <2>1. s \in [1..Cardinality(S) -> S]
      BY <1>5, <1>6
    <2> QED
      BY <1>1, <2>1
  <1>8. \A m, n \in 1..Len(s) : m < n => <<s[m], s[n]>> \in ord
    <2>1. TAKE m, n \in 1..Len(s)
    <2>2. s[m] \in S /\ s[n] \in S /\ rank[s[m]] = m - 1 /\ rank[s[n]] = n - 1
      BY <1>6, <1>7
    <2>3. s[m] = s[n] \/ <<s[m], s[n]>> \in ord \/ <<s[n], s[m]>> \in ord
      BY <2>2 DEF StrictOrder
    <2> QED
      BY <1>1, <1>3, <1>7, <2>2, <2>3
  <1>9. \A r \in S : \E n \in 1..Len(s) : s[n] = r
    <2>1. TAKE r \in S
    <2>2. PICK n \in 1..Len(s) : n = rank[r] + 1
      BY <1>1, <1>2, <1>7
    <2>3. s[n] \in S /\ rank[s[n]] = rank[r]
      BY <1>1, <1>2, <1>6, <1>7, <2>2
    <2>4. s[n] = r \/ <<s[n], r>> \in ord \/ <<r, s[n]>> \in ord
      BY <2>3 DEF StrictOrder
    <2> QED
      BY <1>1, <1>2, <1>3, <2>3, <2>4
  <1> QED
    BY <1>7, <1>8, <1>9 DEF Enumerates, s

\* The numbers of P below n.
Lesser(P, n) == {m \in P : m < n}

\* What is left of a sequence is in the set.
LEMMA FilteredIsIn ==
  ASSUME NEW s, NEW k \in Nat, DOMAIN s = 1..k, NEW S
  PROVE  \A n \in DOMAIN Filtered(s, S) : Filtered(s, S)[n] \in S
  <1> PICK P, ord : /\ P = {n \in DOMAIN s : s[n] \in S}
                    /\ ord = {pair \in P \X P : pair[1] < pair[2]}
    OBVIOUS
  <1>1. P \in SUBSET (1..k) /\ IsFiniteSet(P)
    BY FS_Subset, FS_Interval
  <1>2. \A m, n \in P : <<m, n>> \in ord <=> m < n
    OBVIOUS
  <1>3. StrictOrder(P, ord) /\ \A n \in P : Before(P, ord, n) = {m \in P : m < n}
    BY <1>1, <1>2 DEF StrictOrder, Before
  <1> PICK places : places = ByRank(P, ord)
    OBVIOUS
  <1>4. Sorted(P, LAMBDA m, n : m < n) = places
    <2>1. Sorted(P, LAMBDA m, n : m < n)
              = [n \in 1..Cardinality(P) |->
                    CHOOSE j \in P : Cardinality(Lesser(P, j)) = n - 1]
      BY DEF Sorted, Lesser
    <2>2. \A j \in P : Lesser(P, j) = Before(P, ord, j)
      BY <1>3 DEF Lesser
    <2>3. \A n : (CHOOSE j \in P : Cardinality(Lesser(P, j)) = n - 1)
                   = (CHOOSE j \in P : Cardinality(Before(P, ord, j)) = n - 1)
      BY <2>2, Zenon
    <2> QED
      BY <2>1, <2>3, Zenon DEF ByRank
  <1>5. places \in Seq(P) /\ Len(places) \in Nat
    BY <1>1, <1>3, RankedInOrder, LenProperties DEF Enumerates
  <1>6. Filtered(s, S) = [n \in DOMAIN places |-> s[places[n]]]
    BY <1>4 DEF Filtered
  <1>7. \A n \in DOMAIN places : places[n] \in P
    BY <1>5, LenProperties, ElementOfSeq
  <1> QED
    BY <1>6, <1>7

-----------------------------------------------------------------------------
(* The history order.                                                      *)

Newer(data, i, j) == NewerThan(PositionOf(data, i), PositionOf(data, j))
Dated(data, rows) == rows \in SUBSET Ids /\ \A i \in rows : data.txns[i].timestamp \in Int
NewerOf(data, rows) == {pair \in rows \X rows : Newer(data, pair[1], pair[2])}

\* Of two transactions, one is the newer: times may be equal, ids are not.
LEMMA NewerTotal ==
  ASSUME NEW data, NEW rows, Dated(data, rows)
  PROVE  /\ \A i \in rows : ~Newer(data, i, i)
         /\ \A i, j, k \in rows : Newer(data, i, j) /\ Newer(data, j, k) => Newer(data, i, k)
         /\ \A i, j \in rows : i = j \/ Newer(data, i, j) \/ Newer(data, j, i)
  <1> \A i \in rows : i \in Nat /\ data.txns[i].timestamp \in Int
    BY IdAssumption DEF Dated
  <1> QED
    BY DEF Newer, NewerThan, PositionOf

LEMMA NewerStrictOrder ==
  ASSUME NEW data, NEW rows, Dated(data, rows)
  PROVE  /\ StrictOrder(rows, NewerOf(data, rows))
         /\ \A j \in rows : Before(rows, NewerOf(data, rows), j) = {i \in rows : Newer(data, i, j)}
  <1>1. \A i, j \in rows : <<i, j>> \in NewerOf(data, rows) <=> Newer(data, i, j)
    BY DEF NewerOf
  <1> QED
    BY <1>1, NewerTotal DEF StrictOrder, Before

\* The rows in the history order: each once, a newer one before an older one.
InOrder(data, s, rows) ==
  /\ s \in Seq(rows)
  /\ IsFiniteSet(rows) /\ Len(s) = Cardinality(rows)
  /\ \A m, n \in 1..Len(s) : m < n => Newer(data, s[m], s[n])
  /\ \A r \in rows : \E n \in 1..Len(s) : s[n] = r

LEMMA HistoryOrder ==
  ASSUME NEW data, NEW rows, Dated(data, rows)
  PROVE  InOrder(data, InHistoryOrder(data, rows), rows)
  <1> PICK ord : ord = NewerOf(data, rows)
    OBVIOUS
  <1>1. IsFiniteSet(rows)
    BY FS_Subset, IdAssumption DEF Dated
  <1>2. /\ StrictOrder(rows, ord)
        /\ \A j \in rows : Before(rows, ord, j) = {i \in rows : Newer(data, i, j)}
    BY NewerStrictOrder
  <1>3. InHistoryOrder(data, rows)
            = [n \in 1..Cardinality(rows) |->
                  CHOOSE j \in rows : Cardinality({i \in rows : Newer(data, i, j)}) = n - 1]
    BY DEF InHistoryOrder, Sorted, Newer
  <1>4. InHistoryOrder(data, rows) = ByRank(rows, ord)
    BY <1>2, <1>3 DEF ByRank
  <1>5. Enumerates(InHistoryOrder(data, rows), rows, ord)
    BY <1>1, <1>2, <1>4, RankedInOrder
  <1>6. \A i, j : <<i, j>> \in ord => Newer(data, i, j)
    BY DEF NewerOf
  <1> QED
    BY <1>5, <1>6 DEF InOrder, Enumerates

-----------------------------------------------------------------------------
(* A part of the rows next to a side.                                      *)

LEMMA FirstOfCut ==
  ASSUME NEW S, NEW s \in Seq(S), NEW k \in Nat
  PROVE  /\ FirstOf(s, k) \in Seq(S)
         /\ Len(FirstOf(s, k)) = IF k <= Len(s) THEN k ELSE Len(s)
         /\ \A i \in 1..Len(FirstOf(s, k)) : FirstOf(s, k)[i] = s[i]
  <1>1. PICK l \in Nat : l = IF k <= Len(s) THEN k ELSE Len(s)
    BY LenProperties
  <1>2. Min({k, Len(s)}) = l
    BY <1>1, LenProperties DEF Min
  <1>3. FirstOf(s, k) = SubSeq(s, 1, l)
    BY <1>2 DEF FirstOf
  <1>4. \A i \in 1..l : s[i] \in S
    BY <1>1, LenProperties
  <1> QED
    BY <1>1, <1>3, <1>4, SubSeqProperties

\* The first k, by a name.
LEMMA FirstOfIs ==
  ASSUME NEW S, NEW s \in Seq(S), NEW k \in Nat, k <= Len(s), NEW cut, cut = FirstOf(s, k)
  PROVE  cut \in Seq(S) /\ Len(cut) = k /\ \A i \in 1..k : cut[i] = s[i]
  BY FirstOfCut

LEMMA LastOfCut ==
  ASSUME NEW S, NEW s \in Seq(S), NEW k \in Nat
  PROVE  /\ LastOf(s, k) \in Seq(S)
         /\ Len(LastOf(s, k)) = IF k <= Len(s) THEN k ELSE Len(s)
         /\ \A i \in 1..Len(LastOf(s, k)) :
                LastOf(s, k)[i] = s[Len(s) - Len(LastOf(s, k)) + i]
  <1>1. PICK l \in Nat : l = IF k <= Len(s) THEN k ELSE Len(s)
    BY LenProperties
  <1>2. Min({k, Len(s)}) = l
    BY <1>1, LenProperties DEF Min
  <1>3. Len(s) \in Nat /\ l <= Len(s)
    BY <1>1, LenProperties
  <1>4. LastOf(s, k) = SubSeq(s, Len(s) - l + 1, Len(s))
    BY <1>2 DEF LastOf
  <1>5. \A i \in (Len(s) - l + 1)..Len(s) : s[i] \in S
    BY <1>3, LenProperties
  <1>6. /\ LastOf(s, k) \in Seq(S)
        /\ Len(LastOf(s, k)) = l
        /\ \A i \in 1..l : LastOf(s, k)[i] = s[Len(s) - l + 1 + i - 1]
    BY <1>3, <1>4, <1>5, SubSeqProperties
  <1>7. \A i \in 1..l : LastOf(s, k)[i] = s[Len(s) - l + i]
    <2>1. TAKE i \in 1..l
    <2>2. Len(s) - l + 1 + i - 1 = Len(s) - l + i
      BY <1>3
    <2> QED
      BY <1>6, <2>2
  <1> QED
    BY <1>1, <1>6, <1>7

\* The last k, by a name.
LEMMA LastOfIs ==
  ASSUME NEW S, NEW s \in Seq(S), NEW k \in Nat, NEW m \in Nat, m + k = Len(s),
         NEW cut, cut = LastOf(s, k)
  PROVE  cut \in Seq(S) /\ Len(cut) = k /\ \A i \in 1..k : cut[i] = s[m + i]
  <1>1. Min({k, Len(s)}) = k /\ Len(s) \in Nat
    BY LenProperties DEF Min
  <1>2. Len(s) - k + 1 = m + 1 /\ Len(s) = m + k
    OBVIOUS
  <1>3. cut = SubSeq(s, m + 1, m + k)
    BY <1>1, <1>2 DEF LastOf
  <1>4. \A i \in (m + 1)..(m + k) : s[i] \in S
    BY <1>2, LenProperties
  <1>5. /\ cut \in Seq(S) /\ Len(cut) = k
        /\ \A i \in 1..k : cut[i] = s[m + 1 + i - 1]
    BY <1>3, <1>4, SubSeqProperties
  <1>6. \A i \in 1..k : m + 1 + i - 1 = m + i
    OBVIOUS
  <1> QED
    BY <1>5, <1>6

LEMMA RangeOfDistinct ==
  ASSUME NEW S, NEW s \in Seq(S), \A m, n \in 1..Len(s) : m < n => s[m] # s[n]
  PROVE  /\ IsFiniteSet(Range(s)) /\ Cardinality(Range(s)) = Len(s)
         /\ s \in Seq(Range(s)) /\ Range(s) \in SUBSET S
         /\ Range(s) = {s[n] : n \in 1..Len(s)}
  <1>1. Len(s) \in Nat /\ s \in [1..Len(s) -> S] /\ DOMAIN s = 1..Len(s)
    BY LenProperties
  <1>2. Range(s) = {s[n] : n \in 1..Len(s)}
    BY <1>1 DEF Range
  <1>3. s \in [1..Len(s) -> Range(s)]
    BY <1>1, <1>2
  <1>4. s \in Injection(1..Len(s), Range(s))
    BY <1>1, <1>3 DEF Injection, IsInjective
  <1>5. s \in Surjection(1..Len(s), Range(s))
    BY <1>2, <1>3 DEF Surjection
  <1>6. IsFiniteSet(1..Len(s)) /\ Cardinality(1..Len(s)) = Len(s)
    BY <1>1, FS_Interval
  <1>7. IsFiniteSet(Range(s)) /\ Cardinality(Range(s)) = Len(s)
    BY <1>4, <1>5, <1>6, FS_Surjection
  <1>8. s \in Seq(Range(s))
    BY <1>1, <1>3
  <1> QED
    BY <1>1, <1>2, <1>7, <1>8

\* A stretch of an ordered sequence is in order.
LEMMA StretchInOrder ==
  ASSUME NEW data, NEW rows, Dated(data, rows), NEW s, InOrder(data, s, rows),
         NEW f \in Seq(rows), NEW offset \in Nat, Len(f) + offset <= Len(s),
         \A i \in 1..Len(f) : f[i] = s[offset + i]
  PROVE  /\ InOrder(data, f, Range(f))
         /\ Range(f) = {f[n] : n \in 1..Len(f)} /\ Range(f) \in SUBSET rows
  <1>1. Len(f) \in Nat /\ Len(s) \in Nat
    BY LenProperties DEF InOrder
  <1>2. \A m, n \in 1..Len(f) : m < n => Newer(data, f[m], f[n])
    <2>1. TAKE m, n \in 1..Len(f)
    <2>2. /\ offset + m \in 1..Len(s) /\ offset + n \in 1..Len(s)
          /\ m < n => offset + m < offset + n
          /\ f[m] = s[offset + m] /\ f[n] = s[offset + n]
      BY <1>1
    <2> QED
      BY <2>2 DEF InOrder
  <1>3. \A m, n \in 1..Len(f) : m < n => f[m] # f[n]
    <2>1. TAKE m, n \in 1..Len(f)
    <2>2. f[m] \in rows /\ f[n] \in rows
      BY LenProperties
    <2> QED
      BY <1>2, <2>2, NewerTotal
  <1>4. /\ IsFiniteSet(Range(f)) /\ Cardinality(Range(f)) = Len(f)
        /\ f \in Seq(Range(f)) /\ Range(f) \in SUBSET rows
        /\ Range(f) = {f[n] : n \in 1..Len(f)}
    BY <1>3, RangeOfDistinct
  <1> QED
    BY <1>2, <1>4 DEF InOrder

Nearer(data, side, i, j) == IF side = "before" THEN Newer(data, j, i) ELSE Newer(data, i, j)

\* The k elements of rows that are nearest, or all if there are not so many.
NearPart(data, side, part, rows, k) ==
  /\ part \in SUBSET rows /\ Cardinality(part) <= k
  /\ part # rows => Cardinality(part) = k
  /\ \A i \in part, j \in rows \ part : Nearer(data, side, i, j)

Cut(side, s, k) == IF side = "before" THEN LastOf(s, k) ELSE FirstOf(s, k)

LEMMA CutIsNear ==
  ASSUME NEW data, NEW rows, Dated(data, rows), NEW s, InOrder(data, s, rows),
         NEW k \in Nat, NEW side
  PROVE  /\ InOrder(data, Cut(side, s, k), Range(Cut(side, s, k)))
         /\ NearPart(data, side, Range(Cut(side, s, k)), rows, k)
  <1> PICK f : f = Cut(side, s, k)
    OBVIOUS
  <1>1. s \in Seq(rows) /\ Len(s) \in Nat /\ Len(s) = Cardinality(rows) /\ IsFiniteSet(rows)
    BY LenProperties DEF InOrder
  <1>2. PICK offset \in Nat :
            /\ side = "before" => offset = Len(s) - Len(f)
            /\ side # "before" => offset = 0
            /\ f \in Seq(rows) /\ Len(f) = IF k <= Len(s) THEN k ELSE Len(s)
            /\ \A i \in 1..Len(f) : f[i] = s[offset + i]
    <2>1. CASE side = "before"
      <3>1. f = LastOf(s, k)
        BY <2>1 DEF Cut
      <3>2. /\ f \in Seq(rows) /\ Len(f) = IF k <= Len(s) THEN k ELSE Len(s)
            /\ \A i \in 1..Len(f) : f[i] = s[Len(s) - Len(f) + i]
        BY <1>1, <3>1, LastOfCut
      <3>3. Len(s) - Len(f) \in Nat
        BY <1>1, <3>2
      <3> QED
        BY <2>1, <3>2, <3>3
    <2>2. CASE side # "before"
      <3>1. f = FirstOf(s, k)
        BY <2>2 DEF Cut
      <3>2. /\ f \in Seq(rows) /\ Len(f) = IF k <= Len(s) THEN k ELSE Len(s)
            /\ \A i \in 1..Len(f) : f[i] = s[i]
        BY <1>1, <3>1, FirstOfCut
      <3>3. \A i \in 1..Len(f) : f[i] = s[0 + i]
        BY <1>1, <3>2
      <3> QED
        BY <2>2, <3>2, <3>3
    <2> QED
      BY <2>1, <2>2
  <1>3. Len(f) \in Nat /\ Len(f) <= k /\ Len(f) + offset <= Len(s)
    BY <1>1, <1>2
  <1>4. InOrder(data, f, Range(f)) /\ Range(f) = {f[n] : n \in 1..Len(f)} /\ Range(f) \in SUBSET rows
    <2>1. f \in Seq(rows) /\ \A i \in 1..Len(f) : f[i] = s[offset + i]
      BY <1>2
    <2> QED
      BY <1>3, <2>1, StretchInOrder
  <1>5. Cardinality(Range(f)) = Len(f)
    BY <1>4 DEF InOrder
  <1>6. Range(f) # rows => Len(f) = k
    <2>1. Len(f) = Len(s) => Range(f) = rows
      BY <1>1, <1>4, <1>5, FS_Subset
    <2> QED
      BY <1>1, <1>2, <2>1
  <1>7. \A i \in Range(f), j \in rows \ Range(f) : Nearer(data, side, i, j)
    <2>1. TAKE i \in Range(f), j \in rows \ Range(f)
    <2>2. PICK m \in 1..Len(f) : i = s[offset + m]
      BY <1>2, <1>4
    <2>3. PICK n \in 1..Len(s) : j = s[n]
      BY DEF InOrder
    <2>4. ~(n > offset /\ n <= offset + Len(f))
      <3>1. SUFFICES ASSUME n > offset, n <= offset + Len(f) PROVE FALSE
        OBVIOUS
      <3>2. n - offset \in 1..Len(f)
        BY <1>1, <1>3, <3>1
      <3>3. f[n - offset] = s[offset + (n - offset)] /\ offset + (n - offset) = n
        BY <1>1, <1>2, <3>2
      <3> QED
        BY <1>4, <2>3, <3>2, <3>3
    <2>5. offset + m \in 1..Len(s) /\ n \in Nat
      BY <1>1, <1>3
    <2>6. CASE side = "before"
      <3>1. n < offset + m
        BY <1>1, <1>2, <1>3, <2>4, <2>5, <2>6
      <3> QED
        BY <2>2, <2>3, <2>5, <2>6, <3>1 DEF InOrder, Nearer
    <2>7. CASE side # "before"
      <3>1. offset + m < n
        BY <1>1, <1>2, <1>3, <2>4, <2>5, <2>7
      <3> QED
        BY <2>2, <2>3, <2>5, <2>7, <3>1 DEF InOrder, Nearer
    <2> QED
      BY <2>6, <2>7
  <1>8. NearPart(data, side, Range(f), rows, k)
    BY <1>3, <1>4, <1>5, <1>6, <1>7 DEF NearPart
  <1> QED
    BY <1>4, <1>8

\* A part of a part is a part.
LEMMA NearPartOfPart ==
  ASSUME NEW data, NEW side, NEW rows, Dated(data, rows), NEW k \in Nat, NEW l \in Nat, k <= l,
         NEW part, NearPart(data, side, part, rows, l),
         NEW kept, NearPart(data, side, kept, part, k)
  PROVE  NearPart(data, side, kept, rows, k)
  <1>1. IsFiniteSet(rows) /\ IsFiniteSet(part) /\ IsFiniteSet(kept)
    BY FS_Subset, IdAssumption DEF NearPart, Dated
  <1>2. Cardinality(part) \in Nat /\ Cardinality(kept) \in Nat
    BY <1>1, FS_CardinalityType
  <1>3. kept \in SUBSET rows /\ Cardinality(kept) <= k
    BY DEF NearPart
  <1>4. kept # rows => Cardinality(kept) = k
    <2>1. CASE kept # part
      BY <2>1 DEF NearPart
    <2>2. CASE kept = part
      BY <1>2, <2>2 DEF NearPart
    <2> QED
      BY <2>1, <2>2
  <1>5. \A i \in kept, j \in rows \ kept : Nearer(data, side, i, j)
    BY DEF NearPart
  <1> QED
    BY <1>3, <1>4, <1>5 DEF NearPart

\* Cutting every branch before the merge loses nothing that the page shows: a
\* row that a branch leaves out has a whole page of nearer ones in that branch.
LEMMA NearPartOfBranches ==
  ASSUME NEW data, NEW side, NEW rows, Dated(data, rows), NEW k \in Nat,
         NEW W, NEW branch, NEW cut,
         rows = UNION {branch[w] : w \in W},
         \A w \in W : NearPart(data, side, cut[w], branch[w], k),
         NEW part, NearPart(data, side, part, UNION {cut[w] : w \in W}, k)
  PROVE  NearPart(data, side, part, rows, k)
  <1> PICK kept : kept = UNION {cut[w] : w \in W}
    OBVIOUS
  <1>0. /\ NearPart(data, side, part, kept, k)
        /\ \A w \in W : cut[w] \in SUBSET branch[w] /\ branch[w] \in SUBSET rows
    BY DEF NearPart
  <1>1. kept \in SUBSET rows /\ part \in SUBSET kept /\ part \in SUBSET rows
    <2>1. \A w \in W : cut[w] \in SUBSET rows
      BY <1>0
    <2>2. kept \in SUBSET rows
      BY <2>1
    <2> QED
      BY <1>0, <2>2 DEF NearPart
  <1>2. IsFiniteSet(rows) /\ IsFiniteSet(kept) /\ IsFiniteSet(part)
    BY <1>1, FS_Subset, IdAssumption DEF Dated
  <1>3. Cardinality(part) \in Nat /\ Cardinality(kept) \in Nat
    BY <1>2, FS_CardinalityType
  <1>4. ASSUME NEW j \in rows \ part
        PROVE  Cardinality(part) = k /\ \A i \in part : Nearer(data, side, i, j)
    <2>1. CASE j \in kept
      BY <1>0, <1>4, <2>1 DEF NearPart
    <2>2. CASE j \notin kept
      <3>1. PICK w \in W : j \in branch[w] /\ j \notin cut[w]
        BY <2>2
      <3>2. /\ cut[w] \in SUBSET kept /\ Cardinality(cut[w]) = k
            /\ \A i \in cut[w] : Nearer(data, side, i, j)
        BY <3>1 DEF NearPart
      <3>3. IsFiniteSet(cut[w])
        BY <1>2, <3>2, FS_Subset
      <3>4. Cardinality(part) = k
        <4>1. Cardinality(cut[w]) = k /\ k <= Cardinality(kept)
          BY <1>2, <3>2, FS_Subset
        <4>2. Cardinality(part) <= k /\ (part # kept => Cardinality(part) = k)
          BY <1>0 DEF NearPart
        <4>3. CASE part # kept
          BY <4>2, <4>3
        <4>4. CASE part = kept
          BY <1>3, <4>1, <4>2, <4>4
        <4> QED
          BY <4>3, <4>4
      <3>5. ASSUME NEW i \in part, ~Nearer(data, side, i, j) PROVE FALSE
        <4>1. i \in rows /\ j \in rows /\ i # j
          BY <1>1, <1>4
        <4>2. Nearer(data, side, j, i)
          BY <3>5, <4>1, NewerTotal DEF Nearer
        <4>3. ASSUME NEW t \in cut[w] PROVE t \in part
          <5>1. t \in rows /\ Nearer(data, side, t, j)
            BY <1>1, <3>2
          <5>2. Nearer(data, side, t, i)
            BY <4>1, <4>2, <5>1, NewerTotal DEF Nearer
          <5>3. ~Nearer(data, side, i, t)
            BY <4>1, <5>1, <5>2, NewerTotal DEF Nearer
          <5> QED
            BY <1>0, <3>2, <5>3 DEF NearPart
        <4>4. cut[w] = part
          BY <1>2, <3>2, <3>4, <4>3, FS_Subset
        <4> QED
          BY <3>2, <3>5, <4>4
      <3> QED
        BY <3>4, <3>5
    <2> QED
      BY <2>1, <2>2
  <1>5. part # rows => Cardinality(part) = k
    BY <1>1, <1>4
  <1>6. Cardinality(part) <= k
    BY <1>0 DEF NearPart
  <1> QED
    BY <1>1, <1>4, <1>5, <1>6 DEF NearPart

-----------------------------------------------------------------------------
(* A page of the feed.                                                     *)

BesideRows(data, q, side, position) ==
  {i \in selectionScope(data, q, selectionWallets(q)) : Beside(side, position, PositionOf(data, i))}

LEMMA ScopeOfWallets ==
  ASSUME NEW data, NEW q, NEW W
  PROVE  /\ selectionScope(data, q, W) \in SUBSET Rows(data)
         /\ \A i : i \in selectionScope(data, q, W)
                       <=> \E w \in W : i \in selectionScope(data, q, {w})
  BY DEF selectionScope

\* The rows that are nearest, in order; there is more if some are left.
IsPage(data, side, rows, limit, page) ==
  /\ InOrder(data, page.items, Range(page.items))
  /\ NearPart(data, side, Range(page.items), rows, limit)
  /\ page.hasMore \in BOOLEAN
  /\ page.hasMore <=> Range(page.items) # rows

LEMMA FeedPage ==
  ASSUME NEW data, Dated(data, Rows(data)), NEW q, NEW limit \in Nat, NEW side, NEW position
  PROVE  IsPage(data, side, BesideRows(data, q, side, position), limit,
                getFeedPage(data, q, limit, side, position))
  <1> PICK W : W = selectionWallets(q)
    OBVIOUS
  <1> PICK rows : rows = BesideRows(data, q, side, position)
    OBVIOUS
  <1> DEFINE rowsIn(w) == {i \in selectionScope(data, q, {w}) :
                               Beside(side, position, PositionOf(data, i))}
             cutIn(w) == Range(Cut(side, InHistoryOrder(data, rowsIn(w)), limit + 1))
  <1> PICK branch : branch = [w \in W |-> rowsIn(w)]
    OBVIOUS
  <1> PICK cut : cut = [w \in W |-> cutIn(w)]
    OBVIOUS
  <1> PICK kept : kept = UNION {cut[w] : w \in W}
    OBVIOUS
  <1> PICK s : s = Cut(side, InHistoryOrder(data, kept), limit + 1)
    OBVIOUS
  <1> PICK page : page = getFeedPage(data, q, limit, side, position)
    OBVIOUS
  <1>1. page = [items |-> Cut(side, s, limit), hasMore |-> Len(s) > limit]
    <2>1. kept = UNION {cutIn(w) : w \in W}
      OBVIOUS
    <2> QED
      BY <2>1 DEF getFeedPage, Cut
  <1>2. rows = UNION {branch[w] : w \in W} /\ Dated(data, rows)
    <2>1. \A i : i \in rows <=> \E w \in W : i \in rowsIn(w)
      BY ScopeOfWallets DEF BesideRows
    <2>2. rows = UNION {rowsIn(w) : w \in W}
      BY <2>1
    <2>3. rows \in SUBSET Rows(data)
      BY ScopeOfWallets DEF BesideRows
    <2> QED
      BY <2>2, <2>3 DEF Dated
  <1>3. \A w \in W : NearPart(data, side, cut[w], branch[w], limit + 1)
    <2>1. TAKE w \in W
    <2>2. Dated(data, branch[w])
      BY <1>2 DEF Dated
    <2>3. NearPart(data, side, Range(Cut(side, InHistoryOrder(data, branch[w]), limit + 1)),
                   branch[w], limit + 1)
      BY <2>2, HistoryOrder, CutIsNear
    <2> QED
      BY <2>3
  <1> HIDE DEF rowsIn, cutIn
  <1>4. kept \in SUBSET rows /\ Dated(data, kept)
    <2>1. \A w \in W : cut[w] \in SUBSET rows
      BY <1>2, <1>3 DEF NearPart
    <2>2. kept \in SUBSET rows
      BY <2>1
    <2> QED
      BY <1>2, <2>2 DEF Dated
  <1>5. InOrder(data, s, Range(s)) /\ NearPart(data, side, Range(s), kept, limit + 1)
    BY <1>4, HistoryOrder, CutIsNear
  <1>6. NearPart(data, side, Range(s), rows, limit + 1)
    BY <1>2, <1>3, <1>5, NearPartOfBranches
  <1>7. Dated(data, Range(s))
    BY <1>2, <1>6 DEF Dated, NearPart
  <1> PICK items : items = Cut(side, s, limit)
    OBVIOUS
  <1>8. InOrder(data, items, Range(items)) /\ NearPart(data, side, Range(items), Range(s), limit)
    BY <1>5, <1>7, CutIsNear
  <1>9. NearPart(data, side, Range(items), rows, limit)
    BY <1>2, <1>6, <1>8, NearPartOfPart
  <1>10. Len(s) > limit <=> Range(items) # rows
    <2>1. /\ IsFiniteSet(rows) /\ IsFiniteSet(Range(s)) /\ IsFiniteSet(Range(items))
          /\ Cardinality(Range(s)) = Len(s) /\ Len(s) \in Nat
      BY <1>2, <1>5, <1>8, FS_Subset, FS_CardinalityType, IdAssumption DEF Dated, InOrder
    <2>2. Range(items) \in SUBSET Range(s) /\ Range(s) \in SUBSET rows
      BY <1>6, <1>8 DEF NearPart
    <2>3. Cardinality(Range(items)) \in Nat /\ Cardinality(Range(items)) <= limit
      BY <1>9, <2>1, FS_CardinalityType DEF NearPart
    <2>4. CASE Len(s) > limit
      BY <2>1, <2>2, <2>3, <2>4, FS_Subset
    <2>5. CASE Len(s) <= limit
      <3>1. Range(s) = rows
        <4>1. Range(s) # rows => Cardinality(Range(s)) = limit + 1
          BY <1>6 DEF NearPart
        <4> QED
          BY <2>1, <2>5, <4>1
      <3>2. Range(items) = Range(s)
        <4>1. Range(items) # Range(s) => Cardinality(Range(items)) = limit
          BY <1>8 DEF NearPart
        <4>2. Cardinality(Range(items)) <= Cardinality(Range(s))
                /\ (Cardinality(Range(items)) = Cardinality(Range(s)) => Range(items) = Range(s))
          BY <2>1, <2>2, FS_Subset
        <4> QED
          BY <2>1, <2>5, <4>1, <4>2
      <3> QED
        BY <2>1, <2>5, <3>1, <3>2
    <2> QED
      BY <2>1, <2>4, <2>5
  <1>11. page.items = items /\ page.hasMore = (Len(s) > limit)
    BY <1>1
  <1>12. page.hasMore \in BOOLEAN /\ (page.hasMore <=> Range(items) # rows)
    <2>1. (Len(s) > limit) \in BOOLEAN
      OBVIOUS
    <2> QED
      BY <1>10, <1>11, <2>1, Zenon
  <1>13. IsPage(data, side, rows, limit, page)
    BY <1>8, <1>9, <1>11, <1>12, Zenon DEF IsPage
  <1> QED
    BY <1>13

\* The same of the sequence: what is not on a page lies beyond all of it.
Listed(ids, j) == \E n \in 1..Len(ids) : ids[n] = j

IsSequence(data, side, rows, limit, ids, more) ==
  /\ ids \in Seq(rows) /\ Len(ids) \in Nat /\ Len(ids) <= limit
  /\ \A m, n \in 1..Len(ids) : m < n => Newer(data, ids[m], ids[n])
  /\ more \in BOOLEAN
  /\ more => Len(ids) = limit
  /\ \A j \in rows : \/ Listed(ids, j)
                     \/ more /\ \A n \in 1..Len(ids) : Nearer(data, side, ids[n], j)
  /\ more => \E j \in rows : \A n \in 1..Len(ids) : Nearer(data, side, ids[n], j)

LEMMA PageSequence ==
  ASSUME NEW data, NEW side, NEW rows, Dated(data, rows), NEW limit \in Nat,
         NEW page, IsPage(data, side, rows, limit, page)
  PROVE  IsSequence(data, side, rows, limit, page.items, page.hasMore)
  <1> PICK ids, more : ids = page.items /\ more = page.hasMore
    OBVIOUS
  <1>1. /\ ids \in Seq(Range(ids)) /\ Range(ids) \in SUBSET rows
        /\ Len(ids) \in Nat /\ Len(ids) = Cardinality(Range(ids))
        /\ Len(ids) <= limit
        /\ Range(ids) # rows => Len(ids) = limit
        /\ \A m, n \in 1..Len(ids) : m < n => Newer(data, ids[m], ids[n])
        /\ \A j \in Range(ids) : \E n \in 1..Len(ids) : ids[n] = j
        /\ \A i \in Range(ids), j \in rows \ Range(ids) : Nearer(data, side, i, j)
    BY LenProperties DEF IsPage, InOrder, NearPart
  <1>2. more \in BOOLEAN /\ (more <=> Range(ids) # rows)
    BY Zenon DEF IsPage
  <1>3. ids \in Seq(rows)
    BY <1>1, SeqMonotonic
  <1>4. \A n \in 1..Len(ids) : ids[n] \in Range(ids)
    BY <1>1, LenProperties
  <1>5. \A j \in rows \ Range(ids) :
            more /\ \A n \in 1..Len(ids) : Nearer(data, side, ids[n], j)
    BY <1>1, <1>2, <1>4
  <1>6. more => \E j \in rows : j \notin Range(ids)
    BY <1>1, <1>2
  <1>7. \A j \in rows : \/ Listed(ids, j)
                        \/ more /\ \A n \in 1..Len(ids) : Nearer(data, side, ids[n], j)
    BY <1>1, <1>5 DEF Listed
  <1>8. more => \E j \in rows : \A n \in 1..Len(ids) : Nearer(data, side, ids[n], j)
    BY <1>5, <1>6
  <1>9. IsSequence(data, side, rows, limit, ids, more)
    <2>1. more \in BOOLEAN /\ (more => Len(ids) = limit)
      BY <1>1, <1>2
    <2>2. /\ Len(ids) \in Nat /\ Len(ids) <= limit
          /\ \A m, n \in 1..Len(ids) : m < n => Newer(data, ids[m], ids[n])
      BY <1>1
    <2> QED
      BY <1>3, <1>7, <1>8, <2>1, <2>2 DEF IsSequence
  <1> QED
    BY <1>9

Scope(data, q) == selectionScope(data, q, selectionWallets(q))
Above(data, ids, j) == Len(ids) > 0 /\ Newer(data, j, ids[1])
Below(data, ids, j) == Len(ids) > 0 /\ Newer(data, ids[Len(ids)], j)

\* A window of the scope: a stretch of the history in its order, which goes on
\* where it says so and nowhere else.
IsWindow(data, scope, ids, hasOlder, hasNewer) ==
  /\ ids \in Seq(scope) /\ hasOlder \in BOOLEAN /\ hasNewer \in BOOLEAN
  /\ \A m, n \in 1..Len(ids) : m < n => Newer(data, ids[m], ids[n])
  /\ hasOlder => \E j \in scope : Below(data, ids, j)
  /\ hasNewer => \E j \in scope : Above(data, ids, j)
  /\ Len(ids) > 0 => \A j \in scope : \/ Listed(ids, j)
                                      \/ hasOlder /\ Below(data, ids, j)
                                      \/ hasNewer /\ Above(data, ids, j)

\* It continues a list at a position: nothing on that side is left out.
Continues(data, rows, ids, side, hasOlder, hasNewer) ==
  /\ ids \in Seq(rows)
  /\ \A j \in rows : \/ Listed(ids, j)
                     \/ side # "before" /\ hasOlder /\ Below(data, ids, j)
                     \/ side # "after" /\ hasNewer /\ Above(data, ids, j)

LEMMA BesideInScope ==
  ASSUME NEW data, NEW q, NEW side, NEW position
  PROVE  /\ BesideRows(data, q, side, position) \in SUBSET Scope(data, q)
         /\ BesideRows(data, q, "none", position) = Scope(data, q)
         /\ Scope(data, q) \in SUBSET Rows(data)
  BY ScopeOfWallets DEF BesideRows, Scope, Beside

\* The first page of a list without a position.
IsFirstPage(data, scope, limit, ids, more) ==
  /\ IsWindow(data, scope, ids, more, FALSE)
  /\ Continues(data, scope, ids, "none", more, FALSE)
  /\ ids = <<>> => scope = {}
  /\ Len(ids) <= limit /\ (more => Len(ids) = limit)

LEMMA FirstPage ==
  ASSUME NEW data, Dated(data, Rows(data)), NEW q, NEW limit \in Nat, limit # 0, NEW position
  PROVE  LET page == getFeedPage(data, q, limit, "none", position) IN
         IsFirstPage(data, Scope(data, q), limit, page.items, page.hasMore)
  <1> PICK page : page = getFeedPage(data, q, limit, "none", position)
    OBVIOUS
  <1> PICK scope : scope = Scope(data, q)
    OBVIOUS
  <1> PICK ids, more : ids = page.items /\ more = page.hasMore
    OBVIOUS
  <1>1. Dated(data, scope)
    BY BesideInScope DEF Dated
  <1>2. IsPage(data, "none", scope, limit, page)
    BY FeedPage, BesideInScope
  <1>3. IsSequence(data, "none", scope, limit, ids, more)
    BY <1>1, <1>2, PageSequence
  <1>4. \A j \in scope : (\A n \in 1..Len(ids) : Nearer(data, "none", ids[n], j)) /\ Len(ids) > 0
                             => Below(data, ids, j)
    BY <1>3 DEF Below, IsSequence, Nearer
  <1>5. more \in BOOLEAN /\ Len(ids) \in Nat /\ (more => Len(ids) > 0)
    BY <1>3 DEF IsSequence
  <1>6. more => \E j \in scope : Below(data, ids, j)
    BY <1>3, <1>4, <1>5 DEF IsSequence
  <1>7. \A j \in scope : Listed(ids, j) \/ (more /\ Below(data, ids, j))
    <2>1. TAKE j \in scope
    <2>2. \/ Listed(ids, j)
          \/ more /\ \A n \in 1..Len(ids) : Nearer(data, "none", ids[n], j)
      BY <1>3, Zenon DEF IsSequence
    <2>3. (\A n \in 1..Len(ids) : Nearer(data, "none", ids[n], j)) /\ Len(ids) > 0
              => Below(data, ids, j)
      BY <1>4
    <2> QED
      BY <1>5, <2>2, <2>3, Zenon
  <1>8. IsWindow(data, scope, ids, more, FALSE)
    BY <1>3, <1>5, <1>6, <1>7 DEF IsWindow, IsSequence
  <1>9. Continues(data, scope, ids, "none", more, FALSE)
    BY <1>3, <1>7 DEF Continues, IsSequence
  <1>10. ids = <<>> => scope = {}
    <2>1. ids = <<>> => Len(ids) = 0
      BY EmptySeq
    <2> QED
      BY <1>7, <2>1 DEF Listed, Below
  <1>11. IsFirstPage(data, scope, limit, ids, more)
    BY <1>3, <1>8, <1>9, <1>10 DEF IsFirstPage, IsSequence
  <1> QED
    BY <1>11

PositionType == [timestamp : Int, id : Nat]

\* The order of positions, of which some are of records that are gone.
LEMMA NewerThanTotal ==
  ASSUME NEW p \in PositionType, NEW r \in PositionType, NEW s \in PositionType
  PROVE  /\ ~NewerThan(p, p)
         /\ NewerThan(p, r) /\ NewerThan(r, s) => NewerThan(p, s)
         /\ p = r \/ NewerThan(p, r) \/ NewerThan(r, p)
         /\ NewerThan(p, s) /\ ~NewerThan(p, r) => NewerThan(r, s)
         /\ NewerThan(s, p) /\ ~NewerThan(r, p) => NewerThan(s, r)
  <1>1. /\ p.timestamp \in Int /\ r.timestamp \in Int /\ s.timestamp \in Int
        /\ p.id \in Nat /\ r.id \in Nat /\ s.id \in Nat
        /\ p = [timestamp |-> p.timestamp, id |-> p.id]
        /\ r = [timestamp |-> r.timestamp, id |-> r.id]
    BY DEF PositionType
  <1>2. p = r <=> p.timestamp = r.timestamp /\ p.id = r.id
    BY <1>1
  <1> QED
    BY <1>1, <1>2 DEF NewerThan

LEMMA DatedPosition ==
  ASSUME NEW data, NEW rows, Dated(data, rows), NEW i \in rows
  PROVE  PositionOf(data, i) \in PositionType
  BY IdAssumption DEF Dated, PositionOf, PositionType

\* A probe of a side finds something just when there is something.
LEMMA Probe ==
  ASSUME NEW data, Dated(data, Rows(data)), NEW q, NEW side, NEW position
  PROVE  /\ getFeedPage(data, q, 0, side, position).hasMore \in BOOLEAN
         /\ getFeedPage(data, q, 0, side, position).hasMore
                <=> BesideRows(data, q, side, position) # {}
  <1> PICK page : page = getFeedPage(data, q, 0, side, position)
    OBVIOUS
  <1> PICK rows : rows = BesideRows(data, q, side, position)
    OBVIOUS
  <1> PICK ids, more : ids = page.items /\ more = page.hasMore
    OBVIOUS
  <1>1. Dated(data, rows)
    BY BesideInScope DEF Dated
  <1>2. IsPage(data, side, rows, 0, page)
    BY FeedPage
  <1>3. more \in BOOLEAN /\ (more <=> Range(ids) # rows) /\ NearPart(data, side, Range(ids), rows, 0)
    BY <1>2, Zenon DEF IsPage
  <1>4. IsFiniteSet(Range(ids)) /\ Cardinality(Range(ids)) <= 0
    BY <1>1, <1>3, FS_Subset, IdAssumption DEF NearPart, Dated
  <1>5. Range(ids) = {}
    BY <1>4, FS_EmptySet, FS_CardinalityType
  <1>6. more \in BOOLEAN /\ (more <=> rows # {})
    BY <1>3, <1>5, Zenon
  <1> QED
    BY <1>6, Zenon

\* A page after a position: the cursor says whether it goes on, the probe of
\* the other side whether anything is before it.
ProbedAfter(data, q, position, limit, ids, more, has) ==
  /\ IsSequence(data, "after", BesideRows(data, q, "after", position), limit, ids, more)
  /\ Len(ids) # 0 /\ has \in BOOLEAN
  /\ has <=> BesideRows(data, q, "before", PositionOf(data, ids[1])) # {}

LEMMA WindowAfter ==
  ASSUME NEW data, Dated(data, Rows(data)), NEW q, NEW position \in PositionType,
         NEW limit \in Nat, limit # 0, NEW ids, NEW more, NEW has,
         ProbedAfter(data, q, position, limit, ids, more, has)
  PROVE  /\ IsWindow(data, Scope(data, q), ids, more, has)
         /\ Continues(data, BesideRows(data, q, "after", position), ids, "after", more, has)
  <1> PICK rows, scope : rows = BesideRows(data, q, "after", position) /\ scope = Scope(data, q)
    OBVIOUS
  <1>0. /\ IsSequence(data, "after", rows, limit, ids, more)
        /\ Len(ids) # 0 /\ has \in BOOLEAN
        /\ has <=> BesideRows(data, q, "before", PositionOf(data, ids[1])) # {}
    BY Zenon DEF ProbedAfter
  <1>1. rows \in SUBSET scope /\ Dated(data, rows) /\ Dated(data, scope)
    BY BesideInScope DEF Dated
  <1>2. /\ ids \in Seq(rows) /\ Len(ids) \in Nat /\ Len(ids) > 0 /\ more \in BOOLEAN
        /\ \A m, n \in 1..Len(ids) : m < n => Newer(data, ids[m], ids[n])
    BY <1>0 DEF IsSequence
  <1>3. /\ ids \in Seq(scope)
        /\ ids[1] \in rows /\ ids[1] \in scope
        /\ ids[Len(ids)] \in rows
    <2>1. 1 \in 1..Len(ids) /\ Len(ids) \in 1..Len(ids)
      BY <1>2
    <2> QED
      BY <1>1, <1>2, <2>1, SeqMonotonic, LenProperties
  <1>4. \A j \in rows : (\A n \in 1..Len(ids) : Nearer(data, "after", ids[n], j))
                            => Below(data, ids, j)
    BY <1>2 DEF Below, Nearer
  <1>5. \A j \in rows : Listed(ids, j) \/ (more /\ Below(data, ids, j))
    <2>1. TAKE j \in rows
    <2>2. \/ Listed(ids, j)
          \/ more /\ \A n \in 1..Len(ids) : Nearer(data, "after", ids[n], j)
      BY <1>0, Zenon DEF IsSequence
    <2> QED
      BY <1>4, <2>2, Zenon
  <1>6. more => \E j \in scope : Below(data, ids, j)
    <2>1. more => \E j \in rows : \A n \in 1..Len(ids) : Nearer(data, "after", ids[n], j)
      BY <1>0, Zenon DEF IsSequence
    <2> QED
      BY <1>1, <1>4, <2>1
  <1>7. \A j \in scope : j \in BesideRows(data, q, "before", PositionOf(data, ids[1]))
                             <=> Above(data, ids, j)
    BY <1>2 DEF BesideRows, Beside, Above, Newer, Scope
  <1>8. BesideRows(data, q, "before", PositionOf(data, ids[1])) \in SUBSET scope
    BY BesideInScope
  <1>9. has => \E j \in scope : Above(data, ids, j)
    BY <1>0, <1>7, <1>8
  <1>10. \A j \in scope \ rows : has /\ Above(data, ids, j)
    <2>1. TAKE j \in scope \ rows
    <2>2. ~NewerThan(position, PositionOf(data, j))
      BY <2>1 DEF BesideRows, Beside, Scope
    <2>3. NewerThan(position, PositionOf(data, ids[1]))
      BY <1>3 DEF BesideRows, Beside
    <2>4. PositionOf(data, j) \in PositionType /\ PositionOf(data, ids[1]) \in PositionType
      BY <1>1, <1>3, <2>1, DatedPosition
    <2>5. NewerThan(PositionOf(data, j), PositionOf(data, ids[1]))
      BY <2>2, <2>3, <2>4, NewerThanTotal
    <2>6. Above(data, ids, j)
      BY <1>2, <2>5 DEF Above, Newer
    <2> QED
      BY <1>0, <1>7, <2>1, <2>6
  <1>11. \A j \in scope : \/ Listed(ids, j)
                          \/ more /\ Below(data, ids, j)
                          \/ has /\ Above(data, ids, j)
    BY <1>5, <1>10, Zenon
  <1>12. IsWindow(data, scope, ids, more, has)
    BY <1>0, <1>2, <1>3, <1>6, <1>9, <1>11 DEF IsWindow
  <1>13. Continues(data, rows, ids, "after", more, has)
    BY <1>2, <1>5 DEF Continues
  <1> QED
    BY <1>12, <1>13

ProbedBefore(data, q, position, limit, ids, more, has) ==
  /\ IsSequence(data, "before", BesideRows(data, q, "before", position), limit, ids, more)
  /\ Len(ids) # 0 /\ has \in BOOLEAN
  /\ has <=> BesideRows(data, q, "after", PositionOf(data, ids[Len(ids)])) # {}

LEMMA WindowBefore ==
  ASSUME NEW data, Dated(data, Rows(data)), NEW q, NEW position \in PositionType,
         NEW limit \in Nat, limit # 0, NEW ids, NEW more, NEW has,
         ProbedBefore(data, q, position, limit, ids, more, has)
  PROVE  /\ IsWindow(data, Scope(data, q), ids, has, more)
         /\ Continues(data, BesideRows(data, q, "before", position), ids, "before", has, more)
  <1> PICK rows, scope : rows = BesideRows(data, q, "before", position) /\ scope = Scope(data, q)
    OBVIOUS
  <1>0. /\ IsSequence(data, "before", rows, limit, ids, more)
        /\ Len(ids) # 0 /\ has \in BOOLEAN
        /\ has <=> BesideRows(data, q, "after", PositionOf(data, ids[Len(ids)])) # {}
    BY Zenon DEF ProbedBefore
  <1>1. rows \in SUBSET scope /\ Dated(data, rows) /\ Dated(data, scope)
    BY BesideInScope DEF Dated
  <1>2. /\ ids \in Seq(rows) /\ Len(ids) \in Nat /\ Len(ids) > 0 /\ more \in BOOLEAN
        /\ \A m, n \in 1..Len(ids) : m < n => Newer(data, ids[m], ids[n])
    BY <1>0 DEF IsSequence
  <1>3. /\ ids \in Seq(scope)
        /\ ids[1] \in rows
        /\ ids[Len(ids)] \in rows /\ ids[Len(ids)] \in scope
    <2>1. 1 \in 1..Len(ids) /\ Len(ids) \in 1..Len(ids)
      BY <1>2
    <2> QED
      BY <1>1, <1>2, <2>1, SeqMonotonic, LenProperties
  <1>4. \A j \in rows : (\A n \in 1..Len(ids) : Nearer(data, "before", ids[n], j))
                            => Above(data, ids, j)
    BY <1>2 DEF Above, Nearer
  <1>5. \A j \in rows : Listed(ids, j) \/ (more /\ Above(data, ids, j))
    <2>1. TAKE j \in rows
    <2>2. \/ Listed(ids, j)
          \/ more /\ \A n \in 1..Len(ids) : Nearer(data, "before", ids[n], j)
      BY <1>0, Zenon DEF IsSequence
    <2> QED
      BY <1>4, <2>2, Zenon
  <1>6. more => \E j \in scope : Above(data, ids, j)
    <2>1. more => \E j \in rows : \A n \in 1..Len(ids) : Nearer(data, "before", ids[n], j)
      BY <1>0, Zenon DEF IsSequence
    <2> QED
      BY <1>1, <1>4, <2>1
  <1>7. \A j \in scope : j \in BesideRows(data, q, "after", PositionOf(data, ids[Len(ids)]))
                             <=> Below(data, ids, j)
    BY <1>2 DEF BesideRows, Beside, Below, Newer, Scope
  <1>8. BesideRows(data, q, "after", PositionOf(data, ids[Len(ids)])) \in SUBSET scope
    BY BesideInScope
  <1>9. has => \E j \in scope : Below(data, ids, j)
    BY <1>0, <1>7, <1>8
  <1>10. \A j \in scope \ rows : has /\ Below(data, ids, j)
    <2>1. TAKE j \in scope \ rows
    <2>2. ~NewerThan(PositionOf(data, j), position)
      BY <2>1 DEF BesideRows, Beside, Scope
    <2>3. NewerThan(PositionOf(data, ids[Len(ids)]), position)
      BY <1>3 DEF BesideRows, Beside
    <2>4. PositionOf(data, j) \in PositionType /\ PositionOf(data, ids[Len(ids)]) \in PositionType
      BY <1>1, <1>3, <2>1, DatedPosition
    <2>5. NewerThan(PositionOf(data, ids[Len(ids)]), PositionOf(data, j))
      BY <2>2, <2>3, <2>4, NewerThanTotal
    <2>6. Below(data, ids, j)
      BY <1>2, <2>5 DEF Below, Newer
    <2> QED
      BY <1>0, <1>7, <2>1, <2>6
  <1>11. \A j \in scope : \/ Listed(ids, j)
                          \/ has /\ Below(data, ids, j)
                          \/ more /\ Above(data, ids, j)
    BY <1>5, <1>10, Zenon
  <1>12. IsWindow(data, scope, ids, has, more)
    BY <1>0, <1>2, <1>3, <1>6, <1>9, <1>11 DEF IsWindow
  <1>13. Continues(data, rows, ids, "before", has, more)
    BY <1>2, <1>5 DEF Continues
  <1> QED
    BY <1>12, <1>13

\* An empty page after a cursor is the end.
LEMMA EmptyPage ==
  ASSUME NEW data, NEW side, NEW rows, NEW limit \in Nat, limit # 0, NEW ids, NEW more,
         IsSequence(data, side, rows, limit, ids, more), ids = <<>>
  PROVE  rows = {}
  <1>1. Len(ids) = 0
    BY EmptySeq
  <1> QED
    BY <1>1 DEF IsSequence, Listed

\* The neighbours on one side of a record, cut to some of them.
NewerIn(data, scope, i) == {j \in scope : Newer(data, j, i)}
OlderIn(data, scope, i) == {j \in scope : Newer(data, i, j)}

LEMMA Neighbours ==
  ASSUME NEW data, NEW q, NEW i
  PROVE  /\ BesideRows(data, q, "before", PositionOf(data, i)) = NewerIn(data, Scope(data, q), i)
         /\ BesideRows(data, q, "after", PositionOf(data, i)) = OlderIn(data, Scope(data, q), i)
  BY DEF BesideRows, Beside, NewerIn, OlderIn, Newer, Scope

\* The three parts of a window around a record: its places.
LEMMA AroundPlaces ==
  ASSUME NEW S, NEW a \in Seq(S), NEW i \in S, NEW c \in Seq(S)
  PROVE  LET ids == a \o <<i>> \o c IN
         /\ ids \in Seq(S) /\ Len(ids) = Len(a) + 1 + Len(c)
         /\ \A n \in 1..Len(a) : ids[n] = a[n]
         /\ ids[Len(a) + 1] = i
         /\ \A n \in 1..Len(c) : ids[Len(a) + 1 + n] = c[n]
  <1> PICK t : t = <<i>>
    OBVIOUS
  <1>1. t \in Seq(S) /\ Len(t) = 1 /\ t[1] = i
    OBVIOUS
  <1> PICK b : b = a \o t
    OBVIOUS
  <1>2. /\ b \in Seq(S) /\ Len(b) = Len(a) + 1
        /\ \A n \in 1..(Len(a) + 1) : b[n] = IF n <= Len(a) THEN a[n] ELSE t[n - Len(a)]
    BY <1>1, ConcatProperties
  <1> PICK ids : ids = b \o c
    OBVIOUS
  <1>3. /\ ids \in Seq(S) /\ Len(ids) = Len(b) + Len(c)
        /\ \A n \in 1..(Len(b) + Len(c)) : ids[n] = IF n <= Len(b) THEN b[n] ELSE c[n - Len(b)]
    BY <1>2, ConcatProperties
  <1>4. Len(a) \in Nat /\ Len(c) \in Nat
    BY LenProperties
  <1>5. \A n \in 1..Len(a) : ids[n] = a[n]
    BY <1>2, <1>3, <1>4
  <1>6. ids[Len(a) + 1] = i
    BY <1>1, <1>2, <1>3, <1>4
  <1>7. \A n \in 1..Len(c) : ids[Len(a) + 1 + n] = c[n]
    BY <1>2, <1>3, <1>4
  <1>8. Len(ids) = Len(a) + 1 + Len(c)
    BY <1>2, <1>3
  <1> QED
    BY <1>3, <1>5, <1>6, <1>7, <1>8

\* What is shown of the neighbours of i, and whether there is more on a side.
AroundParts(data, scope, i, k, newer, moreNewer, older, moreOlder,
            newerCount, olderCount, hasOlder, hasNewer) ==
  /\ IsSequence(data, "before", NewerIn(data, scope, i), k, newer, moreNewer)
  /\ IsSequence(data, "after", OlderIn(data, scope, i), k, older, moreOlder)
  /\ newerCount \in 0..Len(newer) /\ olderCount \in 0..Len(older)
  /\ hasNewer \in BOOLEAN /\ (hasNewer <=> moreNewer \/ Len(newer) > newerCount)
  /\ hasOlder \in BOOLEAN /\ (hasOlder <=> moreOlder \/ Len(older) > olderCount)

Three(a, i, c) == a \o <<i>> \o c
Around(newer, newerCount, i, older, olderCount) ==
  Three(LastOf(newer, newerCount), i, FirstOf(older, olderCount))

LEMMA WindowAround ==
  ASSUME NEW data, NEW scope, Dated(data, scope), NEW i \in scope, NEW k,
         NEW newer, NEW moreNewer, NEW older, NEW moreOlder, NEW newerCount, NEW olderCount,
         NEW hasOlder, NEW hasNewer,
         AroundParts(data, scope, i, k, newer, moreNewer, older, moreOlder,
                     newerCount, olderCount, hasOlder, hasNewer),
         NEW ids, ids = Around(newer, newerCount, i, older, olderCount)
  PROVE  /\ IsWindow(data, scope, ids, hasOlder, hasNewer)
         /\ Continues(data, scope, ids, "none", hasOlder, hasNewer)
         /\ Len(ids) = newerCount + 1 + olderCount /\ Listed(ids, i)
  <1> PICK a : a = LastOf(newer, newerCount)
    OBVIOUS
  <1> PICK c : c = FirstOf(older, olderCount)
    OBVIOUS
  <1>0. /\ IsSequence(data, "before", NewerIn(data, scope, i), k, newer, moreNewer)
        /\ IsSequence(data, "after", OlderIn(data, scope, i), k, older, moreOlder)
        /\ newerCount \in 0..Len(newer) /\ olderCount \in 0..Len(older)
        /\ hasNewer \in BOOLEAN /\ (hasNewer <=> moreNewer \/ Len(newer) > newerCount)
        /\ hasOlder \in BOOLEAN /\ (hasOlder <=> moreOlder \/ Len(older) > olderCount)
    BY Zenon DEF AroundParts
  <1>1. /\ newer \in Seq(NewerIn(data, scope, i)) /\ Len(newer) \in Nat
        /\ older \in Seq(OlderIn(data, scope, i)) /\ Len(older) \in Nat
        /\ \A m, n \in 1..Len(newer) : m < n => Newer(data, newer[m], newer[n])
        /\ \A m, n \in 1..Len(older) : m < n => Newer(data, older[m], older[n])
    BY <1>0 DEF IsSequence
  <1>2. /\ \A n \in 1..Len(newer) : newer[n] \in scope /\ Newer(data, newer[n], i)
        /\ \A n \in 1..Len(older) : older[n] \in scope /\ Newer(data, i, older[n])
    <2>1. \A n \in 1..Len(newer) : newer[n] \in NewerIn(data, scope, i)
      BY <1>1, LenProperties
    <2>2. \A n \in 1..Len(older) : older[n] \in OlderIn(data, scope, i)
      BY <1>1, LenProperties
    <2> QED
      BY <2>1, <2>2 DEF NewerIn, OlderIn
  <1>3. newer \in Seq(scope) /\ older \in Seq(scope)
    <2>1. NewerIn(data, scope, i) \subseteq scope /\ OlderIn(data, scope, i) \subseteq scope
      BY DEF NewerIn, OlderIn
    <2> QED
      BY <1>1, <2>1, SeqMonotonic
  <1>4. /\ a \in Seq(scope) /\ Len(a) = newerCount
        /\ \A n \in 1..newerCount : a[n] = newer[Len(newer) - newerCount + n]
    <2>1. /\ a \in Seq(scope)
          /\ Len(a) = IF newerCount <= Len(newer) THEN newerCount ELSE Len(newer)
          /\ \A n \in 1..Len(a) : a[n] = newer[Len(newer) - Len(a) + n]
      BY <1>0, <1>3, LastOfCut
    <2>2. Len(a) = newerCount
      BY <1>0, <1>1, <2>1
    <2> QED
      BY <2>1, <2>2
  <1>5. /\ c \in Seq(scope) /\ Len(c) = olderCount
        /\ \A n \in 1..olderCount : c[n] = older[n]
    <2>1. /\ c \in Seq(scope)
          /\ Len(c) = IF olderCount <= Len(older) THEN olderCount ELSE Len(older)
          /\ \A n \in 1..Len(c) : c[n] = older[n]
      BY <1>0, <1>3, FirstOfCut
    <2>2. Len(c) = olderCount
      BY <1>0, <1>1, <2>1
    <2> QED
      BY <2>1, <2>2
  <1> DEFINE offset == Len(newer) - newerCount
             place == newerCount + 1
  <1>6. /\ ids \in Seq(scope) /\ Len(ids) = place + olderCount
        /\ \A n \in 1..newerCount : ids[n] = newer[offset + n]
        /\ ids[place] = i
        /\ \A n \in 1..olderCount : ids[place + n] = older[n]
    <2>1. /\ ids \in Seq(scope) /\ Len(ids) = Len(a) + 1 + Len(c)
          /\ \A n \in 1..Len(a) : ids[n] = a[n]
          /\ ids[Len(a) + 1] = i
          /\ \A n \in 1..Len(c) : ids[Len(a) + 1 + n] = c[n]
      <3>1. ids = a \o <<i>> \o c /\ a \in Seq(scope) /\ c \in Seq(scope)
        BY <1>4, <1>5 DEF Around, Three
      <3> QED
        BY <3>1, AroundPlaces
    <2> QED
      BY <1>4, <1>5, <2>1
  <1>7. newerCount \in Nat /\ olderCount \in Nat /\ offset \in Nat /\ place \in Nat /\ Len(ids) > 0
    BY <1>0, <1>1, <1>6
  <1>8. \A n \in 1..newerCount : offset + n \in 1..Len(newer)
    BY <1>0, <1>1
  <1>9. \A n \in 1..olderCount : n \in 1..Len(older)
    BY <1>0, <1>1
  <1>10. \A n \in 1..Len(ids) : n \in 1..newerCount \/ n = place \/ n - place \in 1..olderCount
    BY <1>6, <1>7
  <1>11. \A n \in 1..Len(ids) :
            /\ n \in 1..newerCount => /\ ids[n] = newer[offset + n] /\ ids[n] \in scope
                                      /\ Newer(data, ids[n], i)
            /\ n = place => ids[n] = i
            /\ n - place \in 1..olderCount => /\ ids[n] = older[n - place] /\ ids[n] \in scope
                                              /\ Newer(data, i, ids[n])
    <2>1. TAKE n \in 1..Len(ids)
    <2>2. ASSUME n \in 1..newerCount
          PROVE  ids[n] = newer[offset + n] /\ ids[n] \in scope /\ Newer(data, ids[n], i)
      BY <1>2, <1>6, <1>8, <2>2
    <2>3. ASSUME n - place \in 1..olderCount
          PROVE  ids[n] = older[n - place] /\ ids[n] \in scope /\ Newer(data, i, ids[n])
      <3>1. place + (n - place) = n
        BY <1>7
      <3> QED
        BY <1>2, <1>6, <1>9, <2>3, <3>1
    <2> QED
      BY <1>6, <2>2, <2>3
  <1> HIDE DEF offset, place
  <1>12. \A m, n \in 1..Len(ids) : m < n => Newer(data, ids[m], ids[n])
    <2>1. SUFFICES ASSUME NEW m \in 1..Len(ids), NEW n \in 1..Len(ids), m < n
                   PROVE  Newer(data, ids[m], ids[n])
      OBVIOUS
    <2>2. CASE n \in 1..newerCount
      <3>1. m \in 1..newerCount /\ offset + m < offset + n
        BY <1>7, <2>1, <2>2
      <3> QED
        BY <1>1, <1>8, <1>11, <2>2, <3>1
    <2>3. CASE n = place
      <3>1. m \in 1..newerCount
        BY <1>7, <2>1, <2>3 DEF place
      <3> QED
        BY <1>11, <2>3, <3>1
    <2>4. CASE n - place \in 1..olderCount
      <3>1. CASE m \in 1..newerCount
        BY <1>11, <2>4, <3>1, NewerTotal
      <3>2. CASE m = place
        BY <1>11, <2>4, <3>2
      <3>3. CASE m - place \in 1..olderCount
        <4>1. m - place < n - place
          BY <1>7, <2>1
        <4> QED
          BY <1>1, <1>9, <1>11, <2>4, <3>3, <4>1
      <3> QED
        BY <1>10, <3>1, <3>2, <3>3
    <2> QED
      BY <1>10, <2>2, <2>3, <2>4
  <1>13. ids[1] = IF newerCount > 0 THEN newer[offset + 1] ELSE i
    BY <1>6, <1>7 DEF place
  <1>14. ids[Len(ids)] = IF olderCount > 0 THEN older[olderCount] ELSE i
    BY <1>6, <1>7
  <1>15. \A j \in scope : Newer(data, j, i) /\ (newerCount > 0 => Newer(data, j, newer[offset + 1]))
                             => Above(data, ids, j)
    BY <1>7, <1>13 DEF Above
  <1>16. \A j \in scope : Newer(data, i, j) /\ (olderCount > 0 => Newer(data, older[olderCount], j))
                             => Below(data, ids, j)
    BY <1>7, <1>14 DEF Below
  <1>17. \A j \in NewerIn(data, scope, i) : Listed(ids, j) \/ (hasNewer /\ Above(data, ids, j))
    <2>1. TAKE j \in NewerIn(data, scope, i)
    <2>2. j \in scope /\ Newer(data, j, i)
      BY DEF NewerIn
    <2>3. ASSUME NEW m \in 1..Len(newer), newer[m] = j
          PROVE  Listed(ids, j) \/ (hasNewer /\ Above(data, ids, j))
      <3>1. CASE m > offset
        <4>1. m - offset \in 1..newerCount /\ offset + (m - offset) = m
          BY <1>1, <1>7, <3>1 DEF offset
        <4>2. PICK l \in 1..newerCount : offset + l = m
          BY <4>1
        <4>3. ids[l] = j
          BY <1>6, <2>3, <4>2
        <4>4. l \in 1..Len(ids)
          <5>1. place = newerCount + 1 /\ Len(ids) = place + olderCount
            BY <1>6 DEF place
          <5> QED
            BY <1>7, <5>1
        <4> QED
          BY <4>3, <4>4 DEF Listed
      <3>2. CASE m <= offset
        <4>1. Len(newer) > newerCount
          BY <1>1, <1>7, <3>2 DEF offset
        <4>2. newerCount > 0 => Newer(data, j, newer[offset + 1])
          BY <1>1, <1>7, <1>8, <2>3, <3>2
        <4>3. hasNewer
          BY <1>0, <4>1
        <4> QED
          BY <1>15, <2>2, <4>2, <4>3
      <3> QED
        BY <1>7, <3>1, <3>2
    <2>4. ASSUME moreNewer, \A n \in 1..Len(newer) : Nearer(data, "before", newer[n], j)
          PROVE  hasNewer /\ Above(data, ids, j)
      <3>1. newerCount > 0 => Newer(data, j, newer[offset + 1])
        BY <1>7, <1>8, <2>4 DEF Nearer
      <3> QED
        BY <1>0, <1>15, <2>2, <2>4, <3>1
    <2>5. \/ \E m \in 1..Len(newer) : newer[m] = j
          \/ moreNewer /\ \A n \in 1..Len(newer) : Nearer(data, "before", newer[n], j)
      BY <1>0, Zenon DEF IsSequence, Listed
    <2> QED
      BY <2>3, <2>4, <2>5, Zenon
  <1>18. \A j \in OlderIn(data, scope, i) : Listed(ids, j) \/ (hasOlder /\ Below(data, ids, j))
    <2>1. TAKE j \in OlderIn(data, scope, i)
    <2>2. j \in scope /\ Newer(data, i, j)
      BY DEF OlderIn
    <2>3. ASSUME NEW m \in 1..Len(older), older[m] = j
          PROVE  Listed(ids, j) \/ (hasOlder /\ Below(data, ids, j))
      <3>1. CASE m <= olderCount
        <4>1. m \in 1..olderCount /\ place + m \in 1..Len(ids)
          BY <1>6, <1>7, <3>1
        <4> QED
          BY <1>6, <2>3, <4>1 DEF Listed
      <3>2. CASE m > olderCount
        <4>1. Len(older) > olderCount
          BY <1>1, <1>7, <3>2
        <4>2. olderCount > 0 => Newer(data, older[olderCount], j)
          BY <1>1, <1>7, <1>9, <2>3, <3>2
        <4>3. hasOlder
          BY <1>0, <4>1
        <4> QED
          BY <1>16, <2>2, <4>2, <4>3
      <3> QED
        BY <1>7, <3>1, <3>2
    <2>4. ASSUME moreOlder, \A n \in 1..Len(older) : Nearer(data, "after", older[n], j)
          PROVE  hasOlder /\ Below(data, ids, j)
      <3>1. olderCount > 0 => Newer(data, older[olderCount], j)
        BY <1>7, <1>9, <2>4 DEF Nearer
      <3> QED
        BY <1>0, <1>16, <2>2, <2>4, <3>1
    <2>5. \/ \E m \in 1..Len(older) : older[m] = j
          \/ moreOlder /\ \A n \in 1..Len(older) : Nearer(data, "after", older[n], j)
      BY <1>0, Zenon DEF IsSequence, Listed
    <2> QED
      BY <2>3, <2>4, <2>5, Zenon
  <1>19. Listed(ids, i)
    BY <1>6, <1>7 DEF Listed, place
  <1>20. \A j \in scope : \/ Listed(ids, j)
                          \/ hasOlder /\ Below(data, ids, j)
                          \/ hasNewer /\ Above(data, ids, j)
    <2>1. TAKE j \in scope
    <2>2. j = i \/ j \in NewerIn(data, scope, i) \/ j \in OlderIn(data, scope, i)
      BY NewerTotal DEF NewerIn, OlderIn
    <2> QED
      BY <1>17, <1>18, <1>19, <2>2, Zenon
  <1>21. hasNewer => \E j \in scope : Above(data, ids, j)
    <2>1. ASSUME moreNewer PROVE \E j \in scope : Above(data, ids, j)
      <3>1. PICK j \in NewerIn(data, scope, i) :
                \A n \in 1..Len(newer) : Nearer(data, "before", newer[n], j)
        BY <1>0, <2>1, Zenon DEF IsSequence
      <3>2. newerCount > 0 => Newer(data, j, newer[offset + 1])
        BY <1>7, <1>8, <3>1 DEF Nearer
      <3> QED
        BY <1>15, <3>1, <3>2 DEF NewerIn
    <2>2. ASSUME Len(newer) > newerCount PROVE \E j \in scope : Above(data, ids, j)
      <3>1. offset \in 1..Len(newer)
        BY <1>1, <1>7, <2>2 DEF offset
      <3>2. newerCount > 0 => Newer(data, newer[offset], newer[offset + 1])
        BY <1>1, <1>7, <1>8, <3>1
      <3> QED
        BY <1>2, <1>15, <3>1, <3>2
    <2> QED
      BY <1>0, <2>1, <2>2
  <1>22. hasOlder => \E j \in scope : Below(data, ids, j)
    <2>1. ASSUME moreOlder PROVE \E j \in scope : Below(data, ids, j)
      <3>1. PICK j \in OlderIn(data, scope, i) :
                \A n \in 1..Len(older) : Nearer(data, "after", older[n], j)
        BY <1>0, <2>1, Zenon DEF IsSequence
      <3>2. olderCount > 0 => Newer(data, older[olderCount], j)
        BY <1>7, <1>9, <3>1 DEF Nearer
      <3> QED
        BY <1>16, <3>1, <3>2 DEF OlderIn
    <2>2. ASSUME Len(older) > olderCount PROVE \E j \in scope : Below(data, ids, j)
      <3>1. olderCount + 1 \in 1..Len(older)
        BY <1>1, <1>7, <2>2
      <3>2. olderCount > 0 => Newer(data, older[olderCount], older[olderCount + 1])
        BY <1>1, <1>7, <1>9, <3>1
      <3> QED
        BY <1>2, <1>16, <3>1, <3>2
    <2> QED
      BY <1>0, <2>1, <2>2
  <1>23. IsWindow(data, scope, ids, hasOlder, hasNewer)
    BY <1>0, <1>6, <1>12, <1>20, <1>21, <1>22 DEF IsWindow
  <1>24. Continues(data, scope, ids, "none", hasOlder, hasNewer)
    BY <1>6, <1>20 DEF Continues
  <1> QED
    BY <1>6, <1>19, <1>23, <1>24 DEF place

-----------------------------------------------------------------------------
(* A transaction that stays as it is stays in a selection.                 *)

SameTxn(b, c, i) ==
  /\ b.txns[i] = c.txns[i]
  /\ b.txns[i] # None => /\ b.names[b.txns[i].wallet] = c.names[b.txns[i].wallet]
                         /\ b.names[b.txns[i].category] = c.names[b.txns[i].category]

LEMMA SameInScope ==
  ASSUME NEW b, NEW c, NEW i, SameTxn(b, c, i), NEW q
  PROVE  /\ i \in Scope(b, q) <=> i \in Scope(c, q)
         /\ i \in Scope(b, q) => PositionOf(b, i) = PositionOf(c, i)
  <1>1. b.txns[i] = c.txns[i]
    BY DEF SameTxn
  <1>2. PositionOf(b, i) = PositionOf(c, i)
    BY <1>1 DEF PositionOf
  <1>3. i \in Rows(b) <=> i \in Rows(c)
    BY <1>1 DEF Rows
  <1>4. i \in Rows(b) => (Matches(b, q.search, b.txns[i]) <=> Matches(c, q.search, b.txns[i]))
    BY DEF SameTxn, Rows, Matches
  <1>5. i \in Scope(b, q) <=> i \in Scope(c, q)
    BY <1>1, <1>3, <1>4 DEF Scope, selectionScope
  <1> QED
    BY <1>2, <1>5

LEMMA SameTxnSymmetric ==
  ASSUME NEW b, NEW c, NEW i, SameTxn(b, c, i)
  PROVE  SameTxn(c, b, i)
  BY DEF SameTxn

LEMMA SameTxnTransitive ==
  ASSUME NEW b, NEW c, NEW d, NEW i, SameTxn(b, c, i), SameTxn(c, d, i)
  PROVE  SameTxn(b, d, i)
  BY DEF SameTxn

LEMMA UnchangedSame ==
  ASSUME NEW b, NEW c, NEW i \in Ids \ Changed(b, c)
  PROVE  SameTxn(b, c, i)
  BY DEF Changed, SameTxn

LEMMA BookDated ==
  ASSUME NEW b \in Book
  PROVE  Dated(b, Rows(b))
  BY DEF Book, Txn, Dated, Rows

LEMMA PositionInType ==
  ASSUME NEW b \in Book, NEW i \in Rows(b)
  PROVE  PositionOf(b, i) \in Position
  BY DEF Book, Txn, Rows, Position, PositionOf

LEMMA PositionsAreTyped ==
  Position \subseteq PositionType
  BY IdAssumption DEF Position, PositionType

-----------------------------------------------------------------------------
(* A list that has all that stays.                                         *)

ListedAt(items, p) == \E n \in 1..Len(items) : items[n] = p

\* Whatever was not touched is in the list, or beyond an end that has a cursor.
ListOK(b, written, q, items, older, newer) ==
  /\ items \in Seq(Position)
  /\ \A m, n \in 1..Len(items) : m < n => NewerThan(items[m], items[n])
  /\ \A n \in 1..Len(items) :
         items[n].id \notin written =>
             items[n].id \in Scope(b, q) /\ items[n] = PositionOf(b, items[n].id)
  /\ \A i \in Scope(b, q) \ written :
         \/ ListedAt(items, PositionOf(b, i))
         \/ older # None /\ NewerThan(items[Len(items)], PositionOf(b, i))
         \/ newer # None /\ NewerThan(PositionOf(b, i), items[1])
  /\ older # None => Len(items) > 0 /\ older = items[Len(items)]
  /\ newer # None => Len(items) > 0 /\ newer = items[1]

\* The list stays so whatever is written, as long as it is noted.
LEMMA ListKept ==
  ASSUME NEW b, NEW c, NEW written, NEW more, written \subseteq more,
         \A i \in Ids \ more : SameTxn(b, c, i),
         NEW q, NEW items, NEW older, NEW newer, ListOK(b, written, q, items, older, newer)
  PROVE  ListOK(c, more, q, items, older, newer)
  <1>1. \A i \in Ids \ more : /\ i \in Scope(b, q) <=> i \in Scope(c, q)
                              /\ i \in Scope(b, q) => PositionOf(b, i) = PositionOf(c, i)
    BY SameInScope
  <1>2. items \in Seq(Position) /\ \A n \in 1..Len(items) : items[n].id \in Ids
    <2>1. items \in Seq(Position)
      BY DEF ListOK
    <2>2. \A n \in 1..Len(items) : items[n] \in Position
      BY <2>1, ElementOfSeq
    <2> QED
      BY <2>1, <2>2 DEF Position
  <1>3. \A n \in 1..Len(items) :
            items[n].id \notin more =>
                items[n].id \in Scope(c, q) /\ items[n] = PositionOf(c, items[n].id)
    BY <1>1, <1>2 DEF ListOK
  <1>4. \A i \in Scope(c, q) \ more : i \in Scope(b, q) \ written /\ PositionOf(b, i) = PositionOf(c, i)
    <2>1. Scope(c, q) \subseteq Ids
      BY BesideInScope DEF Rows
    <2> QED
      BY <1>1, <2>1
  <1>5. \A i \in Scope(c, q) \ more :
            \/ ListedAt(items, PositionOf(c, i))
            \/ older # None /\ NewerThan(items[Len(items)], PositionOf(c, i))
            \/ newer # None /\ NewerThan(PositionOf(c, i), items[1])
    BY <1>4 DEF ListOK
  <1> QED
    BY <1>2, <1>3, <1>5 DEF ListOK

Positions(b, ids) == [n \in 1..Len(ids) |-> PositionOf(b, ids[n])]

\* The positions of a window's rows.
LEMMA WindowPositions ==
  ASSUME NEW b \in Book, NEW q, NEW ids \in Seq(Scope(b, q)),
         \A m, n \in 1..Len(ids) : m < n => Newer(b, ids[m], ids[n])
  PROVE  /\ Positions(b, ids) \in Seq(Position) /\ Len(Positions(b, ids)) = Len(ids)
         /\ Len(ids) \in Nat
         /\ \A n \in 1..Len(ids) : /\ Positions(b, ids)[n] = PositionOf(b, ids[n])
                                   /\ Positions(b, ids)[n].id = ids[n]
                                   /\ ids[n] \in Scope(b, q)
         /\ \A m, n \in 1..Len(ids) : m < n => NewerThan(Positions(b, ids)[m], Positions(b, ids)[n])
  <1>1. Len(ids) \in Nat /\ \A n \in 1..Len(ids) : ids[n] \in Scope(b, q)
    BY LenProperties
  <1>2. \A n \in 1..Len(ids) : PositionOf(b, ids[n]) \in Position
    BY <1>1, BesideInScope, PositionInType
  <1>3. Positions(b, ids) \in [1..Len(ids) -> Position]
    BY <1>2 DEF Positions
  <1>4. Positions(b, ids) \in Seq(Position) /\ Len(Positions(b, ids)) = Len(ids)
    BY <1>1, <1>3
  <1>5. \A n \in 1..Len(ids) : /\ Positions(b, ids)[n] = PositionOf(b, ids[n])
                               /\ Positions(b, ids)[n].id = ids[n]
    BY DEF Positions, PositionOf
  <1> QED
    BY <1>1, <1>4, <1>5 DEF Newer

CursorOf(has, p) == IF has THEN p ELSE None

\* The first page of a list.
LEMMA FirstList ==
  ASSUME NEW b \in Book, NEW q, NEW ids, NEW hasOlder, NEW hasNewer,
         IsWindow(b, Scope(b, q), ids, hasOlder, hasNewer),
         Continues(b, Scope(b, q), ids, "none", hasOlder, hasNewer)
  PROVE  ListOK(b, {}, q, Positions(b, ids),
                CursorOf(hasOlder, Positions(b, ids)[Len(ids)]),
                CursorOf(hasNewer, Positions(b, ids)[1]))
  <1> PICK items : items = Positions(b, ids)
    OBVIOUS
  <1> PICK older : older = CursorOf(hasOlder, items[Len(ids)])
    OBVIOUS
  <1> PICK newer : newer = CursorOf(hasNewer, items[1])
    OBVIOUS
  <1>1. /\ ids \in Seq(Scope(b, q)) /\ hasOlder \in BOOLEAN /\ hasNewer \in BOOLEAN
        /\ \A m, n \in 1..Len(ids) : m < n => Newer(b, ids[m], ids[n])
    BY DEF IsWindow
  <1>2. /\ items \in Seq(Position) /\ Len(items) = Len(ids) /\ Len(ids) \in Nat
        /\ \A n \in 1..Len(ids) : /\ items[n] = PositionOf(b, ids[n])
                                  /\ items[n].id = ids[n]
                                  /\ ids[n] \in Scope(b, q)
        /\ \A m, n \in 1..Len(ids) : m < n => NewerThan(items[m], items[n])
    BY <1>1, WindowPositions
  <1>3. /\ Len(ids) > 0 => items[1] \in Position /\ items[Len(ids)] \in Position
        /\ hasOlder => Len(ids) > 0
        /\ hasNewer => Len(ids) > 0
    BY <1>2, ElementOfSeq DEF IsWindow, Above, Below
  <1>4. /\ hasOlder <=> older # None
        /\ hasNewer <=> newer # None
        /\ hasOlder => older = items[Len(ids)]
        /\ hasNewer => newer = items[1]
    BY <1>1, <1>3, CursorAssumption DEF CursorOf
  <1>5. \A j \in Scope(b, q) :
            /\ Listed(ids, j) => ListedAt(items, PositionOf(b, j))
            /\ Below(b, ids, j) => NewerThan(items[Len(items)], PositionOf(b, j))
            /\ Above(b, ids, j) => NewerThan(PositionOf(b, j), items[1])
    BY <1>2 DEF Listed, ListedAt, Below, Above, Newer
  <1>6. \A i \in Scope(b, q) :
            \/ ListedAt(items, PositionOf(b, i))
            \/ older # None /\ NewerThan(items[Len(items)], PositionOf(b, i))
            \/ newer # None /\ NewerThan(PositionOf(b, i), items[1])
    <2>1. TAKE i \in Scope(b, q)
    <2>2. \/ Listed(ids, i)
          \/ hasOlder /\ Below(b, ids, i)
          \/ hasNewer /\ Above(b, ids, i)
      BY DEF Continues
    <2> QED
      BY <1>4, <1>5, <2>2
  <1>7. ListOK(b, {}, q, items, older, newer)
    BY <1>2, <1>3, <1>4, <1>6 DEF ListOK
  <1> QED
    BY <1>2, <1>7

\* A page that follows the older cursor, put after the list.
LEMMA OlderJoined ==
  ASSUME NEW b \in Book, NEW written, NEW q, NEW items, NEW older, NEW newer,
         ListOK(b, written, q, items, older, newer), older # None,
         NEW ids, NEW hasOlder, NEW hasNewer,
         IsWindow(b, Scope(b, q), ids, hasOlder, hasNewer),
         Continues(b, BesideRows(b, q, "after", older), ids, "after", hasOlder, hasNewer)
  PROVE  ListOK(b, written, q, items \o Positions(b, ids),
                CursorOf(hasOlder, Positions(b, ids)[Len(ids)]), newer)
  <1> PICK page : page = Positions(b, ids)
    OBVIOUS
  <1> PICK next : next = CursorOf(hasOlder, page[Len(ids)])
    OBVIOUS
  <1> PICK joined : joined = items \o page
    OBVIOUS
  <1>1. /\ ids \in Seq(Scope(b, q)) /\ hasOlder \in BOOLEAN
        /\ \A m, n \in 1..Len(ids) : m < n => Newer(b, ids[m], ids[n])
    BY DEF IsWindow
  <1>2. /\ page \in Seq(Position) /\ Len(page) = Len(ids) /\ Len(ids) \in Nat
        /\ \A n \in 1..Len(ids) : /\ page[n] = PositionOf(b, ids[n])
                                  /\ page[n].id = ids[n]
                                  /\ ids[n] \in Scope(b, q)
        /\ \A m, n \in 1..Len(ids) : m < n => NewerThan(page[m], page[n])
    BY <1>1, WindowPositions
  <1>3. /\ items \in Seq(Position) /\ Len(items) \in Nat /\ Len(items) > 0
        /\ older = items[Len(items)]
        /\ \A m, n \in 1..Len(items) : m < n => NewerThan(items[m], items[n])
    BY LenProperties DEF ListOK
  <1>4. /\ \A n \in 1..Len(items) : items[n] \in PositionType
        /\ \A n \in 1..Len(ids) : page[n] \in PositionType
    BY <1>2, <1>3, ElementOfSeq, PositionsAreTyped
  <1>5. /\ joined \in Seq(Position) /\ Len(joined) = Len(items) + Len(ids)
        /\ \A n \in 1..Len(items) : joined[n] = items[n]
        /\ \A n \in 1..Len(ids) : joined[Len(items) + n] = page[n]
    <2>1. /\ joined \in Seq(Position) /\ Len(joined) = Len(items) + Len(page)
          /\ \A n \in 1..(Len(items) + Len(page)) :
                 joined[n] = IF n <= Len(items) THEN items[n] ELSE page[n - Len(items)]
      <3>1. items \in Seq(Position) /\ page \in Seq(Position) /\ joined = items \o page
        BY <1>2, <1>3
      <3> QED
        BY <3>1, ConcatProperties
    <2> QED
      BY <1>2, <1>3, <2>1
  <1>6. \A n \in 1..Len(joined) :
            \/ n \in 1..Len(items)
            \/ \E m \in 1..Len(ids) : n = Len(items) + m
    <2>1. TAKE n \in 1..Len(joined)
    <2>2. n <= Len(items) \/ n - Len(items) \in 1..Len(ids)
      BY <1>2, <1>3, <1>5
    <2>3. n = Len(items) + (n - Len(items))
      BY <1>3
    <2> QED
      BY <2>2, <2>3
  <1>7. \A n \in 1..Len(ids) : NewerThan(older, page[n])
    <2>1. ids \in Seq(BesideRows(b, q, "after", older))
      BY DEF Continues
    <2>2. \A n \in 1..Len(ids) : ids[n] \in BesideRows(b, q, "after", older)
      BY <2>1, ElementOfSeq
    <2> QED
      BY <1>2, <2>2 DEF BesideRows, Beside
  <1>8. \A m \in 1..Len(items), n \in 1..Len(ids) : NewerThan(items[m], page[n])
    <2>1. TAKE m \in 1..Len(items), n \in 1..Len(ids)
    <2>2. Len(items) \in 1..Len(items)
      BY <1>3
    <2>3. m = Len(items) \/ NewerThan(items[m], items[Len(items)])
      BY <1>3, <2>2
    <2> QED
      BY <1>3, <1>4, <1>7, <2>2, <2>3, NewerThanTotal
  <1>9. \A m, n \in 1..Len(joined) : m < n => NewerThan(joined[m], joined[n])
    <2>1. SUFFICES ASSUME NEW m \in 1..Len(joined), NEW n \in 1..Len(joined), m < n
                   PROVE  NewerThan(joined[m], joined[n])
      OBVIOUS
    <2>2. CASE n \in 1..Len(items)
      <3>1. m \in 1..Len(items)
        BY <2>1, <2>2
      <3> QED
        BY <1>3, <1>5, <2>1, <2>2, <3>1
    <2>3. ASSUME NEW k \in 1..Len(ids), n = Len(items) + k
          PROVE  NewerThan(joined[m], joined[n])
      <3>1. CASE m \in 1..Len(items)
        BY <1>5, <1>8, <2>3, <3>1
      <3>2. ASSUME NEW l \in 1..Len(ids), m = Len(items) + l
            PROVE  NewerThan(joined[m], joined[n])
        <4>1. l < k
          BY <1>3, <2>1, <2>3, <3>2
        <4> QED
          BY <1>2, <1>5, <2>3, <3>2, <4>1
      <3> QED
        BY <1>6, <3>1, <3>2
    <2> QED
      BY <1>6, <2>2, <2>3
  <1>10. \A n \in 1..Len(joined) :
             joined[n].id \notin written =>
                 joined[n].id \in Scope(b, q) /\ joined[n] = PositionOf(b, joined[n].id)
    <2>1. TAKE n \in 1..Len(joined)
    <2>2. CASE n \in 1..Len(items)
      BY <1>5, <2>2 DEF ListOK
    <2>3. ASSUME NEW m \in 1..Len(ids), n = Len(items) + m
          PROVE  joined[n].id \in Scope(b, q) /\ joined[n] = PositionOf(b, joined[n].id)
      BY <1>2, <1>5, <2>3
    <2> QED
      BY <1>6, <2>2, <2>3
  <1>11. /\ Len(ids) > 0 => page[Len(ids)] \in Position
         /\ hasOlder => Len(ids) > 0
    BY <1>2, ElementOfSeq DEF IsWindow, Below
  <1>12. /\ hasOlder <=> next # None
         /\ hasOlder => next = page[Len(ids)]
    BY <1>1, <1>11, CursorAssumption DEF CursorOf
  <1>13. Len(ids) > 0 => joined[Len(joined)] = page[Len(ids)]
    BY <1>2, <1>3, <1>5
  <1>14. \A j \in Scope(b, q) :
             /\ Listed(ids, j) => ListedAt(joined, PositionOf(b, j))
             /\ Below(b, ids, j) => NewerThan(joined[Len(joined)], PositionOf(b, j))
             /\ ListedAt(items, PositionOf(b, j)) => ListedAt(joined, PositionOf(b, j))
    <2>1. TAKE j \in Scope(b, q)
    <2>2. Listed(ids, j) => ListedAt(joined, PositionOf(b, j))
      <3>1. SUFFICES ASSUME NEW n \in 1..Len(ids), ids[n] = j
                     PROVE  ListedAt(joined, PositionOf(b, j))
        BY DEF Listed
      <3>2. Len(items) + n \in 1..Len(joined) /\ joined[Len(items) + n] = PositionOf(b, j)
        BY <1>2, <1>3, <1>5, <3>1
      <3> QED
        BY <3>2 DEF ListedAt
    <2>3. Below(b, ids, j) => NewerThan(joined[Len(joined)], PositionOf(b, j))
      BY <1>2, <1>13 DEF Below, Newer
    <2>4. ListedAt(items, PositionOf(b, j)) => ListedAt(joined, PositionOf(b, j))
      BY <1>2, <1>3, <1>5 DEF ListedAt
    <2> QED
      BY <2>2, <2>3, <2>4
  <1>15. \A i \in Scope(b, q) \ written :
             \/ ListedAt(joined, PositionOf(b, i))
             \/ next # None /\ NewerThan(joined[Len(joined)], PositionOf(b, i))
             \/ newer # None /\ NewerThan(PositionOf(b, i), joined[1])
    <2>1. TAKE i \in Scope(b, q) \ written
    <2>2. \/ ListedAt(items, PositionOf(b, i))
          \/ NewerThan(older, PositionOf(b, i))
          \/ newer # None /\ NewerThan(PositionOf(b, i), items[1])
      BY <1>3 DEF ListOK
    <2>3. ASSUME NewerThan(older, PositionOf(b, i))
          PROVE  \/ ListedAt(joined, PositionOf(b, i))
                 \/ next # None /\ NewerThan(joined[Len(joined)], PositionOf(b, i))
      <3>1. i \in BesideRows(b, q, "after", older)
        BY <2>3 DEF BesideRows, Beside, Scope
      <3>2. Listed(ids, i) \/ (hasOlder /\ Below(b, ids, i))
        BY <3>1 DEF Continues
      <3> QED
        BY <1>12, <1>14, <3>2
    <2>4. joined[1] = items[1]
      BY <1>3, <1>5
    <2> QED
      BY <1>14, <2>2, <2>3, <2>4
  <1>16. /\ next # None => Len(joined) > 0 /\ next = joined[Len(joined)]
         /\ newer # None => Len(joined) > 0 /\ newer = joined[1]
    <2>1. joined[1] = items[1] /\ Len(joined) > 0
      BY <1>2, <1>3, <1>5
    <2>2. newer # None => newer = items[1]
      BY DEF ListOK
    <2> QED
      BY <1>11, <1>12, <1>13, <2>1, <2>2
  <1>17. ListOK(b, written, q, joined, next, newer)
    BY <1>5, <1>9, <1>10, <1>15, <1>16 DEF ListOK
  <1> QED
    BY <1>17

\* A page that follows the newer cursor, put before the list.
LEMMA NewerJoined ==
  ASSUME NEW b \in Book, NEW written, NEW q, NEW items, NEW older, NEW newer,
         ListOK(b, written, q, items, older, newer), newer # None,
         NEW ids, NEW hasOlder, NEW hasNewer,
         IsWindow(b, Scope(b, q), ids, hasOlder, hasNewer),
         Continues(b, BesideRows(b, q, "before", newer), ids, "before", hasOlder, hasNewer)
  PROVE  ListOK(b, written, q, Positions(b, ids) \o items,
                older, CursorOf(hasNewer, Positions(b, ids)[1]))
  <1> PICK page : page = Positions(b, ids)
    OBVIOUS
  <1> PICK next : next = CursorOf(hasNewer, page[1])
    OBVIOUS
  <1> PICK joined : joined = page \o items
    OBVIOUS
  <1>1. /\ ids \in Seq(Scope(b, q)) /\ hasNewer \in BOOLEAN
        /\ \A m, n \in 1..Len(ids) : m < n => Newer(b, ids[m], ids[n])
    BY DEF IsWindow
  <1>2. /\ page \in Seq(Position) /\ Len(page) = Len(ids) /\ Len(ids) \in Nat
        /\ \A n \in 1..Len(ids) : /\ page[n] = PositionOf(b, ids[n])
                                  /\ page[n].id = ids[n]
                                  /\ ids[n] \in Scope(b, q)
        /\ \A m, n \in 1..Len(ids) : m < n => NewerThan(page[m], page[n])
    BY <1>1, WindowPositions
  <1>3. /\ items \in Seq(Position) /\ Len(items) \in Nat /\ Len(items) > 0
        /\ newer = items[1]
        /\ \A m, n \in 1..Len(items) : m < n => NewerThan(items[m], items[n])
    BY LenProperties DEF ListOK
  <1>4. /\ \A n \in 1..Len(items) : items[n] \in PositionType
        /\ \A n \in 1..Len(ids) : page[n] \in PositionType
    BY <1>2, <1>3, ElementOfSeq, PositionsAreTyped
  <1>5. /\ joined \in Seq(Position) /\ Len(joined) = Len(ids) + Len(items)
        /\ \A n \in 1..Len(ids) : joined[n] = page[n]
        /\ \A n \in 1..Len(items) : joined[Len(ids) + n] = items[n]
    <2>1. /\ joined \in Seq(Position) /\ Len(joined) = Len(page) + Len(items)
          /\ \A n \in 1..(Len(page) + Len(items)) :
                 joined[n] = IF n <= Len(page) THEN page[n] ELSE items[n - Len(page)]
      <3>1. items \in Seq(Position) /\ page \in Seq(Position) /\ joined = page \o items
        BY <1>2, <1>3
      <3> QED
        BY <3>1, ConcatProperties
    <2> QED
      BY <1>2, <1>3, <2>1
  <1>6. \A n \in 1..Len(joined) :
            \/ n \in 1..Len(ids)
            \/ \E m \in 1..Len(items) : n = Len(ids) + m
    <2>1. TAKE n \in 1..Len(joined)
    <2>2. n \in 1..Len(ids) \/ n - Len(ids) \in 1..Len(items)
      BY <1>2, <1>3, <1>5
    <2>3. n = Len(ids) + (n - Len(ids))
      BY <1>2
    <2> QED
      BY <2>2, <2>3
  <1>7. \A n \in 1..Len(ids) : NewerThan(page[n], newer)
    <2>1. ids \in Seq(BesideRows(b, q, "before", newer))
      BY DEF Continues
    <2>2. \A n \in 1..Len(ids) : ids[n] \in BesideRows(b, q, "before", newer)
      BY <2>1, ElementOfSeq
    <2> QED
      BY <1>2, <2>2 DEF BesideRows, Beside
  <1>8. \A m \in 1..Len(ids), n \in 1..Len(items) : NewerThan(page[m], items[n])
    <2>1. TAKE m \in 1..Len(ids), n \in 1..Len(items)
    <2>2. 1 \in 1..Len(items)
      BY <1>3
    <2>3. n = 1 \/ NewerThan(items[1], items[n])
      BY <1>3, <2>2
    <2> QED
      BY <1>3, <1>4, <1>7, <2>2, <2>3, NewerThanTotal
  <1>9. \A m, n \in 1..Len(joined) : m < n => NewerThan(joined[m], joined[n])
    <2>1. SUFFICES ASSUME NEW m \in 1..Len(joined), NEW n \in 1..Len(joined), m < n
                   PROVE  NewerThan(joined[m], joined[n])
      OBVIOUS
    <2>2. CASE n \in 1..Len(ids)
      <3>1. m \in 1..Len(ids)
        BY <2>1, <2>2
      <3> QED
        BY <1>2, <1>5, <2>1, <2>2, <3>1
    <2>3. ASSUME NEW k \in 1..Len(items), n = Len(ids) + k
          PROVE  NewerThan(joined[m], joined[n])
      <3>1. CASE m \in 1..Len(ids)
        BY <1>5, <1>8, <2>3, <3>1
      <3>2. ASSUME NEW l \in 1..Len(items), m = Len(ids) + l
            PROVE  NewerThan(joined[m], joined[n])
        <4>1. l < k
          BY <1>2, <2>1, <2>3, <3>2
        <4> QED
          BY <1>3, <1>5, <2>3, <3>2, <4>1
      <3> QED
        BY <1>6, <3>1, <3>2
    <2> QED
      BY <1>6, <2>2, <2>3
  <1>10. \A n \in 1..Len(joined) :
             joined[n].id \notin written =>
                 joined[n].id \in Scope(b, q) /\ joined[n] = PositionOf(b, joined[n].id)
    <2>1. TAKE n \in 1..Len(joined)
    <2>2. CASE n \in 1..Len(ids)
      BY <1>2, <1>5, <2>2
    <2>3. ASSUME NEW m \in 1..Len(items), n = Len(ids) + m
          PROVE  joined[n].id \notin written =>
                     joined[n].id \in Scope(b, q) /\ joined[n] = PositionOf(b, joined[n].id)
      BY <1>5, <2>3 DEF ListOK
    <2> QED
      BY <1>6, <2>2, <2>3
  <1>11. /\ Len(ids) > 0 => page[1] \in Position
         /\ hasNewer => Len(ids) > 0
    BY <1>2, ElementOfSeq DEF IsWindow, Above
  <1>12. /\ hasNewer <=> next # None
         /\ hasNewer => next = page[1]
    BY <1>1, <1>11, CursorAssumption DEF CursorOf
  <1>13. /\ Len(ids) > 0 => joined[1] = page[1]
         /\ joined[Len(joined)] = items[Len(items)]
    BY <1>2, <1>3, <1>5
  <1>14. \A j \in Scope(b, q) :
             /\ Listed(ids, j) => ListedAt(joined, PositionOf(b, j))
             /\ Above(b, ids, j) => NewerThan(PositionOf(b, j), joined[1])
             /\ ListedAt(items, PositionOf(b, j)) => ListedAt(joined, PositionOf(b, j))
    <2>1. TAKE j \in Scope(b, q)
    <2>2. Listed(ids, j) => ListedAt(joined, PositionOf(b, j))
      BY <1>2, <1>3, <1>5 DEF Listed, ListedAt
    <2>3. Above(b, ids, j) => NewerThan(PositionOf(b, j), joined[1])
      BY <1>2, <1>13 DEF Above, Newer
    <2>4. ListedAt(items, PositionOf(b, j)) => ListedAt(joined, PositionOf(b, j))
      <3>1. SUFFICES ASSUME NEW n \in 1..Len(items), items[n] = PositionOf(b, j)
                     PROVE  ListedAt(joined, PositionOf(b, j))
        BY DEF ListedAt
      <3>2. Len(ids) + n \in 1..Len(joined) /\ joined[Len(ids) + n] = PositionOf(b, j)
        BY <1>2, <1>3, <1>5, <3>1
      <3> QED
        BY <3>2 DEF ListedAt
    <2> QED
      BY <2>2, <2>3, <2>4
  <1>15. \A i \in Scope(b, q) \ written :
             \/ ListedAt(joined, PositionOf(b, i))
             \/ older # None /\ NewerThan(joined[Len(joined)], PositionOf(b, i))
             \/ next # None /\ NewerThan(PositionOf(b, i), joined[1])
    <2>1. TAKE i \in Scope(b, q) \ written
    <2>2. \/ ListedAt(items, PositionOf(b, i))
          \/ older # None /\ NewerThan(items[Len(items)], PositionOf(b, i))
          \/ NewerThan(PositionOf(b, i), newer)
      BY <1>3 DEF ListOK
    <2>3. ASSUME NewerThan(PositionOf(b, i), newer)
          PROVE  \/ ListedAt(joined, PositionOf(b, i))
                 \/ next # None /\ NewerThan(PositionOf(b, i), joined[1])
      <3>1. i \in BesideRows(b, q, "before", newer)
        BY <2>3 DEF BesideRows, Beside, Scope
      <3>2. Listed(ids, i) \/ (hasNewer /\ Above(b, ids, i))
        BY <3>1 DEF Continues
      <3> QED
        BY <1>12, <1>14, <3>2
    <2> QED
      BY <1>13, <1>14, <2>2, <2>3
  <1>16. /\ next # None => Len(joined) > 0 /\ next = joined[1]
         /\ older # None => Len(joined) > 0 /\ older = joined[Len(joined)]
    <2>1. Len(joined) > 0
      BY <1>2, <1>3, <1>5
    <2>2. older # None => older = items[Len(items)]
      BY DEF ListOK
    <2> QED
      BY <1>11, <1>12, <1>13, <2>1, <2>2
  <1>17. ListOK(b, written, q, joined, older, next)
    BY <1>5, <1>9, <1>10, <1>15, <1>16 DEF ListOK
  <1> QED
    BY <1>17

-----------------------------------------------------------------------------
(* What holds of a request, of the list and of the answers.                *)

ViewOf(b, i) ==
  LET txn == b.txns[i] IN
  [id |-> i, kind |-> KindOf(txn), type |-> txn.type, amount |-> txn.amount,
   timestamp |-> txn.timestamp, description |-> txn.description,
   wallet |-> IF txn.wallet \in b.deleted THEN None ELSE txn.wallet,
   category |-> txn.category, is_archived |-> txn.category \in b.archived]

ViewsOf(b, ids) == [n \in DOMAIN ids |-> ViewOf(b, ids[n])]
IdsOf(items) == [n \in DOMAIN items |-> items[n].id]

SideOf(ask) ==
  IF ask.cursor = None THEN "none"
  ELSE IF ask.cursor.direction = "newer" THEN "before" ELSE "after"
PlaceOf(ask) == IF ask.cursor = None THEN None ELSE ask.cursor.position
RowsAsked(b, ask) == BesideRows(b, ask.query, SideOf(ask), PlaceOf(ask))

\* A window that is shown: of one book, as asked, and as full as it can be.
WindowOK(b, ask, window) ==
  LET ids == IdsOf(window.items) IN
  /\ window.items = ViewsOf(b, ids)
  /\ IsWindow(b, Scope(b, ask.query), ids, window.hasOlder, window.hasNewer)
  /\ Continues(b, RowsAsked(b, ask), ids, SideOf(ask), window.hasOlder, window.hasNewer)
  /\ ask.cursor = None => /\ Len(ids) <= ask.limit
                          /\ window.hasOlder \/ window.hasNewer => Len(ids) = ask.limit
  /\ ask.around # None => Listed(ids, ask.around)

\* What was read so far, of the book of the snapshot.
GotOK(step, b, ask, got) ==
  /\ step = "edge" =>
         /\ got.items = ViewsOf(b, IdsOf(got.items)) /\ Len(IdsOf(got.items)) # 0
         /\ IsSequence(b, SideOf(ask), RowsAsked(b, ask), ask.limit,
                       IdsOf(got.items), got.hasMore)
  /\ step \in {"position", "newer", "older"} => got.target = ViewOf(b, ask.around)
  /\ step \in {"newer", "older"} => /\ ask.around \in Scope(b, ask.query)
                                    /\ got.position = PositionOf(b, ask.around)
  /\ step = "older" =>
         IsSequence(b, "before", NewerIn(b, Scope(b, ask.query), ask.around), ask.limit - 1,
                    got.newer.items, got.newer.hasMore)
  /\ step \in {"summary", "days"} => WindowOK(b, ask, got.window)
  /\ step = "days" => got.summary = getFeedSummary(b, ask.query)

\* A cursor is one of the list that the client has.
AskOK(ask, l) ==
  /\ ask.query \in Queries /\ ask.limit \in Limits
  /\ ask.cursor = None => l = None
  /\ ask.cursor # None =>
         /\ l # None /\ ask.around = None
         /\ ask.cursor.direction \in {"older", "newer"}
         /\ ask.cursor.position
                = (IF ask.cursor.direction = "older" THEN l.older ELSE l.newer)
         /\ ask.cursor.position # None
         /\ ask.cursor.digest = l.query

\* Two books differ in what was written only.
SnapOK(b, c, written) ==
  /\ b \in Book /\ c \in Book /\ written \in SUBSET Ids
  /\ \A i \in Ids \ written : SameTxn(b, c, i)

ReadOK(r, c, written, l) ==
  r.kind = "feed" =>
    /\ AskOK(r.ask, l)
    /\ r.step \in {"check", "page", "target", "edge", "position", "newer", "older",
                   "summary", "days"}
    /\ r.step # "check" => Accepts(r.ask.cursor, r.ask.query)
    /\ r.step \in {"check", "page", "target"} => r.snapshot = None
    /\ r.step = "page" => r.ask.around = None
    /\ r.step = "edge" => r.ask.cursor # None
    /\ r.step \in {"target", "position", "newer", "older"} =>
           r.ask.cursor = None /\ r.ask.around # None
    /\ r.step \in {"edge", "position", "newer", "older", "summary", "days"} =>
           SnapOK(r.snapshot, c, written) /\ GotOK(r.step, r.snapshot, r.ask, r.got)

ListStays(c, written, l) ==
  l # None => /\ written \in SUBSET Ids /\ l.query \in Queries
              /\ ListOK(c, written, l.query, l.items, l.older, l.newer)

SpaceRows(c) == {i \in Rows(c) : c.txns[i].wallet \in SpaceWallets}
IsLatest(c, i) == i \in SpaceRows(c) /\ \A j \in SpaceRows(c) \ {i} : Newer(c, i, j)

\* As long as nothing is written, a count and the latest record are what they are.
AnswerOK(c, written, l, a) ==
  (a # None /\ l # None /\ written = {}) =>
    /\ a.kind = "count" => a.count = Cardinality(Scope(c, a.query))
    /\ a.kind = "latest" /\ a.id # None => IsLatest(c, a.id)

FeedInv ==
  /\ book \in Book
  /\ ReadOK(request, book, touched, list)
  /\ ListStays(book, touched, list)
  /\ AnswerOK(book, touched, list, answer)

-----------------------------------------------------------------------------
(* The views of rows, and the rows of views.                               *)

LEMMA ViewFields ==
  ASSUME NEW b, NEW i
  PROVE  /\ ViewOf(b, i).id = i
         /\ ViewOf(b, i).timestamp = b.txns[i].timestamp
         /\ positionOf(ViewOf(b, i)) = PositionOf(b, i)
  BY DEF ViewOf, positionOf, PositionOf

LEMMA ViewsAre ==
  ASSUME NEW b, NEW S, NEW ids \in Seq(S)
  PROVE  /\ Len(ids) \in Nat /\ DOMAIN ids = 1..Len(ids)
         /\ Len(ViewsOf(b, ids)) = Len(ids) /\ DOMAIN ViewsOf(b, ids) = 1..Len(ids)
         /\ \A n \in 1..Len(ids) : ViewsOf(b, ids)[n] = ViewOf(b, ids[n]) /\ ids[n] \in S
         /\ IdsOf(ViewsOf(b, ids)) = ids
         /\ ViewsOf(b, ids) = ViewsOf(b, IdsOf(ViewsOf(b, ids)))
         /\ ViewsOf(b, ids) = <<>> <=> ids = <<>>
         /\ ids = <<>> <=> Len(ids) = 0
  <1> PICK V : V = {ViewOf(b, i) : i \in S}
    OBVIOUS
  <1> PICK items : items = ViewsOf(b, ids)
    OBVIOUS
  <1>1. Len(ids) \in Nat /\ DOMAIN ids = 1..Len(ids) /\ \A n \in 1..Len(ids) : ids[n] \in S
    BY LenProperties, ElementOfSeq
  <1>2. items = [n \in 1..Len(ids) |-> ViewOf(b, ids[n])]
    BY <1>1 DEF ViewsOf
  <1>3. items \in [1..Len(ids) -> V]
    BY <1>1, <1>2
  <1>4. items \in Seq(V) /\ Len(items) = Len(ids) /\ DOMAIN items = 1..Len(ids)
    BY <1>1, <1>3
  <1>5. \A n \in 1..Len(ids) : items[n] = ViewOf(b, ids[n]) /\ items[n].id = ids[n]
    BY <1>2, ViewFields
  <1>6. IdsOf(items) = [n \in 1..Len(ids) |-> ids[n]]
    BY <1>4, <1>5 DEF IdsOf
  <1>7. IdsOf(items) = ids
    BY <1>1, <1>6
  <1>8. /\ ids = <<>> <=> Len(ids) = 0
        /\ items = <<>> <=> Len(items) = 0
    BY <1>4, EmptySeq
  <1> QED
    BY <1>1, <1>4, <1>5, <1>7, <1>8

LEMMA IdsOfViews ==
  ASSUME NEW b, NEW S, NEW ids \in Seq(S)
  PROVE  IdsOf(ViewsOf(b, ids)) = ids
  BY ViewsAre

\* A window's items and positions from its rows.
LEMMA ViewPositions ==
  ASSUME NEW b, NEW S, NEW ids \in Seq(S)
  PROVE  [n \in DOMAIN ViewsOf(b, ids) |-> positionOf(ViewsOf(b, ids)[n])] = Positions(b, ids)
  BY ViewsAre, ViewFields DEF Positions

-----------------------------------------------------------------------------
(* What a read adds.                                                       *)

LEMMA LimitPositive ==
  ASSUME NEW limit \in Limits
  PROVE  limit \in Nat /\ limit # 0 /\ limit - 1 \in Nat
  BY QueryAssumption DEF FEED_MAX_LIMIT

\* The page that opens a list.
LEMMA FirstPageRead ==
  ASSUME NEW b \in Book, NEW ask, ask.limit \in Limits, ask.cursor = None, ask.around = None,
         NEW page, page = getFeedPage(b, ask.query, ask.limit, SideOf(ask), PlaceOf(ask)),
         NEW items, items = ViewsOf(b, page.items)
  PROVE  /\ items = <<>> => WindowOK(b, ask, Window(<<>>, FALSE, FALSE))
         /\ WindowOK(b, ask, Window(items, page.hasMore, FALSE))
  <1> PICK ids, more : ids = page.items /\ more = page.hasMore
    OBVIOUS
  <1> PICK scope : scope = Scope(b, ask.query)
    OBVIOUS
  <1>1. IsFirstPage(b, scope, ask.limit, ids, more)
    <2>1. page = getFeedPage(b, ask.query, ask.limit, "none", None)
      BY DEF SideOf, PlaceOf
    <2>2. Dated(b, Rows(b)) /\ ask.limit \in Nat /\ ask.limit # 0
      BY BookDated, LimitPositive
    <2> QED
      BY <2>1, <2>2, FirstPage
  <1>2. /\ IsWindow(b, scope, ids, more, FALSE)
        /\ Continues(b, scope, ids, "none", more, FALSE)
        /\ Len(ids) <= ask.limit /\ (more => Len(ids) = ask.limit)
    BY <1>1 DEF IsFirstPage
  <1>3. ids \in Seq(scope) /\ more \in BOOLEAN /\ (more => Len(ids) > 0)
    BY <1>2 DEF IsWindow, Below
  <1>4. /\ IdsOf(items) = ids /\ items = ViewsOf(b, IdsOf(items))
        /\ items = <<>> => Len(ids) = 0
    BY <1>3, ViewsAre
  <1>5. RowsAsked(b, ask) = scope /\ SideOf(ask) = "none"
    BY BesideInScope DEF RowsAsked, SideOf, PlaceOf
  <1>6. WindowOK(b, ask, Window(items, more, FALSE))
    <2> PICK w : w = Window(items, more, FALSE)
      OBVIOUS
    <2>1. w.items = items /\ w.hasOlder = more /\ w.hasNewer = FALSE
      BY DEF Window
    <2> QED
      BY <1>2, <1>4, <1>5, <2>1 DEF WindowOK
  <1>7. items = <<>> => more = FALSE
    BY <1>3, <1>4
  <1> QED
    BY <1>6, <1>7

\* A page after a cursor, of which the other side is still to be probed.
LEMMA CursorPageRead ==
  ASSUME NEW b \in Book, NEW ask, ask.limit \in Limits, ask.cursor # None, ask.around = None,
         NEW page, page = getFeedPage(b, ask.query, ask.limit, SideOf(ask), PlaceOf(ask)),
         NEW items, items = ViewsOf(b, page.items)
  PROVE  /\ items = <<>> => WindowOK(b, ask, Window(<<>>, FALSE, FALSE))
         /\ items # <<>> => GotOK("edge", b, ask, [items |-> items, hasMore |-> page.hasMore])
  <1> PICK ids, more : ids = page.items /\ more = page.hasMore
    OBVIOUS
  <1> PICK rows : rows = RowsAsked(b, ask)
    OBVIOUS
  <1>1. Dated(b, Rows(b)) /\ ask.limit \in Nat /\ ask.limit # 0
    BY BookDated, LimitPositive
  <1>2. IsPage(b, SideOf(ask), rows, ask.limit, page)
    BY <1>1, FeedPage DEF RowsAsked
  <1>3. rows \in SUBSET Scope(b, ask.query) /\ Dated(b, rows)
    BY <1>1, BesideInScope DEF RowsAsked, Dated
  <1>4. IsSequence(b, SideOf(ask), rows, ask.limit, ids, more)
    BY <1>1, <1>2, <1>3, PageSequence
  <1>5. ids \in Seq(rows)
    BY <1>4 DEF IsSequence
  <1>6. /\ IdsOf(items) = ids /\ items = ViewsOf(b, IdsOf(items))
        /\ items = <<>> <=> ids = <<>>
        /\ ids = <<>> <=> Len(ids) = 0
    BY <1>5, ViewsAre
  <1>7. ASSUME items # <<>>
        PROVE  GotOK("edge", b, ask, [items |-> items, hasMore |-> more])
    <2> PICK got : got = [items |-> items, hasMore |-> more]
      OBVIOUS
    <2>1. got.items = items /\ got.hasMore = more
      OBVIOUS
    <2> QED
      BY <1>4, <1>6, <1>7, <2>1 DEF GotOK
  <1>8. ASSUME items = <<>>
        PROVE  WindowOK(b, ask, Window(<<>>, FALSE, FALSE))
    <2>1. rows = {}
      BY <1>1, <1>4, <1>6, <1>8, EmptyPage
    <2> PICK w : w = Window(items, FALSE, FALSE)
      OBVIOUS
    <2>2. w.items = items /\ w.hasOlder = FALSE /\ w.hasNewer = FALSE
      BY DEF Window
    <2>3. ids \in Seq(Scope(b, ask.query)) /\ Len(ids) = 0
      BY <1>3, <1>5, <1>6, <1>8, SeqMonotonic
    <2>4. IsWindow(b, Scope(b, ask.query), ids, FALSE, FALSE)
      BY <2>3 DEF IsWindow
    <2>5. Continues(b, rows, ids, SideOf(ask), FALSE, FALSE)
      BY <1>5, <2>1 DEF Continues
    <2>6. WindowOK(b, ask, w)
      BY <1>6, <2>2, <2>4, <2>5 DEF WindowOK
    <2> QED
      BY <1>8, <2>6
  <1> QED
    BY <1>7, <1>8

\* The page after a cursor, its other side probed.
LEMMA EdgeRead ==
  ASSUME NEW b \in Book, NEW ask, ask.limit \in Limits, ask.cursor # None, ask.around = None,
         ask.cursor.direction \in {"older", "newer"}, ask.cursor.position \in Position,
         NEW got, GotOK("edge", b, ask, got)
  PROVE  LET items == got.items
             beyond(side, item) ==
                 getFeedPage(b, ask.query, 0, side, positionOf(item)).hasMore
         IN  /\ ask.cursor.direction = "newer" =>
                    WindowOK(b, ask, Window(items, beyond("after", items[Len(items)]), got.hasMore))
             /\ ask.cursor.direction # "newer" =>
                    WindowOK(b, ask, Window(items, got.hasMore, beyond("before", items[1])))
  <1> PICK items, more, ids : items = got.items /\ more = got.hasMore /\ ids = IdsOf(items)
    OBVIOUS
  <1> PICK rows, place, q, limit :
          rows = RowsAsked(b, ask) /\ place = ask.cursor.position /\ q = ask.query /\ limit = ask.limit
    OBVIOUS
  <1>1. /\ items = ViewsOf(b, ids) /\ Len(ids) # 0
        /\ IsSequence(b, SideOf(ask), rows, limit, ids, more)
    BY DEF GotOK
  <1>2. /\ Dated(b, Rows(b)) /\ limit \in Nat /\ limit # 0
        /\ place \in PositionType /\ rows = BesideRows(b, q, SideOf(ask), place)
    BY BookDated, LimitPositive, PositionsAreTyped DEF RowsAsked, PlaceOf
  <1>3. ids \in Seq(rows) /\ Len(ids) \in Nat
    BY <1>1 DEF IsSequence
  <1>4. /\ Len(items) = Len(ids)
        /\ \A n \in 1..Len(ids) : positionOf(items[n]) = PositionOf(b, ids[n])
    BY <1>1, <1>3, ViewsAre, ViewFields
  <1>5. /\ positionOf(items[1]) = PositionOf(b, ids[1])
        /\ positionOf(items[Len(items)]) = PositionOf(b, ids[Len(ids)])
    <2>1. 1 \in 1..Len(ids) /\ Len(ids) \in 1..Len(ids)
      BY <1>1, <1>3
    <2> QED
      BY <1>4, <2>1
  <1>6. ASSUME NEW w, w.items = items,
               IsWindow(b, Scope(b, q), ids, w.hasOlder, w.hasNewer),
               Continues(b, rows, ids, SideOf(ask), w.hasOlder, w.hasNewer)
        PROVE  WindowOK(b, ask, w)
    BY <1>1, <1>6 DEF WindowOK
  <1>7. ASSUME ask.cursor.direction = "newer", NEW has,
               has = getFeedPage(b, q, 0, "after", positionOf(items[Len(items)])).hasMore
        PROVE  WindowOK(b, ask, Window(items, has, more))
    <2> PICK w : w = Window(items, has, more)
      OBVIOUS
    <2>1. w.items = items /\ w.hasOlder = has /\ w.hasNewer = more
      BY DEF Window
    <2>2. SideOf(ask) = "before"
      BY <1>7 DEF SideOf
    <2>3. /\ has \in BOOLEAN
          /\ has <=> BesideRows(b, q, "after", PositionOf(b, ids[Len(ids)])) # {}
      BY <1>2, <1>5, <1>7, Probe
    <2>4. /\ IsWindow(b, Scope(b, q), ids, has, more)
          /\ Continues(b, rows, ids, "before", has, more)
      <3>1. /\ ProbedBefore(b, q, place, limit, ids, more, has)
            /\ rows = BesideRows(b, q, "before", place)
        BY <1>1, <1>2, <2>2, <2>3 DEF ProbedBefore
      <3> QED
        BY <1>2, <3>1, WindowBefore
    <2>5. WindowOK(b, ask, w)
      BY <1>6, <2>1, <2>2, <2>4
    <2> QED
      BY <2>5
  <1>8. ASSUME ask.cursor.direction # "newer", NEW has,
               has = getFeedPage(b, q, 0, "before", positionOf(items[1])).hasMore
        PROVE  WindowOK(b, ask, Window(items, more, has))
    <2> PICK w : w = Window(items, more, has)
      OBVIOUS
    <2>1. w.items = items /\ w.hasOlder = more /\ w.hasNewer = has
      BY DEF Window
    <2>2. SideOf(ask) = "after"
      BY <1>8 DEF SideOf
    <2>3. /\ has \in BOOLEAN
          /\ has <=> BesideRows(b, q, "before", PositionOf(b, ids[1])) # {}
      BY <1>2, <1>5, <1>8, Probe
    <2>4. /\ IsWindow(b, Scope(b, q), ids, more, has)
          /\ Continues(b, rows, ids, "after", more, has)
      <3>1. /\ ProbedAfter(b, q, place, limit, ids, more, has)
            /\ rows = BesideRows(b, q, "after", place)
        BY <1>1, <1>2, <2>2, <2>3 DEF ProbedAfter
      <3> QED
        BY <1>2, <3>1, WindowAfter
    <2>5. WindowOK(b, ask, w)
      BY <1>6, <2>1, <2>2, <2>4
    <2> QED
      BY <2>5
  <1> QED
    BY <1>7, <1>8

\* The position of the record to open at, if the selection has it.
LEMMA PositionRead ==
  ASSUME NEW b \in Book, NEW q, NEW i, findFeedPosition(b, q, i) # None
  PROVE  i \in Scope(b, q) /\ findFeedPosition(b, q, i) = PositionOf(b, i)
  BY DEF findFeedPosition, Scope

\* The neighbours on one side of the record.
LEMMA NeighboursRead ==
  ASSUME NEW b \in Book, NEW q, NEW i, NEW k \in Nat, NEW side \in {"before", "after"},
         NEW page, page = getFeedPage(b, q, k, side, PositionOf(b, i)),
         NEW rows, rows = (IF side = "before" THEN NewerIn(b, Scope(b, q), i)
                                              ELSE OlderIn(b, Scope(b, q), i))
  PROVE  IsSequence(b, side, rows, k, page.items, page.hasMore)
  <1>1. rows = BesideRows(b, q, side, PositionOf(b, i))
    BY Neighbours
  <1>2. Dated(b, Rows(b))
    BY BookDated
  <1>3. Dated(b, rows)
    BY <1>1, <1>2, BesideInScope DEF Dated
  <1>4. IsPage(b, side, rows, k, page)
    BY <1>1, <1>2, FeedPage
  <1> QED
    BY <1>3, <1>4, PageSequence

LEMMA SeqOfFunction ==
  ASSUME NEW V, NEW n \in Nat, NEW f \in [1..n -> V]
  PROVE  f \in Seq(V) /\ Len(f) = n /\ DOMAIN f = 1..n
  OBVIOUS

\* The views of rows put together are the views put together.
LEMMA ViewsAround ==
  ASSUME NEW b, NEW S, NEW x \in Seq(S), NEW i \in S, NEW y \in Seq(S)
  PROVE  Three(ViewsOf(b, x), ViewOf(b, i), ViewsOf(b, y)) = ViewsOf(b, Three(x, i, y))
  <1> PICK V : V = {ViewOf(b, j) : j \in S}
    OBVIOUS
  <1> PICK u, v, z : u = ViewsOf(b, x) /\ v = ViewOf(b, i) /\ z = ViewsOf(b, y)
    OBVIOUS
  <1> PICK ids, items : ids = Three(x, i, y) /\ items = Three(u, v, z)
    OBVIOUS
  <1>1. /\ u \in Seq(V) /\ v \in V /\ z \in Seq(V)
        /\ Len(u) = Len(x) /\ Len(z) = Len(y) /\ Len(x) \in Nat /\ Len(y) \in Nat
        /\ \A n \in 1..Len(x) : u[n] = ViewOf(b, x[n])
        /\ \A n \in 1..Len(y) : z[n] = ViewOf(b, y[n])
    <2>1. /\ Len(x) \in Nat /\ DOMAIN x = 1..Len(x) /\ \A n \in 1..Len(x) : x[n] \in S
          /\ Len(y) \in Nat /\ DOMAIN y = 1..Len(y) /\ \A n \in 1..Len(y) : y[n] \in S
      BY LenProperties, ElementOfSeq
    <2>2. u = [n \in 1..Len(x) |-> ViewOf(b, x[n])] /\ z = [n \in 1..Len(y) |-> ViewOf(b, y[n])]
      BY <2>1 DEF ViewsOf
    <2>3. u \in [1..Len(x) -> V] /\ z \in [1..Len(y) -> V]
      BY <2>1, <2>2
    <2>4. u \in Seq(V) /\ Len(u) = Len(x)
      <3>1. u \in [1..Len(x) -> V] /\ Len(x) \in Nat
        BY <2>1, <2>3
      <3> QED
        BY <3>1, SeqOfFunction
    <2>5. z \in Seq(V) /\ Len(z) = Len(y)
      <3>1. z \in [1..Len(y) -> V] /\ Len(y) \in Nat
        BY <2>1, <2>3
      <3> QED
        BY <3>1, SeqOfFunction
    <2> QED
      BY <2>1, <2>2, <2>4, <2>5
  <1>2. /\ ids \in Seq(S) /\ Len(ids) = Len(x) + 1 + Len(y)
        /\ \A n \in 1..Len(x) : ids[n] = x[n]
        /\ ids[Len(x) + 1] = i
        /\ \A n \in 1..Len(y) : ids[Len(x) + 1 + n] = y[n]
    BY AroundPlaces DEF Three
  <1>3. /\ items \in Seq(V) /\ Len(items) = Len(u) + 1 + Len(z)
        /\ \A n \in 1..Len(u) : items[n] = u[n]
        /\ items[Len(u) + 1] = v
        /\ \A n \in 1..Len(z) : items[Len(u) + 1 + n] = z[n]
    <2>1. u \in Seq(V) /\ v \in V /\ z \in Seq(V) /\ items = u \o <<v>> \o z
      BY <1>1 DEF Three
    <2> QED
      BY <2>1, AroundPlaces
  <1>4. \A n \in 1..Len(ids) : items[n] = ViewOf(b, ids[n])
    <2>1. TAKE n \in 1..Len(ids)
    <2>2. CASE n \in 1..Len(x)
      BY <1>1, <1>2, <1>3, <2>2
    <2>3. CASE n = Len(x) + 1
      BY <1>1, <1>2, <1>3, <2>3
    <2>4. CASE n > Len(x) + 1
      <3>1. PICK m \in 1..Len(y) : n = Len(x) + 1 + m
        <4>1. n \in Int /\ n <= Len(x) + 1 + Len(y) /\ Len(x) \in Nat /\ Len(y) \in Nat
          BY <1>1, <1>2
        <4>2. n - Len(x) - 1 \in 1..Len(y) /\ n = Len(x) + 1 + (n - Len(x) - 1)
          BY <2>4, <4>1
        <4> QED
          BY <4>2
      <3> QED
        BY <1>1, <1>2, <1>3, <3>1
    <2> QED
      BY <1>1, <1>2, <2>2, <2>3, <2>4
  <1>5. DOMAIN ids = 1..Len(ids) /\ items \in [1..Len(ids) -> V]
    <2>1. Len(items) = Len(ids)
      BY <1>1, <1>2, <1>3
    <2>2. DOMAIN ids = 1..Len(ids) /\ items \in [1..Len(items) -> V]
      BY <1>2, <1>3, LenProperties
    <2> QED
      BY <2>1, <2>2
  <1>6. items = [n \in 1..Len(ids) |-> items[n]]
    BY <1>5
  <1>7. items = ViewsOf(b, ids)
    BY <1>4, <1>5, <1>6 DEF ViewsOf
  <1> QED
    BY <1>7

\* How many of the neighbours are shown, of k that there is room for.
NewerCount(newer, older, k) == Min({Len(newer), Max({k \div 2, k - Len(older)})})
OlderCount(newer, older, k) == Min({Len(older), k - NewerCount(newer, older, k)})

LEMMA Counts ==
  ASSUME NEW k \in Nat, NEW newer, NEW older,
         Len(newer) \in 0..k, Len(older) \in 0..k
  PROVE  /\ NewerCount(newer, older, k) \in 0..Len(newer)
         /\ OlderCount(newer, older, k) \in 0..Len(older)
         /\ NewerCount(newer, older, k) + OlderCount(newer, older, k) <= k
         /\ NewerCount(newer, older, k) < Len(newer) \/ OlderCount(newer, older, k) < Len(older) =>
                NewerCount(newer, older, k) + OlderCount(newer, older, k) = k
  <1> PICK n, o : n = Len(newer) /\ o = Len(older)
    OBVIOUS
  <1>1. n \in Nat /\ o \in Nat /\ n <= k /\ o <= k
    OBVIOUS
  <1> PICK h : h = k \div 2
    OBVIOUS
  <1>2. h \in Nat /\ h <= k
    BY SMT
  <1>3. Max({h, k - o}) = IF h >= k - o THEN h ELSE k - o
    BY <1>1, <1>2 DEF Max
  <1>4. Max({h, k - o}) \in Nat
    BY <1>1, <1>2, <1>3
  <1> PICK m : m = Max({h, k - o})
    OBVIOUS
  <1>5. NewerCount(newer, older, k) = IF n <= m THEN n ELSE m
    BY <1>1, <1>4 DEF NewerCount, Min
  <1> PICK c : c = NewerCount(newer, older, k)
    OBVIOUS
  <1>6. c \in Nat /\ c <= n /\ c <= k
    BY <1>1, <1>4, <1>5
  <1>7. OlderCount(newer, older, k) = IF o <= k - c THEN o ELSE k - c
    BY <1>1, <1>6 DEF OlderCount, Min
  <1> PICK d : d = OlderCount(newer, older, k)
    OBVIOUS
  <1>8. d = IF o <= k - c THEN o ELSE k - c
    BY <1>7
  <1>9. d \in Nat /\ d <= o /\ c + d <= k
    BY <1>1, <1>6, <1>8
  <1>10. c < n => c >= k - o
    BY <1>1, <1>2, <1>3, <1>5
  <1>11. c < n \/ d < o => c + d = k
    BY <1>1, <1>6, <1>8, <1>10
  <1>12. c \in 0..n /\ d \in 0..o
    BY <1>1, <1>6, <1>9
  <1> QED
    BY <1>9, <1>11, <1>12

LEMMA AroundFull ==
  ASSUME NEW k \in Nat, NEW n \in 0..k, NEW o \in 0..k, NEW c \in 0..n, NEW d \in 0..o,
         c + d <= k, c < n \/ d < o => c + d = k,
         NEW moreN, moreN => n = k, NEW moreO, moreO => o = k,
         moreN \/ moreO \/ n > c \/ o > d
  PROVE  c + d = k
  <1>1. CASE moreN
    BY <1>1
  <1>2. CASE moreO
    BY <1>2
  <1> QED
    BY <1>1, <1>2

\* The rows of the page around a record.
LEMMA AroundRows ==
  ASSUME NEW b \in Book, NEW q, NEW i, NEW limit \in Limits, i \in Scope(b, q),
         NEW x, NEW moreX, IsSequence(b, "before", NewerIn(b, Scope(b, q), i), limit - 1, x, moreX),
         NEW y, NEW moreY, IsSequence(b, "after", OlderIn(b, Scope(b, q), i), limit - 1, y, moreY),
         NEW c, c = NewerCount(x, y, limit - 1), NEW d, d = OlderCount(x, y, limit - 1),
         NEW ids, ids = Around(x, c, i, y, d),
         NEW hasOlder, hasOlder = (moreY \/ Len(y) > d),
         NEW hasNewer, hasNewer = (moreX \/ Len(x) > c)
  PROVE  /\ IsWindow(b, Scope(b, q), ids, hasOlder, hasNewer)
         /\ Continues(b, Scope(b, q), ids, "none", hasOlder, hasNewer)
         /\ Listed(ids, i) /\ Len(ids) <= limit
         /\ hasOlder \/ hasNewer => Len(ids) = limit
         /\ LastOf(x, c) \in Seq(Scope(b, q)) /\ FirstOf(y, d) \in Seq(Scope(b, q))
  <1> PICK scope, k : scope = Scope(b, q) /\ k = limit - 1
    OBVIOUS
  <1>1. k \in Nat /\ limit = k + 1
    BY LimitPositive
  <1>2. Dated(b, scope)
    <2>1. Dated(b, Rows(b))
      BY BookDated
    <2> QED
      BY <2>1, BesideInScope DEF Dated
  <1>3. /\ x \in Seq(NewerIn(b, scope, i)) /\ Len(x) \in 0..k /\ moreX \in BOOLEAN
        /\ y \in Seq(OlderIn(b, scope, i)) /\ Len(y) \in 0..k /\ moreY \in BOOLEAN
        /\ moreX => Len(x) = k
        /\ moreY => Len(y) = k
    BY <1>1 DEF IsSequence
  <1>4. /\ c \in 0..Len(x) /\ d \in 0..Len(y) /\ c + d <= k
        /\ c < Len(x) \/ d < Len(y) => c + d = k
    BY <1>1, <1>3, Counts
  <1>5. /\ hasOlder \in BOOLEAN /\ (hasOlder <=> moreY \/ Len(y) > d)
        /\ hasNewer \in BOOLEAN /\ (hasNewer <=> moreX \/ Len(x) > c)
    <2>1. (moreY \/ Len(y) > d) \in BOOLEAN /\ (moreX \/ Len(x) > c) \in BOOLEAN
      OBVIOUS
    <2> QED
      BY <2>1, Zenon
  <1>6. AroundParts(b, scope, i, k, x, moreX, y, moreY, c, d, hasOlder, hasNewer)
    BY <1>4, <1>5 DEF AroundParts
  <1>7. /\ IsWindow(b, scope, ids, hasOlder, hasNewer)
        /\ Continues(b, scope, ids, "none", hasOlder, hasNewer)
        /\ Len(ids) = c + 1 + d /\ Listed(ids, i)
    BY <1>2, <1>6, WindowAround
  <1>8. hasOlder \/ hasNewer => c + d = k
    <2>1. ASSUME hasOlder \/ hasNewer PROVE moreX \/ moreY \/ Len(x) > c \/ Len(y) > d
      BY <1>5, <2>1
    <2> QED
      BY <1>1, <1>3, <1>4, <2>1, AroundFull
  <1>9. Len(ids) <= limit /\ (hasOlder \/ hasNewer => Len(ids) = limit)
    <2>1. c \in Nat /\ d \in Nat /\ c + d <= k
      BY <1>3, <1>4
    <2>2. PICK length : length = Len(ids) /\ length = c + 1 + d
      BY <1>7
    <2>3. length <= k + 1 /\ (c + d = k => length = k + 1)
      BY <1>1, <2>1, <2>2
    <2> QED
      BY <1>1, <1>8, <2>2, <2>3
  <1>10. LastOf(x, c) \in Seq(scope) /\ FirstOf(y, d) \in Seq(scope)
    <2>1. x \in Seq(scope) /\ y \in Seq(scope)
      <3>1. NewerIn(b, scope, i) \subseteq scope /\ OlderIn(b, scope, i) \subseteq scope
        BY DEF NewerIn, OlderIn
      <3> QED
        BY <1>3, <3>1, SeqMonotonic
    <2>2. c \in Nat /\ d \in Nat
      BY <1>3, <1>4
    <2> QED
      BY <2>1, <2>2, FirstOfCut, LastOfCut
  <1> QED
    BY <1>7, <1>9, <1>10

\* The page around a record.
LEMMA AroundRead ==
  ASSUME NEW b \in Book, NEW ask, ask.limit \in Limits, ask.cursor = None,
         NEW got, GotOK("older", b, ask, got),
         NEW older, older = getFeedPage(b, ask.query, ask.limit - 1, "after", got.position),
         NEW c, c = NewerCount(got.newer.items, older.items, ask.limit - 1),
         NEW d, d = OlderCount(got.newer.items, older.items, ask.limit - 1)
  PROVE  WindowOK(b, ask, Window(ViewsOf(b, LastOf(got.newer.items, c)) \o <<got.target>>
                                     \o ViewsOf(b, FirstOf(older.items, d)),
                                 GoesOn(older, d), GoesOn(got.newer, c)))
  <1>q. PICK q, scope, i, limit :
          q = ask.query /\ scope = Scope(b, q) /\ i = ask.around /\ limit = ask.limit
    OBVIOUS
  <1>x. PICK x, moreX, y, moreY : /\ x = got.newer.items /\ moreX = got.newer.hasMore
                                  /\ y = older.items /\ moreY = older.hasMore
    OBVIOUS
  <1>h. PICK hasOlder, hasNewer : hasOlder = GoesOn(older, d) /\ hasNewer = GoesOn(got.newer, c)
    OBVIOUS
  <1>d. PICK ids : ids = Around(x, c, i, y, d)
    OBVIOUS
  <1>1. /\ got.target = ViewOf(b, i) /\ i \in scope /\ got.position = PositionOf(b, i)
        /\ IsSequence(b, "before", NewerIn(b, scope, i), limit - 1, x, moreX)
    BY <1>q, <1>x DEF GotOK
  <1>2. IsSequence(b, "after", OlderIn(b, scope, i), limit - 1, y, moreY)
    <2>1. older = getFeedPage(b, q, limit - 1, "after", PositionOf(b, i)) /\ limit - 1 \in Nat
      BY <1>q, <1>1, LimitPositive
    <2> QED
      BY <1>q, <1>x, <1>1, <2>1, NeighboursRead
  <1>3. hasOlder = (moreY \/ Len(y) > d) /\ hasNewer = (moreX \/ Len(x) > c)
    BY <1>x, <1>h DEF GoesOn
  <1>4. /\ IsWindow(b, scope, ids, hasOlder, hasNewer)
        /\ Continues(b, scope, ids, "none", hasOlder, hasNewer)
        /\ Listed(ids, i) /\ Len(ids) <= limit
        /\ hasOlder \/ hasNewer => Len(ids) = limit
        /\ LastOf(x, c) \in Seq(scope) /\ FirstOf(y, d) \in Seq(scope)
    <2>1. /\ limit \in Limits /\ i \in Scope(b, q)
          /\ c = NewerCount(x, y, limit - 1) /\ d = OlderCount(x, y, limit - 1)
      BY <1>q, <1>x, <1>1
    <2>2. /\ IsSequence(b, "before", NewerIn(b, Scope(b, q), i), limit - 1, x, moreX)
          /\ IsSequence(b, "after", OlderIn(b, Scope(b, q), i), limit - 1, y, moreY)
      BY <1>q, <1>1, <1>2
    <2>3. /\ IsWindow(b, Scope(b, q), ids, hasOlder, hasNewer)
          /\ Continues(b, Scope(b, q), ids, "none", hasOlder, hasNewer)
          /\ Listed(ids, i) /\ Len(ids) <= limit
          /\ hasOlder \/ hasNewer => Len(ids) = limit
          /\ LastOf(x, c) \in Seq(Scope(b, q)) /\ FirstOf(y, d) \in Seq(Scope(b, q))
      BY <1>d, <1>3, <2>1, <2>2, AroundRows
    <2> QED
      BY <1>q, <2>3
  <1>i. PICK items : items = ViewsOf(b, LastOf(x, c)) \o <<got.target>> \o ViewsOf(b, FirstOf(y, d))
    OBVIOUS
  <1>5. items = ViewsOf(b, ids) /\ IdsOf(items) = ids
    <2> PICK u, v : u = LastOf(x, c) /\ v = FirstOf(y, d)
      OBVIOUS
    <2>1. u \in Seq(scope) /\ v \in Seq(scope) /\ i \in scope
      BY <1>1, <1>4
    <2>2. Three(ViewsOf(b, u), ViewOf(b, i), ViewsOf(b, v)) = ViewsOf(b, Three(u, i, v))
      BY <2>1, ViewsAround
    <2>3. items = ViewsOf(b, ids)
      BY <1>d, <1>i, <1>1, <2>2 DEF Around, Three
    <2>4. ids \in Seq(scope)
      BY <1>4 DEF IsWindow
    <2>5. IdsOf(ViewsOf(b, ids)) = ids
      BY <2>4, IdsOfViews, Zenon
    <2> QED
      BY <2>3, <2>5
  <1>w. PICK w : w = Window(items, hasOlder, hasNewer)
    OBVIOUS
  <1>6. w.items = items /\ w.hasOlder = hasOlder /\ w.hasNewer = hasNewer
    BY <1>w DEF Window
  <1>7. RowsAsked(b, ask) = scope /\ SideOf(ask) = "none"
    BY <1>q, BesideInScope DEF RowsAsked, SideOf, PlaceOf
  <1>8. WindowOK(b, ask, w)
    <2>1. w.items = ViewsOf(b, ids) /\ IdsOf(w.items) = ids
      BY <1>5, <1>6
    <2>2. /\ IsWindow(b, scope, ids, w.hasOlder, w.hasNewer)
          /\ Continues(b, scope, ids, "none", w.hasOlder, w.hasNewer)
          /\ Listed(ids, ask.around) /\ Len(ids) <= ask.limit
          /\ w.hasOlder \/ w.hasNewer => Len(ids) = ask.limit
      BY <1>q, <1>4, <1>6
    <2>3. Scope(b, ask.query) = scope
      BY <1>q
    <2> QED
      BY <1>7, <2>1, <2>2, <2>3, Zenon DEF WindowOK
  <1> QED
    BY <1>x, <1>h, <1>i, <1>w, <1>8

-----------------------------------------------------------------------------
(* What a page adds to the list.                                           *)

\* The positions and the cursors of a page.
PlacesShown(b, window, items, ids) ==
  /\ [n \in DOMAIN items |-> positionOf(items[n])] = Positions(b, ids)
  /\ CursorAt(window.hasOlder, items[Len(items)])
         = CursorOf(window.hasOlder, Positions(b, ids)[Len(ids)])
  /\ CursorAt(window.hasNewer, items[1])
         = CursorOf(window.hasNewer, Positions(b, ids)[1])

LEMMA WindowShown ==
  ASSUME NEW b \in Book, NEW ask, NEW window, WindowOK(b, ask, window),
         NEW items, items = window.items, NEW ids, ids = IdsOf(items)
  PROVE  PlacesShown(b, window, items, ids)
  <1> PICK scope, hasOlder, hasNewer :
          /\ scope = Scope(b, ask.query)
          /\ hasOlder = window.hasOlder /\ hasNewer = window.hasNewer
    OBVIOUS
  <1>1. items = ViewsOf(b, ids) /\ IsWindow(b, scope, ids, hasOlder, hasNewer)
    BY DEF WindowOK
  <1>2. /\ ids \in Seq(scope) /\ hasOlder \in BOOLEAN /\ hasNewer \in BOOLEAN
        /\ hasOlder => Len(ids) > 0
        /\ hasNewer => Len(ids) > 0
    BY <1>1 DEF IsWindow, Below, Above
  <1>3. [n \in DOMAIN items |-> positionOf(items[n])] = Positions(b, ids)
    BY <1>1, <1>2, ViewPositions
  <1>4. /\ Len(ids) \in Nat /\ Len(items) = Len(ids)
        /\ \A n \in 1..Len(ids) : positionOf(items[n]) = Positions(b, ids)[n]
    BY <1>1, <1>2, ViewsAre, ViewFields DEF Positions
  <1>5. /\ hasOlder => positionOf(items[Len(items)]) = Positions(b, ids)[Len(ids)]
        /\ hasNewer => positionOf(items[1]) = Positions(b, ids)[1]
    BY <1>2, <1>4
  <1> QED
    BY <1>3, <1>5 DEF CursorAt, CursorOf, PlacesShown

\* The list of a first page.
LEMMA ListOpened ==
  ASSUME NEW ask, NEW l, AskOK(ask, l), ask.cursor = None,
         NEW b, NEW c, NEW written, SnapOK(b, c, written),
         NEW window, WindowOK(b, ask, window),
         NEW ids, ids = IdsOf(window.items), NEW page, page = Positions(b, ids)
  PROVE  ListOK(c, written, ask.query, page, CursorOf(window.hasOlder, page[Len(ids)]),
                CursorOf(window.hasNewer, page[1]))
  <1> PICK q, older, newer : /\ q = ask.query
                             /\ older = CursorOf(window.hasOlder, page[Len(ids)])
                             /\ newer = CursorOf(window.hasNewer, page[1])
    OBVIOUS
  <1>1. b \in Book /\ written \in SUBSET Ids /\ \A i \in Ids \ written : SameTxn(b, c, i)
    BY DEF SnapOK
  <1>2. /\ IsWindow(b, Scope(b, q), ids, window.hasOlder, window.hasNewer)
        /\ Continues(b, Scope(b, q), ids, "none", window.hasOlder, window.hasNewer)
    BY BesideInScope DEF WindowOK, RowsAsked, SideOf, PlaceOf
  <1>3. ListOK(b, {}, q, page, older, newer)
    BY <1>1, <1>2, FirstList
  <1>4. {} \subseteq written
    OBVIOUS
  <1>5. ListOK(c, written, q, page, older, newer)
    BY <1>1, <1>3, <1>4, ListKept
  <1> QED
    BY <1>5

\* The list of a cursor, as the snapshot of its page shows it.
LEMMA ListSeen ==
  ASSUME NEW l, NEW b, NEW c, NEW written, SnapOK(b, c, written),
         l # None, ListStays(c, written, l)
  PROVE  ListOK(b, written, l.query, l.items, l.older, l.newer)
  <1>1. /\ written \subseteq written
        /\ \A i \in Ids \ written : SameTxn(c, b, i)
    BY SameTxnSymmetric DEF SnapOK
  <1>2. ListOK(c, written, l.query, l.items, l.older, l.newer)
    BY DEF ListStays
  <1> QED
    BY <1>1, <1>2, ListKept

LEMMA ListGoesOn ==
  ASSUME NEW ask, NEW l, AskOK(ask, l), ask.cursor # None, Accepts(ask.cursor, ask.query),
         NEW b, NEW c, NEW written, SnapOK(b, c, written), ListStays(c, written, l),
         NEW window, WindowOK(b, ask, window),
         NEW ids, ids = IdsOf(window.items), NEW page, page = Positions(b, ids)
  PROVE  /\ ask.cursor.direction = "older" =>
                ListOK(c, written, l.query, l.items \o page,
                       CursorOf(window.hasOlder, page[Len(ids)]), l.newer)
         /\ ask.cursor.direction = "newer" =>
                ListOK(c, written, l.query, page \o l.items,
                       l.older, CursorOf(window.hasNewer, page[1]))
  <1> PICK q, items, older, newer :
          q = l.query /\ items = l.items /\ older = l.older /\ newer = l.newer
    OBVIOUS
  <1>1. /\ b \in Book /\ written \in SUBSET Ids /\ written \subseteq written
        /\ \A i \in Ids \ written : SameTxn(b, c, i)
    BY DEF SnapOK
  <1>2. l # None /\ ask.query = q
    BY DEF AskOK, Accepts, selectionDigest
  <1>3. ListOK(b, written, q, items, older, newer)
    BY <1>2, ListSeen
  <1>4. /\ IsWindow(b, Scope(b, q), ids, window.hasOlder, window.hasNewer)
        /\ Continues(b, BesideRows(b, q, SideOf(ask), ask.cursor.position), ids, SideOf(ask),
                     window.hasOlder, window.hasNewer)
    BY <1>2 DEF WindowOK, RowsAsked, PlaceOf
  <1>5. ASSUME ask.cursor.direction = "older"
        PROVE  ListOK(c, written, q, items \o page,
                      CursorOf(window.hasOlder, page[Len(ids)]), newer)
    <2>1. SideOf(ask) = "after" /\ ask.cursor.position = older /\ older # None
      BY <1>5 DEF SideOf, AskOK
    <2>2. Continues(b, BesideRows(b, q, "after", older), ids, "after",
                    window.hasOlder, window.hasNewer)
      BY <1>4, <2>1
    <2> PICK joined, next :
            joined = items \o page /\ next = CursorOf(window.hasOlder, page[Len(ids)])
      OBVIOUS
    <2>3. ListOK(b, written, q, joined, next, newer)
      BY <1>1, <1>3, <1>4, <2>1, <2>2, OlderJoined
    <2>4. ListOK(c, written, q, joined, next, newer)
      BY <1>1, <2>3, ListKept
    <2> QED
      BY <2>4
  <1>6. ASSUME ask.cursor.direction = "newer"
        PROVE  ListOK(c, written, q, page \o items,
                      older, CursorOf(window.hasNewer, page[1]))
    <2>1. SideOf(ask) = "before" /\ ask.cursor.position = newer /\ newer # None
      BY <1>6 DEF SideOf, AskOK
    <2>2. Continues(b, BesideRows(b, q, "before", newer), ids, "before",
                    window.hasOlder, window.hasNewer)
      BY <1>4, <2>1
    <2> PICK joined, next :
            joined = page \o items /\ next = CursorOf(window.hasNewer, page[1])
      OBVIOUS
    <2>3. ListOK(b, written, q, joined, older, next)
      BY <1>1, <1>3, <1>4, <2>1, <2>2, NewerJoined
    <2>4. ListOK(c, written, q, joined, older, next)
      BY <1>1, <2>3, ListKept
    <2> QED
      BY <2>4
  <1> QED
    BY <1>5, <1>6

-----------------------------------------------------------------------------
(* Writes of the others.                                                   *)

\* The newest transaction of the space.
LEMMA LatestRead ==
  ASSUME NEW b \in Book, NEW i, i = getLatest(b), i # None
  PROVE  IsLatest(b, i)
  <1> PICK rows, s : rows = SpaceRows(b) /\ s = InHistoryOrder(b, rows)
    OBVIOUS
  <1>1. rows # {} /\ i = s[1]
    BY DEF getLatest, SpaceRows
  <1>2. Dated(b, rows)
    BY BookDated DEF Dated, SpaceRows
  <1>3. InOrder(b, s, rows)
    BY <1>2, HistoryOrder
  <1>4. Len(s) \in Nat /\ s \in Seq(rows) /\ \A j \in rows : \E n \in 1..Len(s) : s[n] = j
    BY <1>3, LenProperties DEF InOrder
  <1>5. 1 \in 1..Len(s) /\ s[1] \in rows
    <2>1. PICK j \in rows : TRUE
      BY <1>1
    <2>2. PICK n \in 1..Len(s) : s[n] = j
      BY <1>4, <2>1
    <2>3. 1 \in 1..Len(s)
      BY <1>4, <2>2
    <2> QED
      BY <1>4, <2>3, ElementOfSeq
  <1>6. ASSUME NEW j \in rows \ {i} PROVE Newer(b, i, j)
    <2>1. PICK n \in 1..Len(s) : s[n] = j
      BY <1>4, <1>6
    <2>2. 1 < n
      BY <1>1, <1>4, <1>6, <2>1
    <2> QED
      BY <1>1, <1>3, <1>5, <2>1, <2>2 DEF InOrder
  <1> QED
    BY <1>1, <1>5, <1>6 DEF IsLatest

LEMMA SnapKept ==
  ASSUME NEW b, NEW c, NEW d \in Book, NEW written, NEW more, SnapOK(b, c, written),
         more = written \cup Changed(c, d)
  PROVE  SnapOK(b, d, more)
  <1>1. more \in SUBSET Ids
    BY DEF SnapOK, Changed
  <1>2. \A i \in Ids \ more : SameTxn(b, c, i) /\ SameTxn(c, d, i)
    BY UnchangedSame DEF SnapOK
  <1>3. \A i \in Ids \ more : SameTxn(b, d, i)
    BY <1>2, SameTxnTransitive
  <1> QED
    BY <1>1, <1>3 DEF SnapOK

LEMMA ReadKept ==
  ASSUME NEW c \in Book, NEW d \in Book, NEW written, NEW more, NEW l, NEW r,
         written \in SUBSET Ids => more = written \cup Changed(c, d), ReadOK(r, c, written, l)
  PROVE  ReadOK(r, d, more, l)
  <1>1. SnapOK(r.snapshot, c, written) => SnapOK(r.snapshot, d, more)
    <2>1. SnapOK(r.snapshot, c, written) => written \in SUBSET Ids
      BY DEF SnapOK
    <2> QED
      BY <2>1, SnapKept
  <1> QED
    BY <1>1 DEF ReadOK

LEMMA ListStaysKept ==
  ASSUME NEW c \in Book, NEW d \in Book, NEW written, NEW more, NEW l,
         written \in SUBSET Ids => more = written \cup Changed(c, d), ListStays(c, written, l)
  PROVE  ListStays(d, more, l)
  <1>1. SUFFICES ASSUME l # None PROVE ListStays(d, more, l)
    BY DEF ListStays
  <1>2. /\ written \in SUBSET Ids /\ l.query \in Queries
        /\ ListOK(c, written, l.query, l.items, l.older, l.newer)
    BY <1>1 DEF ListStays
  <1>3. written \subseteq more /\ more \in SUBSET Ids
    BY <1>2 DEF Changed
  <1>4. \A i \in Ids \ more : SameTxn(c, d, i)
    BY <1>2, UnchangedSame
  <1>5. ListOK(d, more, l.query, l.items, l.older, l.newer)
    BY <1>2, <1>3, <1>4, ListKept
  <1> QED
    BY <1>2, <1>3, <1>5 DEF ListStays

LEMMA AnswerKept ==
  ASSUME NEW c \in Book, NEW d \in Book, NEW written, NEW more, NEW l, NEW a,
         written \in SUBSET Ids => more = written \cup Changed(c, d),
         l # None => written \in SUBSET Ids, AnswerOK(c, written, l, a)
  PROVE  AnswerOK(d, more, l, a)
  <1>1. SUFFICES ASSUME a # None, l # None, more = {} PROVE AnswerOK(d, more, l, a)
    BY DEF AnswerOK
  <1>2. written = {} /\ Changed(c, d) = {}
    BY <1>1
  <1>3. \A i \in Ids : SameTxn(c, d, i)
    BY <1>2, UnchangedSame
  <1>4. Rows(c) = Rows(d) /\ \A i \in Rows(c) : c.txns[i] = d.txns[i] /\ PositionOf(c, i) = PositionOf(d, i)
    BY <1>3 DEF SameTxn, Rows, PositionOf
  <1>5. \A q : Scope(c, q) = Scope(d, q)
    <2>1. \A q, i : i \in Ids => (i \in Scope(c, q) <=> i \in Scope(d, q))
      BY <1>3, SameInScope
    <2>2. \A q : Scope(c, q) \subseteq Ids /\ Scope(d, q) \subseteq Ids
      BY BesideInScope DEF Rows
    <2> QED
      BY <2>1, <2>2
  <1>6. SpaceRows(c) = SpaceRows(d) /\ SpaceRows(c) \subseteq Rows(c)
    BY <1>4 DEF SpaceRows
  <1>7. \A i : IsLatest(c, i) => IsLatest(d, i)
    BY <1>4, <1>6 DEF IsLatest, Newer
  <1> QED
    BY <1>1, <1>2, <1>5, <1>7 DEF AnswerOK

\* A write leaves a book, and notes what it changed.
LEMMA ArchiveBook ==
  ASSUME book \in Book, NEW k \in Categories, ArchiveCategory(k)
  PROVE  book' \in Book
  <1>1. PICK left, kept :
            /\ left = {l \in book.limits : k \notin l.cats}
            /\ kept = {[l EXCEPT !.cats = @ \ {k}] :
                          l \in {m \in book.limits : k \in m.cats /\ m.cats # {k}}}
    OBVIOUS
  <1>2. left \in SUBSET Cap
    BY <1>1 DEF Book
  <1>3. \A l \in book.limits : [l EXCEPT !.cats = @ \ {k}] \in Cap
    BY DEF Book, Cap
  <1>4. kept \in SUBSET Cap
    BY <1>1, <1>3
  <1>5. book' = [book EXCEPT !.archived = @ \cup {k}, !.limits = left \cup kept]
    BY <1>1 DEF ArchiveCategory, Write
  <1> QED
    BY <1>2, <1>4, <1>5 DEF Book

LEMMA ReorderBook ==
  ASSUME book \in Book, NEW order \in Orders, Reorder(order)
  PROVE  book' \in Book
  <1>1. \A k \in Range(order) : \E n \in DOMAIN order : order[n] = k /\ n \in Nat
    BY OrderAssumption, LenProperties DEF Range
  <1>2. \A k \in Range(order) : (CHOOSE n \in DOMAIN order : order[n] = k) \in Nat
    <2>1. DOMAIN order = 1..Len(order) /\ Len(order) \in Nat
      BY OrderAssumption, LenProperties
    <2> QED
      BY <1>1, <2>1
  <1>3. PICK places :
            places = [k \in Categories |->
                         IF k \in Range(order)
                         THEN (IF TypeOf[order[1]] = "income" THEN 100 ELSE 200)
                                  + (CHOOSE n \in DOMAIN order : order[n] = k)
                         ELSE book.sort[k]]
    OBVIOUS
  <1>4. places \in [Categories -> Nat]
    BY <1>2, <1>3 DEF Book
  <1>5. book' = [book EXCEPT !.sort = places]
    BY <1>3 DEF Reorder, Write
  <1> QED
    BY <1>4, <1>5 DEF Book

LEMMA WritesBook ==
  ASSUME book \in Book, MemberWrites
  PROVE  /\ book' \in Book
         /\ touched' = (IF touched = None THEN None ELSE touched \cup Changed(book, book'))
         /\ UNCHANGED <<request, answer>>
  <1> DEFINE noted == /\ touched' = (IF touched = None THEN None
                                     ELSE touched \cup Changed(book, book'))
                      /\ UNCHANGED <<request, answer>>
  <1>1. ASSUME NEW after, Write(after) PROVE noted
    BY <1>1 DEF Write
  <1>2. ASSUME NEW i \in Ids, NEW d \in Drafts, AddTransaction(i, d) \/ EditTransaction(i, d)
        PROVE  book' \in Book /\ noted
    <2>1. Write([book EXCEPT !.txns[i] = d]) /\ d \in Txn
      BY <1>2, BookAssumption DEF AddTransaction, EditTransaction
    <2>2. book' \in Book
      BY <2>1 DEF Write, Book
    <2> QED
      BY <1>1, <2>1, <2>2
  <1>3. ASSUME NEW i \in Ids, RemoveTransaction(i) PROVE book' \in Book /\ noted
    <2>1. book' \in Book
      BY <1>3 DEF RemoveTransaction, Write, Book
    <2> QED
      BY <1>1, <1>3, <2>1 DEF RemoveTransaction
  <1>4. ASSUME NEW w \in SpaceWallets, DeleteWallet(w) PROVE book' \in Book /\ noted
    <2>1. book' \in Book
      BY <1>4 DEF DeleteWallet, Write, Book
    <2> QED
      BY <1>1, <1>4, <2>1 DEF DeleteWallet
  <1>5. ASSUME NEW k \in Categories, ArchiveCategory(k) \/ RestoreCategory(k)
        PROVE  book' \in Book /\ noted
    <2>1. RestoreCategory(k) => book' \in Book
      BY DEF RestoreCategory, Write, Book
    <2> QED
      BY <1>1, <1>5, <2>1, ArchiveBook DEF ArchiveCategory, RestoreCategory
  <1>6. ASSUME NEW r \in Renames,
               \/ r.id \in SpaceWallets /\ RenameWallet(r.id, r.name)
               \/ r.id \in Categories /\ RenameCategory(r.id, r.name)
        PROVE  book' \in Book /\ noted
    <2> PICK id, name : id = r.id /\ name = r.name
      OBVIOUS
    <2>1. /\ name \in STRING /\ id \in Wallets \cup Categories
          /\ Write([book EXCEPT !.names[id] = name])
      BY <1>6, NameAssumption, SpaceAssumption DEF RenameWallet, RenameCategory
    <2>2. book' \in Book
      BY <2>1 DEF Write, Book
    <2> QED
      BY <1>1, <2>1, <2>2
  <1>7. ASSUME NEW order \in Orders, Reorder(order) PROVE book' \in Book /\ noted
    BY <1>1, <1>7, ReorderBook DEF Reorder
  <1>8. ASSUME NEW l \in Caps, AddLimit(l) PROVE book' \in Book /\ noted
    <2>1. book' \in Book
      BY <1>8, BookAssumption DEF AddLimit, Write, Book
    <2> QED
      BY <1>1, <1>8, <2>1 DEF AddLimit
  <1>9. ASSUME NEW l \in Caps, NEW old \in book.limits, UpdateLimit(old, l)
        PROVE  book' \in Book /\ noted
    <2>1. book' \in Book
      BY <1>9, BookAssumption DEF UpdateLimit, Write, Book
    <2> QED
      BY <1>1, <1>9, <2>1 DEF UpdateLimit
  <1>10. ASSUME NEW l \in book.limits, RemoveLimit(l) PROVE book' \in Book /\ noted
    <2>1. book' \in Book
      BY <1>10 DEF RemoveLimit, Write, Book
    <2> QED
      BY <1>1, <1>10, <2>1 DEF RemoveLimit
  <1> HIDE DEF noted
  <1>11. book' \in Book /\ noted
    BY <1>2, <1>3, <1>4, <1>5, <1>6, <1>7, <1>8, <1>9, <1>10 DEF MemberWrites
  <1> QED
    BY <1>11 DEF noted

-----------------------------------------------------------------------------
(* The steps of a request for a page.                                      *)

LEMMA NoneIsNone ==
  /\ None \notin Book
  /\ \A written \in SUBSET Ids : written # None
  BY NoneAssumption

\* What a request for a page knows of its snapshot and its cursor.
LEMMA FeedFacts ==
  ASSUME FeedInv, request.kind = "feed"
  PROVE  /\ book \in Book /\ AskOK(request.ask, list)
         /\ request.step # "check" => Accepts(request.ask.cursor, request.ask.query)
         /\ request.step = "page" => request.ask.around = None
         /\ request.step = "edge" => request.ask.cursor # None
         /\ request.step \in {"target", "position", "newer", "older"} =>
                request.ask.cursor = None /\ request.ask.around # None
         /\ request.step \in {"check", "page", "target"} =>
                request.snapshot = None /\ Seen = book
         /\ request.step \in {"edge", "position", "newer", "older", "summary", "days"} =>
                /\ Seen = request.snapshot /\ request.snapshot # None
                /\ SnapOK(Seen, book, touched)
                /\ GotOK(request.step, Seen, request.ask, request.got)
         /\ Seen \in Book
  <1>1. ReadOK(request, book, touched, list) /\ book \in Book
    BY DEF FeedInv
  <1>2. request.step \in {"check", "page", "target", "edge", "position", "newer", "older",
                          "summary", "days"}
    BY <1>1 DEF ReadOK
  <1>3. request.step \in {"check", "page", "target"} => request.snapshot = None /\ Seen = book
    BY <1>1 DEF ReadOK, Seen
  <1>4. request.step \in {"edge", "position", "newer", "older", "summary", "days"} =>
            /\ Seen = request.snapshot /\ request.snapshot # None
            /\ SnapOK(request.snapshot, book, touched) /\ request.snapshot \in Book
    BY <1>1, NoneIsNone DEF ReadOK, SnapOK, Seen
  <1>5. Seen \in Book
    BY <1>1, <1>2, <1>3, <1>4
  <1> QED
    BY <1>1, <1>3, <1>4, <1>5 DEF ReadOK

\* A list is there just when there is a cursor.
LEMMA CursorHasList ==
  ASSUME FeedInv, request.kind = "feed"
  PROVE  /\ request.ask.cursor = None => list = None
         /\ request.ask.cursor # None => list # None /\ touched \in SUBSET Ids
  BY FeedFacts DEF AskOK, FeedInv, ListStays

\* A read keeps everything, if what it read is right.
LEMMA AfterRead ==
  ASSUME FeedInv, request.kind = "feed", request.step # "check",
         NEW step \in {"edge", "position", "newer", "older", "summary", "days"}, NEW got,
         Read(step, got), GotOK(step, Seen, request.ask, got),
         step = "edge" => request.ask.cursor # None,
         step \in {"position", "newer", "older"} =>
             request.ask.cursor = None /\ request.ask.around # None
  PROVE  FeedInv'
  <1>1. /\ request' = InProgress("feed", step, request.ask, Seen, SeenAt, got)
        /\ touched' = IF request.ask.cursor = None /\ request.snapshot = None THEN {} ELSE touched
        /\ book' = book /\ list' = list /\ answer' = answer
    BY DEF Read, ReadAndGo
  <1>2. /\ request'.kind = "feed" /\ request'.step = step /\ request'.ask = request.ask
        /\ request'.snapshot = Seen /\ request'.got = got
    BY <1>1 DEF InProgress
  <1>3. SnapOK(Seen, book, touched')
    <2>1. CASE request.step \in {"page", "target"}
      <3>1. Seen = book /\ book \in Book
        BY <2>1, FeedFacts
      <3>2. touched' \in SUBSET Ids
        BY <1>1, <2>1, FeedFacts, CursorHasList
      <3> QED
        BY <3>1, <3>2 DEF SnapOK, SameTxn
    <2>2. CASE request.step \in {"edge", "position", "newer", "older", "summary", "days"}
      BY <1>1, <2>2, FeedFacts
    <2>3. request.step \in {"page", "target", "edge", "position", "newer", "older",
                            "summary", "days"}
      BY DEF FeedInv, ReadOK
    <2> QED
      BY <2>1, <2>2, <2>3
  <1>4. ReadOK(request', book, touched', list)
    <2> PICK r : r = request'
      OBVIOUS
    <2>1. AskOK(r.ask, list) /\ Accepts(r.ask.cursor, r.ask.query)
      BY <1>2, FeedFacts
    <2>2. SnapOK(r.snapshot, book, touched') /\ GotOK(r.step, r.snapshot, r.ask, r.got)
      BY <1>2, <1>3
    <2>3. r.kind = "feed" /\ r.step = step /\ r.ask = request.ask
      BY <1>2
    <2> QED
      BY <2>1, <2>2, <2>3 DEF ReadOK
  <1>5. list # None => touched' = touched
    BY <1>1, FeedFacts DEF AskOK
  <1>6. ListStays(book, touched', list) /\ AnswerOK(book, touched', list, answer)
    BY <1>5 DEF FeedInv, ListStays, AnswerOK
  <1>7. book \in Book
    BY DEF FeedInv
  <1> QED
    BY <1>1, <1>4, <1>6, <1>7 DEF FeedInv

\* A response that is no page leaves the list as it is, and ends the request.
LEMMA AfterRefusal ==
  ASSUME FeedInv, request'.kind # "feed", book' = book, list' = list,
         list # None => touched' = touched,
         answer' # None => answer'.kind # "count" /\ answer'.kind # "latest"
  PROVE  FeedInv'
  BY DEF FeedInv, ReadOK, ListStays, AnswerOK

LEMMA FeedChecked ==
  ASSUME FeedInv, FeedRefused \/ FeedAccepted
  PROVE  FeedInv'
  <1>1. request.kind = "feed" /\ request.step = "check"
    BY DEF FeedRefused, FeedAccepted, InStep
  <1>2. CASE FeedRefused
    <2>1. /\ request' = Idle /\ answer' = Refusal /\ book' = book /\ list' = list
          /\ touched' = touched
      BY <1>2 DEF FeedRefused, Respond
    <2> QED
      BY <2>1, AfterRefusal DEF Idle, Refusal
  <1>3. CASE FeedAccepted
    <2> PICK step : step = IF request.ask.around = None THEN "page" ELSE "target"
      OBVIOUS
    <2>1. /\ request' = InProgress("feed", step, request.ask, request.snapshot, request.at, request.got)
          /\ book' = book /\ list' = list /\ touched' = touched /\ answer' = answer
      BY <1>1, <1>3 DEF FeedAccepted, GoOn
    <2>2. /\ request'.kind = "feed" /\ request'.step = step /\ request'.ask = request.ask
          /\ request'.snapshot = request.snapshot
      BY <2>1 DEF InProgress
    <2>3. Accepts(request.ask.cursor, request.ask.query)
      BY <1>3 DEF FeedAccepted
    <2>4. /\ AskOK(request.ask, list) /\ request.snapshot = None
          /\ request.ask.cursor # None => request.ask.around = None
      BY <1>1, FeedFacts DEF AskOK
    <2>5. ReadOK(request', book, touched, list)
      <3> PICK r : r = request'
        OBVIOUS
      <3> QED
        BY <2>2, <2>3, <2>4 DEF ReadOK
    <2> QED
      BY <2>1, <2>5 DEF FeedInv
  <1> QED
    BY <1>2, <1>3

LEMMA ViewsSeen ==
  ASSUME NEW ids
  PROVE  Views(ids) = ViewsOf(Seen, ids)
  BY DEF Views, ViewsOf, ViewOf, toTransactionView

LEMMA PageIsRead ==
  ASSUME FeedInv, ReadPage
  PROVE  FeedInv'
  <1> PICK b, ask : b = Seen /\ ask = request.ask
    OBVIOUS
  <1> PICK page : page = getFeedPage(b, ask.query, ask.limit, SideOf(ask), PlaceOf(ask))
    OBVIOUS
  <1> PICK items : items = ViewsOf(b, page.items)
    OBVIOUS
  <1>1. request.kind = "feed" /\ request.step = "page"
    BY DEF ReadPage, InStep
  <1>2. b \in Book /\ AskOK(ask, list) /\ ask.around = None /\ ask.limit \in Limits
    BY <1>1, FeedFacts DEF AskOK
  <1>3. /\ SideOf(ask) = (CASE ask.cursor = None -> "none"
                            [] ask.cursor # None /\ ask.cursor.direction = "newer" -> "before"
                            [] OTHER -> "after")
        /\ PlaceOf(ask) = IF ask.cursor = None THEN None ELSE ask.cursor.position
    BY DEF SideOf, PlaceOf
  <1>4. \/ items = <<>> /\ Read("summary", [window |-> Window(<<>>, FALSE, FALSE)])
        \/ /\ items # <<>> /\ ask.cursor = None
           /\ Read("summary", [window |-> Window(items, page.hasMore, FALSE)])
        \/ /\ items # <<>> /\ ask.cursor # None
           /\ Read("edge", [items |-> items, hasMore |-> page.hasMore])
    BY <1>3, ViewsSeen DEF ReadPage
  <1>5. CASE items = <<>> /\ Read("summary", [window |-> Window(<<>>, FALSE, FALSE)])
    <2> PICK got : got = [window |-> Window(<<>>, FALSE, FALSE)]
      OBVIOUS
    <2>1. WindowOK(b, ask, Window(<<>>, FALSE, FALSE))
      BY <1>2, <1>5, FirstPageRead, CursorPageRead
    <2>2. GotOK("summary", b, ask, got)
      BY <2>1 DEF GotOK
    <2> QED
      BY <1>1, <1>5, <2>2, AfterRead
  <1>6. CASE /\ items # <<>> /\ ask.cursor = None
             /\ Read("summary", [window |-> Window(items, page.hasMore, FALSE)])
    <2> PICK got : got = [window |-> Window(items, page.hasMore, FALSE)]
      OBVIOUS
    <2>1. WindowOK(b, ask, Window(items, page.hasMore, FALSE))
      BY <1>2, <1>6, FirstPageRead
    <2>2. GotOK("summary", b, ask, got)
      BY <2>1 DEF GotOK
    <2> QED
      BY <1>1, <1>6, <2>2, AfterRead
  <1>7. CASE /\ items # <<>> /\ ask.cursor # None
             /\ Read("edge", [items |-> items, hasMore |-> page.hasMore])
    <2> PICK got : got = [items |-> items, hasMore |-> page.hasMore]
      OBVIOUS
    <2>1. GotOK("edge", b, ask, got)
      BY <1>2, <1>7, CursorPageRead
    <2> QED
      BY <1>1, <1>7, <2>1, AfterRead
  <1> QED
    BY <1>4, <1>5, <1>6, <1>7

LEMMA CursorPlace ==
  ASSUME NEW ask, NEW l, NEW c, NEW written, AskOK(ask, l), ListStays(c, written, l),
         ask.cursor # None
  PROVE  ask.cursor.position \in Position
  <1>1. /\ l # None /\ ListOK(c, written, l.query, l.items, l.older, l.newer)
        /\ \/ ask.cursor.position = l.older /\ l.older # None
           \/ ask.cursor.position = l.newer /\ l.newer # None
    BY DEF AskOK, ListStays
  <1>2. l.items \in Seq(Position)
    BY <1>1 DEF ListOK
  <1>3. Len(l.items) \in Nat /\ \A n \in 1..Len(l.items) : l.items[n] \in Position
    BY <1>2, LenProperties, ElementOfSeq
  <1>4. /\ l.older # None => Len(l.items) > 0 /\ l.older = l.items[Len(l.items)]
        /\ l.newer # None => Len(l.items) > 0 /\ l.newer = l.items[1]
    BY <1>1 DEF ListOK
  <1> QED
    BY <1>1, <1>3, <1>4

LEMMA EdgeIsRead ==
  ASSUME FeedInv, ReadEdge
  PROVE  FeedInv'
  <1> PICK b, ask, got : b = Seen /\ ask = request.ask /\ got = request.got
    OBVIOUS
  <1> DEFINE beyond(side, item) == getFeedPage(b, ask.query, 0, side, positionOf(item)).hasMore
  <1> PICK items : items = got.items
    OBVIOUS
  <1> PICK window :
          window = IF ask.cursor.direction = "newer"
                   THEN Window(items, beyond("after", items[Len(items)]), got.hasMore)
                   ELSE Window(items, got.hasMore, beyond("before", items[1]))
    OBVIOUS
  <1>1. request.kind = "feed" /\ request.step = "edge"
    BY DEF ReadEdge, InStep
  <1>2. /\ b \in Book /\ AskOK(ask, list) /\ ask.cursor # None
        /\ GotOK("edge", b, ask, got)
    BY <1>1, FeedFacts
  <1>3. /\ ask.limit \in Limits /\ ask.around = None
        /\ ask.cursor.direction \in {"older", "newer"} /\ ask.cursor.position \in Position
    BY <1>2, CursorPlace DEF AskOK, FeedInv
  <1>4. Read("summary", [window |-> window])
    BY DEF ReadEdge
  <1>5. WindowOK(b, ask, window)
    BY <1>2, <1>3, EdgeRead
  <1> PICK new : new = [window |-> window]
    OBVIOUS
  <1>6. GotOK("summary", b, ask, new)
    BY <1>5 DEF GotOK
  <1> QED
    BY <1>1, <1>4, <1>6, AfterRead

LEMMA TargetIsRead ==
  ASSUME FeedInv, ReadTarget
  PROVE  FeedInv'
  <1> PICK b, ask : b = Seen /\ ask = request.ask
    OBVIOUS
  <1>1. request.kind = "feed" /\ request.step = "target"
    BY DEF ReadTarget, InStep
  <1>2. CASE Read("position", [target |-> toTransactionView(request.ask.around)])
    <2> PICK got : got = [target |-> ViewOf(b, ask.around)]
      OBVIOUS
    <2>1. Read("position", got)
      BY <1>2 DEF toTransactionView, ViewOf
    <2>2. GotOK("position", b, ask, got)
      BY DEF GotOK
    <2> QED
      BY <1>1, <2>1, <2>2, FeedFacts, AfterRead
  <1>3. CASE Respond(Refusal) /\ UNCHANGED <<list, touched>>
    <2>1. /\ request' = Idle /\ answer' = Refusal /\ book' = book /\ list' = list
          /\ touched' = touched
      BY <1>3 DEF Respond
    <2> QED
      BY <2>1, AfterRefusal DEF Idle, Refusal
  <1> QED
    BY <1>2, <1>3 DEF ReadTarget

LEMMA PositionIsRead ==
  ASSUME FeedInv, ReadPosition
  PROVE  FeedInv'
  <1> PICK b, ask, old : b = Seen /\ ask = request.ask /\ old = request.got
    OBVIOUS
  <1> PICK position : position = findFeedPosition(b, ask.query, ask.around)
    OBVIOUS
  <1>1. request.kind = "feed" /\ request.step = "position"
    BY DEF ReadPosition, InStep
  <1>2. /\ b \in Book /\ ask.cursor = None /\ ask.around # None /\ list = None
        /\ old.target = ViewOf(b, ask.around)
    BY <1>1, FeedFacts, CursorHasList DEF GotOK
  <1>3. CASE position # None /\ Read("newer", [target |-> old.target, position |-> position])
    <2> PICK got : got = [target |-> old.target, position |-> position]
      OBVIOUS
    <2>1. GotOK("newer", b, ask, got)
      <3>1. /\ ask.around \in Scope(b, ask.query)
            /\ position = PositionOf(b, ask.around)
        BY <1>2, <1>3, PositionRead
      <3> QED
        BY <1>2, <3>1 DEF GotOK
    <2> QED
      BY <1>1, <1>2, <1>3, <2>1, AfterRead
  <1>4. CASE Respond(Refusal) /\ list' = list
    <2>1. request' = Idle /\ answer' = Refusal /\ book' = book /\ list' = list
      BY <1>4 DEF Respond
    <2> QED
      BY <1>2, <2>1, AfterRefusal DEF Idle, Refusal
  <1> QED
    BY <1>3, <1>4 DEF ReadPosition

LEMMA NewerIsRead ==
  ASSUME FeedInv, ReadNewer
  PROVE  FeedInv'
  <1> PICK b, ask, old : b = Seen /\ ask = request.ask /\ old = request.got
    OBVIOUS
  <1> PICK page : page = getFeedPage(b, ask.query, ask.limit - 1, "before", old.position)
    OBVIOUS
  <1> PICK got : got = [target |-> old.target, position |-> old.position, newer |-> page]
    OBVIOUS
  <1>1. request.kind = "feed" /\ request.step = "newer"
    BY DEF ReadNewer, InStep
  <1>2. /\ b \in Book /\ ask.cursor = None /\ ask.around # None /\ AskOK(ask, list)
        /\ GotOK("newer", b, ask, old)
    BY <1>1, FeedFacts
  <1>3. /\ old.target = ViewOf(b, ask.around) /\ ask.around \in Scope(b, ask.query)
        /\ old.position = PositionOf(b, ask.around)
    BY <1>2 DEF GotOK
  <1>4. Read("older", got)
    BY DEF ReadNewer
  <1>5. ask.limit - 1 \in Nat
    BY <1>2, LimitPositive DEF AskOK
  <1>6. IsSequence(b, "before", NewerIn(b, Scope(b, ask.query), ask.around), ask.limit - 1,
                   page.items, page.hasMore)
    <2>1. page = getFeedPage(b, ask.query, ask.limit - 1, "before", PositionOf(b, ask.around))
      BY <1>3
    <2> QED
      BY <1>2, <1>5, <2>1, NeighboursRead
  <1>7. GotOK("older", b, ask, got)
    <2>1. got.target = old.target /\ got.position = old.position /\ got.newer = page
      OBVIOUS
    <2> QED
      BY <1>3, <1>6, <2>1 DEF GotOK
  <1> QED
    BY <1>1, <1>2, <1>4, <1>7, AfterRead

LEMMA OlderIsRead ==
  ASSUME FeedInv, ReadOlder
  PROVE  FeedInv'
  <1>b. PICK b, ask, old : b = Seen /\ ask = request.ask /\ old = request.got
    OBVIOUS
  <1>p. PICK page : page = getFeedPage(b, ask.query, ask.limit - 1, "after", old.position)
    OBVIOUS
  <1>c. PICK c, d : /\ c = NewerCount(old.newer.items, page.items, ask.limit - 1)
                    /\ d = OlderCount(old.newer.items, page.items, ask.limit - 1)
    OBVIOUS
  <1>w. PICK window :
            window = Window(ViewsOf(b, LastOf(old.newer.items, c)) \o <<old.target>>
                                \o ViewsOf(b, FirstOf(page.items, d)),
                            GoesOn(page, d), GoesOn(old.newer, c))
    OBVIOUS
  <1>g. PICK got : got = [window |-> window]
    OBVIOUS
  <1>1. request.kind = "feed" /\ request.step = "older"
    BY DEF ReadOlder, InStep
  <1>2. /\ b \in Book /\ ask.cursor = None /\ AskOK(ask, list)
        /\ GotOK("older", b, ask, old)
    BY <1>b, <1>1, FeedFacts
  <1>3. Read("summary", got)
    BY <1>b, <1>p, <1>c, <1>w, <1>g, ViewsSeen DEF ReadOlder, NewerCount, OlderCount
  <1>4. WindowOK(b, ask, window)
    <2>1. ask.limit \in Limits
      BY <1>2 DEF AskOK
    <2> QED
      BY <1>p, <1>c, <1>w, <1>2, <2>1, AroundRead
  <1>5. GotOK("summary", b, ask, got)
    BY <1>g, <1>4 DEF GotOK
  <1> QED
    <2>1. GotOK("summary", Seen, request.ask, got)
      BY <1>b, <1>5
    <2>2. request.step # "check"
      BY <1>1
    <2> QED
      BY <1>1, <1>3, <2>1, <2>2, AfterRead

LEMMA SummaryIsRead ==
  ASSUME FeedInv, ReadSummary
  PROVE  FeedInv'
  <1> PICK b, ask, old : b = Seen /\ ask = request.ask /\ old = request.got
    OBVIOUS
  <1> PICK got : got = [window |-> old.window, summary |-> getFeedSummary(b, ask.query)]
    OBVIOUS
  <1>1. request.kind = "feed" /\ request.step = "summary"
    BY DEF ReadSummary, InStep
  <1>2. WindowOK(b, ask, old.window)
    BY <1>1, FeedFacts DEF GotOK
  <1>3. Read("days", got)
    BY DEF ReadSummary
  <1>4. GotOK("days", b, ask, got)
    BY <1>2 DEF GotOK
  <1> QED
    BY <1>1, <1>3, <1>4, AfterRead

\* A page is put together with the list it follows, or opens one.
LEMMA PageIsShown ==
  ASSUME FeedInv, RespondEmpty \/ ReadDays
  PROVE  FeedInv'
  <1> PICK b, ask, window : b = Seen /\ ask = request.ask /\ window = request.got.window
    OBVIOUS
  <1> PICK summary, days : RespondPage(window, summary, days)
    BY DEF RespondEmpty, ReadDays
  <1> PICK response : response = PageResponse(window, summary, days)
    OBVIOUS
  <1> PICK items, ids : items = window.items /\ ids = IdsOf(items)
    OBVIOUS
  <1> PICK page : page = Positions(b, ids)
    OBVIOUS
  <1>1. request.kind = "feed" /\ request.step \in {"summary", "days"}
    BY DEF RespondEmpty, ReadDays, InStep
  <1>2. /\ AskOK(ask, list) /\ Accepts(ask.cursor, ask.query)
        /\ SnapOK(b, book, touched) /\ WindowOK(b, ask, window) /\ b \in Book
    BY <1>1, FeedFacts DEF GotOK
  <1>3. /\ request' = Idle /\ answer' = response /\ list' = Joined(response)
        /\ touched' = touched /\ book' = book
    BY DEF RespondPage, Respond
  <1>4. /\ response.items = items /\ response.query = ask.query /\ response.kind = "page"
        /\ response.direction = IF ask.cursor = None THEN None ELSE ask.cursor.direction
        /\ response.older = CursorAt(window.hasOlder, items[Len(items)])
        /\ response.newer = CursorAt(window.hasNewer, items[1])
    BY DEF PageResponse
  <1>5. /\ [n \in DOMAIN items |-> positionOf(items[n])] = page
        /\ response.older = CursorOf(window.hasOlder, page[Len(ids)])
        /\ response.newer = CursorOf(window.hasNewer, page[1])
    <2>1. /\ items = window.items /\ ids = IdsOf(items) /\ page = Positions(b, ids)
          /\ WindowOK(b, ask, window) /\ b \in Book
      BY <1>2
    <2>2. PlacesShown(b, window, items, ids)
      BY <2>1, WindowShown
    <2> QED
      BY <1>4, <2>1, <2>2 DEF PlacesShown
  <1>6. ListStays(book, touched, Joined(response))
    <2>1. touched \in SUBSET Ids /\ ask.query \in Queries
      BY <1>2 DEF SnapOK, AskOK
    <2>2. CASE ask.cursor = None
      <3>1. Joined(response) = [query |-> ask.query, items |-> page,
                                older |-> response.older, newer |-> response.newer]
        <4>1. response.direction = None /\ response.items = items /\ response.query = ask.query
          BY <1>4, <2>2
        <4>2. response.direction # "older" /\ response.direction # "newer"
          BY <4>1, CursorAssumption
        <4> QED
          BY <1>5, <4>1, <4>2 DEF Joined
      <3>2. ListOK(book, touched, ask.query, page, response.older, response.newer)
        BY <1>2, <1>5, <2>2, ListOpened
      <3> QED
        BY <2>1, <3>1, <3>2 DEF ListStays
    <2>3. CASE ask.cursor # None
      <3>1. /\ ListStays(book, touched, list) /\ list.query \in Queries
            /\ ask.cursor.direction \in {"older", "newer"}
        BY <1>2, <2>3 DEF FeedInv, ListStays, AskOK
      <3>2. response.direction = ask.cursor.direction /\ response.direction # None
        BY <1>4, <2>3, <3>1, CursorAssumption
      <3>3. /\ ask.cursor.direction = "older" =>
                   ListOK(book, touched, list.query, list.items \o page, response.older, list.newer)
            /\ ask.cursor.direction = "newer" =>
                   ListOK(book, touched, list.query, page \o list.items, list.older, response.newer)
        BY <1>2, <1>5, <2>3, <3>1, ListGoesOn
      <3>4. CASE ask.cursor.direction = "older"
        <4>1. Joined(response) = [query |-> list.query, items |-> list.items \o page,
                                  older |-> response.older, newer |-> list.newer]
          BY <1>4, <1>5, <3>2, <3>4 DEF Joined
        <4>j. PICK joined, l : joined = list.items \o page /\ l = Joined(response)
          OBVIOUS
        <4>2. /\ l.query = list.query /\ l.items = joined
              /\ l.older = response.older /\ l.newer = list.newer
          <5>1. l = [query |-> list.query, items |-> joined, older |-> response.older, newer |-> list.newer]
            BY <4>j, <4>1
          <5> QED
            BY <5>1
        <4>3. ListOK(book, touched, list.query, joined, response.older, list.newer)
          BY <4>j, <3>3, <3>4
        <4>4. ListOK(book, touched, l.query, l.items, l.older, l.newer) /\ l.query \in Queries
          BY <3>1, <4>2, <4>3
        <4>5. ListStays(book, touched, l)
          BY <2>1, <4>4 DEF ListStays
        <4> QED
          BY <4>j, <4>5
      <3>5. CASE ask.cursor.direction = "newer"
        <4>1. Joined(response) = [query |-> list.query, items |-> page \o list.items,
                                  older |-> list.older, newer |-> response.newer]
          BY <1>4, <1>5, <3>2, <3>5 DEF Joined
        <4>j. PICK joined, l : joined = page \o list.items /\ l = Joined(response)
          OBVIOUS
        <4>2. /\ l.query = list.query /\ l.items = joined
              /\ l.older = list.older /\ l.newer = response.newer
          <5>1. l = [query |-> list.query, items |-> joined, older |-> list.older, newer |-> response.newer]
            BY <4>j, <4>1
          <5> QED
            BY <5>1
        <4>3. ListOK(book, touched, list.query, joined, list.older, response.newer)
          BY <4>j, <3>3, <3>5
        <4>4. ListOK(book, touched, l.query, l.items, l.older, l.newer) /\ l.query \in Queries
          BY <3>1, <4>2, <4>3
        <4>5. ListStays(book, touched, l)
          BY <2>1, <4>4 DEF ListStays
        <4> QED
          BY <4>j, <4>5
      <3> QED
        BY <3>1, <3>4, <3>5
    <2> QED
      BY <2>2, <2>3
  <1>7. ReadOK(request', book, touched, list') /\ AnswerOK(book, touched, list', answer')
    BY <1>3, <1>4 DEF ReadOK, AnswerOK, Idle
  <1> QED
    BY <1>3, <1>6, <1>7 DEF FeedInv

-----------------------------------------------------------------------------
(* The other requests.                                                     *)

\* Writes leave the request, the list and the answers as true as they were.
LEMMA WritesKeepIt ==
  ASSUME FeedInv, MemberWrites, UNCHANGED list
  PROVE  FeedInv'
  <1> PICK more, d : more = touched' /\ d = book'
    OBVIOUS
  <1>1. book \in Book /\ d \in Book /\ request' = request /\ answer' = answer
    BY WritesBook DEF FeedInv
  <1>2. touched \in SUBSET Ids => more = touched \cup Changed(book, d)
    BY WritesBook, NoneIsNone DEF FeedInv
  <1>3. /\ ReadOK(request, book, touched, list) /\ ListStays(book, touched, list)
        /\ AnswerOK(book, touched, list, answer)
    BY DEF FeedInv
  <1>4. list # None => touched \in SUBSET Ids
    BY <1>3 DEF ListStays
  <1>5. ReadOK(request, d, more, list)
    BY <1>1, <1>2, <1>3, ReadKept
  <1>6. ListStays(d, more, list)
    BY <1>1, <1>2, <1>3, ListStaysKept
  <1>7. AnswerOK(d, more, list, answer)
    BY <1>1, <1>2, <1>3, <1>4, AnswerKept
  <1> QED
    BY <1>1, <1>5, <1>6, <1>7 DEF FeedInv

\* A request that asks for no page leaves the list, or forgets it.
LEMMA AfterOther ==
  ASSUME FeedInv, request'.kind # "feed", book' = book,
         list' = None \/ UNCHANGED <<list, touched>>,
         answer' # None => answer'.kind # "count" /\ answer'.kind # "latest"
  PROVE  FeedInv'
  BY DEF FeedInv, ReadOK, ListStays, AnswerOK

\* A cursor of the list is no missing cursor.
LEMMA CursorPlaced ==
  ASSUME FeedInv, list # None, NEW direction \in {"older", "newer"}, list[direction] # None
  PROVE  Cursor(direction, list[direction], list.query) # None
  <1> PICK items, older, newer, place :
          /\ items = list.items /\ older = list.older /\ newer = list.newer
          /\ place = list[direction]
    OBVIOUS
  <1>1. ListOK(book, touched, list.query, items, older, newer) /\ list.query \in Queries
    BY DEF FeedInv, ListStays
  <1>2. items \in Seq(Position)
    BY <1>1 DEF ListOK
  <1>3. Len(items) \in Nat /\ \A n \in 1..Len(items) : items[n] \in Position
    BY <1>2, LenProperties, ElementOfSeq
  <1>4. /\ older # None => Len(items) > 0 /\ older = items[Len(items)]
        /\ newer # None => Len(items) > 0 /\ newer = items[1]
    BY <1>1 DEF ListOK
  <1>5. place \in Position
    BY <1>3, <1>4
  <1>6. list.query \in FeedQuery
    BY <1>1, QueryAssumption
  <1>7. Cursor(direction, place, list.query) \in CursorFields
    BY <1>5, <1>6 DEF Cursor, CursorFields
  <1> QED
    BY <1>7, CursorAssumption

LEMMA FeedAsked ==
  ASSUME FeedInv, FeedRequests
  PROVE  FeedInv'
  <1>1. ASSUME NEW kind, NEW q, NEW limit, NEW cursor, NEW around,
               Ask(kind, q, limit, cursor, around)
        PROVE  /\ request'.kind = kind /\ request'.step = "check" /\ request'.snapshot = None
               /\ request'.ask = [query |-> q, limit |-> limit, cursor |-> cursor, around |-> around]
               /\ answer' = None /\ book' = book
    BY <1>1 DEF Ask, Request, InProgress
  <1>2. ASSUME NEW q \in Queries, NEW limit \in Limits, NEW i \in Targets \cup {None},
               OpenList(q, limit, i)
        PROVE  FeedInv'
    <2> PICK r : r = request'
      OBVIOUS
    <2>1. Ask("feed", q, limit, None, i) /\ list' = None
      BY <1>2 DEF OpenList
    <2>2. /\ r.step = "check" /\ r.snapshot = None /\ answer' = None /\ book' = book
          /\ r.ask = [query |-> q, limit |-> limit, cursor |-> None, around |-> i]
      BY <1>1, <2>1
    <2>3. AskOK(r.ask, None)
      BY <2>2 DEF AskOK
    <2>4. ReadOK(r, book', touched', None)
      BY <2>2, <2>3 DEF ReadOK
    <2> QED
      BY <2>1, <2>2, <2>4 DEF FeedInv, ListStays, AnswerOK
  <1>3. ASSUME NEW q \in Queries, NEW limit \in Limits, NEW direction \in {"older", "newer"},
               FollowCursor(q, limit, direction)
        PROVE  FeedInv'
    <2> PICK r, cursor : /\ r = request'
                         /\ cursor = Cursor(direction, list[direction], list.query)
      OBVIOUS
    <2>1. /\ list # None /\ list[direction] # None /\ list' = list /\ touched' = touched
          /\ Ask("feed", q, limit, cursor, None)
      BY <1>3 DEF FollowCursor, selectionDigest
    <2>2. /\ r.step = "check" /\ r.snapshot = None /\ answer' = None /\ book' = book
          /\ r.ask = [query |-> q, limit |-> limit, cursor |-> cursor, around |-> None]
      BY <1>1, <2>1
    <2>3. cursor # None
      BY CursorPlaced, <2>1
    <2>4. /\ cursor.direction = direction /\ cursor.digest = list.query
          /\ cursor.position = IF direction = "older" THEN list.older ELSE list.newer
      BY DEF Cursor
    <2>5. AskOK(r.ask, list)
      <3> PICK ask : ask = r.ask
        OBVIOUS
      <3>1. ask.query = q /\ ask.limit = limit /\ ask.cursor = cursor /\ ask.around = None
        BY <2>2
      <3> QED
        BY <2>1, <2>3, <2>4, <3>1 DEF AskOK
    <2>6. ReadOK(r, book, touched, list)
      BY <2>2, <2>5 DEF ReadOK
    <2> QED
      BY <2>1, <2>2, <2>6 DEF FeedInv, AnswerOK
  <1>4. ASSUME NEW q \in Queries, AskCount(q) PROVE FeedInv'
    <2>1. request'.kind = "count" /\ answer' = None /\ book' = book /\ UNCHANGED <<list, touched>>
      BY <1>1, <1>4 DEF AskCount
    <2> QED
      BY <2>1, AfterOther
  <1>5. CASE AskLatest
    <2>1. request'.kind = "latest" /\ answer' = None /\ book' = book /\ UNCHANGED <<list, touched>>
      BY <1>1, <1>5 DEF AskLatest
    <2> QED
      BY <2>1, AfterOther
  <1>6. ASSUME NEW i \in Targets, AskOperation(i) \/ AskTransaction(i) PROVE FeedInv'
    <2>1. AskOperation(i) => request'.kind = "operation" /\ answer' = None /\ book' = book
                             /\ list' = None
      BY <1>1 DEF AskOperation
    <2>2. AskTransaction(i) => request'.kind = "transaction" /\ answer' = None /\ book' = book
                               /\ UNCHANGED <<list, touched>>
      BY <1>1 DEF AskTransaction
    <2> QED
      BY <1>6, <2>1, <2>2, AfterOther
  <1> QED
    BY <1>2, <1>3, <1>4, <1>5, <1>6 DEF FeedRequests

\* The steps of the other reads of the history.
LEMMA OthersAnswered ==
  ASSUME FeedInv,
         CountChecked \/ ReadCount \/ ReadLatest \/ ReadTransaction \/ ReadOperation
             \/ ReadItsTransaction
  PROVE  FeedInv'
  <1>1. ASSUME NEW response, Respond(response), UNCHANGED <<list, touched>>,
               response.kind # "count", response.kind # "latest"
        PROVE  FeedInv'
    <2>1. /\ request' = Idle /\ answer' = response /\ book' = book /\ list' = list
          /\ touched' = touched
      BY <1>1 DEF Respond
    <2> QED
      BY <1>1, <2>1, AfterRefusal DEF Idle
  <1>2. Refusal.kind = "refused"
    BY DEF Refusal
  <1>3. ASSUME CountChecked PROVE FeedInv'
    <2>1. CASE Respond(Refusal) /\ UNCHANGED <<list, touched>>
      BY <1>1, <1>2, <2>1
    <2>2. CASE GoOn("count") /\ UNCHANGED list
      <3>1. /\ request' = InProgress("count", "count", request.ask, request.snapshot,
                                     request.at, request.got)
            /\ book' = book /\ touched' = touched /\ list' = list /\ answer' = answer
        BY <1>3, <2>2 DEF CountChecked, InStep, GoOn
      <3>2. request'.kind = "count"
        BY <3>1 DEF InProgress
      <3> QED
        BY <3>1, <3>2 DEF FeedInv, ReadOK
    <2> QED
      BY <1>3, <2>1, <2>2 DEF CountChecked
  <1>4. ASSUME ReadCount PROVE FeedInv'
    <2> PICK q, response :
            /\ q = request.ask.query
            /\ response = [kind |-> "count", query |-> q, count |-> countForAllWallets(book, q)]
      OBVIOUS
    <2>1. /\ request' = Idle /\ answer' = response /\ book' = book /\ list' = list
          /\ touched' = touched
      BY <1>4 DEF ReadCount, Respond
    <2>2. /\ response.kind = "count" /\ response.query = q
          /\ response.count = Cardinality(Scope(book, q))
      BY DEF countForAllWallets, Scope
    <2>3. AnswerOK(book, touched, list, response)
      BY <2>2 DEF AnswerOK
    <2> QED
      BY <2>1, <2>3 DEF FeedInv, ReadOK, Idle
  <1>5. ASSUME ReadLatest PROVE FeedInv'
    <2> PICK i, response : i = getLatest(book) /\ response = [kind |-> "latest", id |-> i]
      OBVIOUS
    <2>1. /\ request' = Idle /\ answer' = response /\ book' = book /\ list' = list
          /\ touched' = touched
      BY <1>5 DEF ReadLatest, Respond
    <2>2. i # None => IsLatest(book, i)
      BY LatestRead DEF FeedInv
    <2>3. AnswerOK(book, touched, list, response)
      BY <2>2 DEF AnswerOK
    <2> QED
      BY <2>1, <2>3 DEF FeedInv, ReadOK, Idle
  <1>6. ASSUME ReadTransaction PROVE FeedInv'
    <2> PICK view : view = toTransactionView(request.ask.around)
      OBVIOUS
    <2>1. /\ \/ Respond(Refusal)
             \/ Respond([kind |-> "transaction", view |-> view])
          /\ UNCHANGED <<list, touched>>
      BY <1>6 DEF ReadTransaction
    <2> QED
      BY <1>1, <1>2, <2>1
  <1>7. ASSUME ReadOperation PROVE FeedInv'
    <2>1. CASE Respond(Refusal) /\ UNCHANGED <<list, touched>>
      BY <1>1, <1>2, <2>1
    <2>2. CASE /\ UNCHANGED <<list, touched>>
               /\ \E got : ReadAndGo("transaction", got)
      <3> PICK got : ReadAndGo("transaction", got)
        BY <2>2
      <3>1. /\ request' = InProgress("operation", "transaction", request.ask, Seen, SeenAt, got)
            /\ book' = book /\ touched' = touched /\ list' = list /\ answer' = answer
        BY <1>7, <2>2 DEF ReadOperation, InStep, ReadAndGo
      <3>2. request'.kind = "operation"
        BY <3>1 DEF InProgress
      <3> QED
        BY <3>1, <3>2 DEF FeedInv, ReadOK
    <2> QED
      BY <1>7, <2>1, <2>2 DEF ReadOperation
  <1>8. ASSUME ReadItsTransaction PROVE FeedInv'
    <2> PICK i, status, dated, view :
            /\ Respond([kind |-> "operation", id |-> i, status |-> status,
                        deleted_at |-> dated, transaction |-> view])
            /\ UNCHANGED <<list, touched>>
      BY <1>8 DEF ReadItsTransaction
    <2> QED
      BY <1>1
  <1> QED
    BY <1>3, <1>4, <1>5, <1>6, <1>7, <1>8

\* The statistics and the overviews have nothing to do with the list.
LEMMA StatisticsAside ==
  ASSUME FeedInv, StatisticsSteps, UNCHANGED list
  PROVE  FeedInv'
  <1>1. ASSUME NEW kind, NEW step, NEW snapshot, NEW at, NEW got, kind # "feed",
               request' = InProgress(kind, step, request.ask, snapshot, at, got),
               UNCHANGED <<book, touched, answer>>
        PROVE  FeedInv'
    <2>1. request'.kind # "feed"
      BY <1>1 DEF InProgress
    <2> QED
      BY <1>1, <2>1 DEF FeedInv, ReadOK
  <1>2. ASSUME NEW block, RespondBlock(block), UNCHANGED touched
        PROVE  FeedInv'
    <2>1. request' = Idle /\ answer' = None /\ book' = book /\ list' = list /\ touched' = touched
      BY <1>2 DEF RespondBlock, Respond
    <2> QED
      BY <2>1, AfterRefusal DEF Idle
  <1>3. ASSUME OpenRefused PROVE FeedInv'
    <2>1. /\ request' = Idle /\ answer' = Refusal /\ book' = book /\ list' = list
          /\ touched' = touched
      BY <1>3 DEF OpenRefused, Respond
    <2> QED
      BY <2>1, AfterRefusal DEF Idle, Refusal
  <1>4. ASSUME OpenBlock PROVE FeedInv'
    <2>1. request.kind # "feed" /\ UNCHANGED <<book, touched, answer>>
      BY <1>4 DEF OpenBlock, Blocks
    <2>2. PICK step, got : request' = InProgress(request.kind, step, request.ask,
                                                 request.snapshot, request.at, got)
      BY <1>4 DEF OpenBlock
    <2> QED
      BY <1>1, <2>1, <2>2
  <1>5. ASSUME NEW step, NEW got, ReadAndGo(step, got), UNCHANGED touched, request.kind # "feed"
        PROVE  FeedInv'
    BY <1>1, <1>5 DEF ReadAndGo
  <1>6. ASSUME ReadTotals PROVE FeedInv'
    BY <1>5, <1>6 DEF ReadTotals, InStep
  <1>7. ASSUME ReadPrevious PROVE FeedInv'
    BY <1>5, <1>7 DEF ReadPrevious, InStep
  <1>8. ASSUME ReadLast PROVE FeedInv'
    BY <1>2, <1>8 DEF ReadLast
  <1>9. ASSUME ReadTrend PROVE FeedInv'
    BY <1>2, <1>9 DEF ReadTrend
  <1>10. ASSUME ReadCategories PROVE FeedInv'
    BY <1>2, <1>5, <1>10 DEF ReadCategories, RespondBreakdown, InStep
  <1>11. ASSUME ReadWallets PROVE FeedInv'
    BY <1>2, <1>11 DEF ReadWallets, RespondBreakdown
  <1> QED
    BY <1>3, <1>4, <1>6, <1>7, <1>8, <1>9, <1>10, <1>11 DEF StatisticsSteps

LEMMA OverviewsAside ==
  ASSUME FeedInv, OverviewSteps, UNCHANGED list
  PROVE  FeedInv'
  <1>1. ASSUME NEW step, NEW got, Reads(step, got), request.kind # "feed"
        PROVE  FeedInv'
    <2>1. /\ request' = InProgress(request.kind, step, request.ask, Seen, SeenAt, got)
          /\ book' = book /\ touched' = touched /\ list' = list /\ answer' = answer
      BY <1>1 DEF Reads, ReadAndGo
    <2>2. request'.kind # "feed"
      BY <1>1, <2>1 DEF InProgress
    <2> QED
      BY <2>1, <2>2 DEF FeedInv, ReadOK
  <1>2. ASSUME NEW overview, Shows(overview), overview.kind \in {"wallets", "limits", "categories"}
        PROVE  FeedInv'
    <2>1. /\ request' = Idle /\ answer' = overview /\ book' = book /\ list' = list
          /\ touched' = touched
      BY <1>2 DEF Shows, Respond
    <2> QED
      BY <1>2, <2>1, AfterRefusal DEF Idle
  <1>3. ASSUME ReadActiveWallets PROVE FeedInv'
    BY <1>1, <1>3 DEF ReadActiveWallets, InStep
  <1>4. ASSUME ReadPeriodTotals PROVE FeedInv'
    BY <1>1, <1>4 DEF ReadPeriodTotals, InStep
  <1>5. ASSUME ReadBalances PROVE FeedInv'
    <2> PICK overview :
            overview = buildOverview(request.got.wallets, request.got.periodTotals,
                                     getBalances(Seen, request.got.wallets))
      OBVIOUS
    <2>1. overview.kind = "wallets"
      BY DEF buildOverview
    <2>2. Shows(overview)
      BY <1>5 DEF ReadBalances
    <2> QED
      BY <1>2, <2>1, <2>2
  <1>6. ASSUME ReadLimits PROVE FeedInv'
    BY <1>1, <1>6 DEF ReadLimits, InStep
  <1>7. ASSUME ReadSpending PROVE FeedInv'
    <2> PICK period, spending :
            Shows([kind |-> "limits", period |-> period, spending |-> spending])
      BY <1>7 DEF ReadSpending
    <2> QED
      BY <1>2
  <1>8. ASSUME ReadCategoryRows PROVE FeedInv'
    BY <1>1, <1>8 DEF ReadCategoryRows, InStep
  <1>9. ASSUME ReadCounts PROVE FeedInv'
    BY <1>1, <1>9 DEF ReadCounts, InStep
  <1>10. ASSUME ReadLimitMembership PROVE FeedInv'
    <2> PICK incomes, expenses, archived :
            Shows([kind |-> "categories", incomes |-> incomes, expenses |-> expenses,
                   archived |-> archived])
      BY <1>10 DEF ReadLimitMembership
    <2> QED
      BY <1>2
  <1> QED
    BY <1>3, <1>4, <1>5, <1>6, <1>7, <1>8, <1>9, <1>10 DEF OverviewSteps

LEMMA OthersAsked ==
  ASSUME FeedInv, StatisticsRequests \/ OverviewRequests, list' = None
  PROVE  FeedInv'
  <1>1. ASSUME NEW kind, NEW step, NEW ask, kind # "feed",
               request' = Request(kind, step, ask), answer' = None, book' = book
        PROVE  FeedInv'
    <2>1. request'.kind # "feed"
      BY <1>1 DEF Request, InProgress
    <2> QED
      BY <1>1, <2>1, AfterOther
  <1>2. ASSUME NEW block \in {"summary", "trend", "breakdown"}, NEW q, NEW type,
               AskBlock(block, q, type)
        PROVE  FeedInv'
    BY <1>1, <1>2 DEF AskBlock
  <1>3. ASSUME NEW kind \in {"wallets", "limits", "categories"}, NEW step, NEW ask,
               AskOverview(kind, step, ask)
        PROVE  FeedInv'
    BY <1>1, <1>3 DEF AskOverview
  <1>4. ASSUME StatisticsRequests PROVE FeedInv'
    BY <1>2, <1>4 DEF StatisticsRequests
  <1>5. ASSUME OverviewRequests PROVE FeedInv'
    BY <1>3, <1>5 DEF OverviewRequests
  <1> QED
    BY <1>4, <1>5

-----------------------------------------------------------------------------
(* The inductive invariant.                                                *)

LEMMA FeedInit ==
  Init => FeedInv
  <1>1. ASSUME Init PROVE book \in Book /\ request.kind # "feed" /\ list = None
    BY <1>1, BookAssumption DEF Init, Idle
  <1> QED
    BY <1>1 DEF FeedInv, ReadOK, ListStays, AnswerOK

LEMMA FeedNext ==
  FeedInv /\ [Next]_vars => FeedInv'
  <1>1. SUFFICES ASSUME FeedInv, [Next]_vars PROVE FeedInv'
    OBVIOUS
  <1>2. CASE MemberWrites /\ UNCHANGED <<list, cycle>>
    BY <1>1, <1>2, WritesKeepIt
  <1>3. ASSUME NEW now \in Nows, Tick(now), UNCHANGED <<list, cycle>> PROVE FeedInv'
    BY <1>1, <1>3 DEF Tick, FeedInv
  <1>4. CASE FeedRequests
    BY <1>1, <1>4, FeedAsked
  <1>5. CASE FeedSteps
    BY <1>1, <1>5, FeedChecked, PageIsRead, EdgeIsRead, TargetIsRead, PositionIsRead, NewerIsRead,
       OlderIsRead, SummaryIsRead, PageIsShown, OthersAnswered DEF FeedSteps
  <1>6. CASE (StatisticsRequests \/ OverviewRequests) /\ list' = None
    BY <1>1, <1>6, OthersAsked
  <1>7. CASE StatisticsSteps /\ UNCHANGED list
    BY <1>1, <1>7, StatisticsAside
  <1>8. CASE OverviewSteps /\ UNCHANGED <<list, cycle>>
    BY <1>1, <1>8, OverviewsAside
  <1>9. CASE UNCHANGED vars
    BY <1>1, <1>9 DEF vars, history, FeedInv
  <1> QED
    BY <1>1, <1>2, <1>3, <1>4, <1>5, <1>6, <1>7, <1>8, <1>9 DEF Next

\* Every request reads one moment, and the list keeps to what the book has.
THEOREM FeedInvariance ==
  Spec => []FeedInv
  <1>1. Init => FeedInv
    BY FeedInit
  <1>2. FeedInv /\ [Next]_vars => FeedInv'
    BY FeedNext
  <1> QED
    BY <1>1, <1>2, PTL DEF Spec

-----------------------------------------------------------------------------
(* What a client may rely on.                                              *)

\* A list's positions, apart from each other.
LEMMA ListTyped ==
  ASSUME NEW b, NEW written, NEW q, NEW items, NEW older, NEW newer,
         ListOK(b, written, q, items, older, newer)
  PROVE  /\ Len(items) \in Nat /\ DOMAIN items = 1..Len(items)
         /\ \A n \in 1..Len(items) : items[n] \in PositionType /\ items[n].id \in Ids
         /\ \A m, n \in 1..Len(items) : m < n => NewerThan(items[m], items[n])
  <1>1. items \in Seq(Position)
    BY DEF ListOK
  <1>2. \A n \in 1..Len(items) : items[n] \in Position
    BY <1>1, ElementOfSeq
  <1> QED
    BY <1>1, <1>2, LenProperties, PositionsAreTyped DEF ListOK, Position

\* A record is in the list once if it is between the cursors, and not else.
LEMMA ListedOnce ==
  ASSUME NEW b \in Book, NEW written, NEW q, NEW items, NEW older, NEW newer,
         ListOK(b, written, q, items, older, newer),
         NEW i \in Scope(b, q) \ written, NEW p, p = PositionOf(b, i)
  PROVE  Cardinality({n \in DOMAIN items : items[n].id = i})
             = (IF \/ newer # None /\ NewerThan(p, items[1])
                   \/ older # None /\ NewerThan(items[Len(items)], p)
                THEN 0 ELSE 1)
  <1> DEFINE Places == {n \in DOMAIN items : items[n].id = i}
  <1> PICK above, below : /\ above \in BOOLEAN /\ below \in BOOLEAN
                          /\ above <=> newer # None /\ NewerThan(p, items[1])
                          /\ below <=> older # None /\ NewerThan(items[Len(items)], p)
    <2>1. \A P : \E x \in BOOLEAN : x <=> P
      OBVIOUS
    <2> QED
      BY Zenon
  <1>1. /\ Len(items) \in Nat /\ DOMAIN items = 1..Len(items)
        /\ \A n \in 1..Len(items) : items[n] \in PositionType
        /\ \A m, n \in 1..Len(items) : m < n => NewerThan(items[m], items[n])
    BY ListTyped
  <1>2. p \in PositionType
    BY BesideInScope, PositionInType, PositionsAreTyped
  <1>3. p.id = i
    BY DEF PositionOf
  <1>4. \A n \in 1..Len(items) : items[n].id = i <=> items[n] = p
    BY <1>3 DEF ListOK
  <1>5. \A m, n \in 1..Len(items) : items[m] = p /\ items[n] = p => m = n
    BY <1>1, <1>2, NewerThanTotal
  <1>6. ASSUME NEW n \in 1..Len(items), items[n] = p
        PROVE  Places = {n} /\ ~above /\ ~below
    <2>1. Places = {n}
      BY <1>1, <1>4, <1>5, <1>6
    <2>2. 1 \in 1..Len(items) /\ Len(items) \in 1..Len(items)
      BY <1>1
    <2>3. n = 1 \/ NewerThan(items[1], p)
      BY <1>1, <1>6, <2>2
    <2>4. n = Len(items) \/ NewerThan(p, items[Len(items)])
      <3>i. PICK k : k = Len(items)
        OBVIOUS
      <3>1. k \in Nat /\ n \in 1..k => n = k \/ n < k
        OBVIOUS
      <3> QED
        BY <1>1, <1>6, <2>2, <3>i, <3>1
    <2>5. ~NewerThan(p, items[1]) /\ ~NewerThan(items[Len(items)], p)
      BY <1>1, <1>2, <1>6, <2>2, <2>3, <2>4, NewerThanTotal
    <2> QED
      BY <2>1, <2>5
  <1>7. CASE ListedAt(items, p)
    <2>1. PICK n \in 1..Len(items) : items[n] = p
      BY <1>7 DEF ListedAt
    <2>2. Cardinality(Places) = 1
      BY <1>6, <2>1, FS_Singleton
    <2> QED
      BY <1>6, <2>1, <2>2
  <1>8. CASE ~ListedAt(items, p)
    <2>1. Places = {}
      BY <1>1, <1>4, <1>8 DEF ListedAt
    <2>2. above \/ below
      BY <1>8 DEF ListOK
    <2>3. Cardinality(Places) = 0
      BY <2>1, FS_EmptySet
    <2> QED
      BY <2>2, <2>3
  <1> QED
    BY <1>7, <1>8

\* A list without cursors is the whole selection.
LEMMA WholeList ==
  ASSUME NEW b \in Book, NEW q, NEW items, ListOK(b, {}, q, items, None, None)
  PROVE  Cardinality(Scope(b, q)) = Len(items)
  <1> PICK f : f = [n \in 1..Len(items) |-> items[n].id]
    OBVIOUS
  <1>1. /\ Len(items) \in Nat
        /\ \A n \in 1..Len(items) : items[n] \in PositionType
        /\ \A m, n \in 1..Len(items) : m < n => NewerThan(items[m], items[n])
    BY ListTyped
  <1>2. \A n \in 1..Len(items) : items[n].id \in Scope(b, q) /\ items[n] = PositionOf(b, items[n].id)
    BY DEF ListOK
  <1>3. \A m, n \in 1..Len(items) : f[m] = f[n] => m = n
    <2>1. SUFFICES ASSUME NEW m \in 1..Len(items), NEW n \in 1..Len(items), f[m] = f[n] PROVE m = n
      OBVIOUS
    <2>2. items[m] = items[n]
      BY <1>2, <2>1
    <2> QED
      BY <1>1, <2>2, NewerThanTotal
  <1>4. \A i \in Scope(b, q) : \E n \in 1..Len(items) : f[n] = i
    <2>1. TAKE i \in Scope(b, q)
    <2>2. PICK n \in 1..Len(items) : items[n] = PositionOf(b, i)
      BY DEF ListOK, ListedAt
    <2>3. f[n] = i
      BY <2>2 DEF PositionOf
    <2> QED
      BY <2>3
  <1>5. f \in Bijection(1..Len(items), Scope(b, q))
    BY <1>2, <1>3, <1>4 DEF Bijection, Injection, Surjection, IsInjective
  <1>6. IsFiniteSet(1..Len(items)) /\ Cardinality(1..Len(items)) = Len(items)
    <2>1. /\ 1 \in Int /\ Len(items) \in Int
          /\ (IF 1 > Len(items) THEN 0 ELSE Len(items) - 1 + 1) = Len(items)
      BY <1>1
    <2> QED
      BY <2>1, FS_Interval
  <1> QED
    BY <1>5, <1>6, FS_Bijection DEF ExistsBijection

\* The latest record of the space is the first of a list that has nothing newer
\* to load, if the selection has it.
LEMMA LatestFirst ==
  ASSUME NEW b \in Book, NEW q, NEW items, NEW older, ListOK(b, {}, q, items, older, None),
         NEW i \in Scope(b, q), IsLatest(b, i)
  PROVE  items[1].id = i
  <1> PICK p : p = PositionOf(b, i)
    OBVIOUS
  <1>1. /\ Len(items) \in Nat
        /\ \A n \in 1..Len(items) : items[n] \in PositionType
        /\ \A m, n \in 1..Len(items) : m < n => NewerThan(items[m], items[n])
    BY ListTyped
  <1>2. p \in PositionType
    BY BesideInScope, PositionInType, PositionsAreTyped
  <1>3. ListedAt(items, p) \/ (Len(items) > 0 /\ NewerThan(items[Len(items)], p))
    BY DEF ListOK
  <1>4. 1 \in 1..Len(items) /\ Len(items) \in 1..Len(items)
    BY <1>1, <1>3 DEF ListedAt
  <1>5. items[1] = p \/ NewerThan(items[1], p)
    <2>1. CASE ListedAt(items, p)
      BY <1>1, <1>4, <2>1 DEF ListedAt
    <2>2. CASE NewerThan(items[Len(items)], p)
      <3>1. Len(items) = 1 \/ NewerThan(items[1], items[Len(items)])
        <4>i. PICK k : k = Len(items)
          OBVIOUS
        <4>1. k \in Nat /\ 1 \in 1..k => k = 1 \/ 1 < k
          OBVIOUS
        <4> QED
          BY <1>1, <1>4, <4>i, <4>1
      <3> QED
        BY <1>1, <1>2, <1>4, <2>2, <3>1, NewerThanTotal
    <2> QED
      BY <1>3, <2>1, <2>2
  <1> PICK j : j = items[1].id
    OBVIOUS
  <1>6. j \in Scope(b, q) /\ items[1] = PositionOf(b, j)
    BY <1>4 DEF ListOK
  <1>7. j \in SpaceRows(b)
    BY <1>6 DEF Scope, selectionScope, selectionWallets, SpaceRows
  <1>8. j # i => NewerThan(p, items[1])
    BY <1>6, <1>7 DEF IsLatest, Newer
  <1> QED
    BY <1>1, <1>2, <1>4, <1>5, <1>8, NewerThanTotal

LEMMA ListIsComplete ==
  ASSUME FeedInv
  PROVE  ListComplete
  <1>1. SUFFICES ASSUME list # None PROVE ListComplete
    BY DEF ListComplete
  <1> PICK b, written, q, items, older, newer :
          /\ b = book /\ written = touched /\ q = list.query /\ items = list.items
          /\ older = list.older /\ newer = list.newer
    OBVIOUS
  <1>2. b \in Book /\ ListOK(b, written, q, items, older, newer)
    BY <1>1 DEF FeedInv, ListStays
  <1>3. ASSUME NEW i \in Scope(b, q) \ written
        PROVE  LET p == PositionOf(book, i) IN
               Cardinality({n \in DOMAIN items : items[n].id = i})
                   = (IF \/ list.newer # None /\ NewerThan(p, items[1])
                         \/ list.older # None /\ NewerThan(items[Len(items)], p)
                      THEN 0 ELSE 1)
    BY <1>2, ListedOnce
  <1>4. ASSUME answer # None, answer.kind = "count", answer.query = q,
               older = None, newer = None, touched = {}
        PROVE  answer.count = Len(items)
    <2>1. answer.count = Cardinality(Scope(b, q))
      BY <1>1, <1>4 DEF FeedInv, AnswerOK
    <2> QED
      BY <1>2, <1>4, <2>1, WholeList
  <1>5. ASSUME answer # None, answer.kind = "latest", answer.id # None, newer = None, touched = {},
               findFeedPosition(book, q, answer.id) # None
        PROVE  items[1].id = answer.id
    <2>1. IsLatest(b, answer.id)
      BY <1>1, <1>5 DEF FeedInv, AnswerOK
    <2>2. answer.id \in Scope(b, q)
      BY <1>5 DEF findFeedPosition, Scope
    <2> QED
      BY <1>2, <1>5, <2>1, <2>2, LatestFirst
  <1> QED
    BY <1>3, <1>4, <1>5 DEF ListComplete, Scope

\* Nothing that stays is skipped or listed twice, whatever is written between
\* the pages (getFeed, getFeedPage); a count and the latest record agree.
THEOREM ListIsWhole ==
  Spec => []ListComplete
  <1>1. FeedInv => ListComplete
    BY ListIsComplete
  <1> QED
    BY <1>1, FeedInvariance, PTL

-----------------------------------------------------------------------------
(* The overviews.                                                          *)

\* Initial balances are incomes, and a limit binds active categories.
BookOK(b) ==
  /\ b \in Book
  /\ \A i \in Rows(b) : b.txns[i].category = System => b.txns[i].type = "income"
  /\ \A l \in b.limits : l.cats \cap b.archived = {}

\* Nobody writes an initial balance after the wallet is there.
SameOpening(b, c) ==
  \A i \in Ids :
      (\/ i \in Rows(b) /\ b.txns[i].category = System
       \/ i \in Rows(c) /\ c.txns[i].category = System) => b.txns[i] = c.txns[i]

OverviewReadOK(r, c) ==
  LET b == r.snapshot IN
  /\ b # None => BookOK(b) /\ SameOpening(b, c)
  /\ r.kind = "wallets" =>
         /\ r.ask \in OverviewPeriods
         /\ r.step \in {"periodTotals", "balances"} =>
                b # None /\ r.got.wallets = SpaceWallets \ b.deleted
         /\ r.step = "balances" =>
                r.got.periodTotals = getPeriodTotals(b, r.got.wallets, r.ask.from, r.ask.to)
  /\ r.kind = "categories" /\ r.step \in {"counts", "limits"} =>
         /\ b # None /\ r.got.archived = b.archived
         /\ DOMAIN r.got.rows = 1..Cardinality(Categories)
  /\ r.kind = "operation" /\ r.step = "transaction" =>
         /\ b # None /\ r.got.dated = (r.ask.around \in b.dated)
         /\ getOneInSpace(b, r.ask.around) # None \/ r.got.dated

OpeningBalance(c, w) == Sum(c, {i \in Rows(c) \ Regular(c, Rows(c)) : c.txns[i].wallet = w})

OverviewShown(a, c) ==
  /\ (a.kind = "wallets" /\ a.period.from <= TimestampMin /\ a.period.to >= StoredTimestampMax) =>
         \A w \in DOMAIN a.wallets :
             a.wallets[w].balance = OpeningBalance(c, w) + a.wallets[w].total_income
                                        - a.wallets[w].total_spend
  /\ a.kind = "categories" => \A view \in Range(a.archived) : view.limit = {}
  /\ a.kind = "operation" => (a.status = "deleted" <=> a.deleted_at)

OverviewKinds == {"wallets", "categories", "operation"}

OverviewInv ==
  /\ BookOK(book)
  /\ request.kind \in OverviewKinds => OverviewReadOK(request, book)
  /\ answer # None => OverviewShown(answer, book)

-----------------------------------------------------------------------------
(* Sums of amounts.                                                        *)

AmountsOf(b) == [i \in Ids |-> b.txns[i].amount]

LEMMA RowsAreFinite ==
  ASSUME NEW b
  PROVE  Rows(b) \in SUBSET Ids /\ IsFiniteSet(Rows(b))
  BY FS_Subset, IdAssumption DEF Rows

LEMMA SumIsTotal ==
  ASSUME NEW b \in Book, NEW T \in SUBSET Rows(b)
  PROVE  /\ Summable(AmountsOf(b), T)
         /\ Sum(b, T) = Total(AmountsOf(b), T) /\ Sum(b, T) \in Nat
  <1> PICK f : f = AmountsOf(b)
    OBVIOUS
  <1>1. IsFiniteSet(T) /\ T \in SUBSET Ids
    BY RowsAreFinite, FS_Subset
  <1>2. \A i \in T : f[i] = Amount(b, i) /\ f[i] \in Nat
    BY <1>1 DEF AmountsOf, Amount, Book, Txn, Rows
  <1>3. Summable(f, T) /\ Total(f, T) \in Nat
    BY <1>1, <1>2, TotalNat
  <1> DEFINE P(k) ==
        k = [s \in SUBSET T |->
               IF s = {} THEN 0
               ELSE Amount(b, CHOOSE x \in s : TRUE) + k[s \ {CHOOSE x \in s : TRUE}]]
  <1>4. \A k : Unfolds(k, T, f) <=> P(k)
    <2>1. \A s \in SUBSET T : s # {} => f[Some(s)] = Amount(b, CHOOSE x \in s : TRUE)
      BY <1>2, SomeIsIn DEF Some
    <2>2. TAKE k
    <2>3. \A s \in SUBSET T :
             (IF s = {} THEN 0 ELSE f[Some(s)] + k[s \ {Some(s)}])
                 = (IF s = {} THEN 0
                    ELSE Amount(b, CHOOSE x \in s : TRUE) + k[s \ {CHOOSE x \in s : TRUE}])
      BY <2>1 DEF Some
    <2> PICK g, h :
            /\ g = [s \in SUBSET T |-> IF s = {} THEN 0 ELSE f[Some(s)] + k[s \ {Some(s)}]]
            /\ h = [s \in SUBSET T |->
                      IF s = {} THEN 0
                      ELSE Amount(b, CHOOSE x \in s : TRUE) + k[s \ {CHOOSE x \in s : TRUE}]]
      OBVIOUS
    <2>4. g = h
      BY <2>3
    <2> QED
      BY <2>4, Zenon DEF Unfolds
  <1> PICK it : it = (CHOOSE k : P(k))
    OBVIOUS
  <1>5. Sum(b, T) = it[T]
    BY DEF Sum, MapThenSumSet, MapThenFoldSet
  <1> HIDE DEF P
  <1>6. P(it)
    <2>1. \E k : P(k)
      BY <1>3, <1>4, UnfoldsExists
    <2> QED
      BY <2>1, Zenon
  <1>7. PICK g : Tabulates(g, T, f)
    BY <1>3, TotalUnfolds
  <1>8. it[T] = g[T]
    <2>1. Unfolds(it, T, f) /\ Unfolds(g, T, f)
      BY <1>4, <1>6, <1>7 DEF Tabulates
    <2> QED
      BY <1>1, <2>1, UnfoldsOnce
  <1> QED
    BY <1>3, <1>5, <1>7, <1>8 DEF Tabulates

\* Two parts that do not meet.
LEMMA SumOfParts ==
  ASSUME NEW b \in Book, NEW S \in SUBSET Rows(b), NEW T \in SUBSET Rows(b), S \cap T = {}
  PROVE  Sum(b, S \cup T) = Sum(b, S) + Sum(b, T)
  <1> PICK U : U = S \cup T
    OBVIOUS
  <1>1. U \in SUBSET Rows(b)
    OBVIOUS
  <1> QED
    BY <1>1, SumIsTotal, TotalUnion

\* The amounts of two books, where they have the same rows.
LEMMA SameSum ==
  ASSUME NEW b \in Book, NEW c \in Book, NEW T \in SUBSET Rows(b), T \in SUBSET Rows(c),
         \A i \in T : b.txns[i] = c.txns[i]
  PROVE  Sum(b, T) = Sum(c, T)
  <1>1. \A i \in T : AmountsOf(b)[i] = AmountsOf(c)[i]
    BY RowsAreFinite DEF AmountsOf
  <1> QED
    BY <1>1, SumIsTotal, TotalSame

-----------------------------------------------------------------------------
(* A balance is the initial balance and what came and went.                *)

LEMMA BalanceIsTotals ==
  ASSUME NEW b, BookOK(b), NEW W, NEW w \in W, NEW from \in Int, NEW to \in Int,
         from <= TimestampMin, to >= StoredTimestampMax
  PROVE  getBalances(b, W)[w]
             = OpeningBalance(b, w) + getPeriodTotals(b, W, from, to)[w].income
                   - getPeriodTotals(b, W, from, to)[w].spend
  <1>s. PICK own, opening, rows :
          /\ own = {i \in Rows(b) : b.txns[i].wallet = w}
          /\ opening = {i \in Rows(b) \ Regular(b, Rows(b)) : b.txns[i].wallet = w}
          /\ rows = {i \in Regular(b, Rows(b)) :
                        /\ b.txns[i].wallet = w
                        /\ b.txns[i].timestamp >= from /\ b.txns[i].timestamp <= to}
    OBVIOUS
  <1>t. PICK incomes, expenses, all :
          /\ incomes = OfType(b, rows, "income") /\ expenses = OfType(b, rows, "expense")
          /\ all = OfType(b, own, "income")
    OBVIOUS
  <1>1. /\ b \in Book
        /\ \A i \in Rows(b) : b.txns[i] \in Txn
        /\ \A i \in Rows(b) : b.txns[i].category = System => b.txns[i].type = "income"
    BY DEF BookOK, Book, Rows
  <1>2. \A i \in Rows(b) : b.txns[i].timestamp >= from /\ b.txns[i].timestamp <= to
    BY <1>1, InstantAssumption, StoredAssumption DEF Txn
  <1>3. rows = {i \in Rows(b) : b.txns[i].wallet = w /\ b.txns[i].category # System}
    BY <1>s, <1>2 DEF Regular
  <1>4. opening = {i \in Rows(b) : b.txns[i].wallet = w /\ b.txns[i].category = System}
    BY <1>s DEF Regular
  <1>5. all = opening \cup incomes /\ opening \cap incomes = {} /\ own \ all = expenses
    BY <1>s, <1>t, <1>1, <1>3, <1>4 DEF OfType, Txn, Types
  <1>6. /\ opening \in SUBSET Rows(b) /\ incomes \in SUBSET Rows(b) /\ expenses \in SUBSET Rows(b)
        /\ all \in SUBSET Rows(b)
    BY <1>s, <1>t, <1>3, <1>4 DEF OfType
  <1>7. Sum(b, all) = Sum(b, opening) + Sum(b, incomes)
    <2>1. Sum(b, opening \cup incomes) = Sum(b, opening) + Sum(b, incomes)
      BY <1>1, <1>5, <1>6, SumOfParts
    <2> QED
      BY <1>5, <2>1
  <1>8. Sum(b, opening) \in Nat /\ Sum(b, incomes) \in Nat /\ Sum(b, expenses) \in Nat
    BY <1>1, <1>6, SumIsTotal
  <1>9. getBalances(b, W)[w] = Sum(b, all) - Sum(b, own \ all)
    BY <1>s, <1>t DEF getBalances
  <1>10. /\ getPeriodTotals(b, W, from, to)[w].income = Sum(b, incomes)
         /\ getPeriodTotals(b, W, from, to)[w].spend = Sum(b, expenses)
    BY <1>s, <1>t DEF getPeriodTotals
  <1>11. OpeningBalance(b, w) = Sum(b, opening)
    BY <1>s DEF OpeningBalance
  <1>12. PICK a \in Nat, i \in Nat, e \in Nat :
            a = Sum(b, opening) /\ i = Sum(b, incomes) /\ e = Sum(b, expenses)
    BY <1>8
  <1>13. getBalances(b, W)[w] = (a + i) - e
    BY <1>5, <1>7, <1>9, <1>12
  <1>14. PICK totals : totals = getPeriodTotals(b, W, from, to)[w]
    OBVIOUS
  <1>15. totals.income = i /\ totals.spend = e /\ OpeningBalance(b, w) = a
    BY <1>10, <1>11, <1>12, <1>14
  <1>16. getBalances(b, W)[w] = OpeningBalance(b, w) + totals.income - totals.spend
    BY <1>13, <1>15
  <1> QED
    BY <1>14, <1>16

-----------------------------------------------------------------------------
(* Writes leave the initial balances and the archived categories' limits.  *)

LEMMA OpeningSame ==
  ASSUME NEW b \in Book, NEW c \in Book, SameOpening(b, c), NEW w
  PROVE  OpeningBalance(b, w) = OpeningBalance(c, w)
  <1> PICK T : T = {i \in Rows(b) \ Regular(b, Rows(b)) : b.txns[i].wallet = w}
    OBVIOUS
  <1>1. T \in SUBSET Rows(b) /\ T \in SUBSET Rows(c) /\ \A i \in T : b.txns[i] = c.txns[i]
    BY DEF SameOpening, Regular, Rows
  <1>2. T = {i \in Rows(c) \ Regular(c, Rows(c)) : c.txns[i].wallet = w}
    BY DEF SameOpening, Regular, Rows
  <1>3. OpeningBalance(b, w) = Sum(b, T) /\ OpeningBalance(c, w) = Sum(c, T)
    BY <1>2 DEF OpeningBalance
  <1>4. Sum(b, T) = Sum(c, T)
    BY <1>1, SameSum
  <1> QED
    BY <1>3, <1>4

LEMMA SameOpeningChain ==
  ASSUME NEW b, NEW c, NEW d, SameOpening(b, c), SameOpening(c, d)
  PROVE  SameOpening(b, d)
  BY DEF SameOpening, Rows

\* What a write of a transaction leaves.
Rewrites(b, d, i, txn) ==
  /\ b.txns[i] = None \/ b.txns[i].category # System
  /\ txn = None \/ txn.category # System
  /\ d.txns = [b.txns EXCEPT ![i] = txn] /\ d.limits = b.limits /\ d.archived = b.archived

LEMMA OpeningWritten ==
  ASSUME NEW b, BookOK(b), NEW i \in Ids, NEW txn, NEW d \in Book, Rewrites(b, d, i, txn)
  PROVE  BookOK(d) /\ SameOpening(b, d)
  <1>1. b \in Book
    BY DEF BookOK
  <1>2. d.txns[i] = txn /\ \A j \in Ids \ {i} : d.txns[j] = b.txns[j]
    BY <1>1 DEF Book, Rewrites
  <1> QED
    BY <1>2 DEF BookOK, SameOpening, Rows, Rewrites

LEMMA OpeningKept ==
  ASSUME NEW b, BookOK(b), NEW d \in Book, d.txns = b.txns,
         \A l \in d.limits : l.cats \cap d.archived = {}
  PROVE  BookOK(d) /\ SameOpening(b, d)
  BY DEF BookOK, SameOpening, Rows

LEMMA WritesOpening ==
  ASSUME BookOK(book), MemberWrites
  PROVE  BookOK(book') /\ SameOpening(book, book')
  <1> PICK b, d : b = book /\ d = book'
    OBVIOUS
  <1>1. d \in Book /\ b \in Book /\ BookOK(b)
    BY WritesBook DEF BookOK
  <1>2. ASSUME NEW i \in Ids, NEW txn \in Drafts, AddTransaction(i, txn) \/ EditTransaction(i, txn)
        PROVE  BookOK(d) /\ SameOpening(b, d)
    <2>1. d = [b EXCEPT !.txns[i] = txn] /\ txn \in Txn
      BY <1>2, BookAssumption DEF AddTransaction, EditTransaction, Write
    <2>2. b.txns[i] = None \/ b.txns[i].category # System
      BY <1>2 DEF AddTransaction, EditTransaction, Rows
    <2>3. txn.category # System
      BY <1>2, SpaceAssumption DEF AddTransaction, EditTransaction, CategoryUsable
    <2>4. d.txns = [b.txns EXCEPT ![i] = txn] /\ d.limits = b.limits /\ d.archived = b.archived
      BY <1>1, <2>1 DEF Book
    <2>5. Rewrites(b, d, i, txn)
      BY <2>2, <2>3, <2>4 DEF Rewrites
    <2> QED
      BY <1>1, <2>5, OpeningWritten
  <1>3. ASSUME NEW i \in Ids, RemoveTransaction(i) PROVE BookOK(d) /\ SameOpening(b, d)
    <2>1. /\ d.txns = [b.txns EXCEPT ![i] = None] /\ d.limits = b.limits /\ d.archived = b.archived
          /\ b.txns[i].category # System
      BY <1>1, <1>3 DEF RemoveTransaction, Write, Book
    <2>2. Rewrites(b, d, i, None)
      BY <2>1 DEF Rewrites
    <2> QED
      BY <1>1, <2>2, OpeningWritten
  <1>4. ASSUME NEW w \in SpaceWallets, DeleteWallet(w) PROVE BookOK(d) /\ SameOpening(b, d)
    <2>1. d.txns = b.txns /\ d.limits = b.limits /\ d.archived = b.archived
      BY <1>1, <1>4 DEF DeleteWallet, Write, Book
    <2> QED
      BY <1>1, <2>1, OpeningKept DEF BookOK
  <1>5. ASSUME NEW k \in Categories, ArchiveCategory(k) PROVE BookOK(d) /\ SameOpening(b, d)
    <2>1. PICK left, kept :
              /\ left = {l \in b.limits : k \notin l.cats}
              /\ kept = {[l EXCEPT !.cats = @ \ {k}] :
                            l \in {m \in b.limits : k \in m.cats /\ m.cats # {k}}}
      OBVIOUS
    <2>2. d.txns = b.txns /\ d.limits = left \cup kept /\ d.archived = b.archived \cup {k}
      BY <1>1, <1>5, <2>1 DEF ArchiveCategory, Write, Book
    <2>3. \A l \in left : l.cats \cap d.archived = {}
      BY <1>1, <2>1, <2>2 DEF BookOK
    <2>4. \A l \in kept : l.cats \cap d.archived = {}
      <3>1. TAKE l \in kept
      <3>2. PICK m \in b.limits : l = [m EXCEPT !.cats = @ \ {k}]
        BY <2>1
      <3>3. m \in Cap /\ m.cats \cap b.archived = {}
        BY <1>1 DEF BookOK, Book
      <3>4. l.cats = m.cats \ {k}
        BY <3>2, <3>3 DEF Cap
      <3> QED
        BY <2>2, <3>3, <3>4
    <2> QED
      BY <1>1, <2>2, <2>3, <2>4, OpeningKept
  <1>6. ASSUME NEW k \in Categories, RestoreCategory(k) PROVE BookOK(d) /\ SameOpening(b, d)
    <2>1. d.txns = b.txns /\ d.limits = b.limits /\ d.archived = b.archived \ {k}
      BY <1>1, <1>6 DEF RestoreCategory, Write, Book
    <2> QED
      BY <1>1, <2>1, OpeningKept DEF BookOK
  <1>7. ASSUME NEW id, NEW name, Write([book EXCEPT !.names[id] = name])
        PROVE  BookOK(d) /\ SameOpening(b, d)
    <2>1. d.txns = b.txns /\ d.limits = b.limits /\ d.archived = b.archived
      BY <1>1, <1>7 DEF Write, Book
    <2> QED
      BY <1>1, <2>1, OpeningKept DEF BookOK
  <1>8. ASSUME NEW r \in Renames, RenameWallet(r.id, r.name) \/ RenameCategory(r.id, r.name)
        PROVE  BookOK(d) /\ SameOpening(b, d)
    BY <1>7, <1>8 DEF RenameWallet, RenameCategory
  <1>9. ASSUME NEW order \in Orders, Reorder(order) PROVE BookOK(d) /\ SameOpening(b, d)
    <2> PICK places : Write([book EXCEPT !.sort = places])
      BY <1>9 DEF Reorder
    <2>1. d.txns = b.txns /\ d.limits = b.limits /\ d.archived = b.archived
      BY <1>1 DEF Write, Book
    <2> QED
      BY <1>1, <2>1, OpeningKept DEF BookOK
  <1>10. ASSUME NEW l \in Caps, NEW others \in SUBSET b.limits, LimitFits(l, others),
                Write([book EXCEPT !.limits = others \cup {l}])
         PROVE  BookOK(d) /\ SameOpening(b, d)
    <2>1. d.txns = b.txns /\ d.limits = others \cup {l} /\ d.archived = b.archived
      BY <1>1, <1>10 DEF Write, Book
    <2>2. l.cats \cap b.archived = {}
      BY <1>10 DEF LimitFits, CategoryUsable
    <2>3. \A m \in others : m.cats \cap b.archived = {}
      BY <1>1, <1>10 DEF BookOK
    <2> QED
      BY <1>1, <2>1, <2>2, <2>3, OpeningKept
  <1>11. ASSUME NEW l \in Caps, AddLimit(l) PROVE BookOK(d) /\ SameOpening(b, d)
    BY <1>10, <1>11 DEF AddLimit
  <1>12. ASSUME NEW l \in Caps, NEW old \in book.limits, UpdateLimit(old, l)
         PROVE  BookOK(d) /\ SameOpening(b, d)
    <2>1. book.limits \ {old} \in SUBSET b.limits
      OBVIOUS
    <2> QED
      BY <1>10, <1>12, <2>1 DEF UpdateLimit
  <1>13. ASSUME NEW l \in book.limits, RemoveLimit(l) PROVE BookOK(d) /\ SameOpening(b, d)
    <2>1. d.txns = b.txns /\ d.limits = b.limits \ {l} /\ d.archived = b.archived
      BY <1>1, <1>13 DEF RemoveLimit, Write, Book
    <2> QED
      BY <1>1, <2>1, OpeningKept DEF BookOK
  <1>14. BookOK(d) /\ SameOpening(b, d)
    BY <1>2, <1>3, <1>4, <1>5, <1>6, <1>8, <1>9, <1>11, <1>12, <1>13 DEF MemberWrites
  <1> QED
    BY <1>14

-----------------------------------------------------------------------------
(* What a step of one kind of request does not do.                         *)

HistoryKinds == {"feed", "count", "latest", "operation", "transaction"}

LEMMA FeedAsks ==
  ASSUME FeedRequests
  PROVE  /\ book' = book /\ answer' = None /\ request'.kind \in HistoryKinds
         /\ request'.step = "check" /\ request'.snapshot = None
         /\ writes' = writes /\ clock' = clock
  <1>1. ASSUME NEW kind \in HistoryKinds, NEW q, NEW limit, NEW cursor, NEW around,
               Ask(kind, q, limit, cursor, around)
        PROVE  /\ book' = book /\ answer' = None /\ request'.kind \in HistoryKinds
               /\ request'.step = "check" /\ request'.snapshot = None
               /\ writes' = writes /\ clock' = clock
    BY <1>1 DEF Ask, Request, InProgress
  <1>2. PICK kind \in HistoryKinds : \E q, limit, cursor, around : Ask(kind, q, limit, cursor, around)
    <2>1. ASSUME NEW q, NEW l, NEW i, OpenList(q, l, i)
          PROVE  Ask("feed", q, l, None, i)
      BY <2>1 DEF OpenList
    <2>2. ASSUME NEW q, NEW l, NEW direction, FollowCursor(q, l, direction)
          PROVE  \E cursor : Ask("feed", q, l, cursor, None)
      BY <2>2 DEF FollowCursor
    <2>3. ASSUME NEW q, AskCount(q) PROVE Ask("count", q, 0, None, None)
      BY <2>3 DEF AskCount
    <2>4. ASSUME AskLatest PROVE Ask("latest", None, 0, None, None)
      BY <2>4 DEF AskLatest
    <2>5. ASSUME NEW i, AskOperation(i) PROVE Ask("operation", None, 0, None, i)
      BY <2>5 DEF AskOperation
    <2>6. ASSUME NEW i, AskTransaction(i) PROVE Ask("transaction", None, 0, None, i)
      BY <2>6 DEF AskTransaction
    <2> HIDE DEF HistoryKinds
    <2>7. {"feed", "count", "latest", "operation", "transaction"} \subseteq HistoryKinds
      BY DEF HistoryKinds
    <2> QED
      BY <2>1, <2>2, <2>3, <2>4, <2>5, <2>6, <2>7, Zenon DEF FeedRequests
  <1> QED
    BY <1>1, <1>2

LEMMA StatisticsAsks ==
  ASSUME StatisticsRequests
  PROVE  /\ book' = book /\ writes' = writes /\ answer' = None /\ request'.kind \in Blocks
         /\ request'.step = "open" /\ request'.snapshot = None
  <1>1. ASSUME NEW block \in Blocks, NEW q, NEW type, AskBlock(block, q, type)
        PROVE  /\ book' = book /\ writes' = writes /\ answer' = None /\ request'.kind \in Blocks
               /\ request'.step = "open" /\ request'.snapshot = None
    BY <1>1 DEF AskBlock, Request, InProgress
  <1> QED
    BY <1>1 DEF StatisticsRequests, Blocks

LEMMA OverviewAsks ==
  ASSUME OverviewRequests
  PROVE  /\ book' = book /\ answer' = None /\ request'.kind \in {"wallets", "limits", "categories"}
         /\ request'.step = request'.kind /\ request'.snapshot = None
         /\ request'.kind = "wallets" => request'.ask \in OverviewPeriods
         /\ writes' = writes /\ clock' = clock
  <1>1. ASSUME NEW kind, NEW step, NEW ask, AskOverview(kind, step, ask)
        PROVE  /\ book' = book /\ answer' = None /\ request'.kind = kind /\ request'.step = step
               /\ request'.snapshot = None /\ request'.ask = ask
               /\ writes' = writes /\ clock' = clock
    BY <1>1 DEF AskOverview, Request, InProgress
  <1>2. CASE \E p \in OverviewPeriods : AskOverview("wallets", "wallets", p)
    BY <1>1, <1>2
  <1>3. CASE \E z \in Zones : AskOverview("limits", "limits", [zone |-> z])
    <2>1. PICK z : AskOverview("limits", "limits", [zone |-> z])
      BY <1>3
    <2> QED
      BY <1>1, <2>1
  <1>4. CASE AskOverview("categories", "categories", None)
    BY <1>1, <1>4
  <1> QED
    BY <1>2, <1>3, <1>4 DEF OverviewRequests

PageSteps ==
  \/ FeedRefused \/ FeedAccepted \/ ReadPage \/ ReadEdge
  \/ ReadTarget \/ ReadPosition \/ ReadNewer \/ ReadOlder
  \/ ReadSummary \/ RespondEmpty \/ ReadDays

LEMMA PageStep ==
  ASSUME PageSteps
  PROVE  /\ request.kind = "feed" /\ book' = book /\ request'.kind \in {"feed", "idle"}
         /\ \/ answer' = answer
            \/ answer'.kind = "refused"
            \/ answer'.kind = "page" /\ (RespondEmpty \/ ReadDays)
  <1> DEFINE fits(shown) == /\ request.kind = "feed" /\ book' = book
                            /\ request'.kind \in {"feed", "idle"} /\ shown
  <1>1. ASSUME NEW step, NEW got, Read(step, got), request.kind = "feed"
        PROVE  fits(answer' = answer)
    BY <1>1 DEF Read, ReadAndGo, InProgress
  <1>2. ASSUME Respond(Refusal), request.kind = "feed"
        PROVE  fits(answer' = Refusal)
    BY <1>2 DEF Respond, Idle
  <1>3. ASSUME FeedAccepted PROVE fits(answer' = answer)
    <2> PICK step : GoOn(step)
      BY <1>3 DEF FeedAccepted
    <2>1. request.kind = "feed"
      BY <1>3 DEF FeedAccepted, InStep
    <2> QED
      BY <2>1 DEF GoOn, InProgress
  <1>4. ASSUME ReadPage \/ ReadEdge \/ ReadTarget \/ ReadPosition \/ ReadNewer \/ ReadOlder
                   \/ ReadSummary \/ FeedRefused
        PROVE  request.kind = "feed" /\ (Respond(Refusal) \/ \E step, got : Read(step, got))
    <2>1. request.kind = "feed"
      BY <1>4 DEF ReadPage, ReadEdge, ReadTarget, ReadPosition, ReadNewer, ReadOlder, ReadSummary,
                  FeedRefused, InStep
    <2>2. ReadPage => \E step, got : Read(step, got)
      BY Zenon DEF ReadPage
    <2>3. ReadEdge \/ ReadNewer \/ ReadOlder \/ ReadSummary => \E step, got : Read(step, got)
      BY Zenon DEF ReadEdge, ReadNewer, ReadOlder, ReadSummary
    <2>4. ReadTarget \/ ReadPosition => Respond(Refusal) \/ \E step, got : Read(step, got)
      BY Zenon DEF ReadTarget, ReadPosition
    <2>5. FeedRefused => Respond(Refusal)
      BY DEF FeedRefused
    <2> QED
      BY <1>4, <2>1, <2>2, <2>3, <2>4, <2>5
  <1>5. ASSUME RespondEmpty \/ ReadDays
        PROVE  fits(answer'.kind = "page")
    <2>1. request.kind = "feed"
      BY <1>5 DEF RespondEmpty, ReadDays, InStep
    <2> PICK window, summary, days : RespondPage(window, summary, days)
      BY <1>5 DEF RespondEmpty, ReadDays
    <2> PICK response : response = PageResponse(window, summary, days)
      OBVIOUS
    <2>2. request' = Idle /\ answer' = response /\ book' = book
      BY DEF RespondPage, Respond
    <2>3. response.kind = "page"
      BY DEF PageResponse
    <2> QED
      BY <2>1, <2>2, <2>3 DEF Idle
  <1>6. CASE RespondEmpty \/ ReadDays
    BY <1>5, <1>6
  <1>7. CASE FeedAccepted
    BY <1>3, <1>7
  <1>8. CASE ReadPage \/ ReadEdge \/ ReadTarget \/ ReadPosition \/ ReadNewer \/ ReadOlder
                \/ ReadSummary \/ FeedRefused
    <2>1. CASE Respond(Refusal)
      BY <1>2, <1>4, <1>8, <2>1 DEF Refusal
    <2>2. CASE \E step, got : Read(step, got)
      BY <1>1, <1>4, <1>8, <2>2
    <2> QED
      BY <1>4, <1>8, <2>1, <2>2
  <1> QED
    BY <1>6, <1>7, <1>8 DEF PageSteps

LEMMA StatisticsStep ==
  ASSUME StatisticsSteps
  PROVE  /\ request.kind \in Blocks /\ book' = book /\ writes' = writes
         /\ request'.kind \in Blocks \cup {"idle"}
         /\ answer' = answer \/ answer' = None \/ answer' = Refusal
  <1>1. ASSUME NEW step, NEW got, ReadAndGo(step, got), request.kind \in Blocks
        PROVE  book' = book /\ writes' = writes /\ request'.kind \in Blocks /\ answer' = answer
    BY <1>1 DEF ReadAndGo, InProgress
  <1>2. ASSUME NEW content, RespondBlock(content), request.kind \in Blocks
        PROVE  book' = book /\ writes' = writes /\ request'.kind = "idle" /\ answer' = None
    BY <1>2 DEF RespondBlock, Respond, Idle
  <1>3. ASSUME OpenRefused
        PROVE  /\ request.kind \in Blocks /\ book' = book /\ writes' = writes
               /\ request'.kind = "idle" /\ answer' = Refusal
    BY <1>3 DEF OpenRefused, Respond, Idle
  <1>4. ASSUME OpenBlock
        PROVE  /\ request.kind \in Blocks /\ book' = book /\ writes' = writes
               /\ request'.kind \in Blocks /\ answer' = answer
    <2>1. request.kind \in Blocks /\ UNCHANGED <<book, writes, answer>>
      BY <1>4 DEF OpenBlock
    <2>2. PICK step, got : request' = InProgress(request.kind, step, request.ask,
                                                 request.snapshot, request.at, got)
      BY <1>4 DEF OpenBlock
    <2> QED
      BY <2>1, <2>2 DEF InProgress
  <1>5. ASSUME ReadTotals \/ ReadPrevious \/ ReadLast \/ ReadTrend \/ ReadCategories \/ ReadWallets
        PROVE  request.kind \in Blocks
    BY <1>5 DEF ReadTotals, ReadPrevious, ReadLast, ReadTrend, ReadCategories, ReadWallets,
                InStep, Blocks
  <1>6. ASSUME ReadTotals \/ ReadPrevious PROVE \E step, got : ReadAndGo(step, got)
    BY <1>6, Zenon DEF ReadTotals, ReadPrevious
  <1>7. ASSUME ReadLast \/ ReadTrend \/ ReadWallets PROVE \E content : RespondBlock(content)
    BY <1>7, Zenon DEF ReadLast, ReadTrend, ReadWallets, RespondBreakdown
  <1>8. ASSUME ReadCategories
        PROVE  (\E step, got : ReadAndGo(step, got)) \/ \E content : RespondBlock(content)
    BY <1>8, Zenon DEF ReadCategories, RespondBreakdown
  <1> QED
    BY <1>1, <1>2, <1>3, <1>4, <1>5, <1>6, <1>7, <1>8 DEF StatisticsSteps

-----------------------------------------------------------------------------
(* The inductive invariant of the overviews.                               *)

LEMMA OverviewAside ==
  ASSUME OverviewInv, book' = book, request'.kind \notin OverviewKinds,
         answer' = answer \/ answer' = None \/ answer'.kind \notin OverviewKinds
  PROVE  OverviewInv'
  BY DEF OverviewInv, OverviewShown, OverviewKinds

LEMMA OverviewBegins ==
  ASSUME OverviewInv, book' = book, answer' = None, request'.snapshot = None,
         request'.step \in {"check", "open", "wallets", "limits", "categories"},
         request'.kind = "wallets" => request'.ask \in OverviewPeriods,
         request'.kind = "categories" => request'.step # "limits"
  PROVE  OverviewInv'
  BY DEF OverviewInv, OverviewReadOK

LEMMA OverviewWritten ==
  ASSUME OverviewInv, MemberWrites
  PROVE  OverviewInv'
  <1> PICK b, c, r, a : b = book /\ c = book' /\ r = request /\ a = answer
    OBVIOUS
  <1>1. BookOK(c) /\ SameOpening(b, c) /\ BookOK(b) /\ c \in Book /\ b \in Book
    BY WritesOpening DEF OverviewInv, BookOK
  <1>2. request' = r /\ answer' = a
    BY WritesBook, <1>1
  <1>3. r.kind \in OverviewKinds => OverviewReadOK(r, c)
    <2>1. ASSUME r.kind \in OverviewKinds PROVE OverviewReadOK(r, b)
      BY <2>1 DEF OverviewInv
    <2>2. r.snapshot # None /\ SameOpening(r.snapshot, b) => SameOpening(r.snapshot, c)
      BY <1>1, SameOpeningChain
    <2> QED
      BY <2>1, <2>2 DEF OverviewReadOK
  <1>4. a # None => OverviewShown(a, c)
    <2>1. ASSUME a # None PROVE OverviewShown(a, b)
      BY <2>1 DEF OverviewInv
    <2>2. \A w : OpeningBalance(b, w) = OpeningBalance(c, w)
      BY <1>1, OpeningSame
    <2> QED
      BY <2>1, <2>2 DEF OverviewShown
  <1> QED
    BY <1>1, <1>2, <1>3, <1>4 DEF OverviewInv

\* What a transaction sees.
LEMMA OverviewSees ==
  ASSUME OverviewInv, request.kind \in OverviewKinds
  PROVE  /\ BookOK(Seen) /\ SameOpening(Seen, book) /\ BookOK(book) /\ Seen # None
         /\ request.snapshot # None => Seen = request.snapshot
  <1>1. BookOK(book) /\ OverviewReadOK(request, book)
    BY DEF OverviewInv
  <1>2. SameOpening(book, book)
    BY DEF SameOpening
  <1>3. BookOK(Seen) /\ SameOpening(Seen, book)
    BY <1>1, <1>2 DEF Seen, OverviewReadOK
  <1> QED
    BY <1>1, <1>3, NoneIsNone DEF BookOK, Seen

LEMMA AfterOverviewRead ==
  ASSUME OverviewInv, request.kind \in OverviewKinds, NEW step, NEW got, ReadAndGo(step, got),
         \A r : (/\ r.snapshot = Seen /\ r.step = step /\ r.got = got
                 /\ r.kind = request.kind /\ r.ask = request.ask) => OverviewReadOK(r, book)
  PROVE  OverviewInv'
  <1> PICK r : r = request'
    OBVIOUS
  <1>1. r = InProgress(request.kind, step, request.ask, Seen, SeenAt, got)
        /\ book' = book /\ answer' = answer
    BY DEF ReadAndGo
  <1>2. /\ r.snapshot = Seen /\ r.step = step /\ r.got = got
        /\ r.kind = request.kind /\ r.ask = request.ask
    BY <1>1 DEF InProgress
  <1>3. OverviewReadOK(r, book)
    BY <1>2
  <1> QED
    BY <1>1, <1>3 DEF OverviewInv

LEMMA AfterOverviewShown ==
  ASSUME OverviewInv, NEW response, Respond(response), OverviewShown(response, book)
  PROVE  OverviewInv'
  BY DEF Respond, OverviewInv, Idle, OverviewKinds

LEMMA WalletsAreRead ==
  ASSUME OverviewInv, ReadActiveWallets \/ ReadPeriodTotals
  PROVE  OverviewInv'
  <1> PICK b, ask, W : b = Seen /\ ask = request.ask /\ W = SpaceWallets \ Seen.deleted
    OBVIOUS
  <1>1. request.kind = "wallets" /\ request.kind \in OverviewKinds
    BY DEF ReadActiveWallets, ReadPeriodTotals, InStep, OverviewKinds
  <1>2. BookOK(b) /\ SameOpening(b, book) /\ b # None
    BY <1>1, OverviewSees
  <1>3. ask \in OverviewPeriods
    BY <1>1 DEF OverviewInv, OverviewReadOK
  <1>4. CASE ReadActiveWallets
    <2> PICK got : got = [wallets |-> W]
      OBVIOUS
    <2>1. ReadAndGo("periodTotals", got)
      BY <1>4 DEF ReadActiveWallets, Reads
    <2>2. ASSUME NEW r, r.snapshot = b, r.step = "periodTotals", r.got = got, r.kind = "wallets",
                 r.ask = ask
          PROVE  OverviewReadOK(r, book)
      BY <1>2, <1>3, <2>2 DEF OverviewReadOK
    <2> QED
      BY <1>1, <2>1, <2>2, AfterOverviewRead
  <1>5. CASE ReadPeriodTotals
    <2> PICK totals : totals = getPeriodTotals(b, W, ask.from, ask.to)
      OBVIOUS
    <2>1. /\ request.step = "periodTotals" /\ request.got.wallets = W
      BY <1>1, <1>5, OverviewSees DEF ReadPeriodTotals, InStep, OverviewInv, OverviewReadOK
    <2> PICK got : got = [wallets |-> W, periodTotals |-> totals]
      OBVIOUS
    <2>2. ReadAndGo("balances", got)
      BY <1>5, <2>1 DEF ReadPeriodTotals, Reads
    <2>3. ASSUME NEW r, r.snapshot = b, r.step = "balances", r.got = got, r.kind = "wallets",
                 r.ask = ask
          PROVE  OverviewReadOK(r, book)
      BY <1>2, <1>3, <2>3 DEF OverviewReadOK
    <2> QED
      BY <1>1, <2>2, <2>3, AfterOverviewRead
  <1> QED
    BY <1>4, <1>5

LEMMA WalletsAreShown ==
  ASSUME OverviewInv, ReadBalances
  PROVE  OverviewInv'
  <1> PICK b, ask, W : b = Seen /\ ask = request.ask /\ W = SpaceWallets \ Seen.deleted
    OBVIOUS
  <1> PICK totals, balances : /\ totals = getPeriodTotals(b, W, ask.from, ask.to)
                              /\ balances = getBalances(b, W)
    OBVIOUS
  <1> PICK response : response = buildOverview(W, totals, balances)
    OBVIOUS
  <1>1. request.kind = "wallets" /\ request.step = "balances" /\ request.kind \in OverviewKinds
    BY DEF ReadBalances, InStep, OverviewKinds
  <1>2. BookOK(b) /\ SameOpening(b, book) /\ BookOK(book)
    BY <1>1, OverviewSees
  <1>3. ask \in OverviewPeriods /\ request.got.wallets = W /\ request.got.periodTotals = totals
    BY <1>1, OverviewSees DEF OverviewInv, OverviewReadOK
  <1>4. Respond(response)
    BY <1>3 DEF ReadBalances, Shows
  <1>5. /\ response.kind = "wallets" /\ response.period = ask
        /\ \A w \in W : response.wallets[w] = [balance |-> balances[w],
                                               total_spend |-> totals[w].spend,
                                               total_income |-> totals[w].income]
        /\ DOMAIN response.wallets = W
    BY DEF buildOverview
  <1>6. ask.from \in Int /\ ask.to \in Int
    BY <1>3, OverviewAssumption
  <1>7. ASSUME ask.from <= TimestampMin, ask.to >= StoredTimestampMax, NEW w \in W
        PROVE  response.wallets[w].balance = OpeningBalance(book, w)
                   + response.wallets[w].total_income - response.wallets[w].total_spend
    <2>1. balances[w] = OpeningBalance(b, w) + totals[w].income - totals[w].spend
      BY <1>2, <1>6, <1>7, BalanceIsTotals
    <2>2. OpeningBalance(b, w) = OpeningBalance(book, w)
      BY <1>2, OpeningSame DEF BookOK
    <2>3. /\ response.wallets[w].balance = balances[w]
          /\ response.wallets[w].total_spend = totals[w].spend
          /\ response.wallets[w].total_income = totals[w].income
      <3> PICK shown : shown = response.wallets
        OBVIOUS
      <3>1. shown[w] = [balance |-> balances[w], total_spend |-> totals[w].spend,
                        total_income |-> totals[w].income]
        BY <1>5
      <3> QED
        BY <3>1
    <2> QED
      BY <2>1, <2>2, <2>3
  <1>8. OverviewShown(response, book)
    <2>1. response.kind # "categories" /\ response.kind # "operation"
      BY <1>5
    <2>2. ASSUME response.period.from <= TimestampMin, response.period.to >= StoredTimestampMax,
                 NEW w \in DOMAIN response.wallets
          PROVE  response.wallets[w].balance = OpeningBalance(book, w)
                     + response.wallets[w].total_income - response.wallets[w].total_spend
      BY <1>5, <1>7, <2>2
    <2> QED
      BY <2>1, <2>2, Zenon DEF OverviewShown
  <1> QED
    BY <1>4, <1>8, AfterOverviewShown

LEMMA CategoriesAreRead ==
  ASSUME OverviewInv, ReadCategoryRows \/ ReadCounts
  PROVE  OverviewInv'
  <1> PICK b : b = Seen
    OBVIOUS
  <1>1. request.kind = "categories" /\ request.kind \in OverviewKinds
    BY DEF ReadCategoryRows, ReadCounts, InStep, OverviewKinds
  <1>2. BookOK(b) /\ SameOpening(b, book) /\ b # None
    BY <1>1, OverviewSees
  <1>3. ASSUME NEW step \in {"counts", "limits"}, NEW got, ReadAndGo(step, got),
               got.archived = b.archived, DOMAIN got.rows = 1..Cardinality(Categories)
        PROVE  OverviewInv'
    <2>1. ASSUME NEW r, r.snapshot = b, r.step = step, r.got = got, r.kind = "categories"
          PROVE  OverviewReadOK(r, book)
      BY <1>2, <1>3, <2>1 DEF OverviewReadOK
    <2> QED
      BY <1>1, <1>3, <2>1, AfterOverviewRead
  <1>4. CASE ReadCategoryRows
    <2> PICK rows : rows = Sorted(Categories, LAMBDA k, l : \/ Seen.sort[k] < Seen.sort[l]
                                                            \/ Seen.sort[k] = Seen.sort[l] /\ k < l)
      OBVIOUS
    <2>1. DOMAIN rows = 1..Cardinality(Categories)
      BY DEF Sorted
    <2> PICK got : got = [archived |-> Seen.archived, rows |-> rows]
      OBVIOUS
    <2>2. ReadAndGo("counts", got)
      BY <1>4 DEF ReadCategoryRows, Reads
    <2>3. got.archived = b.archived /\ got.rows = rows
      OBVIOUS
    <2> QED
      BY <1>3, <2>1, <2>2, <2>3
  <1>5. CASE ReadCounts
    <2>1. /\ request.step = "counts" /\ request.got.archived = b.archived
          /\ DOMAIN request.got.rows = 1..Cardinality(Categories)
      BY <1>1, <1>5, OverviewSees DEF ReadCounts, InStep, OverviewInv, OverviewReadOK
    <2> PICK got : got = [archived |-> request.got.archived, rows |-> request.got.rows,
                          counts |-> [k \in Categories |->
                              Cardinality({i \in Rows(Seen) : Seen.txns[i].category = k})]]
      OBVIOUS
    <2>2. ReadAndGo("limits", got)
      BY <1>5 DEF ReadCounts, Reads
    <2>3. got.archived = request.got.archived /\ got.rows = request.got.rows
      OBVIOUS
    <2> QED
      BY <1>3, <2>1, <2>2, <2>3
  <1> QED
    BY <1>4, <1>5

LEMMA CategoriesAreShown ==
  ASSUME OverviewInv, ReadLimitMembership
  PROVE  OverviewInv'
  <1> PICK b, got : b = Seen /\ got = request.got
    OBVIOUS
  <1> PICK kept : kept = Filtered(got.rows, got.archived)
    OBVIOUS
  <1> PICK archived : archived = [n \in DOMAIN kept |->
                         [id |-> kept[n], transaction_count |-> got.counts[kept[n]],
                          limit |-> {l \in b.limits : kept[n] \in l.cats}]]
    OBVIOUS
  <1>1. request.kind = "categories" /\ request.step = "limits" /\ request.kind \in OverviewKinds
    BY DEF ReadLimitMembership, InStep, OverviewKinds
  <1>2. BookOK(b)
    BY <1>1, OverviewSees
  <1>3. got.archived = b.archived /\ DOMAIN got.rows = 1..Cardinality(Categories)
    BY <1>1, OverviewSees DEF OverviewInv, OverviewReadOK
  <1>4. Cardinality(Categories) \in Nat
    BY IdAssumption, FS_CardinalityType
  <1>5. \A n \in DOMAIN kept : kept[n] \in b.archived
    BY <1>3, <1>4, FilteredIsIn
  <1>6. \A n \in DOMAIN archived : archived[n].limit = {}
    BY <1>2, <1>5 DEF BookOK
  <1>7. \A view \in Range(archived) : view.limit = {}
    BY <1>6 DEF Range
  <1> PICK incomes, expenses : Respond([kind |-> "categories", incomes |-> incomes,
                                        expenses |-> expenses, archived |-> archived])
    BY DEF ReadLimitMembership, Shows
  <1> PICK response : response = [kind |-> "categories", incomes |-> incomes,
                                  expenses |-> expenses, archived |-> archived]
    OBVIOUS
  <1>8. response.kind = "categories" /\ response.archived = archived /\ Respond(response)
    OBVIOUS
  <1>9. OverviewShown(response, book)
    BY <1>7, <1>8 DEF OverviewShown
  <1> QED
    BY <1>8, <1>9, AfterOverviewShown

LEMMA OperationIsRead ==
  ASSUME OverviewInv, ReadOperation \/ ReadItsTransaction
  PROVE  OverviewInv'
  <1> PICK b, i : b = Seen /\ i = request.ask.around
    OBVIOUS
  <1>1. request.kind = "operation" /\ request.kind \in OverviewKinds
    BY DEF ReadOperation, ReadItsTransaction, InStep, OverviewKinds
  <1>2. BookOK(b) /\ SameOpening(b, book) /\ b # None
    BY <1>1, OverviewSees
  <1>3. CASE Respond(Refusal)
    <2>1. OverviewShown(Refusal, book)
      BY DEF OverviewShown, Refusal
    <2> QED
      BY <1>3, <2>1, AfterOverviewShown
  <1>4. CASE ReadOperation /\ ~Respond(Refusal)
    <2> PICK got : got = [dated |-> i \in b.dated]
      OBVIOUS
    <2>1. (getOneInSpace(b, i) # None \/ i \in b.dated) /\ ReadAndGo("transaction", got)
      BY <1>4 DEF ReadOperation
    <2>2. got.dated = (i \in b.dated)
      OBVIOUS
    <2>3. ASSUME NEW r, r.snapshot = b, r.step = "transaction", r.got = got, r.kind = "operation",
                 r.ask = request.ask
          PROVE  OverviewReadOK(r, book)
      BY <1>2, <2>1, <2>2, <2>3 DEF OverviewReadOK
    <2> QED
      BY <1>1, <2>1, <2>3, AfterOverviewRead
  <1>5. CASE ReadItsTransaction
    <2>1. request.step = "transaction"
      BY <1>5 DEF ReadItsTransaction, InStep
    <2>2. /\ request.got.dated = (i \in b.dated)
          /\ getOneInSpace(b, i) # None \/ request.got.dated
      BY <1>1, <2>1, OverviewSees DEF OverviewInv, OverviewReadOK
    <2> PICK transaction, view : transaction = getOneInSpace(b, i)
      OBVIOUS
    <2> PICK response :
            response = [kind |-> "operation", id |-> i,
                        status |-> IF transaction = None THEN "deleted" ELSE "applied",
                        deleted_at |-> transaction = None /\ request.got.dated,
                        transaction |-> IF transaction = None THEN None
                                        ELSE toTransactionView(request.ask.around)]
      OBVIOUS
    <2>3. Respond(response)
      BY <1>5 DEF ReadItsTransaction
    <2>4. /\ response.kind = "operation"
          /\ response.status = IF transaction = None THEN "deleted" ELSE "applied"
          /\ response.deleted_at = (transaction = None /\ request.got.dated)
      OBVIOUS
    <2>5. OverviewShown(response, book)
      BY <2>2, <2>4 DEF OverviewShown
    <2> QED
      BY <2>3, <2>5, AfterOverviewShown
  <1> QED
    BY <1>3, <1>4, <1>5

LEMMA HistoryAside ==
  ASSUME OverviewInv, PageSteps \/ CountChecked \/ ReadCount \/ ReadLatest \/ ReadTransaction
  PROVE  OverviewInv'
  <1>1. ASSUME NEW response, Respond(response), response.kind \notin OverviewKinds
        PROVE  OverviewInv'
    <2>1. request'.kind \notin OverviewKinds /\ book' = book /\ answer'.kind \notin OverviewKinds
      BY <1>1 DEF Respond, Idle, OverviewKinds
    <2> QED
      BY <2>1, OverviewAside
  <1>2. CASE PageSteps
    <2>1. /\ book' = book /\ request'.kind \notin OverviewKinds
          /\ answer' = answer \/ answer'.kind \notin OverviewKinds
      BY <1>2, PageStep DEF OverviewKinds
    <2> QED
      BY <2>1, OverviewAside
  <1>3. CASE CountChecked
    <2>1. CASE Respond(Refusal)
      BY <1>1, <2>1 DEF Refusal, OverviewKinds
    <2>2. CASE GoOn("count")
      <3>1. request.kind = "count"
        BY <1>3 DEF CountChecked, InStep
      <3>2. request'.kind = "count" /\ book' = book /\ answer' = answer
        BY <2>2, <3>1 DEF GoOn, InProgress
      <3> QED
        BY <3>2, OverviewAside DEF OverviewKinds
    <2> QED
      BY <1>3, <2>1, <2>2 DEF CountChecked
  <1>4. CASE ReadCount
    <2> PICK response : /\ response = [kind |-> "count", query |-> request.ask.query,
                                       count |-> countForAllWallets(book, request.ask.query)]
                        /\ Respond(response)
      BY <1>4 DEF ReadCount
    <2>1. response.kind = "count"
      OBVIOUS
    <2> QED
      BY <1>1, <2>1 DEF OverviewKinds
  <1>5. CASE ReadLatest
    <2> PICK response : /\ response = [kind |-> "latest", id |-> getLatest(book)]
                        /\ Respond(response)
      BY <1>5 DEF ReadLatest
    <2>1. response.kind = "latest"
      OBVIOUS
    <2> QED
      BY <1>1, <2>1 DEF OverviewKinds
  <1>6. CASE ReadTransaction
    <2> PICK view : Respond(Refusal) \/ Respond([kind |-> "transaction", view |-> view])
      BY <1>6 DEF ReadTransaction
    <2>1. Refusal.kind = "refused"
      BY DEF Refusal
    <2> QED
      BY <1>1, <2>1 DEF OverviewKinds
  <1> QED
    BY <1>2, <1>3, <1>4, <1>5, <1>6

\* The spending of the limits is of no clause.
LEMMA LimitsAside ==
  ASSUME OverviewInv, ReadLimits \/ ReadSpending
  PROVE  OverviewInv'
  <1>1. request.kind = "limits"
    BY DEF ReadLimits, ReadSpending, InStep
  <1>2. CASE ReadLimits
    <2> PICK got : ReadAndGo("spending", got)
      BY <1>2 DEF ReadLimits, Reads
    <2>1. request'.kind = "limits" /\ book' = book /\ answer' = answer
      BY <1>1 DEF ReadAndGo, InProgress
    <2> QED
      BY <2>1, OverviewAside DEF OverviewKinds
  <1>3. CASE ReadSpending
    <2> PICK period, spending :
            Respond([kind |-> "limits", period |-> period, spending |-> spending])
      BY <1>3 DEF ReadSpending, Shows
    <2> PICK response :
            response = [kind |-> "limits", period |-> period, spending |-> spending]
      OBVIOUS
    <2>1. request' = Idle /\ book' = book /\ answer' = response /\ response.kind = "limits"
      BY DEF Respond
    <2> QED
      BY <2>1, OverviewAside DEF OverviewKinds, Idle
  <1> QED
    BY <1>2, <1>3

LEMMA OverviewInit ==
  Init => OverviewInv
  <1>1. ASSUME Init PROVE OverviewInv
    <2>1. BookOK(book)
      BY <1>1, BookAssumption, OpeningAssumption DEF Init, BookOK
    <2>2. request.kind \notin OverviewKinds /\ answer = None
      BY <1>1 DEF Init, Idle, OverviewKinds
    <2> QED
      BY <2>1, <2>2 DEF OverviewInv
  <1> QED
    BY <1>1

LEMMA OverviewNext ==
  OverviewInv /\ [Next]_vars => OverviewInv'
  <1>1. SUFFICES ASSUME OverviewInv, [Next]_vars PROVE OverviewInv'
    OBVIOUS
  <1>2. CASE MemberWrites
    BY <1>1, <1>2, OverviewWritten
  <1>3. ASSUME NEW now \in Nows, Tick(now) PROVE OverviewInv'
    BY <1>1, <1>3 DEF Tick, OverviewInv
  <1>4. CASE FeedRequests
    <2>1. /\ book' = book /\ answer' = None /\ request'.step = "check" /\ request'.snapshot = None
          /\ request'.kind \in HistoryKinds
      BY <1>4, FeedAsks
    <2> QED
      BY <1>1, <2>1, OverviewBegins DEF HistoryKinds
  <1>5. CASE StatisticsRequests
    <2>1. /\ book' = book /\ answer' = None /\ request'.kind \in Blocks
      BY <1>5, StatisticsAsks
    <2> QED
      BY <1>1, <2>1, OverviewAside DEF Blocks, OverviewKinds
  <1>6. CASE OverviewRequests
    <2>1. /\ book' = book /\ answer' = None /\ request'.kind \in {"wallets", "limits", "categories"}
          /\ request'.step = request'.kind /\ request'.snapshot = None
          /\ request'.kind = "wallets" => request'.ask \in OverviewPeriods
      BY <1>6, OverviewAsks
    <2>2. /\ request'.step \in {"check", "open", "wallets", "limits", "categories"}
          /\ request'.kind = "categories" => request'.step # "limits"
      BY <2>1
    <2> QED
      BY <1>1, <2>1, <2>2, OverviewBegins
  <1>7. CASE FeedSteps
    <2>1. \/ PageSteps \/ CountChecked \/ ReadCount \/ ReadLatest \/ ReadTransaction
          \/ ReadOperation \/ ReadItsTransaction
      BY <1>7 DEF FeedSteps, PageSteps
    <2> QED
      BY <1>1, <2>1, HistoryAside, OperationIsRead
  <1>8. CASE StatisticsSteps
    <2>1. /\ book' = book /\ request'.kind \in Blocks \cup {"idle"}
          /\ answer' = answer \/ answer' = None \/ answer' = Refusal
      BY <1>8, StatisticsStep
    <2> QED
      BY <1>1, <2>1, OverviewAside DEF Blocks, OverviewKinds, Refusal
  <1>9. CASE OverviewSteps
    BY <1>1, <1>9, WalletsAreRead, WalletsAreShown, LimitsAside, CategoriesAreRead,
       CategoriesAreShown DEF OverviewSteps
  <1>10. CASE UNCHANGED vars
    BY <1>1, <1>10 DEF vars, history, OverviewInv
  <1> QED
    BY <1>1, <1>2, <1>3, <1>4, <1>5, <1>6, <1>7, <1>8, <1>9, <1>10 DEF Next

\* An overview is of one moment, whatever is written between its reads: a
\* balance has the transactions that the totals of its period have, an archived
\* category is in no limit, and a deleted record says so.
THEOREM OverviewsAreOfAMoment ==
  Spec => []OverviewsAgree
  <1>1. Init => OverviewInv
    BY OverviewInit
  <1>2. OverviewInv /\ [Next]_vars => OverviewInv'
    BY OverviewNext
  <1>3. OverviewInv => OverviewsAgree
    BY DEF OverviewInv, OverviewShown, OverviewsAgree, InitialBalance, OpeningBalance
  <1> QED
    BY <1>1, <1>2, <1>3, PTL DEF Spec

-----------------------------------------------------------------------------
(* A page adds up.                                                         *)

\* A window is the whole selection just when it has no cursor.
LEMMA WindowWhole ==
  ASSUME NEW b \in Book, NEW scope \in SUBSET Rows(b), NEW ids, NEW hasOlder, NEW hasNewer,
         IsWindow(b, scope, ids, hasOlder, hasNewer), Len(ids) > 0
  PROVE  /\ \A m, n \in 1..Len(ids) : ids[m] = ids[n] => m = n
         /\ ~hasOlder /\ ~hasNewer => \A j \in scope : Listed(ids, j)
         /\ Cardinality(scope) = Len(ids) <=> ~hasOlder /\ ~hasNewer
         /\ Cardinality(scope) \in Nat /\ Cardinality(scope) >= Len(ids)
  <1> PICK listed : listed = Range(ids)
    OBVIOUS
  <1>1. Dated(b, scope) /\ IsFiniteSet(scope)
    BY BookDated, RowsAreFinite, FS_Subset DEF Dated
  <1>2. /\ ids \in Seq(scope) /\ Len(ids) \in Nat
        /\ \A n \in 1..Len(ids) : ids[n] \in scope
        /\ \A m, n \in 1..Len(ids) : m < n => Newer(b, ids[m], ids[n])
    BY LenProperties, ElementOfSeq DEF IsWindow
  <1>3. \A m, n \in 1..Len(ids) : m < n => ids[m] # ids[n]
    BY <1>1, <1>2, NewerTotal
  <1>4. \A m, n \in 1..Len(ids) : ids[m] = ids[n] => m = n
    BY <1>2, <1>3
  <1>5. /\ IsFiniteSet(listed) /\ Cardinality(listed) = Len(ids) /\ listed \in SUBSET scope
        /\ listed = {ids[n] : n \in 1..Len(ids)}
    BY <1>2, <1>3, RangeOfDistinct
  <1>6. /\ Cardinality(listed) <= Cardinality(scope) /\ Cardinality(scope) \in Nat
        /\ Cardinality(listed) = Cardinality(scope) => listed = scope
    BY <1>1, <1>5, FS_Subset, FS_CardinalityType
  <1>7. ~hasOlder /\ ~hasNewer => \A j \in scope : Listed(ids, j)
    BY DEF IsWindow
  <1>8. ASSUME ~hasOlder, ~hasNewer PROVE Cardinality(scope) = Len(ids)
    <2>1. listed = scope
      BY <1>5, <1>7, <1>8 DEF Listed
    <2> QED
      BY <1>5, <2>1
  <1>9. ASSUME Cardinality(scope) = Len(ids) PROVE ~hasOlder /\ ~hasNewer
    <2>1. listed = scope
      BY <1>5, <1>6, <1>9
    <2>2. ASSUME NEW j \in scope, Below(b, ids, j) \/ Above(b, ids, j) PROVE FALSE
      <3>1. PICK n \in 1..Len(ids) : ids[n] = j
        BY <1>5, <2>1
      <3>2. \A m \in 1..Len(ids) : m = n \/ Newer(b, ids[m], ids[n]) \/ Newer(b, ids[n], ids[m])
        BY <1>2
      <3> QED
        BY <1>1, <1>2, <2>2, <3>1, <3>2, NewerTotal DEF Below, Above
    <2> QED
      BY <2>2 DEF IsWindow
  <1> QED
    BY <1>4, <1>5, <1>6, <1>7, <1>8, <1>9 DEF IsWindow

\* The amounts of some of the items.
ItemsSum(items, numbers) == MapThenSumSet(LAMBDA n : items[n].amount, numbers)

LEMMA ItemsTotal ==
  ASSUME NEW items, NEW S, IsFiniteSet(S), NEW f, \A n \in S : f[n] = items[n].amount /\ f[n] \in Int
  PROVE  ItemsSum(items, S) = Total(f, S)
  <1>1. Summable(f, S)
    BY DEF Summable
  <1> DEFINE P(k) ==
        k = [s \in SUBSET S |->
               IF s = {} THEN 0
               ELSE items[CHOOSE x \in s : TRUE].amount + k[s \ {CHOOSE x \in s : TRUE}]]
  <1>2. \A k : Unfolds(k, S, f) <=> P(k)
    <2>1. \A s \in SUBSET S : s # {} => f[Some(s)] = items[CHOOSE x \in s : TRUE].amount
      BY SomeIsIn DEF Some
    <2> QED
      BY <2>1 DEF Unfolds, Some
  <1> PICK it : it = (CHOOSE k : P(k))
    OBVIOUS
  <1>3. ItemsSum(items, S) = it[S]
    BY DEF ItemsSum, MapThenSumSet, MapThenFoldSet
  <1> HIDE DEF P
  <1>4. P(it)
    <2>1. \E k : P(k)
      BY <1>1, <1>2, UnfoldsExists
    <2> QED
      BY <2>1, Zenon
  <1>5. PICK g : Tabulates(g, S, f)
    BY <1>1, TotalUnfolds
  <1>6. Unfolds(it, S, f) /\ Unfolds(g, S, f)
    BY <1>2, <1>4, <1>5 DEF Tabulates
  <1>7. it[S] = g[S]
    BY <1>6, UnfoldsOnce
  <1> QED
    BY <1>3, <1>5, <1>7 DEF Tabulates

\* What a page lists of a type is what its selection has of it, if the page is whole.
LEMMA ItemsOfType ==
  ASSUME NEW b \in Book, NEW scope \in SUBSET Rows(b), NEW ids \in Seq(scope),
         \A m, n \in 1..Len(ids) : ids[m] = ids[n] => m = n,
         \A j \in scope : Listed(ids, j), NEW items, items = ViewsOf(b, ids), NEW type
  PROVE  OfItems(items, type) = Sum(b, OfType(b, Regular(b, scope), type))
  <1>s. PICK rows, S : /\ rows = OfType(b, Regular(b, scope), type)
                     /\ S = {n \in Regulars(items) : items[n].type = type}
    OBVIOUS
  <1>h. PICK h : \A n \in 1..Len(ids) : h[n] = b.txns[ids[n]].amount
    <2>1. \A n \in 1..Len(ids) :
              [m \in 1..Len(ids) |-> b.txns[ids[m]].amount][n] = b.txns[ids[n]].amount
      OBVIOUS
    <2> QED
      BY <2>1
  <1>1. /\ Len(ids) \in Nat /\ DOMAIN items = 1..Len(ids)
        /\ \A n \in 1..Len(ids) : ids[n] \in scope /\ items[n] = ViewOf(b, ids[n])
    BY LenProperties, ElementOfSeq, ViewsAre
  <1>2. \A n \in 1..Len(ids) :
           /\ items[n].amount = b.txns[ids[n]].amount /\ items[n].type = b.txns[ids[n]].type
           /\ items[n].kind = "regular" <=> b.txns[ids[n]].category # System
    BY <1>1 DEF ViewOf, KindOf
  <1>3. rows \in SUBSET Rows(b) /\ S \in SUBSET (1..Len(ids))
    BY <1>s, <1>1 DEF OfType, Regular, Regulars
  <1>4. \A n \in 1..Len(ids) : n \in S <=> ids[n] \in rows
    BY <1>s, <1>1, <1>2 DEF OfType, Regular, Regulars
  <1>5. /\ \A n \in S : ids[n] \in rows
        /\ \A j \in rows : \E n \in S : ids[n] = j
    <2>1. \A j \in rows : j \in scope
      BY <1>s DEF OfType, Regular
    <2>2. \A j \in rows : \E n \in S : ids[n] = j
      BY <1>4, <2>1 DEF Listed
    <2> QED
      BY <1>3, <1>4, <2>2
  <1>6. IsFiniteSet(S)
    <2>1. IsFiniteSet(1..Len(ids))
      BY <1>1, FS_Interval
    <2> QED
      BY <1>3, <2>1, FS_Subset
  <1>7. /\ Summable(AmountsOf(b), rows)
        /\ Sum(b, rows) = Total(AmountsOf(b), rows)
    BY <1>3, SumIsTotal
  <1>8. \A n \in S : /\ h[n] = items[n].amount /\ h[n] \in Int
                     /\ h[n] = AmountsOf(b)[ids[n]]
    <2>1. ASSUME NEW n \in S
          PROVE  h[n] = items[n].amount /\ h[n] \in Int /\ h[n] = AmountsOf(b)[ids[n]]
      <3>1. n \in 1..Len(ids) /\ ids[n] \in rows /\ ids[n] \in Ids
        BY <1>3, <1>4, RowsAreFinite
      <3>2. h[n] = b.txns[ids[n]].amount /\ AmountsOf(b)[ids[n]] = b.txns[ids[n]].amount
        BY <1>h, <3>1 DEF AmountsOf
      <3>3. AmountsOf(b)[ids[n]] \in Int
        BY <1>7, <3>1 DEF Summable
      <3> QED
        BY <1>2, <3>1, <3>2, <3>3
    <2> QED
      BY <2>1
  <1>9. ItemsSum(items, S) = Total(h, S)
    <2>1. \A n \in S : h[n] = items[n].amount /\ h[n] \in Int
      BY <1>8
    <2> QED
      BY <1>6, <2>1, ItemsTotal
  <1>10. Total(AmountsOf(b), rows) = Total(h, S)
    <2>1. Summable(h, S)
      BY <1>6, <1>8 DEF Summable
    <2>2. \A m, n \in S : ids[m] = ids[n] => m = n
      BY <1>3
    <2>f. PICK f : f = AmountsOf(b)
      OBVIOUS
    <2>3. \A n \in S : h[n] = f[ids[n]]
      BY <1>8, <2>f
    <2>4. Total(f, rows) = Total(h, S)
      BY <1>5, <2>1, <2>2, <2>3, TotalOfImage
    <2> QED
      BY <2>f, <2>4
  <1>11. OfItems(items, type) = ItemsSum(items, S)
    BY <1>s DEF OfItems, ItemsSum
  <1> QED
    BY <1>s, <1>7, <1>9, <1>10, <1>11

\* What a page says of its moment (PageAddsUp).
PageFits(a) ==
  LET items == a.items
      size == Len(items)
      whole == a.older = None /\ a.newer = None
  IN  /\ \A m, n \in DOMAIN items :
             m < n => NewerThan(positionOf(items[m]), positionOf(items[n]))
      /\ items # <<>> => (whole <=> a.summary.count = size)
      /\ a.direction = None => size = Min({a.limit, a.summary.count})
      /\ a.around # None => \E n \in DOMAIN items : items[n].id = a.around
      /\ items # <<>> /\ whole =>
             /\ a.summary.income = OfItems(items, "income")
             /\ a.summary.expense = OfItems(items, "expense")

\* A response of a window, and of sums of the same book.
RespondsTo(b, ask, window, a) ==
  /\ a.items = window.items /\ a.limit = ask.limit /\ a.around = ask.around
  /\ a.direction = (IF ask.cursor = None THEN None ELSE ask.cursor.direction)
  /\ a.older = CursorAt(window.hasOlder, a.items[Len(a.items)])
  /\ a.newer = CursorAt(window.hasNewer, a.items[1])
  /\ a.items # <<>> => a.summary = getFeedSummary(b, ask.query)
  /\ a.items = <<>> /\ ask.cursor = None =>
         a.summary.count = Cardinality(Scope(b, ask.query)) \/ a.summary.count = 0

\* The cursors are missing just when there is no more.
LEMMA CursorsShown ==
  ASSUME NEW b \in Book, NEW ask, NEW window, WindowOK(b, ask, window), NEW a,
         RespondsTo(b, ask, window, a)
  PROVE  a.older = None /\ a.newer = None <=> ~window.hasOlder /\ ~window.hasNewer
  <1>i. PICK items, ids : items = window.items /\ ids = IdsOf(items)
    OBVIOUS
  <1>p. PICK scope, page : scope = Scope(b, ask.query) /\ page = Positions(b, ids)
    OBVIOUS
  <1>1. PlacesShown(b, window, items, ids)
    BY <1>i, WindowShown
  <1>2. /\ a.older = CursorOf(window.hasOlder, page[Len(ids)])
        /\ a.newer = CursorOf(window.hasNewer, page[1])
    BY <1>i, <1>p, <1>1 DEF PlacesShown, RespondsTo
  <1>3. IsWindow(b, scope, ids, window.hasOlder, window.hasNewer)
    BY <1>i, <1>p DEF WindowOK
  <1>4. /\ window.hasOlder \/ window.hasNewer => Len(ids) > 0
        /\ \A n \in 1..Len(ids) : page[n] \in Position
        /\ Len(ids) \in Nat
    <2>1. ids \in Seq(scope) /\ Len(ids) \in Nat
      BY <1>3, LenProperties DEF IsWindow
    <2>2. ASSUME NEW n \in 1..Len(ids) PROVE page[n] \in Position
      <3>1. ids[n] \in scope
        BY <2>1, <2>2, ElementOfSeq
      <3>2. ids[n] \in Rows(b)
        BY <1>p, <3>1, BesideInScope
      <3>3. page[n] = PositionOf(b, ids[n])
        BY <1>p, <2>2 DEF Positions
      <3> QED
        BY <3>2, <3>3, PositionInType
    <2>3. window.hasOlder \/ window.hasNewer => Len(ids) > 0
      BY <1>3 DEF IsWindow, Below, Above
    <2> QED
      BY <2>1, <2>2, <2>3
  <1>5. /\ window.hasOlder => page[Len(ids)] # None
        /\ window.hasNewer => page[1] # None
    BY <1>4, CursorAssumption
  <1>6. window.hasOlder \in BOOLEAN /\ window.hasNewer \in BOOLEAN
    BY <1>3 DEF IsWindow
  <1> QED
    BY <1>2, <1>5, <1>6 DEF CursorOf

LEMMA MinOfTwo ==
  ASSUME NEW m \in Int, NEW n \in Int
  PROVE  Min({m, n}) = IF m <= n THEN m ELSE n
  BY DEF Min

LEMMA MaxOfTwo ==
  ASSUME NEW m \in Int, NEW n \in Int
  PROVE  Max({m, n}) = IF m >= n THEN m ELSE n
  BY DEF Max

LEMMA PageIsOfAMoment ==
  ASSUME NEW b \in Book, NEW ask, NEW l, AskOK(ask, l), NEW window, WindowOK(b, ask, window),
         NEW a, RespondsTo(b, ask, window, a)
  PROVE  PageFits(a)
  <1>i. PICK items, ids : items = window.items /\ ids = IdsOf(items) /\ a.items = items
    BY DEF RespondsTo
  <1>p. PICK scope, hasOlder, hasNewer, size, count, limit :
          /\ scope = Scope(b, ask.query) /\ hasOlder = window.hasOlder
          /\ hasNewer = window.hasNewer /\ size = Len(ids) /\ count = Cardinality(scope)
          /\ limit = ask.limit
    OBVIOUS
  <1>1. /\ items = ViewsOf(b, ids) /\ IsWindow(b, scope, ids, hasOlder, hasNewer)
        /\ Continues(b, RowsAsked(b, ask), ids, SideOf(ask), hasOlder, hasNewer)
        /\ ask.cursor = None => /\ size <= limit
                                /\ hasOlder \/ hasNewer => size = limit
        /\ ask.around # None => Listed(ids, ask.around)
    BY <1>i, <1>p DEF WindowOK
  <1>2. ids \in Seq(scope) /\ scope \in SUBSET Rows(b)
    BY <1>p, <1>1, BesideInScope DEF IsWindow
  <1>3. /\ size \in Nat /\ DOMAIN items = 1..size /\ Len(items) = size
        /\ \A n \in 1..size : items[n] = ViewOf(b, ids[n])
        /\ items = <<>> <=> size = 0
    BY <1>p, <1>1, <1>2, ViewsAre
  <1>4. \A n \in 1..size : /\ positionOf(items[n]) = PositionOf(b, ids[n])
                           /\ items[n].id = ids[n]
    BY <1>3, ViewFields
  <1>5. \A m, n \in DOMAIN items :
            m < n => NewerThan(positionOf(items[m]), positionOf(items[n]))
    <2>1. \A m, n \in 1..size : m < n => Newer(b, ids[m], ids[n])
      BY <1>p, <1>1 DEF IsWindow
    <2> QED
      BY <1>3, <1>4, <2>1 DEF Newer
  <1>6. size > 0 => /\ \A m, n \in 1..size : ids[m] = ids[n] => m = n
                    /\ ~hasOlder /\ ~hasNewer => \A j \in scope : Listed(ids, j)
                    /\ count = size <=> ~hasOlder /\ ~hasNewer
                    /\ count \in Nat /\ count >= size
    BY <1>p, <1>1, <1>2, WindowWhole
  <1>7. a.older = None /\ a.newer = None <=> ~hasOlder /\ ~hasNewer
    BY <1>p, CursorsShown
  <1>8. size > 0 => a.summary = getFeedSummary(b, ask.query) /\ a.summary.count = count
    BY <1>i, <1>p, <1>3 DEF RespondsTo, getFeedSummary, Scope
  <1>9. a.direction = None => size = Min({a.limit, a.summary.count})
    <2>1. SUFFICES ASSUME a.direction = None PROVE size = Min({a.limit, a.summary.count})
      OBVIOUS
    <2>2. ask.cursor = None
      BY <2>1, CursorAssumption DEF RespondsTo, AskOK
    <2>3. limit \in Nat /\ limit # 0 /\ a.limit = limit
      BY <1>p, LimitPositive DEF RespondsTo, AskOK
    <2>4. CASE size > 0
      <3>1. size = IF limit <= count THEN limit ELSE count
        BY <1>1, <1>3, <1>6, <2>2, <2>3, <2>4
      <3> QED
        BY <1>6, <1>8, <2>3, <2>4, <3>1, MinOfTwo
    <2>5. CASE size = 0
      <3>1. scope = {}
        <4>1. RowsAsked(b, ask) = scope /\ SideOf(ask) = "none"
          BY <1>p, <2>2, BesideInScope DEF RowsAsked, SideOf, PlaceOf
        <4> QED
          BY <1>1, <1>p, <2>5, <4>1 DEF Continues, Listed, Below, Above
      <3>2. count = 0
        BY <1>p, <3>1, FS_EmptySet
      <3>3. a.summary.count = 0
        BY <1>i, <1>p, <1>3, <2>2, <2>5, <3>2 DEF RespondsTo
      <3> QED
        BY <2>3, <2>5, <3>3, MinOfTwo
    <2> QED
      BY <1>3, <2>4, <2>5
  <1>10. a.around # None => \E n \in DOMAIN items : items[n].id = a.around
    BY <1>p, <1>1, <1>3, <1>4 DEF Listed, RespondsTo
  <1>11. ASSUME size > 0, ~hasOlder, ~hasNewer
         PROVE  /\ a.summary.income = OfItems(items, "income")
                /\ a.summary.expense = OfItems(items, "expense")
    <2>1. /\ OfItems(items, "income") = Sum(b, OfType(b, Regular(b, scope), "income"))
          /\ OfItems(items, "expense") = Sum(b, OfType(b, Regular(b, scope), "expense"))
      BY <1>p, <1>1, <1>2, <1>6, <1>11, ItemsOfType
    <2> QED
      BY <1>p, <1>8, <1>11, <2>1 DEF getFeedSummary, Scope
  <1>12. size > 0 <=> items # <<>>
    BY <1>3
  <1> QED
    BY <1>i, <1>3, <1>5, <1>6, <1>7, <1>8, <1>9, <1>10, <1>11, <1>12 DEF PageFits

-----------------------------------------------------------------------------
(* The inductive invariant of the pages.                                   *)

PageShown(a) == (a # None /\ a.kind = "page") => PageFits(a)

PageInv == FeedInv /\ PageShown(answer)

\* A response to a page's request fits the book of its snapshot.
LEMMA PageAnswered ==
  ASSUME FeedInv, RespondEmpty \/ ReadDays
  PROVE  PageFits(answer')
  <1> PICK b, ask, window : b = Seen /\ ask = request.ask /\ window = request.got.window
    OBVIOUS
  <1>1. request.kind = "feed" /\ request.step \in {"summary", "days"}
    BY DEF RespondEmpty, ReadDays, InStep
  <1>2. /\ AskOK(ask, list) /\ WindowOK(b, ask, window) /\ b \in Book
        /\ request.step = "days" => request.got.summary = getFeedSummary(b, ask.query)
    BY <1>1, FeedFacts DEF GotOK
  <1>3. PICK summary, days :
            /\ RespondPage(window, summary, days)
            /\ \/ window.items = <<>> /\ ask.cursor = None /\ summary = ZeroSummary
               \/ request.step = "days" /\ summary = request.got.summary
    BY DEF RespondEmpty, ReadDays, InStep
  <1> PICK a : a = PageResponse(window, summary, days)
    OBVIOUS
  <1>4. answer' = a
    BY <1>3 DEF RespondPage, Respond
  <1>5. /\ a.items = window.items /\ a.limit = ask.limit /\ a.around = ask.around
        /\ a.direction = (IF ask.cursor = None THEN None ELSE ask.cursor.direction)
        /\ a.older = CursorAt(window.hasOlder, a.items[Len(a.items)])
        /\ a.newer = CursorAt(window.hasNewer, a.items[1])
        /\ a.summary = summary
    BY DEF PageResponse
  <1>6. /\ a.items # <<>> => summary = getFeedSummary(b, ask.query)
        /\ a.items = <<>> /\ ask.cursor = None =>
               summary.count = Cardinality(Scope(b, ask.query)) \/ summary.count = 0
    BY <1>2, <1>3, <1>5 DEF getFeedSummary, Scope, ZeroSummary
  <1>7. RespondsTo(b, ask, window, a)
    BY <1>5, <1>6 DEF RespondsTo
  <1> QED
    BY <1>2, <1>4, <1>7, PageIsOfAMoment

\* The other responses are no pages.
LEMMA NoPageAnswered ==
  ASSUME CountChecked \/ ReadCount \/ ReadLatest \/ ReadTransaction \/ ReadOperation
             \/ ReadItsTransaction
  PROVE  answer' = answer \/ answer'.kind # "page"
  <1>1. ASSUME NEW response, Respond(response), response.kind # "page"
        PROVE  answer'.kind # "page"
    BY <1>1 DEF Respond
  <1>2. Refusal.kind # "page"
    BY DEF Refusal
  <1>3. CASE CountChecked
    BY <1>1, <1>2, <1>3 DEF CountChecked, GoOn
  <1>4. CASE ReadCount
    <2> PICK query, count : Respond([kind |-> "count", query |-> query, count |-> count])
      BY <1>4 DEF ReadCount
    <2> QED
      BY <1>1
  <1>5. CASE ReadLatest
    <2> PICK id : Respond([kind |-> "latest", id |-> id])
      BY <1>5 DEF ReadLatest
    <2> QED
      BY <1>1
  <1>6. CASE ReadTransaction
    <2> PICK view : Respond(Refusal) \/ Respond([kind |-> "transaction", view |-> view])
      BY <1>6 DEF ReadTransaction
    <2> QED
      BY <1>1, <1>2
  <1>7. CASE ReadOperation
    <2>1. Respond(Refusal) \/ \E step, got : ReadAndGo(step, got)
      BY <1>7, Zenon DEF ReadOperation
    <2> QED
      BY <1>1, <1>2, <2>1 DEF ReadAndGo
  <1>8. CASE ReadItsTransaction
    <2> PICK id, status, deleted, transaction :
            Respond([kind |-> "operation", id |-> id, status |-> status,
                     deleted_at |-> deleted, transaction |-> transaction])
      BY <1>8 DEF ReadItsTransaction
    <2> QED
      BY <1>1
  <1> QED
    BY <1>3, <1>4, <1>5, <1>6, <1>7, <1>8

LEMMA NoPageOverviewed ==
  ASSUME OverviewSteps
  PROVE  answer' = answer \/ answer'.kind # "page"
  <1>1. ASSUME NEW overview, Shows(overview), overview.kind # "page"
        PROVE  answer'.kind # "page"
    BY <1>1 DEF Shows, Respond
  <1>2. CASE \E step, got : Reads(step, got)
    BY <1>2 DEF Reads, ReadAndGo
  <1>3. ReadActiveWallets \/ ReadPeriodTotals \/ ReadLimits \/ ReadCategoryRows \/ ReadCounts =>
            \E step, got : Reads(step, got)
    BY Zenon DEF ReadActiveWallets, ReadPeriodTotals, ReadLimits, ReadCategoryRows, ReadCounts
  <1>4. CASE ReadBalances
    <2> PICK overview :
            overview = buildOverview(request.got.wallets, request.got.periodTotals,
                                     getBalances(Seen, request.got.wallets))
      OBVIOUS
    <2>1. overview.kind = "wallets"
      BY DEF buildOverview
    <2>2. Shows(overview)
      BY <1>4 DEF ReadBalances
    <2> QED
      BY <1>1, <2>1, <2>2
  <1>5. CASE ReadSpending
    <2> PICK period, spending :
            Shows([kind |-> "limits", period |-> period, spending |-> spending])
      BY <1>5 DEF ReadSpending
    <2> QED
      BY <1>1
  <1>6. CASE ReadLimitMembership
    <2> PICK incomes, expenses, archived :
            Shows([kind |-> "categories", incomes |-> incomes, expenses |-> expenses,
                   archived |-> archived])
      BY <1>6 DEF ReadLimitMembership
    <2> QED
      BY <1>1
  <1> QED
    BY <1>2, <1>3, <1>4, <1>5, <1>6 DEF OverviewSteps

LEMMA PageNext ==
  PageInv /\ [Next]_vars => PageInv'
  <1>1. SUFFICES ASSUME PageInv, [Next]_vars PROVE PageInv'
    OBVIOUS
  <1>2. FeedInv /\ FeedInv' /\ PageShown(answer)
    BY <1>1, FeedNext DEF PageInv
  <1>3. ASSUME answer' = answer \/ answer' = None \/ answer'.kind # "page"
        PROVE  PageInv'
    BY <1>2, <1>3 DEF PageInv, PageShown
  <1>4. CASE RespondEmpty \/ ReadDays
    BY <1>2, <1>4, PageAnswered DEF PageInv, PageShown
  <1>5. CASE MemberWrites
    <2>1. answer' = answer
      BY <1>2, <1>5, WritesBook DEF FeedInv
    <2> QED
      BY <1>3, <2>1
  <1>6. CASE \E now \in Nows : Tick(now)
    BY <1>3, <1>6 DEF Tick
  <1>7. CASE FeedRequests
    BY <1>3, <1>7, FeedAsks
  <1>8. CASE StatisticsRequests \/ OverviewRequests
    BY <1>3, <1>8, StatisticsAsks, OverviewAsks
  <1>9. CASE PageSteps
    <2>1. Refusal.kind # "page" /\ "refused" # "page"
      BY DEF Refusal
    <2> QED
      BY <1>3, <1>4, <1>9, <2>1, PageStep
  <1>10. CASE CountChecked \/ ReadCount \/ ReadLatest \/ ReadTransaction \/ ReadOperation
                 \/ ReadItsTransaction
    BY <1>3, <1>10, NoPageAnswered
  <1>11. CASE StatisticsSteps
    BY <1>3, <1>11, StatisticsStep DEF Refusal
  <1>12. CASE OverviewSteps
    BY <1>3, <1>12, NoPageOverviewed
  <1>13. CASE UNCHANGED vars
    BY <1>3, <1>13 DEF vars, history
  <1>14. FeedSteps => \/ PageSteps
                      \/ CountChecked \/ ReadCount \/ ReadLatest \/ ReadTransaction
                             \/ ReadOperation \/ ReadItsTransaction
    BY DEF FeedSteps, PageSteps
  <1> QED
    BY <1>1, <1>5, <1>6, <1>7, <1>8, <1>9, <1>10, <1>11, <1>12, <1>13, <1>14 DEF Next

\* The items, the cursors and the sums of a page are of one moment, whatever is
\* written between the reads of getFeed: the page is in order, as full as the
\* selection allows, without cursors just when it is all of it, and its sums are
\* then those of its items.
THEOREM PagesAreOfAMoment ==
  Spec => []PageAddsUp
  <1>1. Init => PageInv
    BY FeedInit DEF Init, PageInv, PageShown
  <1>2. PageInv /\ [Next]_vars => PageInv'
    BY PageNext
  <1>3. PageInv => PageAddsUp
    BY DEF PageInv, PageShown, PageFits, PageAddsUp
  <1> QED
    BY <1>1, <1>2, <1>3, PTL DEF Spec

===============================================================================
