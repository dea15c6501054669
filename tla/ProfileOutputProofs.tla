------------------------ MODULE ProfileOutputProofs -------------------------
(***************************************************************************)
(* ProfileOutput for any admins, nodes, groups, documents, rules, orders   *)
(* and bounds: what the lists of the code hold and in which order, the     *)
(* types, the unique names, that references resolve, that a resync keeps   *)
(* the entries of the output, that the provider's block stays whole and    *)
(* that what convert makes of the tables agrees with them.                 *)
(***************************************************************************)
EXTENDS ProfileOutput, FiniteSetTheorems, FunctionTheorems, TLAPS

USE OutputBoundsAssumption

-----------------------------------------------------------------------------
(***************************************************************************)
(* Lists.                                                                  *)
(***************************************************************************)
\* R is a strict total order of K.
Orders(R, K) ==
    /\ \A i, j \in K : <<i, j>> \in R => <<j, i>> \notin R
    /\ \A i, j \in K : i # j => <<i, j>> \in R \/ <<j, i>> \in R
    /\ \A i, j, k \in K : <<i, j>> \in R /\ <<j, k>> \in R => <<i, k>> \in R

\* How many of K come before i, with i.
PlaceIn(R, K, i) == Cardinality({j \in K : j = i \/ <<j, i>> \in R})

\* f enumerates K in the order R.
Enumerates(f, R, K) ==
    /\ f \in [1 .. Cardinality(K) -> K]
    /\ \A i \in K : \E k \in 1 .. Cardinality(K) : f[k] = i
    /\ \A i, j \in 1 .. Cardinality(K) : i < j => <<f[i], f[j]>> \in R
    /\ \A i, j \in 1 .. Cardinality(K) : f[i] = f[j] => i = j

\* These places number the members of K from 1 on.
LEMMA Ranks ==
    ASSUME NEW K, IsFiniteSet(K), NEW R, Orders(R, K)
    PROVE  /\ \A i \in K : PlaceIn(R, K, i) \in 1 .. Cardinality(K)
           /\ \A k \in 1 .. Cardinality(K) : \E i \in K : PlaceIn(R, K, i) = k
           /\ \A i, j \in K : <<i, j>> \in R => PlaceIn(R, K, i) < PlaceIn(R, K, j)
           /\ \A i, j \in K : PlaceIn(R, K, i) = PlaceIn(R, K, j) => i = j
<1> DEFINE n == Cardinality(K)
           Down(i) == {j \in K : j = i \/ <<j, i>> \in R}
           Place == [i \in K |-> PlaceIn(R, K, i)]
<1>0. n \in Nat BY FS_CardinalityType
<1>1. ASSUME NEW i \in K PROVE IsFiniteSet(Down(i)) /\ Place[i] \in 1 .. n
  <2>1. Down(i) \in SUBSET K /\ i \in Down(i) /\ Place[i] = Cardinality(Down(i))
    BY DEF PlaceIn
  <2>2. IsFiniteSet(Down(i)) /\ Cardinality(Down(i)) <= n BY <2>1, FS_Subset
  <2>3. Cardinality(Down(i)) \in Nat BY <2>2, FS_CardinalityType
  <2>4. Cardinality(Down(i)) # 0 BY <2>1, <2>2, FS_EmptySet
  <2> HIDE DEF Down, Place, n
  <2> QED BY <1>0, <2>1, <2>2, <2>3, <2>4
<1>2. ASSUME NEW i \in K, NEW j \in K, <<i, j>> \in R PROVE Place[i] < Place[j]
  <2>1. Down(i) \in SUBSET Down(j) /\ j \in Down(j) /\ j \notin Down(i)
    BY <1>2 DEF Orders
  <2>2. Place[i] = Cardinality(Down(i)) /\ Place[j] = Cardinality(Down(j))
    BY DEF PlaceIn
  <2> HIDE DEF Down, Place
  <2>3. Cardinality(Down(i)) <= Cardinality(Down(j)) /\ Cardinality(Down(j)) # Cardinality(Down(i))
    BY <1>1, <2>1, FS_Subset
  <2>4. Cardinality(Down(i)) \in Nat /\ Cardinality(Down(j)) \in Nat
    BY <1>1, FS_CardinalityType
  <2> QED BY <2>2, <2>3, <2>4
<1> HIDE DEF Down
<1>3. \A i, j \in K : Place[i] = Place[j] => i = j
  <2> SUFFICES ASSUME NEW i \in K, NEW j \in K, Place[i] = Place[j], i # j PROVE FALSE
    OBVIOUS
  <2>1. Place[i] < Place[j] \/ Place[j] < Place[i] BY <1>2 DEF Orders
  <2>2. Place[i] \in Nat /\ Place[j] \in Nat BY <1>0, <1>1
  <2> HIDE DEF Place
  <2> QED BY <2>1, <2>2
<1>4. \A k \in 1 .. n : \E i \in K : Place[i] = k
  <2>1. Place \in Injection(K, 1 .. n)
    <3>1. Place \in [K -> 1 .. n] BY <1>1
    <3> HIDE DEF Place
    <3> QED BY <1>3, <3>1, Fun_IsInj
  <2>2. IsFiniteSet(1 .. n) /\ Cardinality(1 .. n) = n BY <1>0, FS_Interval
  <2>3. Place \in Surjection(K, 1 .. n)
    <3> HIDE DEF Place
    <3> QED BY <2>1, <2>2, FS_Injection
  <2> HIDE DEF Place, n
  <2> QED BY <2>3 DEF Surjection
<1>5. \A i \in K : Place[i] = PlaceIn(R, K, i) OBVIOUS
<1> HIDE DEF Place
<1> QED BY <1>1, <1>2, <1>3, <1>4, <1>5

\* So they list K.
LEMMA Arranged ==
    ASSUME NEW K, IsFiniteSet(K), NEW R, Orders(R, K),
           NEW f, f = [k \in 1 .. Cardinality(K) |-> f[k]],
           \A k \in 1 .. Cardinality(K) : f[k] \in K /\ PlaceIn(R, K, f[k]) = k
    PROVE  Enumerates(f, R, K)
<1> DEFINE n == Cardinality(K)
<1>0. n \in Nat BY FS_CardinalityType
<1>1. /\ \A i \in K : PlaceIn(R, K, i) \in 1 .. n
      /\ \A i, j \in K : <<i, j>> \in R => PlaceIn(R, K, i) < PlaceIn(R, K, j)
      /\ \A i, j \in K : PlaceIn(R, K, i) = PlaceIn(R, K, j) => i = j
  BY Ranks
<1>2. \A k \in 1 .. n : f[k] \in K /\ PlaceIn(R, K, f[k]) = k OBVIOUS
<1>3. f \in [1 .. n -> K] OBVIOUS
<1> HIDE DEF n
<1>4. \A i \in K : \E k \in 1 .. n : f[k] = i BY <1>1, <1>2
<1>5. \A i, j \in 1 .. n : f[i] = f[j] => i = j BY <1>2
<1>6. \A i, j \in 1 .. n : i < j => <<f[i], f[j]>> \in R
  <2> SUFFICES ASSUME NEW i \in 1 .. n, NEW j \in 1 .. n, i < j, <<f[i], f[j]>> \notin R
               PROVE  FALSE
    OBVIOUS
  <2>1. i \in Nat /\ j \in Nat BY <1>0
  <2>2. f[i] \in K /\ f[j] \in K /\ f[i] # f[j] BY <1>2, <2>1
  <2>3. <<f[j], f[i]>> \in R BY <2>2 DEF Orders
  <2>4. PlaceIn(R, K, f[j]) < PlaceIn(R, K, f[i]) BY <1>1, <2>2, <2>3
  <2> QED BY <1>2, <2>1, <2>4
<1> QED BY <1>3, <1>4, <1>5, <1>6 DEF n, Enumerates

\* A filter keeps the places K of a sequence, in their order.
LEMMA Kept ==
    ASSUME NEW T, NEW s \in Seq(T), NEW K \in SUBSET DOMAIN s
    PROVE  /\ IsFiniteSet(K) /\ Cardinality(K) \in Nat
           /\ \E f \in [1 .. Cardinality(K) -> K] :
                 /\ Pick(s, K) = [k \in 1 .. Cardinality(K) |-> s[f[k]]]
                 /\ \A i \in K : \E k \in 1 .. Cardinality(K) : f[k] = i
                 /\ \A i, j \in 1 .. Cardinality(K) : i < j => f[i] < f[j]
                 /\ \A i, j \in 1 .. Cardinality(K) : f[i] = f[j] => i = j
<1> DEFINE R == {p \in K \X K : p[1] < p[2]}
           n == Cardinality(K)
           Down(i) == {j \in K : j = i \/ j < i}
           f == [k \in 1 .. n |-> CHOOSE i \in K : Cardinality(Down(i)) = k]
<1>1. IsFiniteSet(K) /\ K \subseteq Nat
  <2>1. DOMAIN s = 1 .. Len(s) /\ Len(s) \in Nat OBVIOUS
  <2>2. IsFiniteSet(1 .. Len(s)) BY <2>1, FS_Interval
  <2> QED BY <2>1, <2>2, FS_Subset
<1>2. n \in Nat BY <1>1, FS_CardinalityType
<1>3. Orders(R, K) BY <1>1 DEF Orders
<1>4. \A i \in K : Cardinality(Down(i)) = PlaceIn(R, K, i)
  <2> SUFFICES ASSUME NEW i \in K PROVE Down(i) = {j \in K : j = i \/ <<j, i>> \in R}
    BY DEF PlaceIn
  <2> QED OBVIOUS
<1>5. \A i, j \in K : <<i, j>> \in R <=> i < j OBVIOUS
<1>6. Pick(s, K) = [k \in 1 .. n |-> s[f[k]]] BY DEF Pick, Arrange
<1> HIDE DEF R, Down
<1>7. \A k \in 1 .. n : f[k] \in K /\ PlaceIn(R, K, f[k]) = k
  <2>1. \A k \in 1 .. n : \E i \in K : Cardinality(Down(i)) = k BY <1>1, <1>3, <1>4, Ranks
  <2> QED BY <1>4, <2>1
<1>8. f = [k \in 1 .. n |-> f[k]] OBVIOUS
<1> HIDE DEF f
<1>9. Enumerates(f, R, K) BY <1>1, <1>3, <1>7, <1>8, Arranged
<1> HIDE DEF n
<1>10. /\ f \in [1 .. n -> K]
       /\ \A i \in K : \E k \in 1 .. n : f[k] = i
       /\ \A i, j \in 1 .. n : i < j => f[i] < f[j]
       /\ \A i, j \in 1 .. n : f[i] = f[j] => i = j
  BY <1>5, <1>9 DEF Enumerates, n
<1> QED BY <1>1, <1>2, <1>6, <1>10 DEF n

\* What it holds, and that it repeats nothing unless these places do.
LEMMA Picked ==
    ASSUME NEW S, NEW T, NEW s \in Seq(T), NEW K \in SUBSET DOMAIN s,
           \A i \in K : s[i] \in S
    PROVE  /\ Pick(s, K) \in Seq(S)
           /\ ToSet(Pick(s, K)) = {s[i] : i \in K}
           /\ (\A i, j \in K : s[i] = s[j] => i = j) => IsInjective(Pick(s, K))
<1> DEFINE n == Cardinality(K)
<1>1. n \in Nat BY Kept
<1>2. PICK f \in [1 .. n -> K] :
         /\ Pick(s, K) = [k \in 1 .. n |-> s[f[k]]]
         /\ \A i \in K : \E k \in 1 .. n : f[k] = i
         /\ \A i, j \in 1 .. n : f[i] = f[j] => i = j
  BY Kept
<1> HIDE DEF n
<1>3. Pick(s, K) \in Seq(S) BY <1>1, <1>2
<1>4. /\ DOMAIN Pick(s, K) = 1 .. n
      /\ \A k \in 1 .. n : Pick(s, K)[k] = s[f[k]]
  BY <1>2
<1>5. ToSet(Pick(s, K)) = {s[i] : i \in K} BY <1>2, <1>4 DEF ToSet
<1>6. (\A i, j \in K : s[i] = s[j] => i = j) => IsInjective(Pick(s, K))
  BY <1>2, <1>4 DEF IsInjective
<1> QED BY <1>3, <1>5, <1>6

\* A finite set that is not empty has a last member.
LEMMA LastInOrder ==
    ASSUME NEW K, IsFiniteSet(K), K # {}, NEW R, Orders(R, K)
    PROVE  \E m \in K : \A x \in K : x = m \/ <<x, m>> \in R
<1> DEFINE n == Cardinality(K)
<1>1. n \in Nat /\ n # 0 BY FS_CardinalityType, FS_EmptySet
<1>2. /\ \A i \in K : PlaceIn(R, K, i) \in 1 .. n
      /\ \A k \in 1 .. n : \E i \in K : PlaceIn(R, K, i) = k
      /\ \A i, j \in K : <<i, j>> \in R => PlaceIn(R, K, i) < PlaceIn(R, K, j)
  BY Ranks
<1> HIDE DEF n
<1>3. n \in 1 .. n BY <1>1
<1>4. PICK m \in K : PlaceIn(R, K, m) = n BY <1>2, <1>3
<1>5. ASSUME NEW x \in K, <<m, x>> \in R PROVE FALSE
  <2>1. PlaceIn(R, K, m) < PlaceIn(R, K, x) BY <1>2, <1>5
  <2> QED BY <1>1, <1>2, <1>4, <2>1
<1>6. \A x \in K : x = m \/ <<x, m>> \in R BY <1>5 DEF Orders
<1> QED BY <1>6

\* A finite set of numbers that is not empty has a greatest.
LEMMA Greatest ==
    ASSUME NEW S \in SUBSET Nat, IsFiniteSet(S), S # {}
    PROVE  Max(S) \in S /\ \A x \in S : x <= Max(S)
<1> DEFINE R == {p \in S \X S : p[1] < p[2]}
<1>1. Orders(R, S) BY DEF Orders
<1>2. \A i, j \in S : <<i, j>> \in R => i < j OBVIOUS
<1> HIDE DEF R
<1>3. PICK m \in S : \A x \in S : x = m \/ <<x, m>> \in R BY <1>1, LastInOrder
<1>4. \A x \in S : m >= x
  <2> SUFFICES ASSUME NEW x \in S PROVE m >= x OBVIOUS
  <2>1. x \in Nat /\ m \in Nat /\ (x = m \/ x < m) BY <1>2, <1>3
  <2> QED BY <2>1
<1>5. \E y \in S : \A x \in S : y >= x BY <1>4
<1> QED BY <1>5 DEF Max

\* The rank of a name in a list is a number.
LEMMA RankType ==
    ASSUME NEW T, NEW l \in Seq(T), NEW n
    PROVE  Rank(l, n) \in Nat
<1> DEFINE S == {k \in DOMAIN l : l[k] = n}
<1>1. DOMAIN l = 1 .. Len(l) /\ Len(l) \in Nat OBVIOUS
<1>2. CASE Contains(l, n)
  <2>1. S \in SUBSET Nat /\ S # {} /\ S \in SUBSET (1 .. Len(l))
    BY <1>1, <1>2 DEF Contains
  <2>2. IsFiniteSet(1 .. Len(l)) BY <1>1, FS_Interval
  <2>3. IsFiniteSet(S) BY <2>1, <2>2, FS_Subset
  <2> HIDE DEF S
  <2>4. Max(S) \in Nat BY <2>1, <2>3, Greatest
  <2> QED BY <1>2, <2>4 DEF Rank, S
<1>3. CASE ~Contains(l, n) BY <1>1, <1>3 DEF Rank
<1> QED BY <1>2, <1>3

\* What it says of a sequence and places of it that f lists them all once.
Rearranged(t, s, K, f) ==
    /\ IsFiniteSet(K) /\ Cardinality(K) \in Nat
    /\ f \in [1 .. Cardinality(K) -> K]
    /\ \A i \in K : \E k \in 1 .. Cardinality(K) : f[k] = i
    /\ \A i, j \in 1 .. Cardinality(K) : f[i] = f[j] => i = j
    /\ t = [k \in 1 .. Cardinality(K) |-> s[f[k]]]

LEMMA PickedRearranged ==
    ASSUME NEW T, NEW s \in Seq(T), NEW K \in SUBSET DOMAIN s
    PROVE  \E f : Rearranged(Pick(s, K), s, K, f)
  BY Kept DEF Rearranged

\* The stable sort by rank keeps the places K, whatever the list.
Sooner(s, l, j, k) == \/ Rank(l, s[j].name) < Rank(l, s[k].name)
                      \/ Rank(l, s[j].name) = Rank(l, s[k].name) /\ j < k

LEMMA Reordered ==
    ASSUME NEW T, NEW s \in Seq(T), NEW K \in SUBSET DOMAIN s, NEW U, NEW l \in Seq(U)
    PROVE  \E f : /\ Rearranged(ReorderPicked(s, K, l), s, K, f)
                  /\ \A i, j \in 1 .. Cardinality(K) : i < j => Sooner(s, l, f[i], f[j])
<1> DEFINE rank == [k \in K |-> Rank(l, s[k].name)]
           n == Cardinality(K)
           Before(j, i) == rank[j] < rank[i] \/ (rank[j] = rank[i] /\ j < i)
           R == {p \in K \X K : Before(p[1], p[2])}
           Down(i) == {j \in K : j = i \/ Before(j, i)}
           Under(i) == {j \in K :
               j = i \/ (LET r == Rank(l, s[j].name)
                             q == Rank(l, s[i].name)
                         IN r < q \/ (r = q /\ j < i))}
           f == [k \in 1 .. n |-> CHOOSE i \in K : Cardinality(Under(i)) = k]
<1>1. IsFiniteSet(K) /\ K \subseteq Nat
  <2>1. DOMAIN s = 1 .. Len(s) /\ Len(s) \in Nat OBVIOUS
  <2>2. IsFiniteSet(1 .. Len(s)) BY <2>1, FS_Interval
  <2> QED BY <2>1, <2>2, FS_Subset
<1>2. n \in Nat BY <1>1, FS_CardinalityType
<1>3. \A k \in K : rank[k] \in Nat BY RankType
<1>4. \A i \in K : Under(i) = Down(i) OBVIOUS
<1>5. ReorderPicked(s, K, l) = [k \in 1 .. n |-> s[f[k]]]
  BY DEF ReorderPicked, Arrange
<1>s. \A i, j \in K : <<i, j>> \in R => Sooner(s, l, i, j) BY DEF Sooner
<1> HIDE DEF Under, rank
<1>6. Orders(R, K) BY <1>1, <1>3 DEF Orders
<1>7. \A i \in K : Down(i) = {j \in K : j = i \/ <<j, i>> \in R} OBVIOUS
<1> HIDE DEF R, Down
<1>8. \A i \in K : Cardinality(Under(i)) = PlaceIn(R, K, i) BY <1>4, <1>7 DEF PlaceIn
<1>9. \A k \in 1 .. n : f[k] \in K /\ PlaceIn(R, K, f[k]) = k
  <2>1. \A k \in 1 .. n : \E i \in K : Cardinality(Under(i)) = k BY <1>1, <1>6, <1>8, Ranks
  <2> QED BY <1>8, <2>1
<1>10. f = [k \in 1 .. n |-> f[k]] OBVIOUS
<1> HIDE DEF f
<1>11. Enumerates(f, R, K) BY <1>1, <1>6, <1>9, <1>10, Arranged
<1>12. Rearranged(ReorderPicked(s, K, l), s, K, f)
  BY <1>1, <1>2, <1>5, <1>11 DEF Enumerates, Rearranged
<1> HIDE DEF n
<1>13. \A i, j \in 1 .. n : i < j => Sooner(s, l, f[i], f[j]) BY <1>11, <1>s DEF Enumerates, n
<1> QED BY <1>12, <1>13 DEF n

\* A rearrangement is a sequence of what it rearranges.
LEMMA RearrangedType ==
    ASSUME NEW t, NEW s, NEW K, NEW f, Rearranged(t, s, K, f),
           NEW S, \A i \in K : s[i] \in S
    PROVE  /\ t \in Seq(S) /\ Len(t) = Cardinality(K) /\ DOMAIN t = 1 .. Cardinality(K)
           /\ ToSet(t) = {s[i] : i \in K}
<1> DEFINE n == Cardinality(K)
<1>1. /\ n \in Nat /\ f \in [1 .. n -> K] /\ t = [k \in 1 .. n |-> s[f[k]]]
      /\ \A i \in K : \E k \in 1 .. n : f[k] = i
  BY DEF Rearranged
<1> HIDE DEF n
<1>2. t \in Seq(S) BY <1>1
<1>3. Len(t) = n /\ DOMAIN t = 1 .. n BY <1>1
<1>4. ToSet(t) = {s[i] : i \in K} BY <1>1, <1>3 DEF ToSet
<1> QED BY <1>2, <1>3, <1>4 DEF n

\* Two lists of places that have none in common, one after the other.
LEMMA Joined ==
    ASSUME NEW s, NEW T, NEW a, NEW K, NEW f, Rearranged(a, s, K, f),
           NEW b, NEW L, NEW g, Rearranged(b, s, L, g), K \cap L = {},
           \A i \in K \cup L : s[i] \in T
    PROVE  \E h : Rearranged(a \o b, s, K \cup L, h)
<1> DEFINE m == Cardinality(K)
           n == Cardinality(L)
           h == [k \in 1 .. m + n |-> IF k <= m THEN f[k] ELSE g[k - m]]
<1>1. /\ IsFiniteSet(K) /\ m \in Nat /\ f \in [1 .. m -> K]
      /\ \A i \in K : \E k \in 1 .. m : f[k] = i
      /\ \A i, j \in 1 .. m : f[i] = f[j] => i = j
      /\ a = [k \in 1 .. m |-> s[f[k]]]
  BY DEF Rearranged
<1>2. /\ IsFiniteSet(L) /\ n \in Nat /\ g \in [1 .. n -> L]
      /\ \A i \in L : \E k \in 1 .. n : g[k] = i
      /\ \A i, j \in 1 .. n : g[i] = g[j] => i = j
      /\ b = [k \in 1 .. n |-> s[g[k]]]
  BY DEF Rearranged
<1>3. IsFiniteSet(K \cup L) /\ Cardinality(K \cup L) = m + n
  <2>1. Cardinality(K \cap L) = 0 BY FS_EmptySet
  <2>2. Cardinality(K \cup L) = m + n - Cardinality(K \cap L) BY <1>1, <1>2, FS_Union
  <2>3. IsFiniteSet(K \cup L) BY <1>1, <1>2, FS_Union
  <2>4. m + n - 0 = m + n BY <1>1, <1>2
  <2> HIDE DEF m, n
  <2> QED BY <2>1, <2>2, <2>3, <2>4
<1>4. a \in Seq(T) /\ Len(a) = m /\ b \in Seq(T) /\ Len(b) = n
  BY RearrangedType
<1> HIDE DEF m, n
<1>5. \A k \in 1 .. m + n : \/ k \in 1 .. m
                            \/ ~(k <= m) /\ k - m \in 1 .. n
  BY <1>1, <1>2
<1>6. h \in [1 .. m + n -> K \cup L] BY <1>1, <1>2, <1>5
<1>7. \A i \in K \cup L : \E k \in 1 .. m + n : h[k] = i
  <2>1. ASSUME NEW i \in K PROVE \E k \in 1 .. m + n : h[k] = i
    <3>1. PICK k \in 1 .. m : f[k] = i BY <1>1
    <3>2. k \in 1 .. m + n /\ k <= m BY <1>1, <1>2
    <3> QED BY <3>1, <3>2
  <2>2. ASSUME NEW i \in L PROVE \E k \in 1 .. m + n : h[k] = i
    <3>1. PICK k \in 1 .. n : g[k] = i BY <1>2
    <3>2. m + k \in 1 .. m + n /\ ~(m + k <= m) /\ (m + k) - m = k BY <1>1, <1>2
    <3>3. h[m + k] = i BY <3>1, <3>2
    <3> QED BY <3>2, <3>3
  <2> QED BY <2>1, <2>2
<1>8. \A i, j \in 1 .. m + n : h[i] = h[j] => i = j
  <2> SUFFICES ASSUME NEW i \in 1 .. m + n, NEW j \in 1 .. m + n, h[i] = h[j]
               PROVE  i = j
    OBVIOUS
  <2>1. CASE i <= m /\ j <= m
    <3>1. i \in 1 .. m /\ j \in 1 .. m /\ f[i] = f[j] BY <2>1, <1>1
    <3> QED BY <1>1, <3>1
  <2>2. CASE ~(i <= m) /\ ~(j <= m)
    <3>1. i - m \in 1 .. n /\ j - m \in 1 .. n /\ g[i - m] = g[j - m] BY <2>2, <1>5
    <3>2. i - m = j - m BY <1>2, <3>1
    <3> QED BY <1>1, <3>2
  <2>3. CASE i <= m /\ ~(j <= m)
    <3>1. h[i] \in K /\ h[j] \in L BY <1>1, <1>2, <1>5, <2>3
    <3> QED BY <3>1
  <2>4. CASE ~(i <= m) /\ j <= m
    <3>1. h[i] \in L /\ h[j] \in K BY <1>1, <1>2, <1>5, <2>4
    <3> QED BY <3>1
  <2> QED BY <2>1, <2>2, <2>3, <2>4
<1>9. a \o b = [k \in 1 .. m + n |-> s[h[k]]]
  <2>1. /\ a \o b \in Seq(T) /\ Len(a \o b) = m + n
        /\ \A k \in 1 .. m + n : (a \o b)[k] = IF k <= m THEN a[k] ELSE b[k - m]
    BY <1>4
  <2>2. \A k \in 1 .. m + n : (a \o b)[k] = s[h[k]]
    <3> SUFFICES ASSUME NEW k \in 1 .. m + n PROVE (a \o b)[k] = s[h[k]] OBVIOUS
    <3>1. CASE k \in 1 .. m BY <1>1, <2>1, <3>1
    <3>2. CASE ~(k <= m) /\ k - m \in 1 .. n BY <1>2, <2>1, <3>2
    <3> QED BY <1>5, <3>1, <3>2
  <2> DEFINE c == a \o b
  <2>3. c \in Seq(T) /\ Len(c) = m + n BY <2>1
  <2> HIDE DEF c
  <2>4. c = [k \in 1 .. m + n |-> c[k]] BY <2>3
  <2> QED BY <2>2, <2>4 DEF c
<1>10. m + n \in Nat BY <1>1, <1>2
<1> HIDE DEF h
<1>11. Rearranged(a \o b, s, K \cup L, h)
  BY <1>3, <1>6, <1>7, <1>8, <1>9, <1>10 DEF Rearranged
<1> QED BY <1>11

\* A rearrangement of all places has each entry as often.
LEMMA SameCounts ==
    ASSUME NEW T, NEW s \in Seq(T), NEW t, NEW f, Rearranged(t, s, DOMAIN s, f)
    PROVE  SameEntries(s, t)
<1> DEFINE K == DOMAIN s
           n == Cardinality(K)
<1>1. /\ n \in Nat /\ f \in [1 .. n -> K]
      /\ \A i \in K : \E k \in 1 .. n : f[k] = i
      /\ \A i, j \in 1 .. n : f[i] = f[j] => i = j
      /\ t = [k \in 1 .. n |-> s[f[k]]]
  BY DEF Rearranged
<1>2. DOMAIN t = 1 .. n BY <1>1
<1> HIDE DEF K, n
<1> SUFFICES ASSUME NEW e
             PROVE  Cardinality({k \in K : s[k] = e}) = Cardinality({k \in 1 .. n : t[k] = e})
  BY <1>2 DEF SameEntries, K
<1> DEFINE A == {k \in 1 .. n : t[k] = e}
           B == {k \in K : s[k] = e}
           g == [k \in A |-> f[k]]
<1>3. IsFiniteSet(A)
  <2>1. IsFiniteSet(1 .. n) /\ A \in SUBSET (1 .. n) BY <1>1, FS_Interval
  <2> HIDE DEF A
  <2> QED BY <2>1, FS_Subset
<1>4. /\ g \in [A -> B] /\ \A i, j \in A : g[i] = g[j] => i = j
      /\ \A i \in B : \E k \in A : g[k] = i
  BY <1>1
<1> HIDE DEF A, B, g
<1>5. g \in Bijection(A, B) BY <1>4, Fun_IsBij
<1>6. ExistsBijection(A, B) BY <1>5 DEF ExistsBijection
<1>7. Cardinality(A) = Cardinality(B) BY <1>3, <1>6, FS_Bijection
<1> QED BY <1>7 DEF A, B

\* Places that stand together stay as they are.
Block(m, n) == m + 1 .. m + n
Part(s, m, n) == [k \in 1 .. n |-> s[m + k]]

LEMMA PickedBlock ==
    ASSUME NEW s, NEW m \in Nat, NEW n \in Nat
    PROVE  Pick(s, Block(m, n)) = Part(s, m, n)
<1> DEFINE K == m + 1 .. m + n
           Down(i) == {j \in K : j = i \/ j < i}
           f == [k \in 1 .. n |-> CHOOSE i \in K : Cardinality(Down(i)) = k]
<1>1. Cardinality(K) = n BY FS_Interval
<1>2. Pick(s, K) = [k \in 1 .. n |-> s[f[k]]] BY <1>1 DEF Pick, Arrange
<1>3. \A i \in K : Cardinality(Down(i)) = i - m
  <2> SUFFICES ASSUME NEW i \in K PROVE Cardinality(Down(i)) = i - m OBVIOUS
  <2>1. Down(i) = m + 1 .. i OBVIOUS
  <2>2. Cardinality(m + 1 .. i) = i - m BY FS_Interval
  <2> HIDE DEF Down
  <2> QED BY <2>1, <2>2
<1> HIDE DEF Down
<1>4. \A k \in 1 .. n : f[k] = m + k
  <2> SUFFICES ASSUME NEW k \in 1 .. n PROVE f[k] = m + k OBVIOUS
  <2>1. m + k \in K /\ (m + k) - m = k OBVIOUS
  <2>2. f[k] \in K /\ Cardinality(Down(f[k])) = k BY <1>3, <2>1
  <2>3. f[k] - m = k BY <1>3, <2>2
  <2> HIDE DEF f
  <2> QED BY <2>2, <2>3
<1> HIDE DEF f
<1> QED BY <1>2, <1>4 DEF Block, Part

-----------------------------------------------------------------------------
(***************************************************************************)
(* What the queries and Converter make of the tables.                      *)
(***************************************************************************)
LEMMA Wider == ASSUME NEW S, NEW T, S \subseteq T, NEW s \in Seq(S) PROVE s \in Seq(T)
  OBVIOUS

\* The tables hold rows, and no name twice.
Stored ==
    /\ node \in [NodeIds -> NodeRow \cup {NULL}]
    /\ groups \in Seq(GroupRow) /\ rules \in Seq(Line)
    /\ section \in Sections /\ order \in Seq(Names)
    /\ row \in Output \cup {NULL}
    /\ feed \in Feeds
    /\ NamesUnique

LEMMA LetterOf ==
    ASSUME NEW n \in Names
    PROVE  Letter(n) \in Nat /\ Alphabet[Letter(n)] = n
<1>1. DOMAIN Alphabet = 1 .. Len(Alphabet) /\ Len(Alphabet) \in Nat BY BodiesAssumption
<1>2. \E k \in DOMAIN Alphabet : Alphabet[k] = n BY DEF Names, ToSet
<1>3. Letter(n) \in DOMAIN Alphabet /\ Alphabet[Letter(n)] = n BY <1>2 DEF Letter
<1> QED BY <1>1, <1>3

\* The query returns each of the nodes once, by position.
LEMMA NodesListed ==
    ASSUME Stored, NEW ids \in SUBSET Nodes
    PROVE  \E f : /\ Rearranged(NodeList(ids), node, ids, f)
                  /\ \A i, j \in 1 .. Cardinality(ids) :
                        i < j => node[f[i]].pos <= node[f[j]].pos
<1> DEFINE n == Cardinality(ids)
           Before(i, j) == \/ node[i].pos < node[j].pos
                           \/ /\ node[i].pos = node[j].pos
                              /\ Letter(node[i].name) < Letter(node[j].name)
           R == {p \in ids \X ids : Before(p[1], p[2])}
           Down(i) == {j \in ids : j = i \/ Before(j, i)}
           f == [k \in 1 .. n |-> CHOOSE i \in ids : Cardinality(Down(i)) = k]
<1>1. IsFiniteSet(ids) /\ \A i \in ids : i \in NodeIds /\ node[i] \in NodeRow
  <2>1. ids \in SUBSET NodeIds BY DEF Nodes
  <2>2. \A i \in ids : node[i] \in NodeRow BY DEF Nodes, Stored
  <2> QED BY <2>1, <2>2, FS_Subset
<1>2. n \in Nat BY <1>1, FS_CardinalityType
<1>3. NodeList(ids) = [k \in 1 .. n |-> node[f[k]]] BY DEF NodeList, Arrange
<1>4. \A i \in ids : node[i].pos \in Nat /\ Letter(node[i].name) \in Nat
  <2> SUFFICES ASSUME NEW i \in ids PROVE node[i].pos \in Nat /\ Letter(node[i].name) \in Nat
    OBVIOUS
  <2>1. node[i].pos \in Nat /\ node[i].name \in Names BY <1>1 DEF NodeRow
  <2> QED BY <2>1, LetterOf
<1>5. \A i, j \in ids : Letter(node[i].name) = Letter(node[j].name) => i = j
  <2> SUFFICES ASSUME NEW i \in ids, NEW j \in ids,
                      Letter(node[i].name) = Letter(node[j].name)
               PROVE  i = j
    OBVIOUS
  <2>1. node[i].name \in Names /\ node[j].name \in Names BY <1>1 DEF NodeRow
  <2>2. node[i].name = node[j].name BY <2>1, LetterOf
  <2> QED BY <2>2 DEF Stored, NamesUnique, NodeNameFree
<1>6. Orders(R, ids)
  <2>1. \A i, j \in ids : <<i, j>> \in R <=> Before(i, j) OBVIOUS
  <2>2. \A i, j \in ids : Before(i, j) => ~Before(j, i) BY <1>4
  <2>3. \A i, j \in ids : i # j => Before(i, j) \/ Before(j, i) BY <1>4, <1>5
  <2>4. \A i, j, k \in ids : Before(i, j) /\ Before(j, k) => Before(i, k) BY <1>4
  <2> HIDE DEF Before, R
  <2> QED BY <2>1, <2>2, <2>3, <2>4 DEF Orders
<1>7. \A i \in ids : Down(i) = {j \in ids : j = i \/ <<j, i>> \in R} OBVIOUS
<1>s. \A i, j \in ids : <<i, j>> \in R => node[i].pos <= node[j].pos
  <2>1. \A i, j \in ids : <<i, j>> \in R => \/ node[i].pos < node[j].pos
                                            \/ node[i].pos = node[j].pos
    OBVIOUS
  <2> HIDE DEF R
  <2> QED BY <1>4, <2>1
<1> HIDE DEF R, Down
<1>8. \A i \in ids : Cardinality(Down(i)) = PlaceIn(R, ids, i) BY <1>7 DEF PlaceIn
<1>9. \A k \in 1 .. n : f[k] \in ids /\ PlaceIn(R, ids, f[k]) = k
  <2>1. \A k \in 1 .. n : \E i \in ids : Cardinality(Down(i)) = k BY <1>1, <1>6, <1>8, Ranks
  <2> QED BY <1>8, <2>1
<1>10. f = [k \in 1 .. n |-> f[k]] OBVIOUS
<1> HIDE DEF f
<1>11. Enumerates(f, R, ids) BY <1>1, <1>6, <1>9, <1>10, Arranged
<1>12. Rearranged(NodeList(ids), node, ids, f)
  BY <1>1, <1>2, <1>3, <1>11 DEF Enumerates, Rearranged
<1> HIDE DEF n
<1>13. \A i, j \in 1 .. n : i < j => node[f[i]].pos <= node[f[j]].pos
  BY <1>11, <1>s DEF Enumerates, n
<1> QED BY <1>12, <1>13 DEF n

LEMMA NodeListType ==
    ASSUME Stored, NEW ids \in SUBSET Nodes
    PROVE  /\ NodeList(ids) \in Seq(NodeRow)
           /\ ToSet(NodeList(ids)) = {node[i] : i \in ids}
<1>1. \A i \in ids : node[i] \in NodeRow BY DEF Stored, Nodes
<1>2. PICK f : Rearranged(NodeList(ids), node, ids, f) BY NodesListed
<1> QED BY <1>1, <1>2, RearrangedType

LEMMA NameOfType ==
    ASSUME NEW S, NEW s \in Seq(S), \A e \in S : e.name \in Names
    PROVE  NameOf(s) \in Seq(Names)
<1>1. DOMAIN s = 1 .. Len(s) /\ Len(s) \in Nat OBVIOUS
<1>2. \A k \in DOMAIN s : s[k].name \in Names OBVIOUS
<1> QED BY <1>1, <1>2 DEF NameOf

LEMMA ReorderByNameType ==
    ASSUME NEW S, NEW s \in Seq(S), NEW U, NEW l \in Seq(U)
    PROVE  /\ ReorderByName(s, l) \in Seq(S) /\ ToSet(ReorderByName(s, l)) = ToSet(s)
           /\ SameEntries(s, ReorderByName(s, l))
<1>1. PICK f : Rearranged(ReorderByName(s, l), s, DOMAIN s, f)
  <2>1. DOMAIN s \in SUBSET DOMAIN s OBVIOUS
  <2> QED BY <2>1, Reordered DEF ReorderByName
<1>2. \A i \in DOMAIN s : s[i] \in S OBVIOUS
<1>3. SameEntries(s, ReorderByName(s, l)) BY <1>1, SameCounts
<1>4. ReorderByName(s, l) \in Seq(S) /\ ToSet(ReorderByName(s, l)) = {s[i] : i \in DOMAIN s}
  BY <1>1, <1>2, RearrangedType
<1> QED BY <1>3, <1>4 DEF ToSet

LEMMA RuleLinesType == ASSUME NEW s \in Seq(Line) PROVE RuleLines(s) \in Seq(Line)
<1> DEFINE K == {k \in DOMAIN s : s[k] # COMMENT}
<1>1. K \in SUBSET DOMAIN s /\ \A k \in K : s[k] \in Line OBVIOUS
<1> HIDE DEF K
<1> QED BY <1>1, Picked DEF RuleLines, K

LEMMA BlocksTyped ==
    ASSUME NEW p \in Seq(Names), NEW c \in Seq(NodeRow)
    PROVE  /\ ProviderBlock(p) \in Seq(ProxyEntry)
           /\ CustomBlock(c) \in Seq(ProxyEntry)
<1>1. /\ DOMAIN p = 1 .. Len(p) /\ Len(p) \in Nat
      /\ DOMAIN c = 1 .. Len(c) /\ Len(c) \in Nat
  OBVIOUS
<1>2. \A i \in 1 .. Len(p) : [name |-> p[i], from |-> "provider"] \in ProxyEntry
  BY DEF ProxyEntry
<1>3. \A i \in 1 .. Len(c) : [name |-> c[i].shown, from |-> c[i].name] \in ProxyEntry
  <2> SUFFICES ASSUME NEW i \in 1 .. Len(c)
               PROVE  [name |-> c[i].shown, from |-> c[i].name] \in ProxyEntry
    OBVIOUS
  <2>1. c[i] \in NodeRow OBVIOUS
  <2> QED BY <2>1 DEF NodeRow, ProxyEntry
<1> QED BY <1>1, <1>2, <1>3 DEF ProviderBlock, CustomBlock

LEMMA GroupsBuilt ==
    ASSUME NEW gs \in Seq(GroupRow)
    PROVE  [i \in DOMAIN gs |-> BuildGroup(gs[i])] \in Seq(GroupEntry)
<1>1. DOMAIN gs = 1 .. Len(gs) /\ Len(gs) \in Nat OBVIOUS
<1>2. \A i \in 1 .. Len(gs) : BuildGroup(gs[i]) \in GroupEntry
  <2> SUFFICES ASSUME NEW i \in 1 .. Len(gs) PROVE BuildGroup(gs[i]) \in GroupEntry OBVIOUS
  <2>1. gs[i] \in GroupRow OBVIOUS
  <2> QED BY <2>1 DEF GroupRow, GroupEntry, BuildGroup
<1> QED BY <1>1, <1>2

LEMMA ConvertType ==
    ASSUME NEW in \in Local
    PROVE  Convert(in) \in Output
<1>1. /\ in.provider \in Seq(Names) /\ in.nodes \in Seq(NodeRow)
      /\ in.groups \in Seq(GroupRow) /\ in.rules \in Seq(Line) /\ in.order \in Seq(Names)
  BY DEF Local
<1> DEFINE p == ProviderBlock(in.provider)
           c == CustomBlock(in.nodes)
           g == [i \in DOMAIN in.groups |-> BuildGroup(in.groups[i])]
<1>2. p \in Seq(ProxyEntry) /\ c \in Seq(ProxyEntry) BY <1>1, BlocksTyped
<1>3. g \in Seq(GroupEntry) BY <1>1, GroupsBuilt
<1> HIDE DEF p, c, g
<1>4. ConcatSections(p, c, in.section) \in Seq(ProxyEntry)
  BY <1>2 DEF ConcatSections
<1>5. ReorderByName(g, in.order) \in Seq(GroupEntry) BY <1>1, <1>3, ReorderByNameType
<1>6. RuleLines(in.rules) \in Seq(Line) BY <1>1, RuleLinesType
<1> QED BY <1>4, <1>5, <1>6 DEF Convert, Output, p, c, g

\* A resync is a rearrangement of the output and the current rules.
LEMMA ResyncedType ==
    ASSUME NEW l \in Local, l.out # NULL
    PROVE  /\ Resynced(l) \in Output
           /\ ToSet(Resynced(l).proxies) = ToSet(l.out.proxies)
           /\ ToSet(Resynced(l).groups) = ToSet(l.out.groups)
           /\ SameEntries(l.out.proxies, Resynced(l).proxies)
           /\ SameEntries(l.out.groups, Resynced(l).groups)
<1> DEFINE ps == l.out.proxies
           C == {k \in DOMAIN ps : ps[k].name \in l.names}
           D == (DOMAIN ps) \ C
           p == Pick(ps, D)
           c == ReorderPicked(ps, C, l.todo)
<1>1. /\ ps \in Seq(ProxyEntry) /\ l.out.groups \in Seq(GroupEntry)
      /\ l.todo \in Seq(Names \cup GroupRow \cup {NULL})
      /\ l.rules \in Seq(Line) /\ l.order \in Seq(Names)
  BY DEF Local, Output
<1>2. C \in SUBSET DOMAIN ps /\ D \in SUBSET DOMAIN ps /\ C \cap D = {} /\ D \cup C = DOMAIN ps
  OBVIOUS
<1>3. Resynced(l) = [proxies |-> ConcatSections(p, c, l.section),
                     groups |-> ReorderByName(l.out.groups, l.order),
                     rules |-> RuleLines(l.rules)]
  BY DEF Resynced
<1> HIDE DEF C, D, ps
<1>4. PICK f : Rearranged(p, ps, D, f) BY <1>1, <1>2, PickedRearranged
<1>5. PICK g : Rearranged(c, ps, C, g) BY <1>1, <1>2, Reordered
<1> HIDE DEF p, c
<1>6. \A i \in D \cup C : ps[i] \in ProxyEntry BY <1>1, <1>2
<1>7. \E h : Rearranged(p \o c, ps, DOMAIN ps, h)
  <2>1. D \cap C = {} BY <1>2
  <2>2. \E h : Rearranged(p \o c, ps, D \cup C, h) BY <1>4, <1>5, <1>6, <2>1, Joined
  <2> QED BY <1>2, <2>2
<1>8. \E h : Rearranged(c \o p, ps, DOMAIN ps, h)
  <2>1. C \cup D = DOMAIN ps /\ \A i \in C \cup D : ps[i] \in ProxyEntry BY <1>2, <1>6
  <2>2. \E h : Rearranged(c \o p, ps, C \cup D, h) BY <1>2, <1>4, <1>5, <2>1, Joined
  <2> QED BY <2>1, <2>2
<1>9. PICK h : Rearranged(ConcatSections(p, c, l.section), ps, DOMAIN ps, h)
  BY <1>7, <1>8 DEF ConcatSections
<1>10. /\ ConcatSections(p, c, l.section) \in Seq(ProxyEntry)
       /\ ToSet(ConcatSections(p, c, l.section)) = {ps[i] : i \in DOMAIN ps}
  <2> DEFINE t == ConcatSections(p, c, l.section)
             K == DOMAIN ps
  <2>1. (\A i \in K : ps[i] \in ProxyEntry) /\ Rearranged(t, ps, K, h) BY <1>1, <1>9
  <2> HIDE DEF t, K
  <2>2. t \in Seq(ProxyEntry) /\ ToSet(t) = {ps[i] : i \in K} BY <2>1, RearrangedType
  <2> QED BY <2>2 DEF t, K
<1>11. SameEntries(ps, ConcatSections(p, c, l.section)) BY <1>1, <1>9, SameCounts
<1>12. /\ ReorderByName(l.out.groups, l.order) \in Seq(GroupEntry)
       /\ ToSet(ReorderByName(l.out.groups, l.order)) = ToSet(l.out.groups)
       /\ SameEntries(l.out.groups, ReorderByName(l.out.groups, l.order))
  BY <1>1, ReorderByNameType
<1>13. RuleLines(l.rules) \in Seq(Line) BY <1>1, RuleLinesType
<1>14. Resynced(l) \in Output BY <1>3, <1>10, <1>12, <1>13 DEF Output
<1>15. /\ Resynced(l).proxies = ConcatSections(p, c, l.section)
       /\ Resynced(l).groups = ReorderByName(l.out.groups, l.order)
  BY <1>3
<1>16. ToSet(ps) = {ps[i] : i \in DOMAIN ps} BY DEF ToSet
<1> QED BY <1>10, <1>11, <1>12, <1>14, <1>15, <1>16 DEF ps

-----------------------------------------------------------------------------
(***************************************************************************)
(* Types and unique names.  A handler's list is of the kind its place says *)
(* and the output it works on is there.                                    *)
(***************************************************************************)
Resyncing == {"node_order", "section", "names", "group_order", "resync_rules", "write"}

Held ==
    /\ pc \in [Tasks -> Lbl] /\ local \in [Tasks -> Local]
    /\ pc[GEN] \in {"persisting", "snapshot"} => local[GEN].out # NULL
    /\ \A a \in Admins : /\ pc[a] \in Resyncing => local[a].out # NULL
                         /\ pc[a] = "taken" => local[a].todo \in Seq(GroupBodies \cup {NULL})
                         /\ pc[a] = "importing" => local[a].todo \in Seq(GroupBodies)
                         /\ pc[a] = "reordering" => local[a].todo \in Seq(Names)

Counted == edits \in 0 .. MaxEdits /\ upsets \in 0 .. MaxUpsets /\ strayed \in BOOLEAN

Typed == Stored /\ Held /\ Counted

LEMMA BlankType == Blank \in Local /\ Blank.out = NULL
  BY DEF Blank, Local, Sections

LEMMA TaskOf == GEN \in Tasks /\ \A a \in Admins : a \in Tasks /\ a # GEN
  BY DEF Tasks

LEMMA RowType ==
    ASSUME NEW b \in [name : Names, shown : Names, on : BOOLEAN], NEW p \in Nat
    PROVE  Row(b, p) \in NodeRow /\ Row(b, p).name = b.name /\ Row(b, p) # NULL
  BY OutputNullAssumption DEF Row, NodeRow

LEMMA InitTyped == Init => Typed
<1> SUFFICES ASSUME Init PROVE Typed OBVIOUS
<1> USE DEF Init
<1>1. node \in [NodeIds -> NodeRow \cup {NULL}]
  <2>1. \A b \in NodeBodies, p \in 0 .. Cardinality(NodeIds) : Row(b, p) \in NodeRow
    <3> SUFFICES ASSUME NEW b \in NodeBodies, NEW p \in 0 .. Cardinality(NodeIds)
                 PROVE  Row(b, p) \in NodeRow
      OBVIOUS
    <3>1. Cardinality(NodeIds) \in Nat BY FS_CardinalityType
    <3>2. p \in Nat BY <3>1
    <3> QED BY <3>2, RowType, BodiesAssumption
  <2> QED BY <2>1
<1>2. NamesUnique BY DEF NamesUnique
<1>3. groups \in Seq(GroupRow) /\ rules \in Seq(Line) /\ order \in Seq(Names) OBVIOUS
<1>4. Stored BY <1>1, <1>2, <1>3 DEF Stored, Sections
<1>5. Held BY BlankType, TaskOf DEF Held, Lbl, Resyncing
<1>6. Counted
  <2>1. edits \in 0 .. MaxEdits /\ upsets \in 0 .. MaxUpsets BY SMT
  <2>2. strayed \in BOOLEAN BY Zenon
  <2> QED BY <2>1, <2>2 DEF Counted
<1> QED BY <1>4, <1>5, <1>6 DEF Typed

\* A handler that ends, and one that goes on and leaves what it has read.
LEMMA LeaveHeld ==
    ASSUME Held, NEW t \in Tasks, Leave(t)
    PROVE  Held'
<1>1. /\ pc' = [pc EXCEPT ![t] = "idle"] /\ local' = [local EXCEPT ![t] = Blank]
  BY DEF Leave, Goto
<1> QED BY <1>1, BlankType, TaskOf DEF Held, Lbl, Resyncing

\* One field of what a handler has read.
LEMMA TookType ==
    ASSUME NEW l \in Local
    PROVE  /\ \A v \in Seq(Names) : /\ [l EXCEPT !.provider = v] \in Local
                                    /\ [l EXCEPT !.order = v] \in Local
           /\ \A v \in Seq(NodeRow) : [l EXCEPT !.nodes = v] \in Local
           /\ \A v \in Seq(GroupRow) : [l EXCEPT !.groups = v] \in Local
           /\ \A v \in Seq(Line) : [l EXCEPT !.rules = v] \in Local
           /\ \A v \in Sections : [l EXCEPT !.section = v] \in Local
           /\ \A v \in SUBSET Names : [l EXCEPT !.names = v] \in Local
           /\ \A v \in Seq(Names \cup GroupRow \cup {NULL}) : [l EXCEPT !.todo = v] \in Local
           /\ \A v \in Nat : [l EXCEPT !.pos = v] \in Local
           /\ \A v \in Output \cup {NULL} : [l EXCEPT !.out = v] \in Local
  BY DEF Local

\* A step of t to the label x with l read keeps Held if l fits x.
LEMMA MovedHeld ==
    ASSUME Held, NEW t \in Tasks, NEW x \in Lbl, NEW l \in Local,
           pc' = [pc EXCEPT ![t] = x], local' = [local EXCEPT ![t] = l],
           x \in {"persisting", "snapshot"} \cup Resyncing => l.out # NULL,
           x = "taken" => l.todo \in Seq(GroupBodies \cup {NULL}),
           x = "importing" => l.todo \in Seq(GroupBodies),
           x = "reordering" => l.todo \in Seq(Names)
    PROVE  Held'
  BY TaskOf DEF Held, Resyncing

LEMMA ReadsTyped ==
    ASSUME Stored
    PROVE  /\ EnabledNodes \in Seq(NodeRow) /\ EnabledGroups \in Seq(GroupRow)
           /\ NameOf(NodeList(Nodes)) \in Seq(Names)
           /\ feed.proxies \in Seq(Names) /\ NodeNames \in SUBSET Names
<1>1. EnabledNodes \in Seq(NodeRow)
  <2>1. {i \in Nodes : node[i].on} \in SUBSET Nodes OBVIOUS
  <2> QED BY <2>1, NodeListType DEF EnabledNodes
<1>2. EnabledGroups \in Seq(GroupRow)
  <2> DEFINE K == {k \in DOMAIN groups : groups[k].on}
  <2>1. /\ groups \in Seq(GroupRow) /\ K \in SUBSET DOMAIN groups
        /\ \A k \in K : groups[k] \in GroupRow
    BY DEF Stored
  <2> HIDE DEF K
  <2> QED BY <2>1, Picked DEF EnabledGroups, K
<1>3. NameOf(NodeList(Nodes)) \in Seq(Names)
  <2>1. NodeList(Nodes) \in Seq(NodeRow) BY NodeListType
  <2>2. \A e \in NodeRow : e.name \in Names BY DEF NodeRow
  <2> QED BY <2>1, <2>2, NameOfType
<1>4. feed.proxies \in Seq(Names) BY FeedsAssumption DEF Stored
<1>5. NodeNames \in SUBSET Names BY DEF NodeNames, Nodes, Stored, NodeRow
<1> QED BY <1>1, <1>2, <1>3, <1>4, <1>5

LEMMA GenerationTyped == ASSUME Typed, Generation PROVE Typed'
<1> USE DEF Typed
<1>c. Counted' BY DEF Generation, Fetch, ReadRules, ReadNodes, ReadGroups, BuildOutput,
                      Persist, Snapshot, bounds, Counted
<1>t. GEN \in Tasks /\ local[GEN] \in Local BY TaskOf DEF Held
<1>1. CASE Fetch \/ ReadRules \/ ReadNodes \/ ReadGroups
  <2>1. Stored' BY <1>1 DEF Fetch, ReadRules, ReadNodes, ReadGroups, tables, Stored,
          NamesUnique, Nodes, NodeNameFree, GroupNameFree
  <2>2. \E x \in {"rules", "nodes", "groups", "orders"}, l \in Local :
          pc' = [pc EXCEPT ![GEN] = x] /\ local' = [local EXCEPT ![GEN] = l]
    <3>1. CASE Fetch
      <4>1. [local[GEN] EXCEPT !.provider = feed.proxies] \in Local
        BY <1>t, TookType, ReadsTyped
      <4>2. local' = [local EXCEPT ![GEN] = [local[GEN] EXCEPT !.provider = feed.proxies]]
        BY <3>1 DEF Fetch
      <4> QED BY <3>1, <4>1, <4>2 DEF Fetch, Goto
    <3>2. CASE ReadRules
      <4>1. [local[GEN] EXCEPT !.rules = rules] \in Local BY <1>t, TookType DEF Stored
      <4>2. local' = [local EXCEPT ![GEN] = [local[GEN] EXCEPT !.rules = rules]]
        BY <3>2 DEF ReadRules
      <4> QED BY <3>2, <4>1, <4>2 DEF ReadRules, Goto
    <3>3. CASE ReadNodes
      <4>1. [local[GEN] EXCEPT !.nodes = EnabledNodes] \in Local
        BY <1>t, TookType, ReadsTyped
      <4>2. local' = [local EXCEPT ![GEN] = [local[GEN] EXCEPT !.nodes = EnabledNodes]]
        BY <3>3 DEF ReadNodes
      <4> QED BY <3>3, <4>1, <4>2 DEF ReadNodes, Goto
    <3>4. CASE ReadGroups
      <4>1. [local[GEN] EXCEPT !.groups = EnabledGroups] \in Local
        BY <1>t, TookType, ReadsTyped
      <4>2. local' = [local EXCEPT ![GEN] = [local[GEN] EXCEPT !.groups = EnabledGroups]]
        BY <3>4 DEF ReadGroups
      <4> QED BY <3>4, <4>1, <4>2 DEF ReadGroups, Goto
    <3> QED BY <1>1, <3>1, <3>2, <3>3, <3>4
  <2>3. Held' BY <1>t, <2>2, MovedHeld DEF Lbl, Resyncing
  <2> QED BY <1>c, <2>1, <2>3
<1>2. CASE BuildOutput
  <2>1. Stored' BY <1>2 DEF BuildOutput, tables, Stored, NamesUnique, Nodes, NodeNameFree,
                            GroupNameFree
  <2> DEFINE in == [local[GEN] EXCEPT !.section = section, !.order = order]
  <2>2. CASE Accepted(in)
    <3>1. in \in Local BY <1>t DEF Local, Stored
    <3> DEFINE l == [Blank EXCEPT !.out = Convert(in)]
    <3>2. Convert(in) \in Output /\ Convert(in) # NULL
      BY <3>1, ConvertType, OutputNullAssumption
    <3>3. pc' = [pc EXCEPT ![GEN] = "persisting"] /\ local' = [local EXCEPT ![GEN] = l]
      BY <1>2, <2>2 DEF BuildOutput, Goto
    <3> HIDE DEF in
    <3>4. l \in Local BY <3>2, BlankType, TookType
    <3>5. l.out # NULL BY <3>2, BlankType DEF Blank
    <3> HIDE DEF l
    <3>6. Held' BY <1>t, <3>3, <3>4, <3>5, MovedHeld DEF Lbl
    <3> QED BY <1>c, <2>1, <3>6
  <2>3. CASE ~Accepted(in)
    <3>1. Leave(GEN) BY <1>2, <2>3 DEF BuildOutput
    <3> QED BY <1>c, <1>t, <2>1, <3>1, LeaveHeld
  <2> QED BY <2>2, <2>3
<1>3. CASE Persist
  <2>1. local[GEN].out \in Output \cup {NULL} /\ local[GEN].out # NULL
    BY <1>3, <1>t DEF Persist, Held, Local
  <2>2. Stored' BY <1>3, <2>1 DEF Persist, Stored, NamesUnique, Nodes, NodeNameFree,
                                  GroupNameFree
  <2>3. Held' BY <1>3, <2>1, TaskOf DEF Persist, Goto, Held, Lbl, Resyncing
  <2> QED BY <1>c, <2>2, <2>3
<1>4. CASE Snapshot
  <2>1. local[GEN].out \in Output BY <1>4, <1>t DEF Snapshot, Held, Local
  <2>2. local[GEN].out.groups \in Seq(GroupEntry) /\ \A e \in GroupEntry : e.name \in Names
    BY <2>1 DEF Output, GroupEntry
  <2>3. order' \in Seq(Names) BY <1>4, <2>2, NameOfType DEF Snapshot
  <2>4. Stored' BY <1>4, <2>3 DEF Snapshot, Stored, NamesUnique, Nodes, NodeNameFree,
                                  GroupNameFree
  <2>5. Held' BY <1>4, <1>t, LeaveHeld DEF Snapshot
  <2> QED BY <1>c, <2>4, <2>5
<1> QED BY <1>1, <1>2, <1>3, <1>4 DEF Generation

LEMMA ResyncTyped == ASSUME Typed, NEW a \in Admins, Resync(a) PROVE Typed'
<1> USE DEF Typed
<1>c. Counted' BY DEF Resync, ResyncLoad, ResyncNodeOrder, ResyncSection, ResyncNames,
                      ResyncGroupOrder, ResyncRules, ResyncWrite, bounds, Counted
<1>t. a \in Tasks /\ local[a] \in Local BY TaskOf DEF Held
<1>1. CASE ResyncLoad(a)
  <2>1. Stored' BY <1>1 DEF ResyncLoad, tables, Stored, NamesUnique, Nodes, NodeNameFree,
                            GroupNameFree
  <2>2. CASE row = NULL
    <3>1. Leave(a) BY <1>1, <2>2 DEF ResyncLoad
    <3> QED BY <1>c, <1>t, <2>1, <3>1, LeaveHeld
  <2>3. CASE row # NULL
    <3> DEFINE l == [Blank EXCEPT !.out = row]
    <3>1. pc' = [pc EXCEPT ![a] = "node_order"] /\ local' = [local EXCEPT ![a] = l]
      BY <1>1, <2>3 DEF ResyncLoad, Goto
    <3>2. l \in Local BY BlankType, TookType DEF Stored
    <3>3. l.out # NULL BY <2>3 DEF Blank
    <3> HIDE DEF l
    <3>4. Held' BY <1>t, <3>1, <3>2, <3>3, MovedHeld DEF Lbl
    <3> QED BY <1>c, <2>1, <3>4
  <2> QED BY <2>2, <2>3
<1>2. CASE \/ ResyncNodeOrder(a) \/ ResyncSection(a) \/ ResyncNames(a)
           \/ ResyncGroupOrder(a) \/ ResyncRules(a)
  <2>1. Stored'
    BY <1>2 DEF ResyncNodeOrder, ResyncSection, ResyncNames, ResyncGroupOrder, ResyncRules,
                tables, Stored, NamesUnique, Nodes, NodeNameFree, GroupNameFree
  <2>2. \E x \in Resyncing, l \in Local :
          /\ pc' = [pc EXCEPT ![a] = x] /\ local' = [local EXCEPT ![a] = l]
          /\ l.out = local[a].out
    <3>1. CASE ResyncNodeOrder(a)
      <4> DEFINE l == [local[a] EXCEPT !.todo = NameOf(NodeList(Nodes))]
      <4>1. NameOf(NodeList(Nodes)) \in Seq(Names \cup GroupRow \cup {NULL})
        BY ReadsTyped, Wider
      <4>2. l \in Local /\ l.out = local[a].out BY <1>t, <4>1, TookType DEF Local
      <4>3. pc' = [pc EXCEPT ![a] = "section"] /\ local' = [local EXCEPT ![a] = l]
        BY <3>1 DEF ResyncNodeOrder, Goto
      <4> QED BY <4>2, <4>3 DEF Resyncing
    <3>2. CASE ResyncSection(a)
      <4> DEFINE l == [local[a] EXCEPT !.section = section]
      <4>1. l \in Local /\ l.out = local[a].out BY <1>t, TookType DEF Stored, Local
      <4>2. pc' = [pc EXCEPT ![a] = "names"] /\ local' = [local EXCEPT ![a] = l]
        BY <3>2 DEF ResyncSection, Goto
      <4> QED BY <4>1, <4>2 DEF Resyncing
    <3>3. CASE ResyncNames(a)
      <4> DEFINE l == [local[a] EXCEPT !.names = GlobalNodeNames]
      <4>1. l \in Local /\ l.out = local[a].out
        BY <1>t, TookType, ReadsTyped DEF GlobalNodeNames, Local
      <4>2. pc' = [pc EXCEPT ![a] = "group_order"] /\ local' = [local EXCEPT ![a] = l]
        BY <3>3 DEF ResyncNames, Goto
      <4> QED BY <4>1, <4>2 DEF Resyncing
    <3>4. CASE ResyncGroupOrder(a)
      <4> DEFINE l == [local[a] EXCEPT !.order = order]
      <4>1. l \in Local /\ l.out = local[a].out BY <1>t, TookType DEF Stored, Local
      <4>2. pc' = [pc EXCEPT ![a] = "resync_rules"] /\ local' = [local EXCEPT ![a] = l]
        BY <3>4 DEF ResyncGroupOrder, Goto
      <4> QED BY <4>1, <4>2 DEF Resyncing
    <3>5. CASE ResyncRules(a)
      <4> DEFINE l == [local[a] EXCEPT !.rules = rules]
      <4>1. l \in Local /\ l.out = local[a].out BY <1>t, TookType DEF Stored, Local
      <4>2. pc' = [pc EXCEPT ![a] = "write"] /\ local' = [local EXCEPT ![a] = l]
        BY <3>5 DEF ResyncRules, Goto
      <4> QED BY <4>1, <4>2 DEF Resyncing
    <3> QED BY <1>2, <3>1, <3>2, <3>3, <3>4, <3>5
  <2>3. local[a].out # NULL
    BY <1>2 DEF ResyncNodeOrder, ResyncSection, ResyncNames, ResyncGroupOrder, ResyncRules,
                Held, Resyncing
  <2>4. Held' BY <1>t, <2>2, <2>3, MovedHeld DEF Lbl, Resyncing
  <2> QED BY <1>c, <2>1, <2>4
<1>3. CASE ResyncWrite(a)
  <2>1. local[a].out # NULL BY <1>3 DEF ResyncWrite, Held, Resyncing
  <2>2. Resynced(local[a]) \in Output BY <1>t, <2>1, ResyncedType
  <2>3. row' \in Output \cup {NULL} BY <1>3, <2>2 DEF ResyncWrite, Stored
  <2>4. Stored' BY <1>3, <2>3 DEF ResyncWrite, Stored, NamesUnique, Nodes, NodeNameFree,
                                  GroupNameFree
  <2>5. Held' BY <1>3, <1>t, LeaveHeld DEF ResyncWrite
  <2> QED BY <1>c, <2>4, <2>5
<1> QED BY <1>1, <1>2, <1>3 DEF Resync

\* What the names of the groups are told by.
LEMMA GroupsUnique ==
    NamesUnique <=> /\ \A i, j \in Nodes : node[i].name = node[j].name => i = j
                    /\ \A j, k \in DOMAIN groups : groups[j].name = groups[k].name => j = k
  BY DEF NamesUnique, NodeNameFree, GroupNameFree

\* A group with a name of its own is added, replaces another or leaves.
LEMMA GroupsTyped ==
    ASSUME Stored, NEW g \in GroupRow
    PROVE  LET Fits(gs) == /\ gs \in Seq(GroupRow)
                           /\ \A j, k \in DOMAIN gs : gs[j].name = gs[k].name => j = k
           IN /\ GroupNameFree(g.name, 0) => Fits(Append(groups, g))
              /\ \A k \in DOMAIN groups :
                    /\ GroupNameFree(g.name, k) => Fits([groups EXCEPT ![k] = g])
                    /\ Fits(RemoveAt(groups, k))
<1> DEFINE Fits(gs) == /\ gs \in Seq(GroupRow)
                       /\ \A j, k \in DOMAIN gs : gs[j].name = gs[k].name => j = k
           n == Len(groups)
<1>1. /\ groups \in Seq(GroupRow) /\ n \in Nat /\ DOMAIN groups = 1 .. n
      /\ \A j, k \in 1 .. n : groups[j].name = groups[k].name => j = k
  BY GroupsUnique DEF Stored
<1>2. ASSUME GroupNameFree(g.name, 0) PROVE Fits(Append(groups, g))
  <2> DEFINE gs == Append(groups, g)
  <2>1. /\ gs \in Seq(GroupRow) /\ DOMAIN gs = 1 .. n + 1
        /\ \A j \in 1 .. n : gs[j] = groups[j]
        /\ gs[n + 1] = g
    BY <1>1
  <2>2. \A j \in 1 .. n : groups[j].name # g.name BY <1>1, <1>2 DEF GroupNameFree
  <2>3. \A j \in 1 .. n + 1 : j \in 1 .. n \/ j = n + 1 BY <1>1
  <2> HIDE DEF gs, n
  <2>4. \A j, k \in DOMAIN gs : gs[j].name = gs[k].name => j = k
    BY <1>1, <2>1, <2>2, <2>3
  <2> QED BY <2>1, <2>4 DEF gs
<1>3. ASSUME NEW k \in DOMAIN groups, GroupNameFree(g.name, k)
      PROVE  Fits([groups EXCEPT ![k] = g])
  <2>1. \A j \in (1 .. n) \ {k} : groups[j].name # g.name BY <1>1, <1>3 DEF GroupNameFree
  <2>2. [groups EXCEPT ![k] = g] \in Seq(GroupRow) BY <1>1
  <2> QED BY <1>1, <2>1, <2>2
<1>4. ASSUME NEW k \in DOMAIN groups PROVE Fits(RemoveAt(groups, k))
  <2> DEFINE gs == RemoveAt(groups, k)
             Was(j) == IF j < k THEN j ELSE j + 1
  <2>0. k \in 1 .. n BY <1>1
  <2>1. /\ SubSeq(groups, 1, k - 1) \in Seq(GroupRow) /\ Len(SubSeq(groups, 1, k - 1)) = k - 1
        /\ \A j \in 1 .. k - 1 : SubSeq(groups, 1, k - 1)[j] = groups[j]
    BY <1>1, <2>0
  <2>2. /\ SubSeq(groups, k + 1, n) \in Seq(GroupRow) /\ Len(SubSeq(groups, k + 1, n)) = n - k
        /\ \A j \in 1 .. n - k : SubSeq(groups, k + 1, n)[j] = groups[j + k]
    BY <1>1, <2>0
  <2>3. /\ gs \in Seq(GroupRow) /\ DOMAIN gs = 1 .. n - 1
        /\ \A j \in 1 .. n - 1 : gs[j] = IF j <= k - 1 THEN SubSeq(groups, 1, k - 1)[j]
                                         ELSE SubSeq(groups, k + 1, n)[j - (k - 1)]
    <3> DEFINE A == SubSeq(groups, 1, k - 1)
               B == SubSeq(groups, k + 1, n)
    <3>1. /\ A \in Seq(GroupRow) /\ B \in Seq(GroupRow) /\ gs = A \o B
          /\ Len(A) = k - 1 /\ Len(B) = n - k
      BY <2>1, <2>2 DEF RemoveAt
    <3>2. (k - 1) + (n - k) = n - 1 BY <1>1, <2>0
    <3> HIDE DEF A, B, gs, n
    <3>3. /\ gs \in Seq(GroupRow) /\ Len(gs) = n - 1
          /\ \A j \in 1 .. n - 1 : gs[j] = IF j <= k - 1 THEN A[j] ELSE B[j - (k - 1)]
      <4>1. (k - 1) \in Nat /\ (n - k) \in Nat BY <1>1, <2>0 DEF n
      <4>2. /\ A \o B \in Seq(GroupRow) /\ Len(A \o B) = Len(A) + Len(B)
            /\ \A j \in 1 .. Len(A) + Len(B) :
                  (A \o B)[j] = IF j <= Len(A) THEN A[j] ELSE B[j - Len(A)]
        BY <3>1
      <4> QED BY <3>1, <3>2, <4>1, <4>2
    <3>4. DOMAIN gs = 1 .. n - 1 BY <3>3
    <3> QED BY <3>3, <3>4 DEF A, B
  <2>4. \A j \in 1 .. n - 1 : Was(j) \in 1 .. n /\ gs[j] = groups[Was(j)]
    <3> SUFFICES ASSUME NEW j \in 1 .. n - 1
                 PROVE  Was(j) \in 1 .. n /\ gs[j] = groups[Was(j)]
      OBVIOUS
    <3>1. CASE j <= k - 1
      <4>1. j \in 1 .. k - 1 /\ j < k BY <1>1, <2>0, <3>1
      <4> QED BY <1>1, <2>0, <2>1, <2>3, <3>1, <4>1
    <3>2. CASE ~(j <= k - 1)
      <4>1. j - (k - 1) \in 1 .. n - k /\ (j - (k - 1)) + k = j + 1 /\ ~(j < k)
        BY <1>1, <2>0, <3>2
      <4>2. gs[j] = groups[j + 1] BY <2>2, <2>3, <3>2, <4>1
      <4> QED BY <1>1, <2>0, <4>1, <4>2
    <3> QED BY <3>1, <3>2
  <2>5. \A i, j \in 1 .. n - 1 : Was(i) = Was(j) => i = j BY <1>1, <2>0
  <2> HIDE DEF gs, Was, n
  <2>6. \A i, j \in DOMAIN gs : gs[i].name = gs[j].name => i = j
    BY <1>1, <2>3, <2>4, <2>5
  <2> QED BY <2>3, <2>6 DEF gs
<1> HIDE DEF Fits
<1> QED BY <1>2, <1>3, <1>4 DEF Fits

\* The calls that end in a resync, and those on groups.
LEMMA EditsTyped ==
    ASSUME Typed, NEW a \in Admins,
           \/ PutRules(a) \/ SetGroupOrder(a) \/ SetNodeSectionOrder(a)
           \/ CreateGroup(a) \/ UpdateGroup(a) \/ DeleteGroup(a)
    PROVE  Typed'
<1> USE DEF Typed, Call
<1>c. Counted'
  BY DEF PutRules, SetGroupOrder, SetNodeSectionOrder, CreateGroup, UpdateGroup,
         DeleteGroup, Counted
<1>1. CASE PutRules(a) \/ SetGroupOrder(a) \/ SetNodeSectionOrder(a)
  <2>1. rules' \in Seq(Line) /\ order' \in Seq(Names) /\ section' \in Sections
    BY <1>1, BodiesAssumption DEF PutRules, SetGroupOrder, SetNodeSectionOrder, Stored
  <2>2. UNCHANGED <<node, groups, row, feed>> /\ Goto(a, "load") /\ UNCHANGED local
    BY <1>1 DEF PutRules, SetGroupOrder, SetNodeSectionOrder
  <2>3. Stored' BY <2>1, <2>2 DEF Stored, NamesUnique, Nodes, NodeNameFree, GroupNameFree
  <2>4. Held' BY <2>2, TaskOf DEF Goto, Held, Lbl, Resyncing
  <2> QED BY <1>c, <2>3, <2>4
<1>2. CASE CreateGroup(a) \/ UpdateGroup(a) \/ DeleteGroup(a)
  <2>1. UNCHANGED <<node, rules, section, order, row, feed, pc, local>>
    BY <1>2 DEF CreateGroup, UpdateGroup, DeleteGroup
  <2>2. /\ groups' \in Seq(GroupRow)
        /\ \A j, k \in DOMAIN groups' : groups'[j].name = groups'[k].name => j = k
    <3>1. CASE CreateGroup(a)
      <4>1. PICK g \in GroupBodies : GroupNameFree(g.name, 0) /\ groups' = Append(groups, g)
        BY <3>1 DEF CreateGroup
      <4>2. g \in GroupRow BY BodiesAssumption
      <4> QED BY <4>1, <4>2, GroupsTyped
    <3>2. CASE UpdateGroup(a)
      <4>1. PICK k \in DOMAIN groups, g \in GroupBodies :
               GroupNameFree(g.name, k) /\ groups' = [groups EXCEPT ![k] = g]
        BY <3>2 DEF UpdateGroup
      <4>2. g \in GroupRow BY BodiesAssumption
      <4> QED BY <4>1, <4>2, GroupsTyped
    <3>3. CASE DeleteGroup(a)
      <4>1. PICK k \in DOMAIN groups : groups' = RemoveAt(groups, k)
        BY <3>3 DEF DeleteGroup
      <4>2. groups[k] \in GroupRow BY DEF Stored
      <4> QED BY <4>1, <4>2, GroupsTyped
    <3> QED BY <1>2, <3>1, <3>2, <3>3
  <2>3. \A i, j \in Nodes' : node'[i].name = node'[j].name => i = j
    BY <2>1, GroupsUnique DEF Stored, Nodes
  <2>4. NamesUnique' BY <2>2, <2>3 DEF NamesUnique, NodeNameFree, GroupNameFree
  <2>5. Stored' BY <2>1, <2>2, <2>4 DEF Stored
  <2>6. Held' BY <2>1 DEF Held
  <2> QED BY <1>c, <2>5, <2>6
<1> QED BY <1>1, <1>2

\* What is left to import are groups of the document, each name once.
LEMMA ToImportType ==
    ASSUME NEW list \in Seq(GroupBodies \cup {NULL}), NEW taken
    PROVE  ToImport(list, taken) \in Seq(GroupBodies)
<1> DEFINE Fresh(k) == list[k] # NULL /\ list[k].name \notin taken
           K == {k \in DOMAIN list : /\ Fresh(k)
                                     /\ \A j \in 1 .. k - 1 :
                                           Fresh(j) => list[j].name # list[k].name}
<1>1. K \in SUBSET DOMAIN list OBVIOUS
<1>2. \A k \in K : list[k] \in GroupBodies OBVIOUS
<1>3. ToImport(list, taken) = Pick(list, K) BY DEF ToImport
<1> HIDE DEF K
<1> QED BY <1>1, <1>2, <1>3, Picked

LEMMA ImportTyped ==
    ASSUME Typed, NEW a \in Admins, ImportGroups(a) \/ ReadTaken(a) \/ InsertGroup(a)
    PROVE  Typed'
<1> USE DEF Typed
<1>c. Counted' BY DEF ImportGroups, ReadTaken, InsertGroup, Call, bounds, Counted
<1>t. a \in Tasks /\ local[a] \in Local BY TaskOf DEF Held
<1>w. \A s \in Seq(GroupBodies \cup {NULL}) : s \in Seq(Names \cup GroupRow \cup {NULL})
  BY BodiesAssumption, Wider
<1>1. CASE ImportGroups(a)
  <2> DEFINE l == [local[a] EXCEPT !.todo = feed.groups]
  <2>1. feed.groups \in Seq(GroupBodies \cup {NULL}) BY FeedsAssumption DEF Stored
  <2>2. l \in Local /\ l.todo = feed.groups BY <1>t, <1>w, <2>1, TookType DEF Local
  <2>3. pc' = [pc EXCEPT ![a] = "taken"] /\ local' = [local EXCEPT ![a] = l]
    BY <1>1 DEF ImportGroups, Goto
  <2> HIDE DEF l
  <2>4. Held' BY <1>t, <2>1, <2>2, <2>3, MovedHeld DEF Lbl, Resyncing
  <2>5. Stored' BY <1>1 DEF ImportGroups, Call, tables, Stored, NamesUnique, Nodes,
                            NodeNameFree, GroupNameFree
  <2> QED BY <1>c, <2>4, <2>5
<1>2. CASE ReadTaken(a)
  <2> DEFINE todo == ToImport(local[a].todo, NamesIn(groups))
             l == [local[a] EXCEPT !.todo = todo]
  <2>1. todo \in Seq(GroupBodies) BY <1>2, ToImportType DEF ReadTaken, Held
  <2>2. pc' = [pc EXCEPT ![a] = "importing"] /\ local' = [local EXCEPT ![a] = l]
    BY <1>2 DEF ReadTaken, Goto
  <2> HIDE DEF todo
  <2>3. todo \in Seq(Names \cup GroupRow \cup {NULL})
    <3>1. todo \in Seq(GroupBodies \cup {NULL}) BY <2>1, Wider
    <3> QED BY <1>w, <3>1
  <2>4. l \in Local /\ l.todo = todo BY <1>t, <2>3, TookType DEF Local
  <2> HIDE DEF l
  <2>5. Held' BY <1>t, <2>1, <2>2, <2>4, MovedHeld DEF Lbl, Resyncing
  <2>6. Stored' BY <1>2 DEF ReadTaken, tables, Stored, NamesUnique, Nodes, NodeNameFree,
                            GroupNameFree
  <2> QED BY <1>c, <2>5, <2>6
<1>3. CASE InsertGroup(a)
  <2> DEFINE todo == local[a].todo
  <2>0. todo \in Seq(GroupBodies) BY <1>3 DEF InsertGroup, Held
  <2>1. CASE todo # <<>> /\ GroupNameFree(Head(todo).name, 0)
    <3>1. Head(todo) \in GroupBodies /\ Tail(todo) \in Seq(GroupBodies) BY <2>0, <2>1
    <3>2. Head(todo) \in GroupRow BY <3>1, BodiesAssumption
    <3>3. /\ groups' = Append(groups, Head(todo)) /\ UNCHANGED <<pc, node, rules>>
          /\ local' = [local EXCEPT ![a] = [local[a] EXCEPT !.todo = Tail(todo)]]
          /\ UNCHANGED <<section, order, row, feed>> /\ pc[a] = "importing"
      BY <1>3, <2>1 DEF InsertGroup
    <3>4. /\ groups' \in Seq(GroupRow)
          /\ \A j, k \in DOMAIN groups' : groups'[j].name = groups'[k].name => j = k
      BY <2>1, <3>2, <3>3, GroupsTyped
    <3>5. \A i, j \in Nodes' : node'[i].name = node'[j].name => i = j
      BY <3>3, GroupsUnique DEF Stored, Nodes
    <3>6. NamesUnique' BY <3>4, <3>5 DEF NamesUnique, NodeNameFree, GroupNameFree
    <3>7. Stored' BY <3>3, <3>4, <3>6 DEF Stored
    <3> DEFINE l == [local[a] EXCEPT !.todo = Tail(todo)]
    <3>8. l \in Local /\ l.todo = Tail(todo)
      <4>1. Tail(todo) \in Seq(GroupBodies \cup {NULL}) BY <3>1, Wider
      <4> HIDE DEF todo
      <4> QED BY <1>t, <1>w, <4>1, TookType DEF Local
    <3>9. pc' = [pc EXCEPT ![a] = "importing"] /\ local' = [local EXCEPT ![a] = l]
      BY <3>3 DEF Held
    <3> HIDE DEF l, todo
    <3>10. Held' BY <1>t, <3>1, <3>8, <3>9, MovedHeld DEF Lbl, Resyncing
    <3> QED BY <1>c, <3>7, <3>10
  <2>2. CASE ~(todo # <<>> /\ GroupNameFree(Head(todo).name, 0))
    <3>1. Leave(a) /\ UNCHANGED <<groups, node, rules, section, order, row, feed>>
      BY <1>3, <2>2 DEF InsertGroup
    <3>2. Held' BY <1>t, <3>1, LeaveHeld
    <3>3. Stored' BY <3>1 DEF Stored, NamesUnique, Nodes, NodeNameFree, GroupNameFree
    <3> QED BY <1>c, <3>2, <3>3
  <2> QED BY <2>1, <2>2
<1> QED BY <1>1, <1>2, <1>3

\* A node with a name of its own is stored, whatever was at its place.
LEMMA NodeStored ==
    ASSUME Stored, NEW i \in NodeIds, NEW r \in NodeRow, NodeNameFree(r.name, i),
           node' = [node EXCEPT ![i] = r],
           UNCHANGED <<groups, rules, section, order, row, feed>>
    PROVE  Stored'
<1>1. /\ node' \in [NodeIds -> NodeRow \cup {NULL}]
      /\ \A j \in NodeIds : node'[j] = IF j = i THEN r ELSE node[j]
  BY DEF Stored
<1>2. \A j \in Nodes' : j = i \/ (j \in Nodes /\ j # i) BY <1>1 DEF Nodes
<1>3. \A j, k \in Nodes' : node'[j].name = node'[k].name => j = k
  <2> SUFFICES ASSUME NEW j \in Nodes', NEW k \in Nodes', node'[j].name = node'[k].name,
                      j # k
               PROVE  FALSE
    OBVIOUS
  <2>0. j \in NodeIds /\ k \in NodeIds BY DEF Nodes
  <2>1. CASE j # i /\ k # i
    <3>1. j \in Nodes /\ k \in Nodes /\ node[j].name = node[k].name BY <1>1, <1>2, <2>0, <2>1
    <3> QED BY <3>1, GroupsUnique DEF Stored
  <2>2. CASE j = i /\ k # i BY <1>1, <1>2, <2>0, <2>2 DEF NodeNameFree
  <2>3. CASE j # i /\ k = i BY <1>1, <1>2, <2>0, <2>3 DEF NodeNameFree
  <2> QED BY <2>1, <2>2, <2>3
<1>4. NamesUnique' BY <1>3, GroupsUnique DEF Stored, NamesUnique, NodeNameFree, GroupNameFree
<1> QED BY <1>1, <1>4 DEF Stored

LEMMA NodesTyped ==
    ASSUME Typed, NEW a \in Admins,
           CreateNode(a) \/ InsertNode(a) \/ UpdateNode(a) \/ DeleteNode(a)
    PROVE  Typed'
<1> USE DEF Typed
<1>c. Counted'
  <2>1. edits' \in 0 .. MaxEdits /\ upsets' \in 0 .. MaxUpsets
    BY DEF CreateNode, InsertNode, UpdateNode, DeleteNode, Call, bounds, Counted
  <2>2. strayed' \in BOOLEAN
    <3>1. strayed \in BOOLEAN BY DEF Counted
    <3>2. CASE CreateNode(a) BY <3>1, <3>2 DEF CreateNode
    <3>3. CASE InsertNode(a)
      <4>1. \E b \in NodeBodies : strayed' = strayed \/ strayed' = (strayed \/ Alias(b))
        BY <3>3 DEF InsertNode
      <4> QED BY <3>1, <4>1
    <3>4. CASE UpdateNode(a)
      <4>1. \E b \in NodeBodies, i \in Nodes :
               strayed' = (strayed \/ b.name # node[i].name \/ Alias(b))
        BY <3>4 DEF UpdateNode
      <4> QED BY <3>1, <4>1
    <3>5. CASE DeleteNode(a) BY <3>5 DEF DeleteNode
    <3> QED BY <3>2, <3>3, <3>4, <3>5
  <2> QED BY <2>1, <2>2 DEF Counted
<1>t. a \in Tasks /\ local[a] \in Local BY TaskOf DEF Held
<1>1. CASE CreateNode(a)
  <2> DEFINE S == {node[i].pos : i \in Nodes}
             pos == IF Nodes = {} THEN 0 ELSE Max(S) + 1
             l == [local[a] EXCEPT !.pos = pos]
  <2>1. pos \in Nat
    <3>1. S \in SUBSET Nat BY DEF Stored, Nodes, NodeRow
    <3>2. IsFiniteSet(S)
      <4> DEFINE f == [i \in Nodes |-> node[i].pos]
      <4>1. f \in Surjection(Nodes, S)
        <5>1. f \in [Nodes -> S] /\ \A t \in S : \E i \in Nodes : f[i] = t OBVIOUS
        <5> HIDE DEF f, S
        <5> QED BY <5>1, Fun_IsSurj
      <4>2. IsFiniteSet(Nodes)
        <5>1. Nodes \in SUBSET NodeIds BY DEF Nodes
        <5> QED BY <5>1, FS_Subset
      <4> HIDE DEF f, S
      <4> QED BY <4>1, <4>2, FS_Surjection
    <3>3. Nodes # {} => S # {} OBVIOUS
    <3> HIDE DEF S
    <3>4. Nodes # {} => Max(S) \in Nat BY <3>1, <3>2, <3>3, Greatest
    <3> QED BY <3>4
  <2>2. pc' = [pc EXCEPT ![a] = "inserting"] /\ local' = [local EXCEPT ![a] = l]
    BY <1>1 DEF CreateNode, Goto
  <2> HIDE DEF pos
  <2>3. l \in Local BY <1>t, <2>1, TookType
  <2> HIDE DEF l
  <2>4. Held' BY <1>t, <2>2, <2>3, MovedHeld DEF Lbl, Resyncing
  <2>5. Stored' BY <1>1 DEF CreateNode, tables, Stored, NamesUnique, Nodes, NodeNameFree,
                            GroupNameFree
  <2> QED BY <1>c, <2>4, <2>5
<1>2. CASE InsertNode(a)
  <2>1. Leave(a) /\ UNCHANGED <<groups, rules, section, order, row, feed>>
    BY <1>2 DEF InsertNode
  <2>2. Held' BY <1>t, <2>1, LeaveHeld
  <2>3. PICK i \in NodeIds \ Nodes, b \in NodeBodies :
           IF NodeNameFree(b.name, i) THEN node' = [node EXCEPT ![i] = Row(b, local[a].pos)]
           ELSE UNCHANGED node
    BY <1>2 DEF InsertNode
  <2>4. CASE NodeNameFree(b.name, i)
    <3>1. local[a].pos \in Nat BY <1>t DEF Local
    <3>2. Row(b, local[a].pos) \in NodeRow /\ Row(b, local[a].pos).name = b.name
      BY <3>1, RowType, BodiesAssumption
    <3>3. Stored' BY <2>1, <2>3, <2>4, <3>2, NodeStored
    <3> QED BY <1>c, <2>2, <3>3
  <2>5. CASE ~NodeNameFree(b.name, i)
    <3>1. Stored' BY <2>1, <2>3, <2>5 DEF Stored, NamesUnique, Nodes, NodeNameFree,
                                          GroupNameFree
    <3> QED BY <1>c, <2>2, <3>1
  <2> QED BY <2>4, <2>5
<1>3. CASE UpdateNode(a)
  <2>1. PICK i \in Nodes, b \in NodeBodies :
           NodeNameFree(b.name, i) /\ node' = [node EXCEPT ![i] = Row(b, node[i].pos)]
    BY <1>3 DEF UpdateNode
  <2>2. i \in NodeIds /\ node[i].pos \in Nat BY DEF Nodes, Stored, NodeRow
  <2>3. Row(b, node[i].pos) \in NodeRow /\ Row(b, node[i].pos).name = b.name
    BY <2>2, RowType, BodiesAssumption
  <2>4. UNCHANGED <<groups, rules, section, order, row, feed, pc, local>>
    BY <1>3 DEF UpdateNode
  <2>5. Stored' BY <2>1, <2>2, <2>3, <2>4, NodeStored
  <2>6. Held' BY <2>4 DEF Held
  <2> QED BY <1>c, <2>5, <2>6
<1>4. CASE DeleteNode(a)
  <2>1. PICK i \in Nodes : node' = [node EXCEPT ![i] = NULL] BY <1>4 DEF DeleteNode
  <2>2. UNCHANGED <<groups, rules, section, order, row, feed, pc, local>>
    BY <1>4 DEF DeleteNode
  <2>3. node' \in [NodeIds -> NodeRow \cup {NULL}] BY <2>1 DEF Stored
  <2>4. \A j \in Nodes' : j \in Nodes /\ node'[j] = node[j] BY <2>1 DEF Nodes, Stored
  <2>5. NamesUnique' BY <2>2, <2>4 DEF Stored, NamesUnique, NodeNameFree, GroupNameFree
  <2>6. Stored' BY <2>2, <2>3, <2>5 DEF Stored
  <2>7. Held' BY <2>2 DEF Held
  <2> QED BY <1>c, <2>6, <2>7
<1> QED BY <1>1, <1>2, <1>3, <1>4

\* The positions of nodes are all that is written.
LEMMA PositionsWritten ==
    ASSUME Typed, NEW a \in Admins, WritePositions(a)
    PROVE  /\ node' \in [NodeIds -> NodeRow \cup {NULL}] /\ Nodes' = Nodes
           /\ \A i \in Nodes : node'[i].name = node[i].name /\ node'[i].shown = node[i].shown
<1> USE DEF Typed
<1> DEFINE todo == local[a].todo
<1>1. todo \in Seq(Names) BY DEF WritePositions, Held
<1>2. \A i \in NodeIds :
         IF i \in Nodes /\ Contains(todo, node[i].name)
         THEN node'[i] = [node[i] EXCEPT !.pos =
                  (CHOOSE k \in DOMAIN todo : todo[k] = node[i].name) - 1]
         ELSE node'[i] = node[i]
  BY DEF WritePositions
<1>3. DOMAIN node' = NodeIds /\ node' = [i \in NodeIds |-> node'[i]] BY DEF WritePositions
<1> HIDE DEF todo
<1>4. ASSUME NEW i \in NodeIds
      PROVE  /\ node'[i] \in NodeRow \cup {NULL}
             /\ node'[i] = NULL <=> node[i] = NULL
             /\ node[i] # NULL => /\ node'[i].name = node[i].name
                                  /\ node'[i].shown = node[i].shown
  <2>1. CASE i \in Nodes /\ Contains(todo, node[i].name)
    <3> DEFINE p == (CHOOSE k \in DOMAIN todo : todo[k] = node[i].name) - 1
    <3>1. \E k \in DOMAIN todo : todo[k] = node[i].name BY <1>1, <2>1 DEF Contains
    <3>2. (CHOOSE k \in DOMAIN todo : todo[k] = node[i].name) \in 1 .. Len(todo)
      BY <1>1, <3>1
    <3>3. p \in Nat BY <1>1, <3>2
    <3>4. node'[i] = [node[i] EXCEPT !.pos = p] BY <1>2, <2>1
    <3>5. node[i] \in NodeRow BY <2>1 DEF Nodes, Stored
    <3> HIDE DEF p
    <3>6. /\ node'[i] \in NodeRow /\ node'[i].name = node[i].name
          /\ node'[i].shown = node[i].shown
      BY <3>3, <3>4, <3>5 DEF NodeRow
    <3> QED BY <2>1, <3>6, OutputNullAssumption DEF Nodes
  <2>2. CASE ~(i \in Nodes /\ Contains(todo, node[i].name))
    <3>1. node'[i] = node[i] BY <1>2, <2>2
    <3> QED BY <3>1 DEF Stored
  <2> QED BY <2>1, <2>2
<1>5. node' \in [NodeIds -> NodeRow \cup {NULL}] BY <1>3, <1>4
<1> QED BY <1>4, <1>5 DEF Nodes

LEMMA OrderTyped ==
    ASSUME Typed, NEW a \in Admins, SetNodeOrder(a) \/ WritePositions(a)
    PROVE  Typed'
<1> USE DEF Typed
<1>c. Counted' BY DEF SetNodeOrder, WritePositions, Call, bounds, Counted
<1>t. a \in Tasks /\ local[a] \in Local BY TaskOf DEF Held
<1>1. CASE SetNodeOrder(a)
  <2>1. PICK o \in NodeOrders :
           local' = [local EXCEPT ![a] =
              [local[a] EXCEPT !.todo = NameOf(ReorderByName(NodeList(Nodes), o))]]
    BY <1>1 DEF SetNodeOrder
  <2> DEFINE todo == NameOf(ReorderByName(NodeList(Nodes), o))
             l == [local[a] EXCEPT !.todo = todo]
  <2>2. todo \in Seq(Names)
    <3>1. o \in Seq(Names) BY BodiesAssumption
    <3>2. NodeList(Nodes) \in Seq(NodeRow) BY NodeListType
    <3>3. ReorderByName(NodeList(Nodes), o) \in Seq(NodeRow) BY <3>1, <3>2, ReorderByNameType
    <3>4. \A e \in NodeRow : e.name \in Names BY DEF NodeRow
    <3> QED BY <3>3, <3>4, NameOfType
  <2>3. pc' = [pc EXCEPT ![a] = "reordering"] /\ local' = [local EXCEPT ![a] = l]
    BY <1>1, <2>1 DEF SetNodeOrder, Goto
  <2> HIDE DEF todo
  <2>4. todo \in Seq(Names \cup GroupRow \cup {NULL}) BY <2>2, Wider
  <2>5. l \in Local /\ l.todo = todo BY <1>t, <2>4, TookType DEF Local
  <2> HIDE DEF l
  <2>6. Held' BY <1>t, <2>2, <2>3, <2>5, MovedHeld DEF Lbl, Resyncing
  <2>7. Stored' BY <1>1 DEF SetNodeOrder, Call, tables, Stored, NamesUnique, Nodes,
                            NodeNameFree, GroupNameFree
  <2> QED BY <1>c, <2>6, <2>7
<1>2. CASE WritePositions(a)
  <2>1. /\ node' \in [NodeIds -> NodeRow \cup {NULL}] /\ Nodes' = Nodes
        /\ \A i \in Nodes : node'[i].name = node[i].name
    BY <1>2, PositionsWritten
  <2>2. UNCHANGED <<groups, rules, section, order, row, feed>> BY <1>2 DEF WritePositions
  <2>3. NamesUnique' BY <2>1, <2>2 DEF Stored, NamesUnique, NodeNameFree, GroupNameFree
  <2>4. Stored' BY <2>1, <2>2, <2>3 DEF Stored
  <2>5. pc' = [pc EXCEPT ![a] = "load"] /\ local' = [local EXCEPT ![a] = Blank]
    BY <1>2 DEF WritePositions, Goto
  <2>6. Held' BY <1>t, <2>5, BlankType, MovedHeld DEF Lbl, Resyncing
  <2> QED BY <1>c, <2>4, <2>6
<1> QED BY <1>1, <1>2

LEMMA NextTyped == Typed /\ [Next]_vars => Typed'
<1> SUFFICES ASSUME Typed, [Next]_vars PROVE Typed' OBVIOUS
<1>1. CASE Generation BY <1>1, GenerationTyped
<1>2. ASSUME NEW a \in Admins, Edit(a) PROVE Typed'
  BY <1>2, EditsTyped, ImportTyped, NodesTyped, OrderTyped DEF Edit
<1>3. ASSUME NEW a \in Admins, Resync(a) PROVE Typed' BY <1>3, ResyncTyped
<1>4. ASSUME NEW a \in Admins, \/ ReadTaken(a) \/ InsertGroup(a) \/ InsertNode(a)
                               \/ WritePositions(a)
      PROVE  Typed'
  BY <1>4, ImportTyped, NodesTyped, OrderTyped
<1>5. CASE FeedChanges
  <2>1. feed' \in Feeds /\ UNCHANGED <<tables, pc, local>> BY <1>5 DEF FeedChanges
  <2>2. Stored' BY <2>1 DEF Typed, tables, Stored, NamesUnique, Nodes, NodeNameFree,
                            GroupNameFree
  <2>3. Held' BY <2>1 DEF Typed, Held
  <2>4. Counted' BY <1>5 DEF FeedChanges, Typed, Counted
  <2> QED BY <2>2, <2>3, <2>4 DEF Typed
<1>6. ASSUME NEW t \in Tasks, Abort(t) PROVE Typed'
  <2>1. Leave(t) /\ UNCHANGED <<tables, feed>> BY <1>6 DEF Abort
  <2>2. Stored' BY <2>1 DEF Typed, tables, Stored, NamesUnique, Nodes, NodeNameFree,
                            GroupNameFree
  <2>3. Held' BY <2>1, LeaveHeld DEF Typed
  <2>4. Counted' BY <1>6 DEF Abort, Typed, Counted
  <2> QED BY <2>2, <2>3, <2>4 DEF Typed
<1>7. CASE UNCHANGED vars
  BY <1>7 DEF Typed, vars, tables, bounds, Stored, Held, Counted, NamesUnique, Nodes,
              NodeNameFree, GroupNameFree
<1> QED BY <1>1, <1>2, <1>3, <1>4, <1>5, <1>6, <1>7 DEF Next

LEMMA AlwaysTyped == Spec => []Typed
<1>1. Init => Typed BY InitTyped
<1>2. Typed /\ [Next]_vars => Typed' BY NextTyped
<1> QED BY <1>1, <1>2, PTL DEF Spec

\* The types of the tables, of the output and of what every handler has read.
THEOREM TypeOKHolds == Spec => []TypeOK
<1>1. Typed => TypeOK BY DEF Typed, Stored, Held, Counted, TypeOK
<1> QED BY <1>1, AlwaysTyped, PTL

\* No two nodes and no two groups of the profile have the same name, although
\* an import and a new node take names they have read to be free before.
THEOREM NamesUniqueHolds == Spec => []NamesUnique
<1>1. Typed => NamesUnique BY DEF Typed, Stored
<1> QED BY <1>1, AlwaysTyped, PTL

-----------------------------------------------------------------------------
(***************************************************************************)
(* Outputs: where they come from, and that references in them resolve.     *)
(***************************************************************************)
Reading == [local[GEN] EXCEPT !.section = section, !.order = order]

\* An output is built by generation or taken from the row; the row is what
\* generation has built, or what a resync makes of what it has read.
OutputsMove ==
    /\ \A t \in Tasks : \/ local'[t].out \in {local[t].out, NULL, row}
                        \/ /\ BuildOutput /\ Accepted(Reading) /\ t = GEN
                           /\ local'[t].out = Convert(Reading)
    /\ \/ row' = row
       \/ Persist /\ row' = local[GEN].out
       \/ \E a \in Admins : ResyncWrite(a) /\ row' = Resynced(local[a])

\* A field of a handler other than its output is set.
LEMMA FieldSet ==
    ASSUME Held, NEW t \in Tasks, NEW v,
           \/ local' = [local EXCEPT ![t].provider = v] \/ local' = [local EXCEPT ![t].rules = v]
           \/ local' = [local EXCEPT ![t].nodes = v] \/ local' = [local EXCEPT ![t].groups = v]
           \/ local' = [local EXCEPT ![t].section = v] \/ local' = [local EXCEPT ![t].order = v]
           \/ local' = [local EXCEPT ![t].names = v] \/ local' = [local EXCEPT ![t].todo = v]
           \/ local' = [local EXCEPT ![t].pos = v]
    PROVE  \A s \in Tasks : local'[s].out = local[s].out
<1>t. \A s \in Tasks : local[s] \in Local BY DEF Held
<1>f. local \in [Tasks -> Local] BY DEF Held
<1>1. CASE local' = [local EXCEPT ![t].provider = v] BY <1>f, <1>t, <1>1 DEF Local
<1>2. CASE local' = [local EXCEPT ![t].rules = v] BY <1>f, <1>t, <1>2 DEF Local
<1>3. CASE local' = [local EXCEPT ![t].nodes = v] BY <1>f, <1>t, <1>3 DEF Local
<1>4. CASE local' = [local EXCEPT ![t].groups = v] BY <1>f, <1>t, <1>4 DEF Local
<1>5. CASE local' = [local EXCEPT ![t].section = v] BY <1>f, <1>t, <1>5 DEF Local
<1>6. CASE local' = [local EXCEPT ![t].order = v] BY <1>f, <1>t, <1>6 DEF Local
<1>7. CASE local' = [local EXCEPT ![t].names = v] BY <1>f, <1>t, <1>7 DEF Local
<1>8. CASE local' = [local EXCEPT ![t].todo = v] BY <1>f, <1>t, <1>8 DEF Local
<1>9. CASE local' = [local EXCEPT ![t].pos = v] BY <1>f, <1>t, <1>9 DEF Local
<1> QED BY <1>1, <1>2, <1>3, <1>4, <1>5, <1>6, <1>7, <1>8, <1>9

\* A step that writes one entry of local.
LEMMA OthersKeep ==
    ASSUME Held, NEW t \in Tasks, NEW l, local' = [local EXCEPT ![t] = l],
           l.out \in {local[t].out, NULL, row}
    PROVE  \A s \in Tasks : local'[s].out \in {local[s].out, NULL, row}
  BY DEF Held

LEMMA LeftOutputs ==
    ASSUME Held, NEW t \in Tasks, Leave(t)
    PROVE  \A s \in Tasks : local'[s].out \in {local[s].out, NULL, row}
  BY BlankType, OthersKeep DEF Leave

LEMMA GenerationOutputs == ASSUME Held, Generation PROVE OutputsMove
<1>t. GEN \in Tasks /\ local[GEN] \in Local BY TaskOf DEF Held
<1>1. CASE Fetch \/ ReadRules \/ ReadNodes \/ ReadGroups
  <2>1. row' = row BY <1>1 DEF Fetch, ReadRules, ReadNodes, ReadGroups, tables
  <2>2. \A t \in Tasks : local'[t].out = local[t].out
    BY <1>1, <1>t, FieldSet DEF Fetch, ReadRules, ReadNodes, ReadGroups
  <2> QED BY <2>1, <2>2 DEF OutputsMove
<1>2. CASE BuildOutput
  <2>1. row' = row BY <1>2 DEF BuildOutput, tables
  <2>2. CASE Accepted(Reading)
    <3> DEFINE out == Convert(Reading)
    <3>1. local' = [local EXCEPT ![GEN] = [Blank EXCEPT !.out = out]]
      BY <1>2, <2>2 DEF BuildOutput, Reading
    <3> HIDE DEF out
    <3>2. /\ local'[GEN].out = out
          /\ \A s \in Tasks \ {GEN} : local'[s].out = local[s].out
      BY <1>t, <3>1 DEF Held, Blank
    <3> QED BY <1>2, <2>1, <2>2, <3>2 DEF OutputsMove, out
  <2>3. CASE ~Accepted(Reading)
    <3>1. Leave(GEN) BY <1>2, <2>3 DEF BuildOutput, Reading
    <3> QED BY <1>t, <2>1, <3>1, LeftOutputs DEF OutputsMove
  <2> QED BY <2>2, <2>3
<1>3. CASE Persist BY <1>3 DEF Persist, OutputsMove
<1>4. CASE Snapshot
  <2>1. row' = row /\ Leave(GEN) BY <1>4 DEF Snapshot
  <2> QED BY <1>t, <2>1, LeftOutputs DEF OutputsMove
<1> QED BY <1>1, <1>2, <1>3, <1>4 DEF Generation

LEMMA ResyncOutputs == ASSUME Held, NEW a \in Admins, Resync(a) PROVE OutputsMove
<1>t. a \in Tasks /\ local[a] \in Local BY TaskOf DEF Held
<1>1. CASE ResyncWrite(a)
  <2>1. row' \in {row, Resynced(local[a])} /\ Leave(a) BY <1>1 DEF ResyncWrite
  <2> QED BY <1>1, <1>t, <2>1, LeftOutputs DEF OutputsMove
<1>2. CASE ~ResyncWrite(a)
  <2>1. row' = row
    BY <1>2 DEF Resync, ResyncLoad, ResyncNodeOrder, ResyncSection, ResyncNames,
                ResyncGroupOrder, ResyncRules, tables
  <2>2. CASE ResyncLoad(a) /\ row = NULL
    <3>1. Leave(a) BY <2>2 DEF ResyncLoad
    <3> QED BY <1>t, <2>1, <3>1, LeftOutputs DEF OutputsMove
  <2>3. CASE ResyncLoad(a) /\ row # NULL
    <3> DEFINE l == [Blank EXCEPT !.out = row]
    <3>1. local' = [local EXCEPT ![a] = l] BY <2>3 DEF ResyncLoad
    <3>2. l.out = row BY DEF Blank
    <3> HIDE DEF l
    <3> QED BY <1>t, <2>1, <3>1, <3>2, OthersKeep DEF OutputsMove
  <2>4. CASE ~ResyncLoad(a)
    <3>1. \A t \in Tasks : local'[t].out = local[t].out
      BY <1>2, <1>t, <2>4, FieldSet DEF Resync, ResyncNodeOrder, ResyncSection, ResyncNames,
                                        ResyncGroupOrder, ResyncRules
    <3> QED BY <2>1, <3>1 DEF OutputsMove
  <2> QED BY <2>2, <2>3, <2>4
<1> QED BY <1>1, <1>2

LEMMA AdminOutputs ==
    ASSUME Held, NEW a \in Admins,
           Edit(a) \/ ReadTaken(a) \/ InsertGroup(a) \/ InsertNode(a) \/ WritePositions(a)
    PROVE  OutputsMove
<1>t. a \in Tasks /\ local[a] \in Local BY TaskOf DEF Held
<1>1. row' = row
  BY DEF Edit, PutRules, SetGroupOrder, SetNodeSectionOrder, CreateGroup, UpdateGroup,
         DeleteGroup, ImportGroups, CreateNode, UpdateNode, DeleteNode, SetNodeOrder,
         ReadTaken, InsertGroup, InsertNode, WritePositions, tables
<1>2. CASE Leave(a) BY <1>t, <1>1, <1>2, LeftOutputs DEF OutputsMove
<1>3. CASE \A t \in Tasks : local'[t].out = local[t].out BY <1>1, <1>3 DEF OutputsMove
<1>4. CASE \/ PutRules(a) \/ SetGroupOrder(a) \/ SetNodeSectionOrder(a) \/ CreateGroup(a)
           \/ UpdateGroup(a) \/ DeleteGroup(a) \/ UpdateNode(a) \/ DeleteNode(a)
  BY <1>3, <1>4 DEF PutRules, SetGroupOrder, SetNodeSectionOrder, CreateGroup, UpdateGroup,
                    DeleteGroup, UpdateNode, DeleteNode
<1>5. CASE ImportGroups(a) \/ ReadTaken(a) BY <1>3, <1>5, <1>t, FieldSet DEF ImportGroups, ReadTaken
<1>6. CASE CreateNode(a)
  <2>1. \E v : local' = [local EXCEPT ![a].pos = v] BY <1>6 DEF CreateNode
  <2> QED BY <1>3, <1>t, <2>1, FieldSet
<1>7. CASE SetNodeOrder(a)
  <2>1. \E v : local' = [local EXCEPT ![a].todo = v] BY <1>7 DEF SetNodeOrder
  <2> QED BY <1>3, <1>t, <2>1, FieldSet
<1>8. CASE InsertGroup(a)
  <2>1. Leave(a) \/ \E v : local' = [local EXCEPT ![a].todo = v] BY <1>8 DEF InsertGroup
  <2> QED BY <1>2, <1>3, <1>t, <2>1, FieldSet
<1>9. CASE InsertNode(a) BY <1>2, <1>9 DEF InsertNode
<1>10. CASE WritePositions(a)
  <2>1. local' = [local EXCEPT ![a] = Blank] BY <1>10 DEF WritePositions
  <2>2. \A t \in Tasks : local'[t].out \in {local[t].out, NULL, row}
    BY <1>t, <2>1, BlankType, OthersKeep
  <2> QED BY <1>1, <2>2 DEF OutputsMove
<1> QED BY <1>4, <1>5, <1>6, <1>7, <1>8, <1>9, <1>10 DEF Edit

LEMMA NextOutputs == ASSUME Held, [Next]_vars PROVE OutputsMove
<1>1. CASE Generation BY <1>1, GenerationOutputs
<1>2. ASSUME NEW a \in Admins, Resync(a) PROVE OutputsMove BY <1>2, ResyncOutputs
<1>3. ASSUME NEW a \in Admins, \/ Edit(a) \/ ReadTaken(a) \/ InsertGroup(a) \/ InsertNode(a)
                               \/ WritePositions(a)
      PROVE  OutputsMove
  BY <1>3, AdminOutputs
<1>4. CASE FeedChanges BY <1>4 DEF FeedChanges, tables, OutputsMove
<1>5. ASSUME NEW t \in Tasks, Abort(t) PROVE OutputsMove
  <2>1. row' = row /\ Leave(t) BY <1>5 DEF Abort, tables
  <2> QED BY <2>1, LeftOutputs DEF OutputsMove
<1>6. CASE UNCHANGED vars BY <1>6 DEF vars, tables, OutputsMove
<1> QED BY <1>1, <1>2, <1>3, <1>4, <1>5, <1>6 DEF Next

\* The members of the groups of an output are in it, aliases excepted.
Closed(out) ==
    LET P == ToSet(out.proxies)
        G == ToSet(out.groups)
    IN (\A p \in P : p.from \in {"provider", p.name}) /\ (\A g \in G : g.name = g.from) =>
          \A g \in G : g.members \subseteq {p.name : p \in P} \cup {h.name : h \in G}
                                           \cup BuiltinPolicies

AllClosed == /\ row # NULL => Closed(row)
             /\ \A t \in Tasks : local[t].out # NULL => Closed(local[t].out)

\* What validate accepts is closed, and a resync leaves it so.
LEMMA ConvertClosed ==
    ASSUME NEW in \in Local, Accepted(in)
    PROVE  Closed(Convert(in))
<1>1. /\ in.provider \in Seq(Names) /\ in.nodes \in Seq(NodeRow)
      /\ in.groups \in Seq(GroupRow) /\ in.order \in Seq(Names)
  BY DEF Local
<1> DEFINE p == ProviderBlock(in.provider)
           c == CustomBlock(in.nodes)
           g == [i \in DOMAIN in.groups |-> BuildGroup(in.groups[i])]
           P == ToSet(Convert(in).proxies)
           G == ToSet(Convert(in).groups)
<1>2. p \in Seq(ProxyEntry) /\ c \in Seq(ProxyEntry) BY <1>1, BlocksTyped
<1>3. ToSet(ConcatSections(p, c, in.section)) = ToSet(p) \cup ToSet(c)
  <2>1. \A s, t \in Seq(ProxyEntry) : ToSet(s \o t) = ToSet(s) \cup ToSet(t)
    <3> SUFFICES ASSUME NEW s \in Seq(ProxyEntry), NEW t \in Seq(ProxyEntry)
                 PROVE  ToSet(s \o t) = ToSet(s) \cup ToSet(t)
      OBVIOUS
    <3>1. /\ DOMAIN s = 1 .. Len(s) /\ DOMAIN t = 1 .. Len(t)
          /\ Len(s) \in Nat /\ Len(t) \in Nat
      OBVIOUS
    <3>2. /\ DOMAIN (s \o t) = 1 .. Len(s) + Len(t)
          /\ \A k \in 1 .. Len(s) + Len(t) :
                (s \o t)[k] = IF k <= Len(s) THEN s[k] ELSE t[k - Len(s)]
      <4>1. s \o t \in Seq(ProxyEntry) /\ Len(s \o t) = Len(s) + Len(t) OBVIOUS
      <4>2. DOMAIN (s \o t) = 1 .. Len(s \o t) BY <4>1
      <4> QED BY <4>1, <4>2
    <3>3. \A k \in 1 .. Len(s) : k \in 1 .. Len(s) + Len(t) /\ (s \o t)[k] = s[k]
      BY <3>1, <3>2
    <3>4. \A k \in 1 .. Len(t) : /\ Len(s) + k \in 1 .. Len(s) + Len(t)
                                 /\ (s \o t)[Len(s) + k] = t[k]
      BY <3>1, <3>2
    <3>5. \A k \in 1 .. Len(s) + Len(t) : k \in 1 .. Len(s) \/ (/\ k - Len(s) \in 1 .. Len(t)
                                                                /\ ~(k <= Len(s)))
      BY <3>1
    <3> DEFINE u == s \o t
    <3> HIDE DEF u
    <3> QED BY <3>1, <3>2, <3>3, <3>4, <3>5 DEF ToSet, u
  <2>2. ToSet(p \o c) = ToSet(p) \cup ToSet(c) /\ ToSet(c \o p) = ToSet(c) \cup ToSet(p)
    BY <1>2, <2>1
  <2> HIDE DEF p, c
  <2> QED BY <2>2 DEF ConcatSections
<1>4. P = ToSet(p) \cup ToSet(c) BY <1>3 DEF Convert
<1>5. G = ToSet(g)
  <2>1. g \in Seq(GroupEntry) BY <1>1, GroupsBuilt
  <2> HIDE DEF g
  <2>2. ToSet(ReorderByName(g, in.order)) = ToSet(g) BY <1>1, <2>1, ReorderByNameType
  <2> QED BY <2>2 DEF Convert, g
<1>6. SUFFICES ASSUME \A q \in P : q.from \in {"provider", q.name},
                      \A h \in G : h.name = h.from,
                      NEW h \in G
               PROVE  h.members \subseteq {q.name : q \in P} \cup {f.name : f \in G}
                                          \cup BuiltinPolicies
  BY DEF Closed
<1>7. PICK i \in DOMAIN in.groups : h = BuildGroup(in.groups[i]) BY <1>5 DEF ToSet
<1>8. h.members \subseteq Known(in) BY <1>7 DEF Accepted, BuildGroup
<1>9. ToSet(in.provider) \subseteq {q.name : q \in P}
  <2> SUFFICES ASSUME NEW k \in DOMAIN in.provider
               PROVE  in.provider[k] \in {q.name : q \in P}
    BY DEF ToSet
  <2>1. p[k] \in P /\ p[k].name = in.provider[k] BY <1>4 DEF ToSet, ProviderBlock
  <2> QED BY <2>1
<1>10. NamesIn(in.nodes) \subseteq {q.name : q \in P}
  <2> SUFFICES ASSUME NEW k \in DOMAIN in.nodes
               PROVE  in.nodes[k].name \in {q.name : q \in P}
    BY DEF NamesIn
  <2>1. c[k] \in P /\ c[k].from = in.nodes[k].name BY <1>4 DEF ToSet, CustomBlock
  <2>2. in.nodes[k].name # "provider"
    <3>1. in.nodes[k] \in NodeRow BY <1>1
    <3> QED BY <3>1, BodiesAssumption DEF NodeRow
  <2>3. c[k].name = in.nodes[k].name BY <1>6, <2>1, <2>2
  <2> QED BY <2>1, <2>3
<1>11. NamesIn(in.groups) \subseteq {f.name : f \in G}
  <2> SUFFICES ASSUME NEW k \in DOMAIN in.groups
               PROVE  in.groups[k].name \in {f.name : f \in G}
    BY DEF NamesIn
  <2>1. g[k] \in G /\ g[k].from = in.groups[k].name BY <1>5 DEF ToSet, BuildGroup
  <2>2. g[k].name = in.groups[k].name BY <1>6, <2>1
  <2> QED BY <2>1, <2>2
<1> QED BY <1>8, <1>9, <1>10, <1>11 DEF Known

LEMMA ReadingType == Stored /\ Held => Reading \in Local
<1> SUFFICES ASSUME Stored, Held PROVE Reading \in Local OBVIOUS
<1>1. local[GEN] \in Local BY TaskOf DEF Held
<1> QED BY <1>1 DEF Reading, Local, Stored

LEMMA NextClosed == Typed /\ AllClosed /\ [Next]_vars => AllClosed'
<1> SUFFICES ASSUME Typed, AllClosed, [Next]_vars PROVE AllClosed' OBVIOUS
<1>1. OutputsMove BY NextOutputs DEF Typed
<1>2. ASSUME NEW t \in Tasks, local'[t].out # NULL PROVE Closed(local'[t].out)
  <2>1. CASE local'[t].out \in {local[t].out, NULL, row} BY <1>2, <2>1 DEF AllClosed
  <2>2. CASE Accepted(Reading) /\ local'[t].out = Convert(Reading)
    BY <2>2, ReadingType, ConvertClosed DEF Typed
  <2> QED BY <1>1, <2>1, <2>2 DEF OutputsMove
<1>3. ASSUME row' # NULL PROVE Closed(row')
  <2>1. CASE row' = row BY <1>3, <2>1 DEF AllClosed
  <2>2. CASE row' = local[GEN].out BY <1>3, <2>2, TaskOf DEF AllClosed
  <2>3. ASSUME NEW a \in Admins, ResyncWrite(a), row' = Resynced(local[a])
        PROVE  Closed(row')
    <3>1. local[a] \in Local /\ local[a].out # NULL
      BY <2>3, TaskOf DEF Typed, Held, ResyncWrite, Resyncing
    <3>2. Closed(local[a].out) BY <3>1, TaskOf DEF AllClosed
    <3>3. /\ ToSet(row'.proxies) = ToSet(local[a].out.proxies)
          /\ ToSet(row'.groups) = ToSet(local[a].out.groups)
      BY <2>3, <3>1, ResyncedType
    <3> QED BY <3>2, <3>3 DEF Closed
  <2> QED BY <1>1, <2>1, <2>2, <2>3 DEF OutputsMove
<1> QED BY <1>2, <1>3 DEF AllClosed

LEMMA AlwaysClosed == Spec => []AllClosed
<1>1. Init => AllClosed BY BlankType DEF Init, AllClosed
<1>2. Typed /\ AllClosed /\ [Next]_vars => AllClosed' BY NextClosed
<1> QED BY <1>1, <1>2, AlwaysTyped, PTL DEF Spec

\* What a group of the stored output refers to is in the output, although
\* the tables are read at different times and resyncs take it apart.
THEOREM GroupsClosedHolds == Spec => []GroupsClosed
<1>1. AllClosed => GroupsClosed
  <2> SUFFICES ASSUME AllClosed, row # NULL, Unaliased, NEW k \in DOMAIN row.groups
               PROVE  row.groups[k].members \subseteq Resolvable
    BY DEF GroupsClosed
  <2>1. Closed(row) BY DEF AllClosed
  <2>2. row.groups[k] \in ToSet(row.groups) BY DEF ToSet
  <2>3. /\ \A p \in ToSet(row.proxies) : p.from \in {"provider", p.name}
        /\ \A g \in ToSet(row.groups) : g.name = g.from
    BY DEF Unaliased, ToSet
  <2>4. /\ {p.name : p \in ToSet(row.proxies)} = NamesIn(row.proxies)
        /\ {g.name : g \in ToSet(row.groups)} = NamesIn(row.groups)
    BY DEF NamesIn, ToSet
  <2> QED BY <2>1, <2>2, <2>3, <2>4 DEF Closed, Resolvable
<1> QED BY <1>1, AlwaysClosed, PTL

\* The types, the unique names and the references together.
THEOREM InvHolds == Spec => []Inv
<1>1. TypeOK /\ NamesUnique /\ GroupsClosed => Inv BY DEF Inv
<1> QED BY <1>1, TypeOKHolds, NamesUniqueHolds, GroupsClosedHolds, PTL

\* A resync writes the entries it has read, each as often, in another order.
THEOREM ResyncKeepsEntriesHolds == Spec => ResyncKeepsEntries
<1>1. ASSUME Typed, [Next]_vars, NEW a \in Admins,
             pc[a] = "write", pc'[a] # "write", row' # row
      PROVE  /\ SameEntries(local[a].out.proxies, row'.proxies)
             /\ SameEntries(local[a].out.groups, row'.groups)
  <2>1. OutputsMove BY <1>1, NextOutputs DEF Typed
  <2>2. ~Persist
    <3>1. Persist => pc'[a] = pc[a] BY TaskOf DEF Persist, Goto, Typed, Held
    <3> QED BY <1>1, <3>1
  <2>3. PICK b \in Admins : ResyncWrite(b) /\ row' = Resynced(local[b])
    BY <1>1, <2>1, <2>2 DEF OutputsMove
  <2>4. a = b
    <3>1. a # b => pc'[a] = pc[a] BY <2>3, TaskOf DEF ResyncWrite, Leave, Goto, Typed, Held
    <3> QED BY <1>1, <3>1
  <2>5. local[a] \in Local /\ local[a].out # NULL
    BY <1>1, TaskOf DEF Typed, Held, Resyncing
  <2> QED BY <2>3, <2>4, <2>5, ResyncedType
<1>2. Typed /\ [Next]_vars =>
        [\A a \in Admins : pc[a] = "write" /\ pc'[a] # "write" /\ row' # row =>
           /\ SameEntries(local[a].out.proxies, row'.proxies)
           /\ SameEntries(local[a].out.groups, row'.groups)]_vars
  BY <1>1
<1> QED BY <1>2, AlwaysTyped, PTL DEF Spec, ResyncKeepsEntries

-----------------------------------------------------------------------------
(***************************************************************************)
(* The provider's block.  While no node is renamed, deleted or named like  *)
(* a proxy of the provider, nodes only come, so the names a resync has     *)
(* read cover the nodes of the output it works on and none of its proxies. *)
(***************************************************************************)
Customs(c, names) == \A k \in DOMAIN c : c[k].from # "provider" /\ c[k].name \in names

\* The proxies of some document together, then or before nodes with these names.
Whole(out, names) ==
    \E f \in Feeds, c \in Seq(ProxyEntry) :
       /\ Customs(c, names)
       /\ out.proxies \in {ProviderBlock(f.proxies) \o c, c \o ProviderBlock(f.proxies)}

Apart(names) == \A n \in names, f \in Feeds : ~Contains(f.proxies, n)

Covering == {"group_order", "resync_rules", "write"}

Covers(a) == pc[a] \in Covering => /\ local[a].names \subseteq NodeNames
                                   /\ Whole(local[a].out, local[a].names)

Blocks ==
    /\ \A i \in Nodes : ~Alias(node[i])
    /\ \A k \in DOMAIN local[GEN].nodes : /\ local[GEN].nodes[k].name \in NodeNames
                                          /\ local[GEN].nodes[k].shown = local[GEN].nodes[k].name
    /\ pc[GEN] \in {"rules", "nodes", "groups", "orders"} =>
          \E f \in Feeds : local[GEN].provider = f.proxies
    /\ row # NULL => Whole(row, NodeNames)
    /\ \A t \in Tasks : local[t].out # NULL => Whole(local[t].out, NodeNames)
    /\ \A a \in Admins : Covers(a)

LEMMA ConcatParts ==
    ASSUME NEW T, NEW s \in Seq(T), NEW t \in Seq(T)
    PROVE  /\ s \o t \in Seq(T) /\ DOMAIN (s \o t) = 1 .. Len(s) + Len(t)
           /\ \A k \in 1 .. Len(s) : (s \o t)[k] = s[k]
           /\ \A k \in Len(s) + 1 .. Len(s) + Len(t) :
                 k - Len(s) \in 1 .. Len(t) /\ (s \o t)[k] = t[k - Len(s)]
           /\ \A k \in 1 .. Len(s) + Len(t) : \/ k \in 1 .. Len(s)
                                              \/ k \in Len(s) + 1 .. Len(s) + Len(t)
           /\ \A k \in Len(s) + 1 .. Len(s) + Len(t) : k \notin 1 .. Len(s)
<1>1. Len(s) \in Nat /\ Len(t) \in Nat OBVIOUS
<1>2. s \o t \in Seq(T) /\ Len(s \o t) = Len(s) + Len(t) OBVIOUS
<1>3. DOMAIN (s \o t) = 1 .. Len(s) + Len(t)
  <2> DEFINE u == s \o t
  <2>1. u \in Seq(T) /\ Len(u) = Len(s) + Len(t) BY <1>2
  <2> HIDE DEF u
  <2>2. DOMAIN u = 1 .. Len(s) + Len(t) BY <2>1
  <2> QED BY <2>2 DEF u
<1>4. \A k \in 1 .. Len(s) + Len(t) :
         (s \o t)[k] = IF k <= Len(s) THEN s[k] ELSE t[k - Len(s)]
  OBVIOUS
<1>5. \A k \in 1 .. Len(s) : (s \o t)[k] = s[k] BY <1>1, <1>4
<1>6. \A k \in Len(s) + 1 .. Len(s) + Len(t) :
         k - Len(s) \in 1 .. Len(t) /\ (s \o t)[k] = t[k - Len(s)]
  <2> SUFFICES ASSUME NEW k \in Len(s) + 1 .. Len(s) + Len(t)
               PROVE  k - Len(s) \in 1 .. Len(t) /\ (s \o t)[k] = t[k - Len(s)]
    OBVIOUS
  <2>1. k \in 1 .. Len(s) + Len(t) /\ ~(k <= Len(s)) /\ k - Len(s) \in 1 .. Len(t) BY <1>1
  <2> QED BY <1>4, <2>1
<1>7. \A k \in 1 .. Len(s) + Len(t) : \/ k \in 1 .. Len(s)
                                      \/ k \in Len(s) + 1 .. Len(s) + Len(t)
  BY <1>1
<1>8. \A k \in Len(s) + 1 .. Len(s) + Len(t) : k \notin 1 .. Len(s) BY <1>1
<1> QED BY <1>2, <1>3, <1>5, <1>6, <1>7, <1>8

\* The two parts of a concatenation are filters of it.
LEMMA PickedParts ==
    ASSUME NEW T, NEW s \in Seq(T), NEW t \in Seq(T)
    PROVE  /\ Pick(s \o t, 1 .. Len(s)) = s
           /\ Pick(s \o t, Len(s) + 1 .. Len(s) + Len(t)) = t
<1> DEFINE u == s \o t
           m == Len(s)
           n == Len(t)
<1>1. m \in Nat /\ n \in Nat OBVIOUS
<1>2. s = [k \in 1 .. m |-> s[k]] /\ t = [k \in 1 .. n |-> t[k]] OBVIOUS
<1>3. /\ \A k \in 1 .. m : u[k] = s[k]
      /\ \A k \in m + 1 .. m + n : u[k] = t[k - m]
  BY ConcatParts
<1> HIDE DEF u, m, n
<1>4. Pick(u, Block(0, m)) = Part(u, 0, m)
  <2>1. 0 \in Nat OBVIOUS
  <2> QED BY <1>1, <2>1, PickedBlock
<1>5. Pick(u, Block(m, n)) = Part(u, m, n) BY <1>1, PickedBlock
<1>6. 0 + 1 .. 0 + m = 1 .. m /\ \A k \in 1 .. m : 0 + k = k BY <1>1
<1>7. \A k \in 1 .. n : m + k \in m + 1 .. m + n /\ (m + k) - m = k BY <1>1
<1>8. Part(u, 0, m) = s BY <1>2, <1>3, <1>6 DEF Part
<1>9. Part(u, m, n) = t BY <1>2, <1>3, <1>7 DEF Part
<1>10. Block(0, m) = 1 .. m /\ Block(m, n) = m + 1 .. m + n BY <1>6 DEF Block
<1> QED BY <1>4, <1>5, <1>8, <1>9, <1>10 DEF u, m, n

\* Places that cover one part of a concatenation and none of the other take
\* it apart.
Joins(u, s, t) == u = s \o t
Splits(K, u, s, t) == /\ Joins(u, s, t) /\ K \subseteq DOMAIN u
                      /\ \A k \in 1 .. Len(s) : k \in K
                      /\ \A k \in 1 .. Len(t) : Len(s) + k \notin K

LEMMA TakenApart ==
    ASSUME NEW T, NEW s \in Seq(T), NEW t \in Seq(T), NEW u, NEW K, Splits(K, u, s, t)
    PROVE  Pick(u, K) = s /\ \A L : L = DOMAIN u \ K => Pick(u, L) = t
<1> DEFINE m == Len(s)
           n == Len(t)
           D == DOMAIN u
<1>1. m \in Nat /\ n \in Nat OBVIOUS
<1>2. D = 1 .. m + n BY ConcatParts DEF Joins, Splits
<1>3. K \subseteq D /\ (\A k \in 1 .. m : k \in K) /\ \A k \in 1 .. n : m + k \notin K
  BY DEF Splits
<1> HIDE DEF m, n, D
<1>4. \A k \in m + 1 .. m + n : k \notin K
  <2> SUFFICES ASSUME NEW k \in m + 1 .. m + n PROVE k \notin K OBVIOUS
  <2>1. k - m \in 1 .. n /\ m + (k - m) = k BY <1>1
  <2> QED BY <1>3, <2>1
<1>5. K = 1 .. m
  <2>1. \A k \in 1 .. m + n : k \in 1 .. m \/ k \in m + 1 .. m + n BY <1>1
  <2> QED BY <1>2, <1>3, <1>4, <2>1
<1>6. D \ K = m + 1 .. m + n BY <1>1, <1>2, <1>5
<1>7. Pick(u, 1 .. m) = s /\ Pick(u, m + 1 .. m + n) = t
  BY PickedParts DEF m, n, Joins, Splits
<1> QED BY <1>5, <1>6, <1>7 DEF D

\* The same for two parts in either order and a test of the entries.
Differ(p, c, E) == (\A k \in 1 .. Len(p) : p[k] \notin E) /\ \A k \in 1 .. Len(c) : c[k] \in E

Where(ps, E) == {k \in DOMAIN ps : ps[k] \in E}
Elsewhere(ps, E) == {k \in DOMAIN ps : ps[k] \notin E}

LEMMA Divided ==
    ASSUME NEW T, NEW p \in Seq(T), NEW c \in Seq(T), NEW E, Differ(p, c, E),
           NEW ps, Joins(ps, p, c) \/ Joins(ps, c, p)
    PROVE  Pick(ps, Where(ps, E)) = c /\ Pick(ps, Elsewhere(ps, E)) = p
<1> DEFINE K == {k \in DOMAIN ps : ps[k] \in E}
           L == {k \in DOMAIN ps : ps[k] \notin E}
<1>1. L = DOMAIN ps \ K /\ K = DOMAIN ps \ L /\ K \in SUBSET DOMAIN ps /\ L \in SUBSET DOMAIN ps
  OBVIOUS
<1>2. ASSUME NEW s \in Seq(T), NEW t \in Seq(T), Joins(ps, s, t)
      PROVE  /\ \A k \in 1 .. Len(s) : k \in DOMAIN ps /\ ps[k] = s[k]
             /\ \A k \in 1 .. Len(t) : Len(s) + k \in DOMAIN ps /\ ps[Len(s) + k] = t[k]
  <2>1. Len(s) \in Nat /\ Len(t) \in Nat OBVIOUS
  <2>2. \A k \in 1 .. Len(s) : k \in 1 .. Len(s) + Len(t) BY <2>1
  <2>3. \A k \in 1 .. Len(t) : /\ Len(s) + k \in Len(s) + 1 .. Len(s) + Len(t)
                               /\ Len(s) + k \in 1 .. Len(s) + Len(t)
                               /\ (Len(s) + k) - Len(s) = k
    BY <2>1
  <2>4. /\ DOMAIN ps = 1 .. Len(s) + Len(t)
        /\ \A k \in 1 .. Len(s) : ps[k] = s[k]
        /\ \A k \in Len(s) + 1 .. Len(s) + Len(t) : ps[k] = t[k - Len(s)]
    BY <1>2, ConcatParts DEF Joins
  <2>5. \A k \in 1 .. Len(t) : ps[Len(s) + k] = t[k] BY <2>3, <2>4
  <2> QED BY <2>2, <2>3, <2>4, <2>5
<1>3. CASE Joins(ps, p, c)
  <2>1. /\ \A k \in 1 .. Len(p) : k \in DOMAIN ps /\ ps[k] \notin E
        /\ \A k \in 1 .. Len(c) : ps[Len(p) + k] \in E
    BY <1>2, <1>3 DEF Differ
  <2>2. /\ \A k \in 1 .. Len(p) : k \in L
        /\ \A k \in 1 .. Len(c) : Len(p) + k \notin L
    BY <2>1
  <2> HIDE DEF K, L
  <2>3. Splits(L, ps, p, c) BY <1>1, <1>3, <2>2 DEF Splits
  <2>4. Pick(ps, L) = p /\ Pick(ps, K) = c BY <1>1, <2>3, TakenApart
  <2> QED BY <2>4 DEF K, L, Where, Elsewhere
<1>4. CASE Joins(ps, c, p)
  <2>1. /\ \A k \in 1 .. Len(c) : k \in DOMAIN ps /\ ps[k] \in E
        /\ \A k \in 1 .. Len(p) : ps[Len(c) + k] \notin E
    BY <1>2, <1>4 DEF Differ
  <2>2. /\ \A k \in 1 .. Len(c) : k \in K
        /\ \A k \in 1 .. Len(p) : Len(c) + k \notin K
    BY <2>1
  <2> HIDE DEF K, L
  <2>3. Splits(K, ps, c, p) BY <1>1, <1>4, <2>2 DEF Splits
  <2>4. Pick(ps, K) = c /\ Pick(ps, L) = p BY <1>1, <2>3, TakenApart
  <2> QED BY <2>4 DEF K, L, Where, Elsewhere
<1> QED BY <1>3, <1>4

LEMMA ProviderBlockIs ==
    ASSUME NEW f \in Feeds
    PROVE  /\ ProviderBlock(f.proxies) \in Seq(ProxyEntry)
           /\ NameOf(ProviderBlock(f.proxies)) = f.proxies
           /\ \A k \in 1 .. Len(ProviderBlock(f.proxies)) :
                 /\ ProviderBlock(f.proxies)[k].from = "provider"
                 /\ Contains(f.proxies, ProviderBlock(f.proxies)[k].name)
<1> DEFINE n == f.proxies
           p == ProviderBlock(n)
<1>1. n \in Seq(Names) BY FeedsAssumption
<1> HIDE DEF n
<1>2. DOMAIN n = 1 .. Len(n) /\ Len(n) \in Nat /\ n = [k \in DOMAIN n |-> n[k]] BY <1>1
<1>3. \A i \in DOMAIN n : [name |-> n[i], from |-> "provider"] \in ProxyEntry
  BY <1>1 DEF ProxyEntry
<1>4. p \in Seq(ProxyEntry) /\ DOMAIN p = DOMAIN n /\ Len(p) = Len(n)
  BY <1>2, <1>3 DEF ProviderBlock
<1>5. \A k \in DOMAIN n : p[k].name = n[k] /\ p[k].from = "provider" BY DEF ProviderBlock
<1> HIDE DEF p
<1>6. NameOf(p) = n BY <1>2, <1>4, <1>5 DEF NameOf
<1>7. \A k \in 1 .. Len(p) : p[k].from = "provider" /\ Contains(n, p[k].name)
  BY <1>2, <1>4, <1>5 DEF Contains
<1> QED BY <1>4, <1>6, <1>7 DEF n, p

\* Names that no proxy of a document has take an output apart, and a resync
\* that has read them puts the same parts together again.
LEMMA ResyncedWhole ==
    ASSUME NEW l \in Local, l.out # NULL, Whole(l.out, l.names), Apart(l.names)
    PROVE  Whole(Resynced(l), l.names)
<1> DEFINE ps == l.out.proxies
           E == {e \in ProxyEntry : e.name \in l.names}
           C == {k \in DOMAIN ps : ps[k].name \in l.names}
           D == DOMAIN ps \ C
           S == {e \in E : e.from # "provider"}
<1>1. ps \in Seq(ProxyEntry) /\ l.todo \in Seq(Names \cup GroupRow \cup {NULL})
  BY DEF Local, Output
<1>2. PICK f \in Feeds, c \in Seq(ProxyEntry) :
         /\ Customs(c, l.names)
         /\ ps \in {ProviderBlock(f.proxies) \o c, c \o ProviderBlock(f.proxies)}
  BY DEF Whole
<1> DEFINE p == ProviderBlock(f.proxies)
<1>3. p \in Seq(ProxyEntry) /\ \A k \in 1 .. Len(p) : p[k] \notin E
  BY ProviderBlockIs DEF Apart
<1>4. DOMAIN c = 1 .. Len(c) /\ \A k \in 1 .. Len(c) : c[k] \in E /\ c[k] \in S
  BY <1>2 DEF Customs
<1>5. C \in SUBSET DOMAIN ps /\ \A k \in DOMAIN ps : ps[k] \in ProxyEntry BY <1>1
<1>6. C = Where(ps, E) /\ D = Elsewhere(ps, E) BY <1>5 DEF Where, Elsewhere
<1>7. Resynced(l).proxies = ConcatSections(Pick(ps, D), ReorderPicked(ps, C, l.todo), l.section)
  BY DEF Resynced
<1> HIDE DEF C, D, E, S, p, ps
<1>8. Pick(ps, C) = c /\ Pick(ps, D) = p
  <2>1. Joins(ps, p, c) \/ Joins(ps, c, p) BY <1>2 DEF p, Joins
  <2>2. Differ(p, c, E) BY <1>3, <1>4 DEF Differ
  <2>3. Pick(ps, Where(ps, E)) = c /\ Pick(ps, Elsewhere(ps, E)) = p
    BY <1>3, <2>1, <2>2, Divided
  <2> QED BY <1>6, <2>3
<1>9. \A i \in C : ps[i] \in S
  <2>1. ToSet(Pick(ps, C)) = {ps[i] : i \in C}
    <3>1. \A i \in C : ps[i] \in ProxyEntry BY <1>5
    <3> QED BY <1>1, <1>5, <3>1, Picked
  <2>2. ToSet(c) \subseteq S BY <1>4 DEF ToSet
  <2> QED BY <1>8, <2>1, <2>2
<1> DEFINE d == ReorderPicked(ps, C, l.todo)
<1>10. d \in Seq(S)
  <2>1. \E g : Rearranged(d, ps, C, g) BY <1>1, <1>5, Reordered
  <2> HIDE DEF d
  <2>2. PICK g : Rearranged(d, ps, C, g) BY <2>1
  <2> QED BY <1>9, <2>2, RearrangedType
<1> HIDE DEF d
<1>11. d \in Seq(ProxyEntry) /\ Customs(d, l.names)
  <2>1. S \subseteq ProxyEntry BY DEF S, E
  <2>2. \A k \in DOMAIN d : d[k] \in S BY <1>10
  <2> QED BY <1>10, <2>1, <2>2, Wider DEF Customs, S, E
<1>12. Resynced(l).proxies \in {p \o d, d \o p}
  BY <1>7, <1>8 DEF d, ConcatSections
<1> QED BY <1>11, <1>12 DEF Whole, p

\* So does what convert makes of a document and of nodes with these names.
LEMMA ConvertWhole ==
    ASSUME NEW in \in Local, NEW f \in Feeds, in.provider = f.proxies, NEW N,
           \A k \in DOMAIN in.nodes : /\ in.nodes[k].name \in N
                                      /\ in.nodes[k].shown = in.nodes[k].name
    PROVE  Whole(Convert(in), N)
<1> DEFINE c == CustomBlock(in.nodes)
           p == ProviderBlock(f.proxies)
<1>1. in.nodes \in Seq(NodeRow) BY DEF Local
<1>2. c \in Seq(ProxyEntry)
  <2>1. f.proxies \in Seq(Names) BY FeedsAssumption
  <2> QED BY <1>1, <2>1, BlocksTyped
<1>3. Customs(c, N)
  <2> SUFFICES ASSUME NEW k \in DOMAIN in.nodes
               PROVE  c[k].from # "provider" /\ c[k].name \in N
    BY DEF Customs, CustomBlock
  <2>1. in.nodes[k] \in NodeRow BY <1>1
  <2>2. in.nodes[k].name \in Names BY <2>1 DEF NodeRow
  <2> QED BY <2>2, BodiesAssumption DEF CustomBlock
<1>4. Convert(in).proxies = ConcatSections(p, c, in.section) BY DEF Convert
<1> HIDE DEF c, p
<1>5. Convert(in).proxies \in {p \o c, c \o p} BY <1>4 DEF ConcatSections
<1> QED BY <1>2, <1>3, <1>5 DEF Whole, p

LEMMA WholeGrows ==
    ASSUME NEW out, NEW N, NEW M, N \subseteq M, Whole(out, N)
    PROVE  Whole(out, M)
<1>1. \A c : Customs(c, N) => Customs(c, M) BY DEF Customs
<1> QED BY <1>1 DEF Whole

\* Nodes come and are moved; the history records all else.
LEMMA NodesGrow ==
    ASSUME Typed, [Next]_vars, ~strayed', ~strayed => \A i \in Nodes : ~Alias(node[i])
    PROVE  /\ ~strayed /\ NodeNames \subseteq NodeNames'
           /\ \A i \in Nodes' : ~Alias(node'[i])
<1>n. node \in [NodeIds -> NodeRow \cup {NULL}] BY DEF Typed, Stored
<1>f. /\ \A i : i \in Nodes <=> i \in NodeIds /\ node[i] # NULL
      /\ \A i : i \in Nodes' <=> i \in NodeIds /\ node'[i] # NULL
      /\ NodeNames = {node[i].name : i \in Nodes}
      /\ NodeNames' = {node'[i].name : i \in Nodes'}
  BY DEF Nodes, NodeNames
<1>1. CASE node' = node /\ strayed' = strayed BY <1>1, <1>f
<1>2. ASSUME NEW a \in Admins, InsertNode(a)
      PROVE  /\ ~strayed /\ NodeNames \subseteq NodeNames'
             /\ \A i \in Nodes' : ~Alias(node'[i])
  <2>1. PICK i \in NodeIds \ Nodes, b \in NodeBodies :
           IF NodeNameFree(b.name, i)
           THEN /\ node' = [node EXCEPT ![i] = Row(b, local[a].pos)]
                /\ strayed' = (strayed \/ Alias(b))
           ELSE node' = node /\ strayed' = strayed
    BY <1>2 DEF InsertNode
  <2>2. CASE NodeNameFree(b.name, i)
    <3>1. /\ ~strayed /\ ~Alias(b)
          /\ node' = [node EXCEPT ![i] = Row(b, local[a].pos)]
      BY <2>1, <2>2
    <3>2. ~Alias(Row(b, local[a].pos)) BY <3>1 DEF Alias, Row
    <3>3. node'[i] = Row(b, local[a].pos) /\ \A j \in Nodes : node'[j] = node[j]
      BY <1>n, <1>f, <2>1, <3>1
    <3>4. \A j \in Nodes' : j = i \/ j \in Nodes BY <1>n, <1>f, <3>1
    <3>5. \A j \in Nodes : j \in Nodes' BY <1>f, <3>3
    <3> QED BY <1>f, <3>1, <3>2, <3>3, <3>4, <3>5
  <2>3. CASE ~NodeNameFree(b.name, i) BY <1>1, <2>1, <2>3
  <2> QED BY <2>2, <2>3
<1>3. ASSUME NEW a \in Admins, UpdateNode(a)
      PROVE  /\ ~strayed /\ NodeNames \subseteq NodeNames'
             /\ \A i \in Nodes' : ~Alias(node'[i])
  <2>1. PICK i \in Nodes, b \in NodeBodies :
           /\ node' = [node EXCEPT ![i] = Row(b, node[i].pos)]
           /\ strayed' = (strayed \/ b.name # node[i].name \/ Alias(b))
    BY <1>3 DEF UpdateNode
  <2>2. ~strayed /\ b.name = node[i].name /\ ~Alias(b) BY <2>1
  <2>3. /\ ~Alias(Row(b, node[i].pos)) /\ Row(b, node[i].pos).name = node[i].name
        /\ Row(b, node[i].pos) # NULL
    <3>1. node[i] \in NodeRow /\ b \in [name : Names, shown : Names, on : BOOLEAN]
      BY <1>n, <1>f, BodiesAssumption
    <3>2. node[i].pos \in Nat BY <3>1 DEF NodeRow
    <3>3. Row(b, node[i].pos).name = b.name /\ Row(b, node[i].pos) # NULL
      BY <3>1, <3>2, RowType
    <3> QED BY <2>2, <3>3 DEF Alias, Row
  <2>4. node'[i] = Row(b, node[i].pos) /\ \A j \in NodeIds : j # i => node'[j] = node[j]
    BY <1>n, <1>f, <2>1
  <2>5. Nodes' = Nodes BY <1>f, <2>3, <2>4
  <2> QED BY <1>f, <2>2, <2>3, <2>4, <2>5
<1>4. ASSUME NEW a \in Admins, DeleteNode(a) PROVE FALSE BY <1>4 DEF DeleteNode
<1>5. ASSUME NEW a \in Admins, WritePositions(a)
      PROVE  /\ ~strayed /\ NodeNames \subseteq NodeNames'
             /\ \A i \in Nodes' : ~Alias(node'[i])
  <2>1. strayed' = strayed BY <1>5 DEF WritePositions
  <2>2. /\ Nodes' = Nodes
        /\ \A i \in Nodes : node'[i].name = node[i].name /\ node'[i].shown = node[i].shown
    BY <1>5, PositionsWritten
  <2> QED BY <1>f, <2>1, <2>2 DEF Alias
<1>6. \/ node' = node /\ strayed' = strayed
      \/ \E a \in Admins : InsertNode(a) \/ UpdateNode(a) \/ DeleteNode(a) \/ WritePositions(a)
  <2>1. CASE Generation
    BY <2>1 DEF Generation, Fetch, ReadRules, ReadNodes, ReadGroups, BuildOutput, Persist,
                Snapshot, tables
  <2>2. ASSUME NEW a \in Admins, Resync(a) PROVE node' = node /\ strayed' = strayed
    BY <2>2 DEF Resync, ResyncLoad, ResyncNodeOrder, ResyncSection, ResyncNames,
                ResyncGroupOrder, ResyncRules, ResyncWrite, tables
  <2>3. ASSUME NEW a \in Admins, \/ Edit(a) /\ ~UpdateNode(a) /\ ~DeleteNode(a)
                                 \/ ReadTaken(a) \/ InsertGroup(a)
        PROVE  node' = node /\ strayed' = strayed
    BY <2>3 DEF Edit, PutRules, SetGroupOrder, SetNodeSectionOrder, CreateGroup, UpdateGroup,
                DeleteGroup, ImportGroups, CreateNode, SetNodeOrder, ReadTaken, InsertGroup,
                tables
  <2>4. CASE FeedChanges BY <2>4 DEF FeedChanges, tables
  <2>5. ASSUME NEW t \in Tasks, Abort(t) PROVE node' = node /\ strayed' = strayed
    BY <2>5 DEF Abort, tables
  <2>6. CASE UNCHANGED vars BY <2>6 DEF vars, tables
  <2> QED BY <2>1, <2>2, <2>3, <2>4, <2>5, <2>6 DEF Next
<1> QED BY <1>1, <1>2, <1>3, <1>4, <1>5, <1>6

\* A step is taken by one handler; the others stay where they are.
Alone(t) == \A s \in Tasks \ {t} : pc'[s] = pc[s] /\ local'[s] = local[s]

LEMMA GenerationAlone == ASSUME Held, Generation PROVE Alone(GEN)
<1> USE TaskOf DEF Held, Alone, Goto, Leave
<1>1. CASE Fetch \/ ReadRules \/ ReadNodes \/ ReadGroups
  BY <1>1 DEF Fetch, ReadRules, ReadNodes, ReadGroups
<1>2. CASE BuildOutput BY <1>2 DEF BuildOutput
<1>3. CASE Persist \/ Snapshot BY <1>3 DEF Persist, Snapshot
<1> QED BY <1>1, <1>2, <1>3 DEF Generation

LEMMA ResyncAlone == ASSUME Held, NEW a \in Admins, Resync(a) PROVE Alone(a)
<1> USE TaskOf DEF Held, Alone, Goto, Leave
<1>1. CASE ResyncLoad(a) BY <1>1 DEF ResyncLoad
<1>2. CASE ResyncNodeOrder(a) \/ ResyncSection(a) \/ ResyncNames(a)
  BY <1>2 DEF ResyncNodeOrder, ResyncSection, ResyncNames
<1>3. CASE ResyncGroupOrder(a) \/ ResyncRules(a)
  BY <1>3 DEF ResyncGroupOrder, ResyncRules
<1>4. CASE ResyncWrite(a) BY <1>4 DEF ResyncWrite
<1> QED BY <1>1, <1>2, <1>3, <1>4 DEF Resync

LEMMA AdminAlone ==
    ASSUME Held, NEW a \in Admins,
           Edit(a) \/ ReadTaken(a) \/ InsertGroup(a) \/ InsertNode(a) \/ WritePositions(a)
    PROVE  Alone(a)
<1> USE TaskOf DEF Held, Alone, Goto, Leave
<1>1. CASE \/ PutRules(a) \/ SetGroupOrder(a) \/ SetNodeSectionOrder(a) \/ CreateGroup(a)
           \/ UpdateGroup(a) \/ DeleteGroup(a) \/ UpdateNode(a) \/ DeleteNode(a)
  BY <1>1 DEF PutRules, SetGroupOrder, SetNodeSectionOrder, CreateGroup, UpdateGroup,
              DeleteGroup, UpdateNode, DeleteNode
<1>2. CASE ImportGroups(a) \/ ReadTaken(a) \/ InsertGroup(a)
  BY <1>2 DEF ImportGroups, ReadTaken, InsertGroup
<1>3. CASE CreateNode(a) BY <1>3 DEF CreateNode
<1>4. CASE InsertNode(a) BY <1>4 DEF InsertNode
<1>5. CASE SetNodeOrder(a) BY <1>5 DEF SetNodeOrder
<1>6. CASE WritePositions(a) BY <1>6 DEF WritePositions
<1> QED BY <1>1, <1>2, <1>3, <1>4, <1>5, <1>6 DEF Edit

\* The steps after which a handler may be about to take an output apart.
LEMMA CoveringSteps ==
    ASSUME Held, [Next]_vars, NEW a \in Admins, pc'[a] \in Covering
    PROVE  \/ ResyncNames(a)
           \/ /\ pc[a] \in Covering
              /\ local'[a].names = local[a].names /\ local'[a].out = local[a].out
<1>t. a \in Tasks /\ local[a] \in Local BY TaskOf DEF Held
<1>1. CASE pc'[a] = pc[a] /\ local'[a] = local[a] BY <1>1
<1>2. ASSUME NEW s \in Tasks \ {a}, Alone(s) PROVE pc'[a] = pc[a] /\ local'[a] = local[a]
  BY <1>2, <1>t DEF Alone
<1>3. ASSUME Leave(a) PROVE FALSE BY <1>3, <1>t DEF Leave, Goto, Held, Covering
<1>4. CASE Resync(a)
  <2>1. CASE ResyncLoad(a) BY <2>1, <1>3, <1>t DEF ResyncLoad, Goto, Held, Covering
  <2>2. CASE ResyncNodeOrder(a) \/ ResyncSection(a)
    BY <2>2, <1>t DEF ResyncNodeOrder, ResyncSection, Goto, Held, Covering
  <2>3. CASE ResyncGroupOrder(a) \/ ResyncRules(a)
    <3>1. pc[a] \in Covering BY <2>3 DEF ResyncGroupOrder, ResyncRules, Covering
    <3>2. local'[a].names = local[a].names /\ local'[a].out = local[a].out
      BY <2>3, <1>t DEF ResyncGroupOrder, ResyncRules, Held, Local
    <3> QED BY <3>1, <3>2
  <2>4. CASE ResyncWrite(a) BY <2>4, <1>3 DEF ResyncWrite
  <2> QED BY <1>4, <2>1, <2>2, <2>3, <2>4 DEF Resync
<1>5. CASE Edit(a) \/ ReadTaken(a) \/ InsertGroup(a) \/ InsertNode(a) \/ WritePositions(a)
  <2>1. CASE CreateGroup(a) \/ UpdateGroup(a) \/ DeleteGroup(a) \/ UpdateNode(a) \/ DeleteNode(a)
    BY <2>1, <1>1 DEF CreateGroup, UpdateGroup, DeleteGroup, UpdateNode, DeleteNode
  <2>2. CASE PutRules(a) \/ SetGroupOrder(a) \/ SetNodeSectionOrder(a)
    BY <2>2, <1>t DEF PutRules, SetGroupOrder, SetNodeSectionOrder, Goto, Held, Covering
  <2>3. CASE ImportGroups(a) \/ ReadTaken(a) \/ CreateNode(a) \/ SetNodeOrder(a)
    BY <2>3, <1>t DEF ImportGroups, ReadTaken, CreateNode, SetNodeOrder, Goto, Held, Covering
  <2>4. CASE InsertGroup(a)
    <3>1. pc'[a] # "importing" BY DEF Covering
    <3>2. pc[a] = "importing" /\ (pc' = pc \/ Leave(a)) BY <2>4 DEF InsertGroup
    <3> QED BY <1>3, <3>1, <3>2
  <2>5. CASE InsertNode(a) BY <2>5, <1>3 DEF InsertNode
  <2>6. CASE WritePositions(a) BY <2>6, <1>t DEF WritePositions, Goto, Held, Covering
  <2> QED BY <1>5, <2>1, <2>2, <2>3, <2>4, <2>5, <2>6 DEF Edit
<1>6. CASE Generation BY <1>1, <1>2, <1>6, GenerationAlone, TaskOf
<1>7. ASSUME NEW b \in Admins \ {a},
             \/ Edit(b) \/ Resync(b) \/ ReadTaken(b) \/ InsertGroup(b) \/ InsertNode(b)
             \/ WritePositions(b)
      PROVE  pc'[a] = pc[a] /\ local'[a] = local[a]
  BY <1>2, <1>7, ResyncAlone, AdminAlone, TaskOf
<1>8. CASE FeedChanges BY <1>1, <1>8 DEF FeedChanges
<1>9. ASSUME NEW s \in Tasks, Abort(s) PROVE pc'[a] = pc[a] /\ local'[a] = local[a]
  <2>1. Leave(s) BY <1>9 DEF Abort
  <2>2. s # a BY <1>3, <2>1
  <2> QED BY <1>t, <2>1, <2>2 DEF Leave, Goto, Held
<1>10. CASE UNCHANGED vars BY <1>1, <1>10 DEF vars
<1> QED BY <1>1, <1>4, <1>5, <1>6, <1>7, <1>8, <1>9, <1>10 DEF Next

\* What generation does to what it has read.
LEMMA GenerationSteps ==
    ASSUME Held, [Next]_vars
    PROVE  \/ pc'[GEN] = pc[GEN] /\ local'[GEN] = local[GEN]
           \/ pc'[GEN] = "idle" /\ local'[GEN] = Blank
           \/ Generation
<1>t. GEN \in Tasks BY TaskOf
<1>1. ASSUME NEW s \in Tasks \ {GEN}, Alone(s) PROVE pc'[GEN] = pc[GEN] /\ local'[GEN] = local[GEN]
  BY <1>1, <1>t DEF Alone
<1>2. ASSUME NEW b \in Admins,
             \/ Edit(b) \/ Resync(b) \/ ReadTaken(b) \/ InsertGroup(b) \/ InsertNode(b)
             \/ WritePositions(b)
      PROVE  pc'[GEN] = pc[GEN] /\ local'[GEN] = local[GEN]
  BY <1>1, <1>2, ResyncAlone, AdminAlone, TaskOf
<1>3. CASE FeedChanges \/ UNCHANGED vars BY <1>3 DEF FeedChanges, vars
<1>4. ASSUME NEW s \in Tasks, Abort(s)
      PROVE  \/ pc'[GEN] = pc[GEN] /\ local'[GEN] = local[GEN]
             \/ pc'[GEN] = "idle" /\ local'[GEN] = Blank
  <2>1. Leave(s) BY <1>4 DEF Abort
  <2> QED BY <1>t, <2>1 DEF Leave, Goto, Held
<1> QED BY <1>2, <1>3, <1>4 DEF Next

Reads == {"rules", "nodes", "groups", "orders"}

LEMMA GenerationReads ==
    ASSUME Held, Generation
    PROVE  /\ local'[GEN].nodes \in {local[GEN].nodes, <<>>, EnabledNodes}
           /\ pc'[GEN] \in Reads => \/ local'[GEN].provider = feed.proxies
                                    \/ /\ pc[GEN] \in Reads
                                       /\ local'[GEN].provider = local[GEN].provider
<1>t. /\ GEN \in Tasks /\ local[GEN] \in Local
      /\ local \in [Tasks -> Local] /\ pc \in [Tasks -> Lbl]
  BY TaskOf DEF Held
<1>1. CASE Fetch BY <1>1, <1>t DEF Fetch, Local
<1>2. CASE ReadRules BY <1>2, <1>t DEF ReadRules, Local, Reads
<1>3. CASE ReadNodes BY <1>3, <1>t DEF ReadNodes, Local, Reads
<1>4. CASE ReadGroups BY <1>4, <1>t DEF ReadGroups, Local, Reads
<1>5. ASSUME Leave(GEN) PROVE local'[GEN].nodes = <<>> /\ pc'[GEN] = "idle"
  BY <1>5, <1>t DEF Leave, Goto, Blank
<1>6. CASE BuildOutput
  <2>1. Leave(GEN) \/ \E x : /\ local' = [local EXCEPT ![GEN] = [Blank EXCEPT !.out = x]]
                             /\ pc' = [pc EXCEPT ![GEN] = "persisting"]
    BY <1>6 DEF BuildOutput, Goto
  <2> QED BY <1>5, <1>t, <2>1 DEF Blank, Reads
<1>7. CASE Persist
  <2>1. local' = local /\ pc'[GEN] = "snapshot" BY <1>7, <1>t DEF Persist, Goto
  <2> QED BY <2>1 DEF Reads
<1>8. CASE Snapshot
  <2>1. Leave(GEN) BY <1>8 DEF Snapshot
  <2> QED BY <1>5, <2>1 DEF Reads
<1> QED BY <1>1, <1>2, <1>3, <1>4, <1>6, <1>7, <1>8 DEF Generation

LEMMA NamesApart ==
    ASSUME \A i \in Nodes : ~Alias(node[i]), NEW names \in SUBSET NodeNames
    PROVE  Apart(names)
  BY DEF Apart, Alias, NodeNames

LEMMA InitBlocks == Init => Blocks
  BY BlankType, TaskOf DEF Init, Blocks, Covers, Covering, Blank

LEMMA NextBlocks == Typed /\ (~strayed => Blocks) /\ [Next]_vars => (~strayed' => Blocks')
<1> SUFFICES ASSUME Typed, ~strayed => Blocks, [Next]_vars, ~strayed' PROVE Blocks'
  OBVIOUS
<1>1. /\ ~strayed /\ NodeNames \subseteq NodeNames'
      /\ \A i \in Nodes' : ~Alias(node'[i])
  BY NodesGrow DEF Blocks
<1>2. Blocks BY <1>1
<1>3. Stored /\ Held /\ GEN \in Tasks BY TaskOf DEF Typed
<1>4. OutputsMove BY <1>3, NextOutputs
<1>5. \A k \in DOMAIN local'[GEN].nodes :
         /\ local'[GEN].nodes[k].name \in NodeNames'
         /\ local'[GEN].nodes[k].shown = local'[GEN].nodes[k].name
  <2>1. local'[GEN].nodes \in {local[GEN].nodes, <<>>, EnabledNodes}
    BY <1>3, GenerationSteps, GenerationReads DEF Blank
  <2>2. CASE local'[GEN].nodes = local[GEN].nodes BY <1>1, <1>2, <2>2 DEF Blocks
  <2>3. CASE local'[GEN].nodes = <<>> BY <2>3
  <2>4. CASE local'[GEN].nodes = EnabledNodes
    <3>1. ToSet(EnabledNodes) = {node[i] : i \in {j \in Nodes : node[j].on}}
      <4>1. {j \in Nodes : node[j].on} \in SUBSET Nodes OBVIOUS
      <4> QED BY <1>3, <4>1, NodeListType DEF EnabledNodes
    <3>2. \A k \in DOMAIN EnabledNodes : \E i \in Nodes : EnabledNodes[k] = node[i]
      BY <3>1 DEF ToSet
    <3>3. \A i \in Nodes : node[i].name \in NodeNames' /\ node[i].shown = node[i].name
      BY <1>1, <1>2 DEF Blocks, Alias, NodeNames
    <3> QED BY <2>4, <3>2, <3>3
  <2> QED BY <2>1, <2>2, <2>3, <2>4
<1>6. pc'[GEN] \in Reads => \E f \in Feeds : local'[GEN].provider = f.proxies
  <2> SUFFICES ASSUME pc'[GEN] \in Reads PROVE \E f \in Feeds : local'[GEN].provider = f.proxies
    OBVIOUS
  <2>1. \/ local'[GEN].provider = feed.proxies
        \/ pc[GEN] \in Reads /\ local'[GEN].provider = local[GEN].provider
    <3>1. pc'[GEN] # "idle" BY DEF Reads
    <3> QED BY <1>3, <3>1, GenerationSteps, GenerationReads
  <2>2. feed \in Feeds BY <1>3 DEF Stored
  <2> QED BY <1>2, <2>1, <2>2 DEF Blocks, Reads
<1>7. ASSUME NEW t \in Tasks, local'[t].out # NULL PROVE Whole(local'[t].out, NodeNames')
  <2>1. CASE local'[t].out \in {local[t].out, NULL, row}
    BY <1>1, <1>2, <1>7, <2>1, WholeGrows DEF Blocks
  <2>2. CASE BuildOutput /\ local'[t].out = Convert(Reading)
    <3>1. PICK f \in Feeds : local[GEN].provider = f.proxies
      BY <1>2, <2>2 DEF Blocks, BuildOutput
    <3>2. Reading.provider = local[GEN].provider /\ Reading.nodes = local[GEN].nodes
      <4>1. local[GEN] \in Local BY <1>3 DEF Held
      <4> QED BY <4>1 DEF Reading, Local
    <3>3. Reading \in Local BY <1>3, ReadingType
    <3>4. Whole(Convert(Reading), NodeNames)
      <4>1. \A k \in DOMAIN Reading.nodes : /\ Reading.nodes[k].name \in NodeNames
                                            /\ Reading.nodes[k].shown = Reading.nodes[k].name
        BY <1>2, <3>2 DEF Blocks
      <4> QED BY <3>1, <3>2, <3>3, <4>1, ConvertWhole
    <3> QED BY <1>1, <2>2, <3>4, WholeGrows
  <2> QED BY <1>4, <2>1, <2>2 DEF OutputsMove
<1>8. ASSUME row' # NULL PROVE Whole(row', NodeNames')
  <2>1. CASE row' = row BY <1>1, <1>2, <1>8, <2>1, WholeGrows DEF Blocks
  <2>2. CASE row' = local[GEN].out BY <1>1, <1>2, <1>3, <1>8, <2>2, WholeGrows DEF Blocks
  <2>3. ASSUME NEW a \in Admins, ResyncWrite(a), row' = Resynced(local[a])
        PROVE  Whole(row', NodeNames')
    <3>1. local[a] \in Local /\ local[a].out # NULL
      BY <1>3, <2>3, TaskOf DEF Held, ResyncWrite, Resyncing
    <3>2. local[a].names \subseteq NodeNames /\ Whole(local[a].out, local[a].names)
      BY <1>2, <2>3 DEF Blocks, Covers, Covering, ResyncWrite
    <3>3. Apart(local[a].names) BY <1>2, <3>2, NamesApart DEF Blocks
    <3>4. Whole(row', local[a].names) BY <2>3, <3>1, <3>2, <3>3, ResyncedWhole
    <3> QED BY <1>1, <3>2, <3>4, WholeGrows
  <2> QED BY <1>4, <2>1, <2>2, <2>3 DEF OutputsMove
<1>9. ASSUME NEW a \in Admins, pc'[a] \in Covering
      PROVE  /\ local'[a].names \subseteq NodeNames'
             /\ Whole(local'[a].out, local'[a].names)
  <2>t. a \in Tasks /\ local[a] \in Local BY <1>3, TaskOf DEF Held
  <2>1. CASE ResyncNames(a)
    <3>1. local'[a].names = NodeNames /\ local'[a].out = local[a].out
      BY <1>3, <2>t, <2>1 DEF ResyncNames, GlobalNodeNames, Held, Local
    <3>2. local[a].out # NULL BY <1>3, <2>1 DEF ResyncNames, Held, Resyncing
    <3> QED BY <1>1, <1>2, <2>t, <3>1, <3>2 DEF Blocks
  <2>2. CASE /\ pc[a] \in Covering
             /\ local'[a].names = local[a].names /\ local'[a].out = local[a].out
    BY <1>1, <1>2, <2>2 DEF Blocks, Covers
  <2> QED BY <1>3, <1>9, <2>1, <2>2, CoveringSteps
<1> QED BY <1>1, <1>5, <1>6, <1>7, <1>8, <1>9 DEF Blocks, Covers, Reads

\* Generation stores the provider's proxies together and in their order, and
\* no resync moves another entry between them, whatever the handlers have
\* read before the nodes changed.
THEOREM BlocksKeptHolds == Spec => []BlocksKept
<1>1. Init => (~strayed => Blocks) BY InitBlocks
<1>2. Typed /\ (~strayed => Blocks) /\ [Next]_vars => (~strayed' => Blocks')
  BY NextBlocks
<1>3. Typed /\ (~strayed => Blocks) => BlocksKept
  <2> SUFFICES ASSUME Typed, Blocks, row # NULL
               PROVE  /\ \E f \in Feeds : NameOf(ProviderPart) = f.proxies
                      /\ row.proxies \in {ProviderPart \o CustomPart, CustomPart \o ProviderPart}
    BY DEF BlocksKept
  <2> DEFINE ps == row.proxies
             E == {e \in ProxyEntry : e.from # "provider"}
  <2>1. PICK f \in Feeds, c \in Seq(ProxyEntry) :
           /\ Customs(c, NodeNames)
           /\ ps \in {ProviderBlock(f.proxies) \o c, c \o ProviderBlock(f.proxies)}
    BY DEF Blocks, Whole
  <2> DEFINE p == ProviderBlock(f.proxies)
  <2>2. /\ p \in Seq(ProxyEntry) /\ NameOf(p) = f.proxies
        /\ \A k \in 1 .. Len(p) : p[k] \notin E
    BY ProviderBlockIs
  <2>3. \A k \in 1 .. Len(c) : c[k] \in E BY <2>1 DEF Customs
  <2>4. ps \in Seq(ProxyEntry) BY DEF Typed, Stored, Output
  <2>5. \A k \in DOMAIN ps : ps[k] \in ProxyEntry BY <2>4
  <2>6. ProviderPart = Pick(ps, Elsewhere(ps, E)) /\ CustomPart = Pick(ps, Where(ps, E))
    <3>1. /\ {k \in DOMAIN ps : ps[k].from = "provider"} = Elsewhere(ps, E)
          /\ {k \in DOMAIN ps : ps[k].from # "provider"} = Where(ps, E)
      BY <2>5 DEF Elsewhere, Where
    <3> QED BY <3>1 DEF ProviderPart, CustomPart
  <2>7. Joins(ps, p, c) \/ Joins(ps, c, p) BY <2>1 DEF Joins
  <2> HIDE DEF ps, E, p
  <2>8. Differ(p, c, E) BY <2>2, <2>3 DEF Differ
  <2>9. Pick(ps, Where(ps, E)) = c /\ Pick(ps, Elsewhere(ps, E)) = p
    BY <2>2, <2>7, <2>8, Divided
  <2>10. ps = p \o c \/ ps = c \o p BY <2>7 DEF Joins
  <2> QED BY <2>2, <2>6, <2>9, <2>10 DEF ps
<1> QED BY <1>1, <1>2, <1>3, AlwaysTyped, PTL DEF Spec

-----------------------------------------------------------------------------
(***************************************************************************)
(* The order of the output.                                                *)
(***************************************************************************)
\* reorder_by_name is a stable sort by the rank of the name: it lists every
\* place once, those of a lower rank first and those of a rank in the order
\* they had.
THEOREM ReorderByNameSorts ==
    ASSUME NEW T, NEW s \in Seq(T), NEW U, NEW l \in Seq(U)
    PROVE  LET t == ReorderByName(s, l)
           IN \E f \in Bijection(DOMAIN t, DOMAIN s) :
                 /\ \A k \in DOMAIN t : t[k] = s[f[k]]
                 /\ \A j, k \in DOMAIN t : j < k =>
                       \/ Rank(l, t[j].name) < Rank(l, t[k].name)
                       \/ Rank(l, t[j].name) = Rank(l, t[k].name) /\ f[j] < f[k]
<1> DEFINE t == ReorderByName(s, l)
           K == DOMAIN s
           n == Cardinality(K)
<1>1. PICK f : /\ Rearranged(t, s, K, f)
               /\ \A i, j \in 1 .. n : i < j => Sooner(s, l, f[i], f[j])
  <2>1. K \in SUBSET DOMAIN s OBVIOUS
  <2> QED BY <2>1, Reordered DEF ReorderByName
<1> HIDE DEF t, n, K
<1>2. /\ f \in [1 .. n -> K] /\ t = [k \in 1 .. n |-> s[f[k]]]
      /\ \A i \in K : \E k \in 1 .. n : f[k] = i
      /\ \A i, j \in 1 .. n : f[i] = f[j] => i = j
  BY <1>1 DEF Rearranged, n
<1>3. DOMAIN t = 1 .. n /\ \A k \in 1 .. n : t[k] = s[f[k]] BY <1>2
<1>4. f \in Bijection(1 .. n, K) BY <1>2, Fun_IsBij
<1>5. \A j, k \in 1 .. n : j < k =>
         \/ Rank(l, t[j].name) < Rank(l, t[k].name)
         \/ Rank(l, t[j].name) = Rank(l, t[k].name) /\ f[j] < f[k]
  BY <1>1, <1>3 DEF Sooner
<1> QED BY <1>3, <1>4, <1>5 DEF t, K

LEMMA WantedType == ASSUME Stored PROVE Wanted \in Local
<1>1. /\ EnabledNodes \in Seq(NodeRow) /\ EnabledGroups \in Seq(GroupRow)
      /\ feed.proxies \in Seq(Names)
  BY ReadsTyped
<1> HIDE DEF EnabledNodes, EnabledGroups
<1> QED BY <1>1, BlankType DEF Wanted, Stored, Local, Blank

\* The nodes that are on, by position.
LEMMA EnabledNodesListed ==
    ASSUME Stored
    PROVE  /\ \A k \in DOMAIN EnabledNodes :
                 \E i \in Nodes : node[i].on /\ EnabledNodes[k] = node[i]
           /\ \A i \in Nodes : node[i].on => \E k \in DOMAIN EnabledNodes : EnabledNodes[k] = node[i]
           /\ \A j, k \in DOMAIN EnabledNodes :
                 j < k => EnabledNodes[j].pos <= EnabledNodes[k].pos
<1> DEFINE ids == {i \in Nodes : node[i].on}
           n == Cardinality(ids)
<1>1. PICK f : /\ Rearranged(NodeList(ids), node, ids, f)
               /\ \A i, j \in 1 .. n : i < j => node[f[i]].pos <= node[f[j]].pos
  <2>1. ids \in SUBSET Nodes OBVIOUS
  <2> HIDE DEF ids
  <2> QED BY <2>1, NodesListed
<1>2. /\ f \in [1 .. n -> ids] /\ EnabledNodes = [k \in 1 .. n |-> node[f[k]]]
      /\ \A i \in ids : \E k \in 1 .. n : f[k] = i
  BY <1>1 DEF Rearranged, EnabledNodes
<1> HIDE DEF n
<1>3. DOMAIN EnabledNodes = 1 .. n /\ \A k \in 1 .. n : EnabledNodes[k] = node[f[k]] BY <1>2
<1>4. \A k \in 1 .. n : f[k] \in ids BY <1>2
<1>5. \A j, k \in 1 .. n : j < k => EnabledNodes[j].pos <= EnabledNodes[k].pos
  BY <1>1, <1>3 DEF n
<1>6. \A k \in 1 .. n : \E i \in Nodes : node[i].on /\ EnabledNodes[k] = node[i]
  BY <1>3, <1>4
<1>7. \A i \in Nodes : node[i].on => \E k \in 1 .. n : EnabledNodes[k] = node[i]
  BY <1>2, <1>3
<1> QED BY <1>3, <1>5, <1>6, <1>7

LEMMA EnabledGroupsListed ==
    ASSUME Stored
    PROVE  {EnabledGroups[k].name : k \in DOMAIN EnabledGroups}
              = {groups[k].name : k \in {j \in DOMAIN groups : groups[j].on}}
<1> DEFINE K == {k \in DOMAIN groups : groups[k].on}
<1>1. groups \in Seq(GroupRow) /\ K \in SUBSET DOMAIN groups BY DEF Stored
<1>2. \A k \in K : groups[k] \in GroupRow BY <1>1
<1> HIDE DEF K
<1>3. ToSet(Pick(groups, K)) = {groups[k] : k \in K} BY <1>1, <1>2, Picked
<1>4. EnabledGroups = Pick(groups, K) BY DEF EnabledGroups, K
<1>5. {EnabledGroups[k].name : k \in DOMAIN EnabledGroups} = {e.name : e \in ToSet(EnabledGroups)}
  BY DEF ToSet
<1>6. {e.name : e \in {groups[k] : k \in K}} = {groups[k].name : k \in K} OBVIOUS
<1> QED BY <1>3, <1>4, <1>5, <1>6 DEF K

\* What convert makes of the tables as they are agrees with them: the
\* provider's block in its order, the nodes that are on by position, the
\* saved block first, the groups that are on, every rule.
THEOREM ConvertedIsSettled == Spec => [](row = Convert(Wanted) => Settled)
<1>1. Typed => (row = Convert(Wanted) => Settled)
  <2> SUFFICES ASSUME Stored, row = Convert(Wanted) PROVE Settled BY DEF Typed
  <2> DEFINE p == ProviderBlock(feed.proxies)
             c == CustomBlock(EnabledNodes)
             g == [k \in DOMAIN EnabledGroups |-> BuildGroup(EnabledGroups[k])]
             ps == row.proxies
             E == {e \in ProxyEntry : e.from # "provider"}
  <2>1. /\ Wanted.provider = feed.proxies /\ Wanted.nodes = EnabledNodes
        /\ Wanted.groups = EnabledGroups /\ Wanted.rules = rules
        /\ Wanted.section = section /\ Wanted.order = order
    BY DEF Wanted, Blank
  <2>2. /\ ps = ConcatSections(p, c, section) /\ row.groups = ReorderByName(g, order)
        /\ row.rules = RuleLines(rules)
    BY <2>1 DEF Convert
  <2>3. row \in Output /\ row # NULL
    BY WantedType, ConvertType, OutputNullAssumption
  <2>4. /\ feed \in Feeds /\ EnabledNodes \in Seq(NodeRow) /\ EnabledGroups \in Seq(GroupRow)
        /\ order \in Seq(Names) /\ rules \in Seq(Line)
    BY ReadsTyped DEF Stored
  <2>5. {row.groups[k].from : k \in DOMAIN row.groups}
           = {groups[k].name : k \in {j \in DOMAIN groups : groups[j].on}}
    <3>1. g \in Seq(GroupEntry) BY <2>4, GroupsBuilt
    <3>2. \A k \in DOMAIN g : g[k].from = EnabledGroups[k].name BY DEF BuildGroup
    <3>3. DOMAIN g = DOMAIN EnabledGroups OBVIOUS
    <3> HIDE DEF g
    <3>4. ToSet(row.groups) = ToSet(g) BY <2>2, <2>4, <3>1, ReorderByNameType
    <3>5. /\ {row.groups[k].from : k \in DOMAIN row.groups} = {e.from : e \in ToSet(row.groups)}
          /\ {g[k].from : k \in DOMAIN g} = {e.from : e \in ToSet(g)}
      BY DEF ToSet
    <3>6. {g[k].from : k \in DOMAIN g} = {EnabledGroups[k].name : k \in DOMAIN EnabledGroups}
      BY <3>2, <3>3
    <3> QED BY <3>4, <3>5, <3>6, EnabledGroupsListed
  <2>6. \A k \in DOMAIN rules : rules[k] # COMMENT => Contains(row.rules, rules[k])
    <3> DEFINE L == {k \in DOMAIN rules : rules[k] # COMMENT}
    <3>1. L \in SUBSET DOMAIN rules /\ \A k \in L : rules[k] \in Line BY <2>4
    <3>2. RuleLines(rules) = Pick(rules, L) BY DEF RuleLines
    <3>3. \A k \in DOMAIN rules : rules[k] # COMMENT => k \in L OBVIOUS
    <3> HIDE DEF L
    <3>4. ToSet(row.rules) = {rules[k] : k \in L} BY <2>2, <2>4, <3>1, <3>2, Picked
    <3>5. \A e \in ToSet(row.rules) : Contains(row.rules, e)
      <4>1. row.rules \in Seq(Line) BY <2>3 DEF Output
      <4>2. DOMAIN row.rules = 1 .. Len(row.rules) BY <4>1
      <4> QED BY <4>2 DEF ToSet, Contains
    <3> QED BY <3>3, <3>4, <3>5
  <2>7. /\ p \in Seq(ProxyEntry) /\ NameOf(p) = feed.proxies
        /\ \A k \in 1 .. Len(p) : p[k] \notin E
    BY <2>4, ProviderBlockIs
  <2>8. c \in Seq(ProxyEntry) /\ DOMAIN c = DOMAIN EnabledNodes
    <3>1. feed.proxies \in Seq(Names) BY <2>4, FeedsAssumption
    <3> QED BY <2>4, <3>1, BlocksTyped DEF CustomBlock
  <2>9. \A k \in DOMAIN c : c[k].from = EnabledNodes[k].name /\ c[k].from # "provider"
    <3>1. \A k \in DOMAIN EnabledNodes : EnabledNodes[k] \in NodeRow BY <2>4
    <3>2. \A k \in DOMAIN EnabledNodes : EnabledNodes[k].name # "provider"
      BY <3>1, BodiesAssumption DEF NodeRow
    <3> QED BY <3>2 DEF CustomBlock
  <2>10. ps = IF section = "custom" THEN c \o p ELSE p \o c BY <2>2 DEF ConcatSections
  <2>11. ps \in Seq(ProxyEntry) BY <2>3 DEF Output
  <2> HIDE DEF p, c, g, ps
  <2>12. \A k \in 1 .. Len(c) : c[k] \in E BY <2>8, <2>9
  <2> HIDE DEF E
  <2>13. ProviderPart = p /\ CustomPart = c
    <3>1. \A k \in DOMAIN ps : ps[k] \in ProxyEntry BY <2>11
    <3>2. /\ {k \in DOMAIN ps : ps[k].from = "provider"} = Elsewhere(ps, E)
          /\ {k \in DOMAIN ps : ps[k].from # "provider"} = Where(ps, E)
      BY <3>1 DEF Elsewhere, Where, E
    <3>3. ProviderPart = Pick(ps, Elsewhere(ps, E)) /\ CustomPart = Pick(ps, Where(ps, E))
      BY <3>2 DEF ProviderPart, CustomPart, ps
    <3>4. Joins(ps, p, c) \/ Joins(ps, c, p) BY <2>10 DEF Joins
    <3>5. Differ(p, c, E) BY <2>7, <2>12 DEF Differ
    <3> QED BY <2>7, <2>8, <3>3, <3>4, <3>5, Divided
  <2>14. {c[k].from : k \in DOMAIN c} = {node[i].name : i \in {j \in Nodes : node[j].on}}
    BY <2>8, <2>9, EnabledNodesListed
  <2>15. \A j, k \in DOMAIN c : j < k =>
            \E x, y \in Nodes : /\ node[x].name = c[j].from /\ node[y].name = c[k].from
                                /\ node[x].pos <= node[y].pos
    <3> SUFFICES ASSUME NEW j \in DOMAIN c, NEW k \in DOMAIN c, j < k
                 PROVE  \E x, y \in Nodes : /\ node[x].name = c[j].from
                                            /\ node[y].name = c[k].from
                                            /\ node[x].pos <= node[y].pos
      OBVIOUS
    <3>1. PICK x \in Nodes, y \in Nodes : EnabledNodes[j] = node[x] /\ EnabledNodes[k] = node[y]
      BY <2>8, EnabledNodesListed
    <3>2. EnabledNodes[j].pos <= EnabledNodes[k].pos BY <2>8, EnabledNodesListed
    <3> QED BY <2>9, <3>1, <3>2
  <2>16. row.proxies = IF section = "custom" THEN CustomPart \o ProviderPart
                       ELSE ProviderPart \o CustomPart
    BY <2>10, <2>13 DEF ps
  <2>17. NameOf(ProviderPart) = feed.proxies BY <2>7, <2>13
  <2>18. /\ {CustomPart[k].from : k \in DOMAIN CustomPart}
               = {node[i].name : i \in {j \in Nodes : node[j].on}}
         /\ \A j, k \in DOMAIN CustomPart : j < k =>
               \E x, y \in Nodes : /\ node[x].name = CustomPart[j].from
                                   /\ node[y].name = CustomPart[k].from
                                   /\ node[x].pos <= node[y].pos
    BY <2>13, <2>14, <2>15
  <2> QED BY <2>3, <2>5, <2>6, <2>16, <2>17, <2>18, Zenon DEF Settled
<1> QED BY <1>1, AlwaysTyped, PTL
=============================================================================
