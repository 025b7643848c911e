------------------------------ MODULE NiuProofs ------------------------------
(***************************************************************************)
(* A multicast writes the tiles it names, and any other request the tile   *)
(* it names, whatever is harvested and whatever the cores run.             *)
(***************************************************************************)
EXTENDS Niu, FiniteSetTheorems, SequenceTheorems, TLAPS

-----------------------------------------------------------------------------
(* Ranks in a finite set of numbers.                                       *)

Upto(S, i) == {j \in S : j <= i}

\* Rank grows with the element, and the last of S has the rank Cardinality(S).
LEMMA RankGrows ==
  ASSUME NEW S, IsFiniteSet(S), S \subseteq Int, NEW i \in S, NEW j \in S, i < j
  PROVE  Rank(S, i) < Rank(S, j)
<1> DEFINE low == Upto(S, i)
<1> DEFINE high == Upto(S, j)
<1>1. IsFiniteSet(high) /\ IsFiniteSet(low)
  <2>1. high \in SUBSET S /\ low \in SUBSET S  BY DEF Upto
  <2> HIDE DEF low, high
  <2>2. QED  BY <2>1, FS_Subset
<1>2. low \in SUBSET high /\ low # high
  <2>1. i \in Int /\ j \in Int  OBVIOUS
  <2>2. \A k \in S : k <= i => k <= j  BY <2>1
  <2>3. j \in high /\ j \notin low  BY <2>1 DEF Upto
  <2>4. low \subseteq high  BY <2>2 DEF Upto
  <2>5. QED  BY <2>3, <2>4
<1>3. Cardinality(low) \in Nat /\ Cardinality(high) \in Nat  BY <1>1, FS_CardinalityType
<1>4. Cardinality(low) <= Cardinality(high) /\ Cardinality(low) # Cardinality(high)
  <2> HIDE DEF low, high
  <2>1. QED  BY <1>1, <1>2, FS_Subset
<1>5. Rank(S, i) = Cardinality(low) /\ Rank(S, j) = Cardinality(high)  BY DEF Rank, Upto
<1>6. QED  BY <1>3, <1>4, <1>5

LEMMA RankRange ==
  ASSUME NEW S, IsFiniteSet(S), S \subseteq Int, NEW i \in S
  PROVE  Rank(S, i) \in 1 .. Cardinality(S)
<1> DEFINE low == Upto(S, i)
<1>1. low \in SUBSET S /\ i \in low  BY DEF Upto
<1>2. Rank(S, i) = Cardinality(low)  BY DEF Rank, Upto
<1> HIDE DEF low
<1>3. IsFiniteSet(low) /\ Cardinality(low) <= Cardinality(S)  BY <1>1, FS_Subset
<1>4. Cardinality(low) \in Nat /\ Cardinality(S) \in Nat  BY <1>3, FS_CardinalityType
<1>5. Cardinality(low) # 0  BY <1>1, <1>3, FS_EmptySet
<1>6. QED  BY <1>2, <1>3, <1>4, <1>5

\* Every number up to the size of S is the rank of one of its elements.
LEMMA RankReached ==
  ASSUME NEW S, IsFiniteSet(S), S \subseteq Int, NEW k \in 1 .. Cardinality(S)
  PROVE  \E i \in S : Rank(S, i) = k
<1> DEFINE f == [i \in S |-> Rank(S, i)]
<1>0. Cardinality(S) \in Nat  BY FS_CardinalityType
<1>1. IsFiniteSet(1 .. Cardinality(S)) /\ Cardinality(1 .. Cardinality(S)) = Cardinality(S)
  BY <1>0, FS_Interval
<1>2. f \in [S -> 1 .. Cardinality(S)]  BY RankRange
<1>3. \A a, b \in S : f[a] = f[b] => a = b
  <2> SUFFICES ASSUME NEW a \in S, NEW b \in S, Rank(S, a) = Rank(S, b), a # b PROVE FALSE  OBVIOUS
  <2>1. a \in Int /\ b \in Int  OBVIOUS
  <2>2. a < b \/ b < a  BY <2>1
  <2>3. Rank(S, a) \in 1 .. Cardinality(S)  BY RankRange
  <2>4. a < b => Rank(S, a) < Rank(S, b)  BY RankGrows
  <2>5. b < a => Rank(S, b) < Rank(S, a)  BY RankGrows
  <2>6. QED  BY <1>0, <2>2, <2>3, <2>4, <2>5
<1> HIDE DEF f
<1>4. f \in Injection(S, 1 .. Cardinality(S))  BY <1>2, <1>3 DEF Injection, IsInjective
<1>5. f \in Surjection(S, 1 .. Cardinality(S))  BY <1>1, <1>4, FS_Injection
<1>6. \E i \in S : f[i] = k  BY <1>5 DEF Surjection
<1>7. QED  BY <1>6 DEF f

\* The k-th place of S, and the place of a rank.
Place(S, k) == CHOOSE i \in S : Rank(S, i) = k

LEMMA PlaceOfRank ==
  ASSUME NEW S, IsFiniteSet(S), S \subseteq Int
  PROVE  /\ \A k \in 1 .. Cardinality(S) : Place(S, k) \in S /\ Rank(S, Place(S, k)) = k
         /\ \A i \in S : Place(S, Rank(S, i)) = i
         /\ \A j, k \in 1 .. Cardinality(S) : j < k => Place(S, j) < Place(S, k)
<1>0. Cardinality(S) \in Nat  BY FS_CardinalityType
<1>1. ASSUME NEW k \in 1 .. Cardinality(S) PROVE Place(S, k) \in S /\ Rank(S, Place(S, k)) = k
  BY RankReached DEF Place
<1>2. ASSUME NEW i \in S, NEW j \in S, Rank(S, i) = Rank(S, j) PROVE i = j
  <2>1. i \in Int /\ j \in Int  OBVIOUS
  <2>2. Rank(S, i) \in 1 .. Cardinality(S)  BY RankRange
  <2>3. ~(i < j) /\ ~(j < i)
    <3>1. i < j => Rank(S, i) < Rank(S, j)  BY RankGrows
    <3>2. j < i => Rank(S, j) < Rank(S, i)  BY RankGrows
    <3>3. QED  BY <1>0, <1>2, <2>2, <3>1, <3>2
  <2>4. QED  BY <2>1, <2>3
<1>3. ASSUME NEW i \in S PROVE Place(S, Rank(S, i)) = i
  <2>1. Rank(S, i) \in 1 .. Cardinality(S)  BY RankRange
  <2>2. QED  BY <1>1, <1>2, <2>1
<1>4. ASSUME NEW j \in 1 .. Cardinality(S), NEW k \in 1 .. Cardinality(S), j < k
      PROVE  Place(S, j) < Place(S, k)
  <2> DEFINE a == Place(S, j)
  <2> DEFINE b == Place(S, k)
  <2>1. a \in S /\ b \in S /\ Rank(S, a) = j /\ Rank(S, b) = k  BY <1>1
  <2> HIDE DEF a, b
  <2>2. a \in Int /\ b \in Int  BY <2>1
  <2>3. a # b  BY <1>0, <1>4, <2>1
  <2>4. ~(b < a)
    <3>1. SUFFICES ASSUME b < a PROVE FALSE  OBVIOUS
    <3>2. Rank(S, b) < Rank(S, a)  BY <2>1, <3>1, RankGrows
    <3>3. QED  BY <1>0, <1>4, <2>1, <3>2
  <2>5. a < b  BY <2>2, <2>3, <2>4
  <2>6. QED  BY <2>5 DEF a, b
<1>5. QED  BY <1>1, <1>3, <1>4

-----------------------------------------------------------------------------
(* The logical order of rows and columns.                                  *)

\* Each of vals is in the sequence s, once.
Lists(s, vals) ==
  /\ s \in Seq(Int)
  /\ \A k \in 1 .. Len(s) : s[k] \in vals
  /\ \A a \in vals : \E k \in 1 .. Len(s) : s[k] = a
  /\ \A j, k \in 1 .. Len(s) : s[j] = s[k] => j = k
Ascends(s) == \A j, k \in 1 .. Len(s) : j < k => s[j] < s[k]

\* Those in use come first, and in the order in which they are on the chip.
InLogicalOrder(s, vals, used) ==
  /\ Lists(s, vals)
  /\ \A j, k \in 1 .. Len(s) : s[j] \in used /\ s[k] \in used /\ j < k => s[j] < s[k]
  /\ \A j, k \in 1 .. Len(s) : s[j] \in used /\ s[k] \notin used => j < k

Entries(seq, S) == {seq[i] : i \in S}
Distinct(seq, N) == \A i, j \in 1 .. N : seq[i] = seq[j] => i = j
Rising(seq, N) == \A i, j \in 1 .. N : i < j => seq[i] < seq[j]

LEMMA PickedLists ==
  ASSUME NEW N \in Nat, NEW seq, \A i \in 1 .. N : seq[i] \in Int, Distinct(seq, N),
         NEW S \in SUBSET (1 .. N)
  PROVE  /\ Lists(Picked(seq, S), Entries(seq, S))
         /\ Rising(seq, N) => Ascends(Picked(seq, S))
<1> DEFINE m == Cardinality(S)
<1> DEFINE out == Picked(seq, S)
<1>1. IsFiniteSet(S) /\ S \subseteq Int
  <2>1. IsFiniteSet(1 .. N)  BY FS_Interval
  <2>2. IsFiniteSet(S)  BY <2>1, FS_Subset
  <2>3. QED  BY <2>2
<1>2. m \in Nat  BY <1>1, FS_CardinalityType
<1>3. /\ \A k \in 1 .. m : Place(S, k) \in S
      /\ \A i \in S : Place(S, Rank(S, i)) = i
      /\ \A i \in S : Rank(S, i) \in 1 .. m
      /\ \A j, k \in 1 .. m : j < k => Place(S, j) < Place(S, k)
  BY <1>1, PlaceOfRank, RankRange
<1>4. out = [k \in 1 .. m |-> seq[Place(S, k)]]  BY DEF Picked, Place
<1> HIDE DEF m, out
<1>5. \A k \in 1 .. m : seq[Place(S, k)] \in Int  BY <1>3
<1>6. out \in Seq(Int) /\ Len(out) = m /\ \A k \in 1 .. m : out[k] = seq[Place(S, k)]
  BY <1>2, <1>4, <1>5
<1>7. ASSUME NEW k \in 1 .. Len(out) PROVE out[k] \in Entries(seq, S)
  BY <1>3, <1>6 DEF Entries
<1>8. ASSUME NEW a \in Entries(seq, S) PROVE \E k \in 1 .. Len(out) : out[k] = a
  <2>1. PICK i \in S : a = seq[i]  BY DEF Entries
  <2>2. Rank(S, i) \in 1 .. m /\ Place(S, Rank(S, i)) = i  BY <1>3
  <2>3. QED  BY <1>6, <2>1, <2>2
<1>9. ASSUME NEW j \in 1 .. Len(out), NEW k \in 1 .. Len(out), out[j] = out[k] PROVE j = k
  <2>1. j \in 1 .. m /\ k \in 1 .. m  BY <1>6
  <2>2. Place(S, j) \in 1 .. N /\ Place(S, k) \in 1 .. N  BY <1>3, <2>1
  <2>3. seq[Place(S, j)] = seq[Place(S, k)]  BY <1>6, <1>9, <2>1
  <2>4. Place(S, j) = Place(S, k)  BY <2>2, <2>3 DEF Distinct
  <2>5. ~(j < k) /\ ~(k < j)
    <3>1. j < k => Place(S, j) < Place(S, k)  BY <1>3, <2>1
    <3>2. k < j => Place(S, k) < Place(S, j)  BY <1>3, <2>1
    <3>3. QED  BY <2>2, <2>4, <3>1, <3>2
  <2>6. QED  BY <1>2, <2>1, <2>5
<1>10. Lists(out, Entries(seq, S))  BY <1>6, <1>7, <1>8, <1>9 DEF Lists
<1>11. ASSUME Rising(seq, N), NEW j \in 1 .. Len(out), NEW k \in 1 .. Len(out), j < k
       PROVE  out[j] < out[k]
  <2>1. j \in 1 .. m /\ k \in 1 .. m  BY <1>6
  <2>2. Place(S, j) \in 1 .. N /\ Place(S, k) \in 1 .. N  BY <1>3, <2>1
  <2>3. Place(S, j) < Place(S, k)  BY <1>3, <1>11, <2>1
  <2>4. seq[Place(S, j)] < seq[Place(S, k)]  BY <1>11, <2>2, <2>3 DEF Rising
  <2>5. QED  BY <1>6, <2>1, <2>4
<1>12. Rising(seq, N) => Ascends(out)  BY <1>11 DEF Ascends
<1>13. QED  BY <1>10, <1>12 DEF out

LEMMA ReversedLists ==
  ASSUME NEW s, NEW vals, Lists(s, vals)
  PROVE  Lists(Reverse(s), vals)
<1> DEFINE m == Len(s)
<1> DEFINE r == Reverse(s)
<1>1. s \in Seq(Int) /\ m \in Nat  BY DEF Lists
<1>2. r = [k \in 1 .. m |-> s[(m - k) + 1]]  BY DEF Reverse
<1>3. \A k \in 1 .. m : (m - k) + 1 \in 1 .. m /\ (m - ((m - k) + 1)) + 1 = k  BY <1>1
<1>4. \A k \in 1 .. m : s[k] \in Int  BY <1>1
<1> HIDE DEF m, r
<1>5. r \in Seq(Int) /\ Len(r) = m /\ \A k \in 1 .. m : r[k] = s[(m - k) + 1]
  <2>1. \A k \in 1 .. m : s[(m - k) + 1] \in Int  BY <1>3, <1>4
  <2>2. QED  BY <1>1, <1>2, <2>1
<1>6. /\ \A k \in 1 .. m : s[k] \in vals
      /\ \A a \in vals : \E k \in 1 .. m : s[k] = a
      /\ \A j, k \in 1 .. m : s[j] = s[k] => j = k
  BY DEF Lists, m
<1>7. \A k \in 1 .. m : r[k] \in vals  BY <1>3, <1>5, <1>6
<1>8. ASSUME NEW a \in vals PROVE \E k \in 1 .. m : r[k] = a
  <2>1. PICK k \in 1 .. m : s[k] = a  BY <1>6
  <2>2. (m - k) + 1 \in 1 .. m /\ r[(m - k) + 1] = s[k]  BY <1>3, <1>5
  <2>3. QED  BY <2>1, <2>2
<1>9. ASSUME NEW j \in 1 .. m, NEW k \in 1 .. m, r[j] = r[k] PROVE j = k
  <2>1. s[(m - j) + 1] = s[(m - k) + 1]  BY <1>5, <1>9
  <2>2. (m - j) + 1 = (m - k) + 1  BY <1>3, <1>6, <2>1
  <2>3. QED  BY <1>1, <2>2
<1>10. QED  BY <1>5, <1>7, <1>8, <1>9 DEF Lists, r

LEMMA JoinedInOrder ==
  ASSUME NEW a, NEW b, NEW vals, NEW used \in SUBSET vals,
         Lists(a, used), Ascends(a), Lists(b, vals \ used)
  PROVE  InLogicalOrder(a \o b, vals, used)
<1> DEFINE l == Len(a)
<1> DEFINE m == Len(b)
<1> DEFINE s == a \o b
<1>1. a \in Seq(Int) /\ b \in Seq(Int) /\ l \in Nat /\ m \in Nat  BY DEF Lists
<1>2. /\ s \in Seq(Int) /\ Len(s) = l + m
      /\ \A k \in 1 .. l : s[k] = a[k]
      /\ \A k \in 1 .. m : s[l + k] = b[k]
  BY <1>1
<1>3. /\ \A k \in 1 .. l : a[k] \in used
      /\ \A v \in used : \E k \in 1 .. l : a[k] = v
      /\ \A j, k \in 1 .. l : a[j] = a[k] => j = k
      /\ \A j, k \in 1 .. l : j < k => a[j] < a[k]
  BY DEF Lists, Ascends
<1>4. /\ \A k \in 1 .. m : b[k] \in vals \ used
      /\ \A v \in vals \ used : \E k \in 1 .. m : b[k] = v
      /\ \A j, k \in 1 .. m : b[j] = b[k] => j = k
  BY DEF Lists
<1> HIDE DEF l, m, s
<1>5. ASSUME NEW k \in 1 .. l + m
      PROVE  \/ k \in 1 .. l /\ s[k] = a[k]
             \/ k - l \in 1 .. m /\ k > l /\ s[k] = b[k - l]
  <2>1. CASE k <= l  BY <1>1, <1>2, <2>1
  <2>2. CASE k > l
    <3>1. k - l \in 1 .. m /\ l + (k - l) = k  BY <1>1, <2>2
    <3>2. QED  BY <1>2, <2>2, <3>1
  <2>3. QED  BY <1>1, <2>1, <2>2
<1>6. ASSUME NEW k \in 1 .. l + m
      PROVE  s[k] \in vals /\ (s[k] \in used <=> k <= l)
  <2>1. k \in Int /\ l \in Int  BY <1>1
  <2>2. CASE k \in 1 .. l /\ s[k] = a[k]  BY <1>3, <2>1, <2>2
  <2>3. CASE k - l \in 1 .. m /\ k > l /\ s[k] = b[k - l]  BY <1>4, <2>1, <2>3
  <2>4. QED  BY <1>5, <2>2, <2>3
<1>7. ASSUME NEW v \in vals PROVE \E k \in 1 .. l + m : s[k] = v
  <2>1. CASE v \in used
    <3>1. PICK k \in 1 .. l : a[k] = v  BY <1>3, <2>1
    <3>2. k \in 1 .. l + m /\ s[k] = v  BY <1>1, <1>2, <3>1
    <3>3. QED  BY <3>2
  <2>2. CASE v \notin used
    <3>1. PICK k \in 1 .. m : b[k] = v  BY <1>4, <2>2
    <3>2. l + k \in 1 .. l + m
      <4>1. l \in Nat /\ m \in Nat /\ k \in 1 .. m  BY <1>1, <3>1
      <4>2. QED  BY <4>1
    <3>3. s[l + k] = b[k]
      <4>1. k \in 1 .. m  BY <3>1
      <4>2. \A i \in 1 .. m : s[l + i] = b[i]  BY <1>2
      <4>3. QED  BY <4>1, <4>2
    <3>4. QED  BY <3>1, <3>2, <3>3
  <2>3. QED  BY <2>1, <2>2
<1>8. ASSUME NEW j \in 1 .. l + m, NEW k \in 1 .. l + m, s[j] = s[k] PROVE j = k
  <2>1. (j <= l) <=> (k <= l)  BY <1>6, <1>8
  <2>2. CASE j <= l
    <3>1. j \in 1 .. l /\ k \in 1 .. l  BY <1>1, <2>1, <2>2
    <3>2. a[j] = a[k]  BY <1>2, <1>8, <3>1
    <3>3. QED  BY <1>3, <3>1, <3>2
  <2>3. CASE ~(j <= l)
    <3>1. j - l \in 1 .. m /\ k - l \in 1 .. m  BY <1>1, <2>1, <2>3
    <3>2. l + (j - l) = j /\ l + (k - l) = k  BY <1>1
    <3>3. s[j] = b[j - l] /\ s[k] = b[k - l]  BY <1>2, <3>1, <3>2
    <3>4. j - l = k - l  BY <1>4, <1>8, <3>1, <3>3
    <3>5. QED  BY <1>1, <3>4
  <2>4. QED  BY <2>2, <2>3
<1>9. Lists(s, vals)  BY <1>2, <1>6, <1>7, <1>8 DEF Lists
<1>10. ASSUME NEW j \in 1 .. l + m, NEW k \in 1 .. l + m, s[j] \in used, s[k] \in used, j < k
       PROVE  s[j] < s[k]
  <2>1. j <= l /\ k <= l  BY <1>6, <1>10
  <2>2. j \in 1 .. l /\ k \in 1 .. l  BY <1>1, <2>1
  <2>3. QED  BY <1>2, <1>3, <1>10, <2>2
<1>11. ASSUME NEW j \in 1 .. l + m, NEW k \in 1 .. l + m, s[j] \in used, s[k] \notin used
       PROVE  j < k
  <2>1. j <= l /\ ~(k <= l)  BY <1>6, <1>11
  <2>2. QED  BY <1>1, <2>1
<1>12. QED  BY <1>2, <1>9, <1>10, <1>11 DEF InLogicalOrder, s

LEMMA SameLength ==
  ASSUME NEW s, NEW t, NEW vals, Lists(s, vals), Lists(t, vals)
  PROVE  Len(s) = Len(t)
<1>1. ASSUME NEW u, Lists(u, vals) PROVE Len(u) \in Nat /\ Cardinality(vals) = Len(u)
  <2> DEFINE m == Len(u)
  <2> DEFINE f == [k \in 1 .. m |-> u[k]]
  <2>1. m \in Nat  BY <1>1 DEF Lists
  <2>2. f \in [1 .. m -> vals]  BY <1>1 DEF Lists
  <2>3. \A j, k \in 1 .. m : f[j] = f[k] => j = k  BY <1>1 DEF Lists
  <2>4. \A a \in vals : \E k \in 1 .. m : f[k] = a  BY <1>1 DEF Lists
  <2> HIDE DEF m, f
  <2>5. f \in Bijection(1 .. m, vals)
    BY <2>2, <2>3, <2>4 DEF Bijection, Injection, Surjection, IsInjective
  <2>6. IsFiniteSet(1 .. m) /\ Cardinality(1 .. m) = m  BY <2>1, FS_Interval
  <2>7. Cardinality(vals) = m  BY <2>5, <2>6, FS_Bijection DEF ExistsBijection
  <2>8. QED  BY <2>1, <2>7 DEF m
<1>2. QED  BY <1>1

\* Which rows and columns of the chip have Tensix tiles.
LEMMA RowList ==
  /\ Len(TENSIX_ROWS(TRUE)) = 10
  /\ \A i \in 1 .. 10 : TENSIX_ROWS(TRUE)[i] = IF i <= 5 THEN i ELSE i + 1
<1> DEFINE s == TENSIX_ROWS(TRUE)
<1>1. /\ Len(s) = 10
      /\ s[1] = 1 /\ s[2] = 2 /\ s[3] = 3 /\ s[4] = 4 /\ s[5] = 5
      /\ s[6] = 7 /\ s[7] = 8 /\ s[8] = 9 /\ s[9] = 10 /\ s[10] = 11
  BY DEF TENSIX_ROWS
<1> HIDE DEF s
<1>2. \A i \in 1 .. 10 : s[i] = IF i <= 5 THEN i ELSE i + 1
  BY <1>1
<1>3. QED  BY <1>1, <1>2 DEF s

LEMMA ColumnList ==
  /\ Len(TENSIX_COLUMNS(TRUE)) = 8
  /\ \A i \in 1 .. 8 : TENSIX_COLUMNS(TRUE)[i] = IF i <= 4 THEN i ELSE i + 1
  /\ Len(TENSIX_COLUMNS(FALSE)) = 14
  /\ \A i \in 1 .. 14 : TENSIX_COLUMNS(FALSE)[i] = IF i <= 7 THEN i ELSE i + 2
<1> DEFINE s == TENSIX_COLUMNS(TRUE)
<1> DEFINE t == TENSIX_COLUMNS(FALSE)
<1>1. /\ Len(s) = 8
      /\ s[1] = 1 /\ s[2] = 2 /\ s[3] = 3 /\ s[4] = 4
      /\ s[5] = 6 /\ s[6] = 7 /\ s[7] = 8 /\ s[8] = 9
  BY DEF TENSIX_COLUMNS
<1>2. /\ Len(t) = 14
      /\ t[1] = 1 /\ t[2] = 2 /\ t[3] = 3 /\ t[4] = 4 /\ t[5] = 5 /\ t[6] = 6 /\ t[7] = 7
      /\ t[8] = 10 /\ t[9] = 11 /\ t[10] = 12 /\ t[11] = 13 /\ t[12] = 14 /\ t[13] = 15
      /\ t[14] = 16
  BY DEF TENSIX_COLUMNS
<1> HIDE DEF s, t
<1>3. \A i \in 1 .. 8 : s[i] = IF i <= 4 THEN i ELSE i + 1  BY <1>1
<1>4. \A i \in 1 .. 14 : t[i] = IF i <= 7 THEN i ELSE i + 2  BY <1>2
<1>5. QED  BY <1>1, <1>2, <1>3, <1>4 DEF s, t

LEMMA HarvestingList ==
  /\ Len(TENSIX_HARVESTING_ORDER) = 14
  /\ \A q \in 1 .. 7 : /\ TENSIX_HARVESTING_ORDER[2 * q - 1] = q
                       /\ TENSIX_HARVESTING_ORDER[2 * q] = 17 - q
<1> DEFINE t == TENSIX_HARVESTING_ORDER
<1>1. /\ Len(t) = 14
      /\ t[1] = 1 /\ t[3] = 2 /\ t[5] = 3 /\ t[7] = 4 /\ t[9] = 5 /\ t[11] = 6 /\ t[13] = 7
      /\ t[2] = 16 /\ t[4] = 15 /\ t[6] = 14 /\ t[8] = 13 /\ t[10] = 12 /\ t[12] = 11
      /\ t[14] = 10
  BY DEF TENSIX_HARVESTING_ORDER
<1> HIDE DEF t
<1>2. ASSUME NEW q \in 1 .. 7 PROVE t[2 * q - 1] = q /\ t[2 * q] = 17 - q
  <2>1. q = 1 \/ q = 2 \/ q = 3 \/ q = 4 \/ q = 5 \/ q = 6 \/ q = 7  OBVIOUS
  <2>2. QED  BY <1>1, <2>1
<1>3. QED  BY <1>1, <1>2 DEF t

LEMMA RowsInOrder ==
  ASSUME NEW h \in SUBSET (0 .. 9)
  PROVE  /\ InLogicalOrder(RowOrder(h), TensixY(TRUE), TensixY(TRUE) \ HarvestedRows(TRUE, h))
         /\ Len(RowOrder(h)) = 10
<1> DEFINE s == TENSIX_ROWS(TRUE)
<1> DEFINE vals == TensixY(TRUE)
<1> DEFINE gone == HarvestedRows(TRUE, h)
<1> DEFINE cut == {i \in 1 .. 10 : i - 1 \in h}
<1> DEFINE rest == (1 .. 10) \ cut
<1>1. Len(s) = 10 /\ \A i \in 1 .. 10 : s[i] = IF i <= 5 THEN i ELSE i + 1  BY RowList
<1>2. vals = (1 .. 5) \cup (7 .. 11)  BY DEF TensixY
<1>3. gone = {s[i + 1] : i \in h}  BY DEF HarvestedRows
<1>4. RowOrder(h) = Picked(s, rest) \o Picked(s, cut)  BY DEF RowOrder
<1>5. s \in Seq(Int)  BY DEF TENSIX_ROWS
<1> HIDE DEF s, vals, gone
<1>6. \A i \in 1 .. 10 : s[i] \in Int /\ s[i] \in vals  BY <1>1, <1>2
<1>7. Rising(s, 10)  BY <1>1 DEF Rising
<1>8. Distinct(s, 10)  BY <1>1 DEF Distinct
<1>9. \A v \in vals : \E i \in 1 .. 10 : s[i] = v
  <2> SUFFICES ASSUME NEW v \in vals PROVE \E i \in 1 .. 10 : s[i] = v  OBVIOUS
  <2>1. CASE v \in 1 .. 5
    <3>1. v \in 1 .. 10 /\ s[v] = v  BY <1>1, <2>1
    <3>2. QED  BY <3>1
  <2>2. CASE v \in 7 .. 11
    <3>1. v - 1 \in 1 .. 10 /\ s[v - 1] = v  BY <1>1, <2>2
    <3>2. QED  BY <3>1
  <2>3. QED  BY <1>2, <2>1, <2>2
<1>10. Entries(s, cut) = gone
  <2>1. ASSUME NEW i \in cut PROVE s[i] \in gone
    <3>1. i - 1 \in h /\ (i - 1) + 1 = i  OBVIOUS
    <3>2. QED  BY <1>3, <3>1
  <2>2. ASSUME NEW i \in h PROVE s[i + 1] \in Entries(s, cut)
    <3>1. i \in 0 .. 9  OBVIOUS
    <3>2. i + 1 \in 1 .. 10 /\ (i + 1) - 1 = i  BY <3>1
    <3>3. i + 1 \in cut  BY <3>2
    <3>4. QED  BY <3>3 DEF Entries
  <2>3. QED  BY <1>3, <2>1, <2>2 DEF Entries
<1>11. Entries(s, rest) = vals \ gone
  <2>1. ASSUME NEW i \in rest PROVE s[i] \in vals \ gone
    <3>1. s[i] \in vals  BY <1>6
    <3>2. SUFFICES ASSUME s[i] \in Entries(s, cut) PROVE FALSE  BY <1>10, <3>1
    <3>3. PICK j \in cut : s[i] = s[j]  BY <3>2 DEF Entries
    <3>4. i = j  BY <1>8, <3>3 DEF Distinct
    <3>5. QED  BY <3>4
  <2>2. ASSUME NEW v \in vals \ gone PROVE v \in Entries(s, rest)
    <3>1. PICK i \in 1 .. 10 : s[i] = v  BY <1>9
    <3>2. i \notin cut  BY <1>10, <3>1 DEF Entries
    <3>3. QED  BY <3>1, <3>2 DEF Entries
  <2>3. QED  BY <2>1, <2>2 DEF Entries
<1>12. gone \subseteq vals
  <2>1. ASSUME NEW i \in h PROVE s[i + 1] \in vals
    <3>1. i \in 0 .. 9  OBVIOUS
    <3>2. i + 1 \in 1 .. 10  BY <3>1
    <3>3. QED  BY <1>6, <3>2
  <2>2. QED  BY <1>3, <2>1
<1>13. Lists(Picked(s, rest), vals \ gone) /\ Ascends(Picked(s, rest))
       /\ Lists(Picked(s, cut), gone)
  <2>1. rest \in SUBSET (1 .. 10) /\ cut \in SUBSET (1 .. 10)  OBVIOUS
  <2> HIDE DEF rest, cut
  <2>2. Lists(Picked(s, rest), Entries(s, rest)) /\ Ascends(Picked(s, rest))
    BY <1>6, <1>7, <1>8, <2>1, PickedLists
  <2>3. Lists(Picked(s, cut), Entries(s, cut))  BY <1>6, <1>7, <1>8, <2>1, PickedLists
  <2>4. QED  BY <1>10, <1>11, <2>2, <2>3
<1> HIDE DEF rest, cut
<1>14. vals \ (vals \ gone) = gone  BY <1>12
<1>15. InLogicalOrder(RowOrder(h), vals, vals \ gone)  BY <1>4, <1>13, <1>14, JoinedInOrder
<1>16. Len(RowOrder(h)) = 10
  <2>1. Lists(s, vals)
    <3>1. \A j, k \in 1 .. 10 : s[j] = s[k] => j = k  BY <1>8 DEF Distinct
    <3>2. QED  BY <1>1, <1>5, <1>6, <1>9, <3>1 DEF Lists
  <2>2. Lists(RowOrder(h), vals)  BY <1>15 DEF InLogicalOrder
  <2>3. QED  BY <1>1, <2>1, <2>2, SameLength
<1>17. QED  BY <1>15, <1>16 DEF vals, gone

LEMMA ColumnsInOrder ==
  ASSUME NEW h \in SUBSET (0 .. 13)
  PROVE  /\ InLogicalOrder(ColumnOrder(h), TensixX(FALSE),
                           TensixX(FALSE) \ HarvestedColumns(FALSE, h))
         /\ Len(ColumnOrder(h)) = 14
<1> DEFINE s == TENSIX_COLUMNS(FALSE)
<1> DEFINE t == TENSIX_HARVESTING_ORDER
<1> DEFINE vals == TensixX(FALSE)
<1> DEFINE gone == HarvestedColumns(FALSE, h)
<1> DEFINE rest == {i \in 1 .. 14 : i - 1 \notin h}
<1> DEFINE cut == {i \in 1 .. 14 : t[i] \in gone}
<1>1. Len(s) = 14 /\ \A i \in 1 .. 14 : s[i] = IF i <= 7 THEN i ELSE i + 2  BY ColumnList
<1>2. vals = (1 .. 7) \cup (10 .. 16)  BY DEF TensixX
<1>3. gone = {s[i + 1] : i \in h}  BY DEF HarvestedColumns
<1>4. ColumnOrder(h) = Picked(s, rest) \o Reverse(Picked(t, cut))  BY DEF ColumnOrder
<1>5. s \in Seq(Int)  BY DEF TENSIX_COLUMNS
<1>t. \A q \in 1 .. 7 : t[2 * q - 1] = q /\ t[2 * q] = 17 - q  BY HarvestingList
<1> HIDE DEF s, t, vals, gone
<1>6. \A i \in 1 .. 14 : s[i] \in Int /\ s[i] \in vals  BY <1>1, <1>2
<1>7. Rising(s, 14)  BY <1>1 DEF Rising
<1>8. Distinct(s, 14)  BY <1>1 DEF Distinct
<1>9. \A v \in vals : \E i \in 1 .. 14 : s[i] = v
  <2> SUFFICES ASSUME NEW v \in vals PROVE \E i \in 1 .. 14 : s[i] = v  OBVIOUS
  <2>1. CASE v \in 1 .. 7
    <3>1. v \in 1 .. 14 /\ s[v] = v  BY <1>1, <2>1
    <3>2. QED  BY <3>1
  <2>2. CASE v \in 10 .. 16
    <3>1. v - 2 \in 1 .. 14 /\ s[v - 2] = v  BY <1>1, <2>2
    <3>2. QED  BY <3>1
  <2>3. QED  BY <1>2, <2>1, <2>2
<1>10. gone \subseteq vals
  <2>1. ASSUME NEW i \in h PROVE s[i + 1] \in vals
    <3>1. i \in 0 .. 13  OBVIOUS
    <3>2. i + 1 \in 1 .. 14  BY <3>1
    <3>3. QED  BY <1>6, <3>2
  <2>2. QED  BY <1>3, <2>1
<1>11. Entries(s, rest) = vals \ gone
  <2>1. ASSUME NEW i \in rest PROVE s[i] \in vals \ gone
    <3>1. s[i] \in vals  BY <1>6
    <3>2. SUFFICES ASSUME s[i] \in gone PROVE FALSE  BY <3>1
    <3>3. PICK j \in h : s[i] = s[j + 1]  BY <1>3, <3>2
    <3>4. j \in 0 .. 13  OBVIOUS
    <3>5. j + 1 \in 1 .. 14 /\ (j + 1) - 1 = j  BY <3>4
    <3>6. i = j + 1  BY <1>8, <3>3, <3>5 DEF Distinct
    <3>7. QED  BY <3>5, <3>6
  <2>2. ASSUME NEW v \in vals \ gone PROVE v \in Entries(s, rest)
    <3>1. PICK i \in 1 .. 14 : s[i] = v  BY <1>9
    <3>2. i - 1 \notin h
      <4>1. SUFFICES ASSUME i - 1 \in h PROVE FALSE  OBVIOUS
      <4>2. (i - 1) + 1 = i  OBVIOUS
      <4>3. s[i] \in gone  BY <1>3, <4>1, <4>2
      <4>4. QED  BY <3>1, <4>3
    <3>3. i \in rest  BY <3>2
    <3>4. QED  BY <3>1, <3>3 DEF Entries
  <2>3. QED  BY <2>1, <2>2 DEF Entries
<1>12. ASSUME NEW i \in 1 .. 14
       PROVE  \E q \in 1 .. 7 : (i = 2 * q - 1 /\ t[i] = q) \/ (i = 2 * q /\ t[i] = 17 - q)
  <2>1. CASE \E q \in 1 .. 7 : i = 2 * q  BY <1>t, <2>1
  <2>2. CASE \E q \in 1 .. 7 : i = 2 * q - 1  BY <1>t, <2>2
  <2>3. (\E q \in 1 .. 7 : i = 2 * q) \/ (\E q \in 1 .. 7 : i = 2 * q - 1)
    <3>1. i % 2 = 0 \/ i % 2 = 1  OBVIOUS
    <3>2. i % 2 = 0 => (i \div 2) \in 1 .. 7 /\ i = 2 * (i \div 2)  OBVIOUS
    <3>3. i % 2 = 1 => ((i + 1) \div 2) \in 1 .. 7 /\ i = 2 * ((i + 1) \div 2) - 1  OBVIOUS
    <3>4. QED  BY <3>1, <3>2, <3>3
  <2>4. QED  BY <2>1, <2>2, <2>3
<1>13. \A i \in 1 .. 14 : t[i] \in Int
  <2> SUFFICES ASSUME NEW i \in 1 .. 14 PROVE t[i] \in Int  OBVIOUS
  <2>1. PICK q \in 1 .. 7 : (i = 2 * q - 1 /\ t[i] = q) \/ (i = 2 * q /\ t[i] = 17 - q)  BY <1>12
  <2>2. QED  BY <2>1
<1>14. Distinct(t, 14)
  <2> SUFFICES ASSUME NEW i \in 1 .. 14, NEW j \in 1 .. 14, t[i] = t[j] PROVE i = j
    BY DEF Distinct
  <2>1. PICK q \in 1 .. 7 : (i = 2 * q - 1 /\ t[i] = q) \/ (i = 2 * q /\ t[i] = 17 - q)  BY <1>12
  <2>2. PICK r \in 1 .. 7 : (j = 2 * r - 1 /\ t[j] = r) \/ (j = 2 * r /\ t[j] = 17 - r)  BY <1>12
  <2>3. QED  BY <2>1, <2>2
<1>15. Entries(t, cut) = gone
  <2>1. ASSUME NEW v \in gone PROVE \E i \in 1 .. 14 : t[i] = v
    <3>1. CASE v \in 1 .. 7
      <4>1. 2 * v - 1 \in 1 .. 14 /\ t[2 * v - 1] = v  BY <1>t, <3>1
      <4>2. QED  BY <4>1
    <3>2. CASE v \in 10 .. 16
      <4>1. 17 - v \in 1 .. 7 /\ 17 - (17 - v) = v  BY <3>2
      <4>2. 2 * (17 - v) \in 1 .. 14 /\ t[2 * (17 - v)] = 17 - (17 - v)  BY <1>t, <4>1
      <4>3. QED  BY <4>1, <4>2
    <3>3. QED  BY <1>2, <1>10, <3>1, <3>2
  <2>2. ASSUME NEW v \in gone PROVE v \in Entries(t, cut)
    <3>1. PICK i \in 1 .. 14 : t[i] = v  BY <2>1
    <3>2. i \in cut  BY <3>1
    <3>3. QED  BY <3>1, <3>2 DEF Entries
  <2>3. Entries(t, cut) \subseteq gone  BY DEF Entries
  <2>4. QED  BY <2>2, <2>3
<1>16. Lists(Picked(s, rest), vals \ gone) /\ Ascends(Picked(s, rest))
       /\ Lists(Reverse(Picked(t, cut)), gone)
  <2>1. rest \in SUBSET (1 .. 14) /\ cut \in SUBSET (1 .. 14)  OBVIOUS
  <2> HIDE DEF rest, cut
  <2>2. Lists(Picked(s, rest), Entries(s, rest)) /\ Ascends(Picked(s, rest))
    BY <1>6, <1>7, <1>8, <2>1, PickedLists
  <2>3. Lists(Picked(t, cut), Entries(t, cut))  BY <1>13, <1>14, <2>1, PickedLists
  <2>4. Lists(Reverse(Picked(t, cut)), gone)  BY <1>15, <2>3, ReversedLists
  <2>5. QED  BY <1>11, <2>2, <2>4
<1> HIDE DEF rest, cut
<1>17. vals \ (vals \ gone) = gone  BY <1>10
<1>18. InLogicalOrder(ColumnOrder(h), vals, vals \ gone)  BY <1>4, <1>16, <1>17, JoinedInOrder
<1>19. Len(ColumnOrder(h)) = 14
  <2>1. Lists(s, vals)
    <3>1. \A j, k \in 1 .. 14 : s[j] = s[k] => j = k  BY <1>8 DEF Distinct
    <3>2. QED  BY <1>1, <1>5, <1>6, <1>9, <3>1 DEF Lists
  <2>2. Lists(ColumnOrder(h), vals)  BY <1>18 DEF InLogicalOrder
  <2>3. QED  BY <1>1, <2>1, <2>2, SameLength
<1>20. QED  BY <1>18, <1>19 DEF vals, gone

-----------------------------------------------------------------------------
(* The NOC_ID_LOGICAL of the Tensix tiles.                                 *)

Masks(ww) == SUBSET (0 .. IF ww THEN 9 ELSE 13)

IdX(ww, h, n) ==
  [x \in TensixX(ww) |-> Find(TableX(ww, h, n), MirrorX(ww, n, x), IF ww THEN 18 .. 25 ELSE 1 .. 16)]
IdY(ww, h, n) ==
  [y \in TensixY(ww) |-> IF ww THEN Find(TableY(ww, h, n), MirrorY(n, y), 18 .. 27) ELSE y]

\* The ids of what is used are in the order of the chip, and before the others.
KeepsOrder(id, vals, used) ==
  \A a \in used, b \in vals :
    /\ b \in used => (a <= b <=> id[a] <= id[b])
    /\ b \notin used => id[a] < id[b]

LEMMA FindOnly ==
  ASSUME NEW table, NEW v, NEW range \in SUBSET Int, NEW i \in range, table[i] = v,
         \A j \in range : table[j] = v => j = i
  PROVE  Find(table, v, range) = i
<1>1. i <= i  OBVIOUS
<1>2. \A j \in range : table[j] = v => i <= j  BY <1>1
<1>3. \A k \in range : table[k] = v => k = i  OBVIOUS
<1>4. QED  BY <1>2, <1>3 DEF Find

\* Mirroring twice is the identity.
LEMMA MirrorsX ==
  ASSUME NEW ww \in BOOLEAN, NEW n \in Nocs, NEW x \in Columns(ww)
  PROVE  /\ MirrorX(ww, n, x) \in Columns(ww)
         /\ MirrorX(ww, n, MirrorX(ww, n, x)) = x
BY DEF Columns, MirrorX, LastX, Nocs

LEMMA MirrorsY ==
  ASSUME NEW n \in Nocs, NEW y \in Rows
  PROVE  MirrorY(n, y) \in Rows /\ MirrorY(n, MirrorY(n, y)) = y
BY DEF Rows, MirrorY, LastY, Nocs

LEMMA OrderKept ==
  ASSUME NEW s, NEW vals \in SUBSET Int, NEW used \in SUBSET vals, InLogicalOrder(s, vals, used),
         NEW id, NEW g, \A k \in 1 .. Len(s) : id[s[k]] = g[k] /\ g[k] \in Int,
         \A j, k \in 1 .. Len(s) : j < k => g[j] < g[k]
  PROVE  KeepsOrder(id, vals, used)
<1> DEFINE m == Len(s)
<1>1. /\ m \in Nat
      /\ \A a \in vals : \E k \in 1 .. m : s[k] = a
      /\ \A j, k \in 1 .. m : s[j] \in used /\ s[k] \in used /\ j < k => s[j] < s[k]
      /\ \A j, k \in 1 .. m : s[j] \in used /\ s[k] \notin used => j < k
  BY DEF InLogicalOrder, Lists
<1>2. /\ \A k \in 1 .. m : id[s[k]] = g[k] /\ g[k] \in Int
      /\ \A j, k \in 1 .. m : j < k => g[j] < g[k]
  OBVIOUS
<1> HIDE DEF m
<1> SUFFICES ASSUME NEW a \in used, NEW b \in vals
             PROVE  /\ b \in used => (a <= b <=> id[a] <= id[b])
                    /\ b \notin used => id[a] < id[b]
  BY DEF KeepsOrder
<1>3. a \in Int /\ b \in Int /\ a \in vals  OBVIOUS
<1>4. PICK j \in 1 .. m : s[j] = a  BY <1>1, <1>3
<1>5. PICK k \in 1 .. m : s[k] = b  BY <1>1
<1>6. id[a] = g[j] /\ id[b] = g[k] /\ g[j] \in Int /\ g[k] \in Int  BY <1>2, <1>4, <1>5
<1>7. CASE b \notin used
  <2>1. j < k  BY <1>1, <1>4, <1>5, <1>7
  <2>2. g[j] < g[k]  BY <1>2, <2>1
  <2>3. QED  BY <1>6, <1>7, <2>2
<1>8. CASE b \in used
  <2>1. j < k => a < b /\ g[j] < g[k]  BY <1>1, <1>2, <1>4, <1>5, <1>8
  <2>2. k < j => b < a /\ g[k] < g[j]  BY <1>1, <1>2, <1>4, <1>5, <1>8
  <2>3. j = k => a = b /\ g[j] = g[k]  BY <1>4, <1>5
  <2>4. j < k \/ k < j \/ j = k  BY <1>1
  <2>5. a <= b <=> g[j] <= g[k]  BY <1>3, <1>6, <2>1, <2>2, <2>3, <2>4
  <2>6. QED  BY <1>6, <1>8, <2>5
<1>9. QED  BY <1>7, <1>8

\* What is between two that are used, by its ids, is what is used between them.
LEMMA Between ==
  ASSUME NEW id, NEW vals \in SUBSET Int, NEW used \in SUBSET vals, KeepsOrder(id, vals, used),
         \A v \in vals : id[v] \in Int,
         NEW a \in used, NEW b \in vals, NEW c \in used
  PROVE  id[b] \in id[a] .. id[c] <=> b \in used /\ b \in a .. c
<1>1. a \in Int /\ b \in Int /\ c \in Int /\ a \in vals /\ c \in vals  OBVIOUS
<1>2. id[a] \in Int /\ id[b] \in Int /\ id[c] \in Int  BY <1>1
<1>3. CASE b \in used
  <2>1. (a <= b <=> id[a] <= id[b]) /\ (b <= c <=> id[b] <= id[c])  BY <1>1, <1>3 DEF KeepsOrder
  <2>2. QED  BY <1>1, <1>2, <1>3, <2>1
<1>4. CASE b \notin used
  <2>1. id[c] < id[b]  BY <1>4 DEF KeepsOrder
  <2>2. QED  BY <1>2, <1>4, <2>1
<1>5. QED  BY <1>3, <1>4

\* An id of Wormhole's columns is its place among them, that of the rows, and of
\* Blackhole's columns, the place in logical order.
LEMMA WormholeColumns ==
  ASSUME NEW h, NEW n \in Nocs, NEW x \in TensixX(TRUE)
  PROVE  LET i == IF x <= 4 THEN 17 + x ELSE 16 + x IN
         /\ IdX(TRUE, h, n)[x] = i /\ i \in 18 .. 25
         /\ TableX(TRUE, h, n)[i] = MirrorX(TRUE, n, x)
<1> DEFINE table == TableX(TRUE, h, n)
<1> DEFINE s == TENSIX_COLUMNS(TRUE)
<1> DEFINE i == IF x <= 4 THEN 17 + x ELSE 16 + x
<1>1. x \in (1 .. 4) \cup (6 .. 9) /\ x \in Columns(TRUE)  BY DEF TensixX, Columns
<1>2. i \in 18 .. 25 /\ i - 17 \in 1 .. 8  BY <1>1
<1>3. \A k \in 1 .. 8 : s[k] = IF k <= 4 THEN k ELSE k + 1  BY ColumnList
<1>4. s[i - 17] = x
  <2> HIDE DEF s
  <2>1. CASE x <= 4
    <3>1. i - 17 = x /\ x \in 1 .. 8  BY <1>1, <2>1
    <3>2. QED  BY <1>3, <2>1, <3>1
  <2>2. CASE ~(x <= 4)
    <3>1. i - 17 = x - 1 /\ x - 1 \in 1 .. 8 /\ ~(x - 1 <= 4) /\ (x - 1) + 1 = x  BY <1>1, <2>2
    <3>2. QED  BY <1>3, <3>1
  <2>3. QED  BY <2>1, <2>2
<1>5. ASSUME NEW v \in 18 .. 25 PROVE table[v] = MirrorX(TRUE, n, s[v - 17])
  <2>1. v \in 0 .. 31 /\ ~(v <= 15) /\ ~(v > 25) /\ v # 16 /\ v # 17  OBVIOUS
  <2>2. table[v] = MirrorX(TRUE, n, PhysicalX(TRUE, ColumnOrder(h), v))  BY <2>1 DEF TableX
  <2>3. PhysicalX(TRUE, ColumnOrder(h), v) = s[v - 17]  BY <2>1 DEF PhysicalX
  <2>4. QED  BY <2>2, <2>3
<1> HIDE DEF table, s, i
<1>6. table[i] = MirrorX(TRUE, n, x)  BY <1>2, <1>4, <1>5
<1>7. ASSUME NEW j \in 18 .. 25, table[j] = MirrorX(TRUE, n, x) PROVE j = i
  <2>1. j - 17 \in 1 .. 8  OBVIOUS
  <2>2. s[j - 17] = IF j - 17 <= 4 THEN j - 17 ELSE (j - 17) + 1  BY <1>3, <2>1
  <2>3. s[j - 17] \in Columns(TRUE)  BY <2>1, <2>2 DEF Columns
  <2>4. MirrorX(TRUE, n, s[j - 17]) = MirrorX(TRUE, n, x)  BY <1>5, <1>7
  <2>5. s[j - 17] = x  BY <1>1, <2>3, <2>4, MirrorsX
  <2>6. QED  BY <1>1, <2>1, <2>2, <2>5 DEF i
<1>8. Find(table, MirrorX(TRUE, n, x), 18 .. 25) = i
  <2> DEFINE v == MirrorX(TRUE, n, x)
  <2> DEFINE range == 18 .. 25
  <2>1. range \in SUBSET Int  OBVIOUS
  <2>2. i \in range /\ table[i] = v  BY <1>2, <1>6
  <2>3. \A j \in range : table[j] = v => j = i  BY <1>7
  <2> HIDE DEF v, range
  <2>4. Find(table, v, range) = i  BY <2>1, <2>2, <2>3, FindOnly
  <2>5. QED  BY <2>4 DEF v, range
<1>9. IdX(TRUE, h, n)[x] = i  BY <1>8 DEF IdX, table
<1>10. QED  BY <1>2, <1>6, <1>9 DEF table, i

LEMMA WormholeRows ==
  ASSUME NEW h \in Masks(TRUE), NEW n \in Nocs, NEW k \in 1 .. 10
  PROVE  LET y == RowOrder(h)[k] IN
         /\ y \in TensixY(TRUE) /\ IdY(TRUE, h, n)[y] = 17 + k
         /\ TableY(TRUE, h, n)[17 + k] = MirrorY(n, y)
<1> DEFINE table == TableY(TRUE, h, n)
<1> DEFINE s == RowOrder(h)
<1> DEFINE y == s[k]
<1>0. h \in SUBSET (0 .. 9)  BY DEF Masks
<1>1. /\ \A j \in 1 .. 10 : s[j] \in TensixY(TRUE)
      /\ \A i, j \in 1 .. 10 : s[i] = s[j] => i = j
  <2> DEFINE vals == TensixY(TRUE)
  <2> DEFINE used == vals \ HarvestedRows(TRUE, h)
  <2>1. InLogicalOrder(s, vals, used) /\ Len(s) = 10  BY <1>0, RowsInOrder
  <2> HIDE DEF s, vals, used
  <2>2. Lists(s, vals)  BY <2>1 DEF InLogicalOrder
  <2>3. (\A j \in 1 .. 10 : s[j] \in vals) /\ \A i, j \in 1 .. 10 : s[i] = s[j] => i = j
    BY <2>1, <2>2 DEF Lists
  <2>4. QED  BY <2>3 DEF vals
<1>2. TensixY(TRUE) \subseteq Rows  BY DEF TensixY, Rows
<1>3. ASSUME NEW v \in 18 .. 27 PROVE table[v] = MirrorY(n, s[v - 17])
  <2>1. v \in 0 .. 31 /\ ~(v <= 15) /\ ~(v > 27) /\ v # 16 /\ v # 17  OBVIOUS
  <2>2. table[v] = MirrorY(n, PhysicalY(TRUE, s, v))  BY <2>1 DEF TableY
  <2>3. PhysicalY(TRUE, s, v) = s[v - 17]  BY <2>1 DEF PhysicalY
  <2>4. QED  BY <2>2, <2>3
<1> HIDE DEF table, s
<1>4. 17 + k \in 18 .. 27 /\ (17 + k) - 17 = k  OBVIOUS
<1>5. table[17 + k] = MirrorY(n, y)  BY <1>3, <1>4
<1>6. ASSUME NEW j \in 18 .. 27, table[j] = MirrorY(n, y) PROVE j = 17 + k
  <2>1. j - 17 \in 1 .. 10  OBVIOUS
  <2>2. s[j - 17] \in Rows /\ y \in Rows  BY <1>1, <1>2, <2>1
  <2>3. MirrorY(n, s[j - 17]) = MirrorY(n, y)  BY <1>3, <1>6
  <2>4. s[j - 17] = s[k]  BY <2>2, <2>3, MirrorsY
  <2>5. j - 17 = k  BY <1>1, <2>1, <2>4
  <2>6. QED  BY <2>5
<1>7. Find(table, MirrorY(n, y), 18 .. 27) = 17 + k
  <2> DEFINE v == MirrorY(n, y)
  <2> DEFINE range == 18 .. 27
  <2>1. range \in SUBSET Int  OBVIOUS
  <2>2. 17 + k \in range /\ table[17 + k] = v  BY <1>4, <1>5
  <2>3. \A j \in range : table[j] = v => j = 17 + k  BY <1>6
  <2> HIDE DEF v, range
  <2>4. Find(table, v, range) = 17 + k  BY <2>1, <2>2, <2>3, FindOnly
  <2>5. QED  BY <2>4 DEF v, range
<1>8. y \in TensixY(TRUE)  BY <1>1
<1>9. IdY(TRUE, h, n)[y] = 17 + k  BY <1>7, <1>8 DEF IdY, table
<1>10. QED  BY <1>5, <1>8, <1>9 DEF table, s

LEMMA BlackholeColumns ==
  ASSUME NEW h \in Masks(FALSE), NEW n \in Nocs, NEW k \in 1 .. 14
  PROVE  LET x == ColumnOrder(h)[k]
             i == TENSIX_COLUMNS(FALSE)[k]
         IN /\ x \in TensixX(FALSE) /\ IdX(FALSE, h, n)[x] = i /\ i \in 1 .. 16
            /\ TableX(FALSE, h, n)[i] = MirrorX(FALSE, n, x)
<1> DEFINE table == TableX(FALSE, h, n)
<1> DEFINE s == ColumnOrder(h)
<1> DEFINE t == TENSIX_COLUMNS(FALSE)
<1> DEFINE x == s[k]
<1> DEFINE i == t[k]
<1>0. h \in SUBSET (0 .. 13)  BY DEF Masks
<1>1. /\ \A j \in 1 .. 14 : s[j] \in TensixX(FALSE)
      /\ \A j, l \in 1 .. 14 : s[j] = s[l] => j = l
      /\ DOMAIN s = 1 .. 14
  <2> DEFINE vals == TensixX(FALSE)
  <2> DEFINE used == vals \ HarvestedColumns(FALSE, h)
  <2>1. InLogicalOrder(s, vals, used) /\ Len(s) = 14  BY <1>0, ColumnsInOrder
  <2> HIDE DEF s, vals, used
  <2>2. Lists(s, vals)  BY <2>1 DEF InLogicalOrder
  <2>3. /\ \A j \in 1 .. 14 : s[j] \in vals
        /\ \A j, l \in 1 .. 14 : s[j] = s[l] => j = l
        /\ s \in Seq(Int)
    BY <2>1, <2>2 DEF Lists
  <2>4. DOMAIN s = 1 .. 14  BY <2>1, <2>3
  <2>5. QED  BY <2>3, <2>4 DEF vals
<1>2. Len(t) = 14 /\ \A j \in 1 .. 14 : t[j] = IF j <= 7 THEN j ELSE j + 2  BY ColumnList
<1>3. \A j \in 1 .. 14 : t[j] \in ToSet(t)
  <2>1. DOMAIN t = 1 .. 14  BY DEF TENSIX_COLUMNS
  <2>2. QED  BY <2>1 DEF ToSet
<1>4. ASSUME NEW j \in 1 .. 14 PROVE table[t[j]] = MirrorX(FALSE, n, s[j])
  <2>1. t[j] \in 0 .. 31
    <3> HIDE DEF t
    <3>1. QED  BY <1>2
  <2>2. table[t[j]] = MirrorX(FALSE, n, PhysicalX(FALSE, s, t[j]))
    <3> DEFINE v == t[j]
    <3>1. v \in 0 .. 31  BY <2>1
    <3> HIDE DEF v
    <3>2. table[v] = MirrorX(FALSE, n, PhysicalX(FALSE, s, v))  BY <3>1 DEF TableX
    <3>3. QED  BY <3>2 DEF v
  <2>3. PhysicalX(FALSE, s, t[j]) = s[ColumnIndex(t[j])]
    <3> DEFINE v == t[j]
    <3>1. v \in ToSet(TENSIX_COLUMNS(FALSE))  BY <1>3
    <3>2. v \in 1 .. 16 /\ v \notin {8, 9}
      <4> HIDE DEF t
      <4>1. QED  BY <1>2
    <3> HIDE DEF v, s
    <3>3. v \notin {8, 9} /\ v # 18 /\ v # 19 /\ v \notin 20 .. 19 + LiveEth
      BY <3>2 DEF LiveEth
    <3>4. PhysicalX(FALSE, s, v) = s[ColumnIndex(v)]  BY <3>1, <3>3 DEF PhysicalX
    <3>5. QED  BY <3>4 DEF v
  <2>4. ColumnIndex(t[j]) = j
    <3>1. DOMAIN t = 1 .. 14  BY DEF TENSIX_COLUMNS
    <3>2. ColumnIndex(t[j]) = CHOOSE l \in DOMAIN t : t[l] = t[j]  BY DEF ColumnIndex
    <3> HIDE DEF s, t
    <3>3. \A l \in 1 .. 14 : t[l] = t[j] => l = j  BY <1>2
    <3>4. QED  BY <3>1, <3>2, <3>3
  <2>5. QED  BY <2>2, <2>3, <2>4
<1>5. ASSUME NEW v \in {8, 9} PROVE table[v] = MirrorX(FALSE, n, v)
  <2>1. v \notin ToSet(t)
    <3>1. DOMAIN t = 1 .. 14  BY DEF TENSIX_COLUMNS
    <3> HIDE DEF t
    <3>2. \A j \in 1 .. 14 : t[j] # 8 /\ t[j] # 9  BY <1>2
    <3>3. QED  BY <3>1, <3>2 DEF ToSet
  <2>2. v \in 0 .. 31  OBVIOUS
  <2>3. PhysicalX(FALSE, s, v) = v  BY <2>1 DEF PhysicalX
  <2>4. QED  BY <2>2, <2>3 DEF TableX
<1>6. TensixX(FALSE) \subseteq Columns(FALSE) /\ 8 \notin TensixX(FALSE) /\ 9 \notin TensixX(FALSE)
      /\ 8 \in Columns(FALSE) /\ 9 \in Columns(FALSE)
  BY DEF TensixX, Columns
<1> HIDE DEF table, s, t
<1>7. i \in 1 .. 16  BY <1>2
<1>8. table[i] = MirrorX(FALSE, n, x)  BY <1>4
<1>9. ASSUME NEW j \in 1 .. 16, table[j] = MirrorX(FALSE, n, x) PROVE j = i
  <2>1. x \in TensixX(FALSE) /\ x \in Columns(FALSE)  BY <1>1, <1>6
  <2>2. CASE j \in {8, 9}
    <3>1. MirrorX(FALSE, n, j) = MirrorX(FALSE, n, x)  BY <1>5, <1>9, <2>2
    <3>2. j \in Columns(FALSE)  BY <1>6, <2>2
    <3>3. j = x  BY <2>1, <3>1, <3>2, MirrorsX
    <3>4. QED  BY <1>6, <2>1, <2>2, <3>3
  <2>3. CASE j \in 1 .. 7
    <3>1. j \in 1 .. 14 /\ t[j] = j  BY <1>2, <2>3
    <3>2. MirrorX(FALSE, n, s[j]) = MirrorX(FALSE, n, x)  BY <1>4, <1>9, <3>1
    <3>3. s[j] \in Columns(FALSE)  BY <1>1, <1>6, <3>1
    <3>4. s[j] = s[k]
      <4> DEFINE a == s[j]
      <4>1. MirrorX(FALSE, n, a) = MirrorX(FALSE, n, x)  BY <3>2
      <4> HIDE DEF a, x
      <4>2. a = x  BY <2>1, <3>3, <4>1, MirrorsX DEF a
      <4>3. QED  BY <4>2 DEF a, x
    <3>5. j = k  BY <1>1, <3>1, <3>4
    <3>6. QED  BY <3>1, <3>5
  <2>4. CASE j \in 10 .. 16
    <3>1. j - 2 \in 1 .. 14 /\ t[j - 2] = j  BY <1>2, <2>4
    <3>2. MirrorX(FALSE, n, s[j - 2]) = MirrorX(FALSE, n, x)  BY <1>4, <1>9, <3>1
    <3>3. s[j - 2] \in Columns(FALSE)  BY <1>1, <1>6, <3>1
    <3>4. s[j - 2] = s[k]
      <4> DEFINE a == s[j - 2]
      <4>1. MirrorX(FALSE, n, a) = MirrorX(FALSE, n, x)  BY <3>2
      <4> HIDE DEF a, x
      <4>2. a = x  BY <2>1, <3>3, <4>1, MirrorsX DEF a
      <4>3. QED  BY <4>2 DEF a, x
    <3>5. j - 2 = k  BY <1>1, <3>1, <3>4
    <3>6. QED  BY <3>1, <3>5
  <2>5. QED  BY <2>2, <2>3, <2>4
<1>10. Find(table, MirrorX(FALSE, n, x), 1 .. 16) = i
  <2> DEFINE v == MirrorX(FALSE, n, x)
  <2> DEFINE range == 1 .. 16
  <2>1. range \in SUBSET Int  OBVIOUS
  <2>2. i \in range /\ table[i] = v  BY <1>7, <1>8
  <2>3. \A j \in range : table[j] = v => j = i  BY <1>9
  <2> HIDE DEF v, range, i
  <2>4. Find(table, v, range) = i  BY <2>1, <2>2, <2>3, FindOnly
  <2>5. QED  BY <2>4 DEF v, range
<1>11. x \in TensixX(FALSE)  BY <1>1
<1>12. IdX(FALSE, h, n)[x] = i  BY <1>10, <1>11 DEF IdX, table
<1>13. QED  BY <1>7, <1>8, <1>11, <1>12 DEF table, s, t

UsedX(ww, h) == TensixX(ww) \ HarvestedColumns(ww, h)
UsedY(ww, h) == TensixY(ww) \ HarvestedRows(ww, h)

\* The ports of DRAM: three to a channel, in two columns.
Three(x, i, j, k) == {<<x, i>>, <<x, j>>, <<x, k>>}

LEMMA ThreePorts ==
  ASSUME NEW x, NEW i, NEW j, NEW k, NEW p \in Three(x, i, j, k)
  PROVE  p = <<x, p[2]>> /\ p[1] = x /\ p[2] \in {i, j, k}
BY DEF Three

LEMMA WormholePorts ==
  /\ DOMAIN Ports(TRUE) = 1 .. 6 /\ Len(Ports(TRUE)) = 6
  /\ Ports(TRUE)[1] = Three(0, 0, 1, 11)
  /\ Ports(TRUE)[2] = Three(0, 5, 6, 7)
  /\ Ports(TRUE)[3] = Three(5, 0, 1, 11)
  /\ Ports(TRUE)[4] = Three(5, 2, 9, 10)
  /\ Ports(TRUE)[5] = Three(5, 3, 4, 8)
  /\ Ports(TRUE)[6] = Three(5, 5, 6, 7)
BY DEF Ports, Three

LEMMA Joined8 ==
  ASSUME NEW T, NEW a \in Seq(T), NEW b \in Seq(T), Len(a) = 4, Len(b) = 4
  PROVE  /\ DOMAIN (a \o b) = 1 .. 8 /\ Len(a \o b) = 8
         /\ (a \o b)[1] = a[1] /\ (a \o b)[2] = a[2] /\ (a \o b)[3] = a[3] /\ (a \o b)[4] = a[4]
         /\ (a \o b)[5] = b[1] /\ (a \o b)[6] = b[2] /\ (a \o b)[7] = b[3] /\ (a \o b)[8] = b[4]
<1> DEFINE s == a \o b
<1>1. /\ s \in Seq(T) /\ Len(s) = 8
      /\ \A k \in 1 .. 4 : s[k] = a[k]
      /\ \A k \in 1 .. 4 : s[4 + k] = b[k]
  <2>1. /\ s \in Seq(T) /\ Len(s) = Len(a) + Len(b)
        /\ \A i \in 1 .. Len(a) + Len(b) : s[i] = IF i <= Len(a) THEN a[i] ELSE b[i - Len(a)]
    BY ConcatProperties
  <2> HIDE DEF s
  <2>2. \A k \in 1 .. 4 : 4 + k \in 1 .. 8 /\ ~(4 + k <= 4) /\ (4 + k) - 4 = k  OBVIOUS
  <2>3. QED  BY <2>1, <2>2
<1> HIDE DEF s
<1>2. DOMAIN s = 1 .. 8  BY <1>1
<1>3. s[1] = a[1] /\ s[2] = a[2] /\ s[3] = a[3] /\ s[4] = a[4]  BY <1>1
<1>4. s[4 + 1] = b[1] /\ s[4 + 2] = b[2] /\ s[4 + 3] = b[3] /\ s[4 + 4] = b[4]  BY <1>1
<1>5. s[5] = b[1] /\ s[6] = b[2] /\ s[7] = b[3] /\ s[8] = b[4]  BY <1>4
<1>6. QED  BY <1>1, <1>2, <1>3, <1>5 DEF s

LEMMA BlackholePorts ==
  /\ DOMAIN Ports(FALSE) = 1 .. 8 /\ Len(Ports(FALSE)) = 8
  /\ Ports(FALSE)[1] = Three(0, 0, 1, 11)
  /\ Ports(FALSE)[2] = Three(0, 2, 3, 10)
  /\ Ports(FALSE)[3] = Three(0, 4, 8, 9)
  /\ Ports(FALSE)[4] = Three(0, 5, 6, 7)
  /\ Ports(FALSE)[5] = Three(9, 0, 1, 11)
  /\ Ports(FALSE)[6] = Three(9, 2, 3, 10)
  /\ Ports(FALSE)[7] = Three(9, 4, 8, 9)
  /\ Ports(FALSE)[8] = Three(9, 5, 6, 7)
<1> DEFINE side(x) == << Three(x, 0, 1, 11), Three(x, 2, 3, 10), Three(x, 4, 8, 9), Three(x, 5, 6, 7) >>
<1> DEFINE left == side(0)
<1> DEFINE right == side(9)
<1> DEFINE T == {left[1], left[2], left[3], left[4], right[1], right[2], right[3], right[4]}
<1>1. Ports(FALSE) = left \o right  BY DEF Ports, Three
<1>2. left \in Seq(T) /\ right \in Seq(T) /\ Len(left) = 4 /\ Len(right) = 4
  OBVIOUS
<1>3. /\ left[1] = Three(0, 0, 1, 11) /\ left[2] = Three(0, 2, 3, 10)
      /\ left[3] = Three(0, 4, 8, 9) /\ left[4] = Three(0, 5, 6, 7)
      /\ right[1] = Three(9, 0, 1, 11) /\ right[2] = Three(9, 2, 3, 10)
      /\ right[3] = Three(9, 4, 8, 9) /\ right[4] = Three(9, 5, 6, 7)
  OBVIOUS
<1> HIDE DEF left, right, T
<1> DEFINE all == left \o right
<1>4. /\ DOMAIN all = 1 .. 8 /\ Len(all) = 8
      /\ all[1] = left[1] /\ all[2] = left[2] /\ all[3] = left[3] /\ all[4] = left[4]
      /\ all[5] = right[1] /\ all[6] = right[2] /\ all[7] = right[3] /\ all[8] = right[4]
  BY <1>2, Joined8
<1>5. Ports(FALSE) = all  BY <1>1
<1> HIDE DEF all
<1>6. QED  BY <1>3, <1>4, <1>5, Zenon

LEMMA PortColumns ==
  /\ \A c \in DOMAIN Ports(TRUE) : \A p \in Ports(TRUE)[c] : p[1] \in {0, 5}
  /\ \A c \in DOMAIN Ports(FALSE) : \A p \in Ports(FALSE)[c] : p[1] \in {0, 9}
<1>1. ASSUME NEW c \in 1 .. 6, NEW p \in Ports(TRUE)[c] PROVE p[1] \in {0, 5}
  <2>1. c = 1 \/ c = 2 \/ c = 3 \/ c = 4 \/ c = 5 \/ c = 6  OBVIOUS
  <2>2. PICK x \in {0, 5} : \E i, j, k : Ports(TRUE)[c] = Three(x, i, j, k)
    BY <2>1, WormholePorts
  <2>3. PICK i, j, k : p \in Three(x, i, j, k)  BY <2>2
  <2>4. p[1] = x  BY <2>3, ThreePorts
  <2>5. QED  BY <2>4
<1>2. ASSUME NEW c \in 1 .. 8, NEW p \in Ports(FALSE)[c] PROVE p[1] \in {0, 9}
  <2>1. c = 1 \/ c = 2 \/ c = 3 \/ c = 4 \/ c = 5 \/ c = 6 \/ c = 7 \/ c = 8  OBVIOUS
  <2> DEFINE Side(x, P) == \E i, j, k : P = Three(x, i, j, k)
  <2>2. /\ Side(0, Ports(FALSE)[1]) /\ Side(0, Ports(FALSE)[2])
        /\ Side(0, Ports(FALSE)[3]) /\ Side(0, Ports(FALSE)[4])
        /\ Side(9, Ports(FALSE)[5]) /\ Side(9, Ports(FALSE)[6])
        /\ Side(9, Ports(FALSE)[7]) /\ Side(9, Ports(FALSE)[8])
    <3>1. \A x, i, j, k : Side(x, Three(x, i, j, k))  OBVIOUS
    <3> HIDE DEF Side
    <3>2. Side(0, Ports(FALSE)[1])  BY <3>1, BlackholePorts, Zenon
    <3>3. Side(0, Ports(FALSE)[2])  BY <3>1, BlackholePorts, Zenon
    <3>4. Side(0, Ports(FALSE)[3])  BY <3>1, BlackholePorts, Zenon
    <3>5. Side(0, Ports(FALSE)[4])  BY <3>1, BlackholePorts, Zenon
    <3>6. Side(9, Ports(FALSE)[5])  BY <3>1, BlackholePorts, Zenon
    <3>7. Side(9, Ports(FALSE)[6])  BY <3>1, BlackholePorts, Zenon
    <3>8. Side(9, Ports(FALSE)[7])  BY <3>1, BlackholePorts, Zenon
    <3>9. Side(9, Ports(FALSE)[8])  BY <3>1, BlackholePorts, Zenon
    <3>10. QED  BY <3>2, <3>3, <3>4, <3>5, <3>6, <3>7, <3>8, <3>9
  <2>3. PICK x \in {0, 9} : Side(x, Ports(FALSE)[c])
    <3> HIDE DEF Side
    <3>1. Side(0, Ports(FALSE)[c]) \/ Side(9, Ports(FALSE)[c])
      BY <2>1, <2>2, Zenon
    <3> QED BY <3>1, Zenon
  <2>4. PICK i, j, k : p \in Three(x, i, j, k)  BY <2>3
  <2>5. p[1] = x  BY <2>4, ThreePorts
  <2>6. QED  BY <2>5
<1>3. QED  BY <1>1, <1>2, WormholePorts, BlackholePorts

LEMMA ColumnIds ==
  ASSUME NEW ww \in BOOLEAN, NEW h \in Masks(ww), NEW n \in Nocs
  PROVE  /\ \A x \in TensixX(ww) : /\ IdX(ww, h, n)[x] \in 1 .. 31
                                   /\ TableX(ww, h, n)[IdX(ww, h, n)[x]] = MirrorX(ww, n, x)
         /\ KeepsOrder(IdX(ww, h, n), TensixX(ww), UsedX(ww, h))
<1>1. CASE ww = TRUE
  <2> DEFINE id == IdX(TRUE, h, n)
  <2> DEFINE table == TableX(TRUE, h, n)
  <2>1. ASSUME NEW x \in TensixX(TRUE)
        PROVE  /\ id[x] = IF x <= 4 THEN 17 + x ELSE 16 + x
               /\ id[x] \in 18 .. 25 /\ table[id[x]] = MirrorX(TRUE, n, x)
    BY WormholeColumns
  <2> HIDE DEF id, table
  <2>2. UsedX(TRUE, h) = TensixX(TRUE)  BY DEF UsedX, HarvestedColumns
  <2>3. ASSUME NEW a \in TensixX(TRUE), NEW b \in TensixX(TRUE) PROVE a <= b <=> id[a] <= id[b]
    <3>1. a \in (1 .. 4) \cup (6 .. 9) /\ b \in (1 .. 4) \cup (6 .. 9)  BY DEF TensixX
    <3>2. id[a] = (IF a <= 4 THEN 17 + a ELSE 16 + a) /\ id[b] = IF b <= 4 THEN 17 + b ELSE 16 + b
      BY <2>1
    <3>3. QED  BY <3>1, <3>2
  <2>4. KeepsOrder(id, TensixX(TRUE), UsedX(TRUE, h))  BY <2>2, <2>3 DEF KeepsOrder
  <2>5. ASSUME NEW x \in TensixX(TRUE)
        PROVE  id[x] \in 1 .. 31 /\ table[id[x]] = MirrorX(TRUE, n, x)
    <3>1. id[x] \in 18 .. 25 /\ table[id[x]] = MirrorX(TRUE, n, x)  BY <2>1
    <3>2. QED  BY <3>1
  <2>6. QED  BY <1>1, <2>4, <2>5 DEF id, table
<1>2. CASE ww = FALSE
  <2> DEFINE id == IdX(FALSE, h, n)
  <2> DEFINE table == TableX(FALSE, h, n)
  <2> DEFINE s == ColumnOrder(h)
  <2> DEFINE t == TENSIX_COLUMNS(FALSE)
  <2> DEFINE vals == TensixX(FALSE)
  <2> DEFINE used == UsedX(FALSE, h)
  <2>1. h \in Masks(FALSE) /\ h \in SUBSET (0 .. 13)  BY <1>2 DEF Masks
  <2>2. ASSUME NEW k \in 1 .. 14
        PROVE  /\ id[s[k]] = t[k] /\ t[k] \in 1 .. 16 /\ table[t[k]] = MirrorX(FALSE, n, s[k])
    BY <2>1, BlackholeColumns
  <2>3. InLogicalOrder(s, vals, used) /\ Len(s) = 14  BY <2>1, ColumnsInOrder DEF UsedX
  <2>4. used \in SUBSET vals /\ vals \in SUBSET Int
    <3>1. vals = (1 .. 7) \cup (10 .. 16)  BY DEF TensixX
    <3>2. used \subseteq vals  BY DEF UsedX
    <3> HIDE DEF vals, used
    <3>3. QED  BY <3>1, <3>2
  <2>5. \A k \in 1 .. 14 : t[k] = IF k <= 7 THEN k ELSE k + 2  BY ColumnList
  <2> HIDE DEF id, table, s, t, vals, used
  <2>6. \A j, k \in 1 .. 14 : j < k => t[j] < t[k]  BY <2>5
  <2>7. \A k \in 1 .. Len(s) : id[s[k]] = t[k] /\ t[k] \in Int  BY <2>2, <2>3
  <2>8. \A j, k \in 1 .. Len(s) : j < k => t[j] < t[k]  BY <2>3, <2>6
  <2>9. KeepsOrder(id, vals, used)  BY <2>3, <2>4, <2>7, <2>8, OrderKept
  <2>10. ASSUME NEW x \in vals PROVE id[x] \in 1 .. 31 /\ table[id[x]] = MirrorX(FALSE, n, x)
    <3>1. \E k \in 1 .. 14 : s[k] = x  BY <2>3 DEF InLogicalOrder, Lists
    <3>2. PICK k \in 1 .. 14 : s[k] = x  BY <3>1
    <3>3. id[x] = t[k] /\ t[k] \in 1 .. 16 /\ table[t[k]] = MirrorX(FALSE, n, x)  BY <2>2, <3>2
    <3>4. QED  BY <3>3
  <2>11. QED  BY <1>2, <2>9, <2>10 DEF id, table, vals, used
<1>3. QED  BY <1>1, <1>2

LEMMA RowIds ==
  ASSUME NEW ww \in BOOLEAN, NEW h \in Masks(ww), NEW n \in Nocs
  PROVE  /\ \A y \in TensixY(ww) : /\ IdY(ww, h, n)[y] \in 2 .. 31
                                   /\ TableY(ww, h, n)[IdY(ww, h, n)[y]] = MirrorY(n, y)
         /\ KeepsOrder(IdY(ww, h, n), TensixY(ww), UsedY(ww, h))
<1>1. CASE ww = TRUE
  <2> DEFINE id == IdY(TRUE, h, n)
  <2> DEFINE table == TableY(TRUE, h, n)
  <2> DEFINE s == RowOrder(h)
  <2> DEFINE vals == TensixY(TRUE)
  <2> DEFINE used == UsedY(TRUE, h)
  <2> DEFINE g == [k \in 1 .. 10 |-> 17 + k]
  <2>1. h \in Masks(TRUE) /\ h \in SUBSET (0 .. 9)  BY <1>1 DEF Masks
  <2>2. ASSUME NEW k \in 1 .. 10
        PROVE  id[s[k]] = 17 + k /\ table[17 + k] = MirrorY(n, s[k])
    BY <2>1, WormholeRows
  <2>3. InLogicalOrder(s, vals, used) /\ Len(s) = 10  BY <2>1, RowsInOrder DEF UsedY
  <2>4. used \in SUBSET vals /\ vals \in SUBSET Int
    <3>1. vals = (1 .. 5) \cup (7 .. 11)  BY DEF TensixY
    <3>2. used \subseteq vals  BY DEF UsedY
    <3> HIDE DEF vals, used
    <3>3. QED  BY <3>1, <3>2
  <2> HIDE DEF id, table, s, vals, used
  <2>5. \A k \in 1 .. Len(s) : id[s[k]] = g[k] /\ g[k] \in Int  BY <2>2, <2>3
  <2>6. \A j, k \in 1 .. Len(s) : j < k => g[j] < g[k]  BY <2>3
  <2>7. KeepsOrder(id, vals, used)
    <3> HIDE DEF g
    <3>1. QED  BY <2>3, <2>4, <2>5, <2>6, OrderKept
  <2>8. ASSUME NEW y \in vals PROVE id[y] \in 2 .. 31 /\ table[id[y]] = MirrorY(n, y)
    <3>1. \E k \in 1 .. 10 : s[k] = y  BY <2>3 DEF InLogicalOrder, Lists
    <3>2. PICK k \in 1 .. 10 : s[k] = y  BY <3>1
    <3>3. id[y] = 17 + k /\ table[17 + k] = MirrorY(n, y)  BY <2>2, <3>2
    <3>4. QED  BY <3>3
  <2>9. QED  BY <1>1, <2>7, <2>8 DEF id, table, vals, used
<1>2. CASE ww = FALSE
  <2> DEFINE id == IdY(FALSE, h, n)
  <2>1. \A y \in TensixY(FALSE) : id[y] = y /\ y \in 2 .. 11  BY DEF IdY, TensixY
  <2>2. ASSUME NEW y \in 2 .. 11 PROVE TableY(FALSE, h, n)[y] = MirrorY(n, y)
    BY DEF TableY, PhysicalY
  <2>3. UsedY(FALSE, h) = TensixY(FALSE)  BY DEF UsedY, HarvestedRows
  <2> HIDE DEF id
  <2>4. KeepsOrder(id, TensixY(FALSE), UsedY(FALSE, h))  BY <2>1, <2>3 DEF KeepsOrder
  <2>5. ASSUME NEW y \in TensixY(FALSE)
        PROVE  id[y] \in 2 .. 31 /\ TableY(FALSE, h, n)[id[y]] = MirrorY(n, y)
    <3>1. id[y] = y /\ y \in 2 .. 11  BY <2>1
    <3>2. TableY(FALSE, h, n)[y] = MirrorY(n, y)  BY <2>2, <3>1
    <3>3. id[y] \in 2 .. 31  BY <3>1
    <3>4. TableY(FALSE, h, n)[id[y]] = TableY(FALSE, h, n)[y]  BY <3>1, Zenon
    <3>5. QED  BY <3>2, <3>3, <3>4
  <2>6. QED  BY <1>2, <2>4, <2>5 DEF id
<1>3. QED  BY <1>1, <1>2

\* A Tensix tile is reached by its NOC_ID_LOGICAL.
Leads(ww, h, n, on, xy) == Remap(ww, TableX(ww, h, n), TableY(ww, h, n), n, on, xy)

LEMMA TensixIds ==
  ASSUME NEW ww \in BOOLEAN, NEW h \in Masks(ww), NEW n \in Nocs,
         NEW x \in TensixX(ww), NEW y \in TensixY(ww)
  PROVE  /\ <<"T", <<x, y>> >> \in DOMAIN Ids(ww, h, n)
         /\ Ids(ww, h, n)[<<"T", <<x, y>> >>] = <<IdX(ww, h, n)[x], IdY(ww, h, n)[y]>>
         /\ Leads(ww, h, n, TRUE, <<IdX(ww, h, n)[x], IdY(ww, h, n)[y]>>) = <<x, y>>
         /\ TileAt(ww, <<x, y>>) = <<"T", <<x, y>> >>
<1> DEFINE t == <<"T", <<x, y>> >>
<1> DEFINE tx == TableX(ww, h, n)
<1> DEFINE ty == TableY(ww, h, n)
<1> DEFINE i == IdX(ww, h, n)[x]
<1> DEFINE j == IdY(ww, h, n)[y]
<1>1. t \in {u \in Tiles(ww) : u[1] # "D"}  BY DEF Tiles
<1>2. Ids(ww, h, n)[t] = LogicalId(ww, tx, ty, n, t)  BY <1>1 DEF Ids
<1>3. Coord(ww, t) = <<x, y>> /\ t[1] = "T"  BY DEF Coord
<1>4. LogicalId(ww, tx, ty, n, t) =
        IF ww THEN <<Find(tx, MirrorX(ww, n, x), 18 .. 25), Find(ty, MirrorY(n, y), 18 .. 27)>>
        ELSE <<Find(tx, MirrorX(ww, n, x), 1 .. 16), y>>
  <2> HIDE DEF t, tx, ty
  <2>1. QED  BY <1>3 DEF LogicalId
<1>5. /\ i = Find(tx, MirrorX(ww, n, x), IF ww THEN 18 .. 25 ELSE 1 .. 16)
      /\ j = IF ww THEN Find(ty, MirrorY(n, y), 18 .. 27) ELSE y
  BY DEF IdX, IdY
<1>6. LogicalId(ww, tx, ty, n, t) = <<i, j>>
  <2> HIDE DEF t, tx, ty, i, j
  <2>1. CASE ww = TRUE  BY <1>4, <1>5, <2>1
  <2>2. CASE ww = FALSE  BY <1>4, <1>5, <2>2
  <2>3. QED  BY <2>1, <2>2
<1>7. /\ i \in 1 .. 31 /\ tx[i] = MirrorX(ww, n, x)
      /\ j \in 2 .. 31 /\ ty[j] = MirrorY(n, y)
  BY ColumnIds, RowIds
<1>8. x \in Columns(ww) /\ y \in Rows  BY DEF TensixX, TensixY, Columns, Rows
<1>9. Leads(ww, h, n, TRUE, <<i, j>>) = <<x, y>>
  <2> DEFINE mx == MirrorX(ww, n, x)
  <2> DEFINE my == MirrorY(n, y)
  <2>1. mx \in Columns(ww) /\ my \in Rows /\ MirrorX(ww, n, mx) = x /\ MirrorY(n, my) = y
    BY <1>8, MirrorsX, MirrorsY
  <2>2. tx[i] = mx /\ ty[j] = my /\ j \notin {0, 1}  BY <1>7
  <2>3. Leads(ww, h, n, TRUE, <<i, j>>) = Remap(ww, tx, ty, n, TRUE, <<i, j>>)  BY DEF Leads
  <2> HIDE DEF mx, my, tx, ty, i, j
  <2>4. Remap(ww, tx, ty, n, TRUE, <<i, j>>) = <<MirrorX(ww, n, mx), MirrorY(n, my)>>
    BY <2>1, <2>2 DEF Remap
  <2>5. QED  BY <2>1, <2>3, <2>4
<1>10. TileAt(ww, <<x, y>>) = t
  <2> DEFINE xy == <<x, y>>
  <2>1. xy[1] \in TensixX(ww) /\ xy[2] \in TensixY(ww)  OBVIOUS
  <2>2. ~\E k \in EthIds(ww) : EthAt(ww, k) = xy
    <3>1. SUFFICES ASSUME NEW k \in EthIds(ww), EthAt(ww, k) = xy PROVE FALSE  OBVIOUS
    <3>2. EthAt(ww, k)[2] \notin TensixY(ww)
      <4>1. EthAt(ww, k)[2] = IF ww THEN 6 * (k \div 8) ELSE 1  BY DEF EthAt
      <4>2. CASE ww
        <5>1. k \in 0 .. 15  BY <4>2 DEF EthIds
        <5>2. k \div 8 \in {0, 1}  BY <5>1
        <5>3. QED  BY <4>1, <4>2, <5>2 DEF TensixY
      <4>3. CASE ~ww  BY <4>1, <4>3 DEF TensixY
      <4>4. QED  BY <4>2, <4>3
    <3>3. QED  BY <2>1, <3>1, <3>2
  <2>3. ~\E c \in DOMAIN Ports(ww) : xy \in Ports(ww)[c]
    <3>1. SUFFICES ASSUME NEW c \in DOMAIN Ports(ww), xy \in Ports(ww)[c] PROVE FALSE  OBVIOUS
    <3>2. xy[1] \notin TensixX(ww)
      <4> HIDE DEF xy
      <4>1. CASE ww = TRUE
        <5>1. xy[1] \in {0, 5}  BY <3>1, <4>1, PortColumns
        <5>2. QED  BY <4>1, <5>1 DEF TensixX
      <4>2. CASE ww = FALSE
        <5>1. xy[1] \in {0, 9}  BY <3>1, <4>2, PortColumns
        <5>2. QED  BY <4>2, <5>1 DEF TensixX
      <4>3. QED  BY <4>1, <4>2
    <3>3. QED  BY <2>1, <3>2
  <2>4. xy # PcieAt(ww) /\ xy # ArcAt(ww)
    <3>1. PcieAt(ww)[1] \notin TensixX(ww) \/ PcieAt(ww)[2] \notin TensixY(ww)
      BY DEF PcieAt, TensixX, TensixY
    <3>2. ArcAt(ww)[1] \notin TensixX(ww)  BY DEF ArcAt, TensixX
    <3> HIDE DEF xy
    <3>3. QED  BY <2>1, <3>1, <3>2
  <2> HIDE DEF xy
  <2>5. TileAt(ww, xy) = <<"T", xy>>  BY <2>1, <2>2, <2>3, <2>4 DEF TileAt
  <2>6. QED  BY <2>5 DEF xy
<1>11. QED  BY <1>1, <1>2, <1>6, <1>9, <1>10 DEF Ids

-----------------------------------------------------------------------------
(* Each tile is at the coordinates the grid has for it.                    *)

\* The channel a port belongs to.
Channel(ww, p) ==
  IF ww THEN (IF p[1] = 0 THEN (IF p[2] \in {0, 1, 11} THEN 1 ELSE 2)
              ELSE IF p[2] \in {0, 1, 11} THEN 3 ELSE IF p[2] \in {2, 9, 10} THEN 4
              ELSE IF p[2] \in {3, 4, 8} THEN 5 ELSE 6)
  ELSE (IF p[1] = 0 THEN 0 ELSE 4)
       + (IF p[2] \in {0, 1, 11} THEN 1 ELSE IF p[2] \in {2, 3, 10} THEN 2
          ELSE IF p[2] \in {4, 8, 9} THEN 3 ELSE 4)

LEMMA PortCount ==
  ASSUME NEW ww \in BOOLEAN
  PROVE  DOMAIN Ports(ww) = 1 .. Len(Ports(ww)) /\ Len(Ports(ww)) \in Nat
<1> DEFINE s == Ports(TRUE)
<1> DEFINE t == Ports(FALSE)
<1>1. DOMAIN s = 1 .. 6 /\ Len(s) = 6 /\ DOMAIN t = 1 .. 8 /\ Len(t) = 8
  BY WormholePorts, BlackholePorts
<1> HIDE DEF s, t
<1>2. DOMAIN s = 1 .. Len(s) /\ Len(s) \in Nat /\ DOMAIN t = 1 .. Len(t) /\ Len(t) \in Nat
  BY <1>1
<1>3. CASE ww = TRUE  BY <1>2, <1>3, Zenon DEF s
<1>4. CASE ww = FALSE  BY <1>2, <1>4, Zenon DEF t
<1>5. QED  BY <1>3, <1>4

LEMMA PortPlaces ==
  ASSUME NEW ww \in BOOLEAN, NEW c \in DOMAIN Ports(ww), NEW p \in Ports(ww)[c]
  PROVE  /\ c \in 1 .. 8 /\ c = Channel(ww, p)
         /\ p = <<p[1], p[2]>> /\ p[1] \in Columns(ww) /\ p[2] \in Rows
         /\ p[1] \in IF ww THEN {0, 5} ELSE {0, 9}
         /\ ww /\ p[1] = 0 => p[2] \in {0, 1, 11, 5, 6, 7}
         /\ c \in 1 .. Len(Ports(ww))
<1>l. DOMAIN Ports(ww) = 1 .. Len(Ports(ww))  BY WormholePorts, BlackholePorts
<1>1. CASE ww = TRUE
  <2>1. c \in 1 .. 6  BY <1>1, WormholePorts
  <2>2. c = 1 \/ c = 2 \/ c = 3 \/ c = 4 \/ c = 5 \/ c = 6  BY <2>1
  <2>3. c = 1 => p \in Three(0, 0, 1, 11)  BY <1>1, WormholePorts
  <2>4. c = 2 => p \in Three(0, 5, 6, 7)  BY <1>1, WormholePorts
  <2>5. c = 3 => p \in Three(5, 0, 1, 11)  BY <1>1, WormholePorts
  <2>6. c = 4 => p \in Three(5, 2, 9, 10)  BY <1>1, WormholePorts
  <2>7. c = 5 => p \in Three(5, 3, 4, 8)  BY <1>1, WormholePorts
  <2>8. c = 6 => p \in Three(5, 5, 6, 7)  BY <1>1, WormholePorts
  <2>9. p = <<p[1], p[2]>>
    BY <2>2, <2>3, <2>4, <2>5, <2>6, <2>7, <2>8, ThreePorts
  <2>10. /\ c = 1 => p[1] = 0 /\ p[2] \in {0, 1, 11}
         /\ c = 2 => p[1] = 0 /\ p[2] \in {5, 6, 7}
         /\ c = 3 => p[1] = 5 /\ p[2] \in {0, 1, 11}
         /\ c = 4 => p[1] = 5 /\ p[2] \in {2, 9, 10}
         /\ c = 5 => p[1] = 5 /\ p[2] \in {3, 4, 8}
         /\ c = 6 => p[1] = 5 /\ p[2] \in {5, 6, 7}
    BY <2>3, <2>4, <2>5, <2>6, <2>7, <2>8, ThreePorts
  <2>11. c = Channel(TRUE, p)  BY <2>2, <2>10 DEF Channel
  <2>12. p[1] \in {0, 5} /\ p[2] \in 0 .. 11 /\ (p[1] = 0 => p[2] \in {0, 1, 11, 5, 6, 7})
    BY <2>2, <2>10
  <2>13. p[1] \in Columns(TRUE) /\ p[2] \in Rows  BY <2>12 DEF Columns, Rows
  <2>14. c \in 1 .. 8 /\ c \in 1 .. Len(Ports(ww))  BY <1>l, <2>1
  <2>15. QED  BY <1>1, <2>9, <2>11, <2>12, <2>13, <2>14
<1>2. CASE ww = FALSE
  <2>1. c \in 1 .. 8  BY <1>2, BlackholePorts
  <2>2. c = 1 \/ c = 2 \/ c = 3 \/ c = 4 \/ c = 5 \/ c = 6 \/ c = 7 \/ c = 8  BY <2>1
  <2>3. c = 1 => p \in Three(0, 0, 1, 11)  BY <1>2, BlackholePorts
  <2>4. c = 2 => p \in Three(0, 2, 3, 10)  BY <1>2, BlackholePorts
  <2>5. c = 3 => p \in Three(0, 4, 8, 9)  BY <1>2, BlackholePorts
  <2>6. c = 4 => p \in Three(0, 5, 6, 7)  BY <1>2, BlackholePorts
  <2>7. c = 5 => p \in Three(9, 0, 1, 11)  BY <1>2, BlackholePorts
  <2>8. c = 6 => p \in Three(9, 2, 3, 10)  BY <1>2, BlackholePorts
  <2>9. c = 7 => p \in Three(9, 4, 8, 9)  BY <1>2, BlackholePorts
  <2>10. c = 8 => p \in Three(9, 5, 6, 7)  BY <1>2, BlackholePorts
  <2>11. p = <<p[1], p[2]>>
    BY <2>2, <2>3, <2>4, <2>5, <2>6, <2>7, <2>8, <2>9, <2>10, ThreePorts
  <2>12. /\ c = 1 => p[1] = 0 /\ p[2] \in {0, 1, 11}
         /\ c = 2 => p[1] = 0 /\ p[2] \in {2, 3, 10}
         /\ c = 3 => p[1] = 0 /\ p[2] \in {4, 8, 9}
         /\ c = 4 => p[1] = 0 /\ p[2] \in {5, 6, 7}
         /\ c = 5 => p[1] = 9 /\ p[2] \in {0, 1, 11}
         /\ c = 6 => p[1] = 9 /\ p[2] \in {2, 3, 10}
         /\ c = 7 => p[1] = 9 /\ p[2] \in {4, 8, 9}
         /\ c = 8 => p[1] = 9 /\ p[2] \in {5, 6, 7}
    BY <2>3, <2>4, <2>5, <2>6, <2>7, <2>8, <2>9, <2>10, ThreePorts
  <2>13. c = Channel(FALSE, p)  BY <2>2, <2>12 DEF Channel
  <2>14. p[1] \in {0, 9} /\ p[2] \in 0 .. 11  BY <2>2, <2>12
  <2>15. p[1] \in Columns(FALSE) /\ p[2] \in Rows  BY <2>14 DEF Columns, Rows
  <2>16. QED  BY <1>2, <1>l, <2>1, <2>11, <2>13, <2>14, <2>15
<1>3. QED  BY <1>1, <1>2

LEMMA PairParts ==
  ASSUME NEW p, NEW a, NEW b, p = <<a, b>>
  PROVE  p[1] = a /\ p[2] = b
OBVIOUS

\* Where the Ethernet tiles are.
LEMMA WormholeEth ==
  ASSUME NEW k \in EthIds(TRUE)
  PROVE  /\ k \in 0 .. 15
         /\ EthAt(TRUE, k) = <<EthAt(TRUE, k)[1], EthAt(TRUE, k)[2]>>
         /\ EthAt(TRUE, k)[1] \in TensixX(TRUE)
         /\ EthAt(TRUE, k)[2] = 6 * (k \div 8) /\ EthAt(TRUE, k)[2] \in {0, 6}
         /\ k % 8 = IF EthAt(TRUE, k)[1] <= 4 THEN 2 * EthAt(TRUE, k)[1] - 1
                    ELSE 2 * (9 - EthAt(TRUE, k)[1])
<1> DEFINE r == k % 8
<1> DEFINE x == IF r % 2 = 1 THEN r \div 2 ELSE (6 - r) \div 2 + 4
<1>1. k \in 0 .. 15  BY DEF EthIds
<1>2. r \in 0 .. 7 /\ k \div 8 \in {0, 1}  BY <1>1
<1>3. EthAt(TRUE, k) = << x + (IF x < 4 THEN 1 ELSE 2), 6 * (k \div 8) >>  BY DEF EthAt
<1> DEFINE c == x + (IF x < 4 THEN 1 ELSE 2)
<1>4. /\ r = 0 => c = 9
      /\ r = 1 => c = 1
      /\ r = 2 => c = 8
      /\ r = 3 => c = 2
      /\ r = 4 => c = 7
      /\ r = 5 => c = 3
      /\ r = 6 => c = 6
      /\ r = 7 => c = 4
  <2> HIDE DEF r
  <2>1. QED  OBVIOUS
<1> HIDE DEF r, c, x
<1>5. c \in (1 .. 4) \cup (6 .. 9) /\ r = IF c <= 4 THEN 2 * c - 1 ELSE 2 * (9 - c)  BY <1>2, <1>4
<1>6. EthAt(TRUE, k) = <<c, 6 * (k \div 8)>>  BY <1>3 DEF c
<1>7. EthAt(TRUE, k)[1] = c /\ EthAt(TRUE, k)[2] = 6 * (k \div 8)  BY <1>6, PairParts
<1>8. TensixX(TRUE) = (1 .. 4) \cup (6 .. 9)  BY DEF TensixX
<1>9. 6 * (k \div 8) \in {0, 6}  BY <1>2
<1>10. QED  BY <1>1, <1>5, <1>6, <1>7, <1>8, <1>9 DEF r

LEMMA BlackholeEth ==
  ASSUME NEW k \in EthIds(FALSE)
  PROVE  /\ k \in 0 .. 13
         /\ EthAt(FALSE, k) = <<EthAt(FALSE, k)[1], 1>>
         /\ EthAt(FALSE, k)[1] \in TensixX(FALSE)
         /\ k = IF EthAt(FALSE, k)[1] <= 7 THEN 2 * EthAt(FALSE, k)[1] - 2
                ELSE 33 - 2 * EthAt(FALSE, k)[1]
         /\ EthAt(FALSE, k)[1] = TENSIX_HARVESTING_ORDER[k + 1]
<1> DEFINE x == IF k % 2 = 1 THEN (13 - k) \div 2 + 7 ELSE k \div 2
<1> DEFINE c == x + (IF x < 7 THEN 1 ELSE 3)
<1>1. k \in 0 .. 13  BY DEF EthIds
<1>2. EthAt(FALSE, k) = <<c, 1>>  BY DEF EthAt
<1>3. CASE k % 2 = 0
  <2> DEFINE q == k \div 2
  <2>1. q \in 0 .. 6 /\ k = 2 * q  BY <1>1, <1>3
  <2>2. x = q  BY <1>3
  <2> HIDE DEF x, q
  <2>3. c = q + 1  BY <2>1, <2>2
  <2>4. q + 1 \in 1 .. 7 /\ 2 * (q + 1) - 1 = k + 1  BY <2>1
  <2>5. TENSIX_HARVESTING_ORDER[k + 1] = q + 1  BY <2>4, HarvestingList
  <2>6. c \in 1 .. 7 /\ k = 2 * c - 2  BY <2>1, <2>3
  <2> HIDE DEF c
  <2>7. EthAt(FALSE, k)[1] = c  BY <1>2, PairParts
  <2>8. c \in TensixX(FALSE)  BY <2>6 DEF TensixX
  <2>9. k = (IF c <= 7 THEN 2 * c - 2 ELSE 33 - 2 * c)  BY <2>6
  <2>10. c = TENSIX_HARVESTING_ORDER[k + 1]  BY <2>3, <2>5
  <2>11. EthAt(FALSE, k) = <<EthAt(FALSE, k)[1], 1>>  BY <1>2, <2>7
  <2>12. QED  BY <1>1, <2>7, <2>8, <2>9, <2>10, <2>11
<1>4. CASE k % 2 = 1
  <2> DEFINE q == (k + 1) \div 2
  <2>1. q \in 1 .. 7 /\ k = 2 * q - 1  BY <1>1, <1>4
  <2>2. x = 14 - q  BY <1>1, <1>4
  <2> HIDE DEF x, q
  <2>3. c = 17 - q  BY <2>1, <2>2
  <2>4. 2 * q = k + 1  BY <2>1
  <2>5. TENSIX_HARVESTING_ORDER[k + 1] = 17 - q  BY <2>1, <2>4, HarvestingList
  <2>6. c \in 10 .. 16 /\ k = 33 - 2 * c  BY <2>1, <2>3
  <2> HIDE DEF c
  <2>7. EthAt(FALSE, k)[1] = c  BY <1>2, PairParts
  <2>8. c \in TensixX(FALSE)  BY <2>6 DEF TensixX
  <2>9. k = (IF c <= 7 THEN 2 * c - 2 ELSE 33 - 2 * c)  BY <2>6
  <2>10. c = TENSIX_HARVESTING_ORDER[k + 1]  BY <2>3, <2>5
  <2>11. EthAt(FALSE, k) = <<EthAt(FALSE, k)[1], 1>>  BY <1>2, <2>7
  <2>12. QED  BY <1>1, <2>7, <2>8, <2>9, <2>10, <2>11
<1>5. k % 2 = 0 \/ k % 2 = 1  BY <1>1
<1>6. QED  BY <1>3, <1>4, <1>5

LEMMA TileAtTensix ==
  ASSUME NEW ww \in BOOLEAN, NEW x \in TensixX(ww), NEW y \in TensixY(ww)
  PROVE  TileAt(ww, <<x, y>>) = <<"T", <<x, y>> >>
<1> DEFINE h == {}
<1>1. h \in Masks(ww)  BY DEF Masks
<1>2. 0 \in Nocs  BY DEF Nocs
<1> HIDE DEF h
<1>3. QED  BY <1>1, <1>2, TensixIds

\* Nothing else is where a port of DRAM is.
LEMMA TileAtPort ==
  ASSUME NEW ww \in BOOLEAN, NEW c \in DOMAIN Ports(ww), NEW p \in Ports(ww)[c]
  PROVE  TileAt(ww, p) = <<"D", c - 1>>
<1>1. /\ c = Channel(ww, p) /\ p[1] \in (IF ww THEN {0, 5} ELSE {0, 9})
      /\ ww /\ p[1] = 0 => p[2] \in {0, 1, 11, 5, 6, 7}
      /\ p[2] \in Rows
  BY PortPlaces
<1>2. \A d \in DOMAIN Ports(ww) : p \in Ports(ww)[d] => d = Channel(ww, p)  BY PortPlaces
<1>3. p[1] \notin TensixX(ww)
  <2>1. CASE ww = TRUE  BY <1>1, <2>1 DEF TensixX
  <2>2. CASE ww = FALSE  BY <1>1, <2>2 DEF TensixX
  <2>3. QED  BY <2>1, <2>2
<1>4. ~\E i \in EthIds(ww) : EthAt(ww, i) = p
  <2>1. \A i \in EthIds(ww) : EthAt(ww, i)[1] \in TensixX(ww)
    <3>1. CASE ww = TRUE  BY <3>1, WormholeEth
    <3>2. CASE ww = FALSE  BY <3>2, BlackholeEth
    <3>3. QED  BY <3>1, <3>2
  <2>2. QED  BY <1>3, <2>1
<1>5. (CHOOSE d \in DOMAIN Ports(ww) : p \in Ports(ww)[d]) = c  BY <1>1, <1>2
<1>6. p # PcieAt(ww) /\ p # ArcAt(ww)
  <2>1. CASE ww = TRUE
    <3>1. PcieAt(ww)[1] = 0 /\ PcieAt(ww)[2] = 3 /\ ArcAt(ww)[1] = 0 /\ ArcAt(ww)[2] = 10
      BY <2>1 DEF PcieAt, ArcAt
    <3>2. p[1] = 0 => p[2] # 3 /\ p[2] # 10  BY <1>1, <2>1
    <3>3. QED  BY <3>1, <3>2
  <2>2. CASE ww = FALSE
    <3>1. PcieAt(ww)[1] = 2 /\ ArcAt(ww)[1] = 8  BY <2>2 DEF PcieAt, ArcAt
    <3>2. p[1] # 2 /\ p[1] # 8  BY <1>1, <2>2
    <3>3. QED  BY <3>1, <3>2
  <2>3. QED  BY <2>1, <2>2
<1>7. \E d \in DOMAIN Ports(ww) : p \in Ports(ww)[d]  OBVIOUS
<1> DEFINE ch == CHOOSE d \in DOMAIN Ports(ww) : p \in Ports(ww)[d]
<1>8. TileAt(ww, p) = <<"D", ch - 1>>
  <2>1. ~(p[1] \in TensixX(ww) /\ p[2] \in TensixY(ww))  BY <1>3
  <2>2. QED  BY <1>4, <1>6, <1>7, <2>1 DEF TileAt
<1>9. QED  BY <1>5, <1>8

LEMMA TileAtEth ==
  ASSUME NEW ww \in BOOLEAN, NEW k \in EthIds(ww)
  PROVE  /\ TileAt(ww, EthAt(ww, k)) = <<"E", k>>
         /\ EthAt(ww, k) = <<EthAt(ww, k)[1], EthAt(ww, k)[2]>>
         /\ EthAt(ww, k)[1] \in TensixX(ww) /\ EthAt(ww, k)[2] \in {0, 1, 6}
<1> DEFINE p == EthAt(ww, k)
<1>1. p = <<p[1], p[2]>> /\ p[1] \in TensixX(ww) /\ p[2] \in (IF ww THEN {0, 6} ELSE {1})
  <2>1. CASE ww = TRUE  BY <2>1, WormholeEth
  <2>2. CASE ww = FALSE
    <3>1. p = <<p[1], 1>> /\ p[1] \in TensixX(FALSE)  BY <2>2, BlackholeEth
    <3>2. p[2] = 1
      <4> DEFINE q == p[1]
      <4>1. p = <<q, 1>>  BY <3>1
      <4> HIDE DEF p, q
      <4>2. QED  BY <4>1, PairParts
    <3>3. QED  BY <2>2, <3>1, <3>2
  <2>3. QED  BY <2>1, <2>2
<1>2. \A i \in EthIds(ww) : EthAt(ww, i) = p => i = k
  <2> SUFFICES ASSUME NEW i \in EthIds(ww), EthAt(ww, i) = p PROVE i = k  OBVIOUS
  <2>1. CASE ww = TRUE
    <3>1. k \in 0 .. 15 /\ p[2] = 6 * (k \div 8)
          /\ k % 8 = IF p[1] <= 4 THEN 2 * p[1] - 1 ELSE 2 * (9 - p[1])
      BY <2>1, WormholeEth
    <3>2. i \in 0 .. 15 /\ p[2] = 6 * (i \div 8)
          /\ i % 8 = IF p[1] <= 4 THEN 2 * p[1] - 1 ELSE 2 * (9 - p[1])
      BY <2>1, WormholeEth
    <3> HIDE DEF p
    <3>3. i % 8 = k % 8  BY <3>1, <3>2
    <3>4. 6 * (i \div 8) = 6 * (k \div 8)  BY <3>1, <3>2
    <3>5. i \div 8 = k \div 8  BY <3>1, <3>2, <3>4
    <3>6. QED  BY <3>1, <3>2, <3>3, <3>5
  <2>2. CASE ww = FALSE
    <3>1. k = IF p[1] <= 7 THEN 2 * p[1] - 2 ELSE 33 - 2 * p[1]  BY <2>2, BlackholeEth
    <3>2. i = IF p[1] <= 7 THEN 2 * p[1] - 2 ELSE 33 - 2 * p[1]  BY <2>2, BlackholeEth
    <3>3. QED  BY <3>1, <3>2
  <2>3. QED  BY <2>1, <2>2
<1>3. p[2] \notin TensixY(ww)
  <2>1. p[2] \in IF ww THEN {0, 6} ELSE {1}  BY <1>1
  <2> HIDE DEF p
  <2>2. CASE ww = TRUE
    <3>1. p[2] \in {0, 6}  BY <2>1, <2>2
    <3>2. 0 \notin TensixY(TRUE) /\ 6 \notin TensixY(TRUE)  BY DEF TensixY
    <3>3. p[2] \notin TensixY(TRUE)  BY <3>1, <3>2
    <3>4. QED  BY <2>2, <3>3
  <2>3. CASE ww = FALSE
    <3>1. p[2] = 1  BY <2>1, <2>3
    <3>2. 1 \notin TensixY(FALSE)  BY DEF TensixY
    <3>3. p[2] \notin TensixY(FALSE)  BY <3>1, <3>2
    <3>4. QED  BY <2>3, <3>3
  <2>4. QED  BY <2>2, <2>3
<1> HIDE DEF p
<1>4. (CHOOSE i \in EthIds(ww) : EthAt(ww, i) = p) = k  BY <1>2 DEF p
<1>5. \E i \in EthIds(ww) : EthAt(ww, i) = p  BY DEF p
<1>6. ~\E c \in DOMAIN Ports(ww) : p \in Ports(ww)[c]
  <2>1. SUFFICES ASSUME NEW c \in DOMAIN Ports(ww), p \in Ports(ww)[c] PROVE FALSE  OBVIOUS
  <2>2. p[1] \in IF ww THEN {0, 5} ELSE {0, 9}  BY <2>1, PortPlaces
  <2>3. CASE ww = TRUE  BY <1>1, <2>2, <2>3 DEF TensixX
  <2>4. CASE ww = FALSE  BY <1>1, <2>2, <2>4 DEF TensixX
  <2>5. QED  BY <2>3, <2>4
<1>7. p # PcieAt(ww) /\ p # ArcAt(ww)
  <2>1. CASE ww = TRUE
    <3>1. PcieAt(ww)[1] = 0 /\ ArcAt(ww)[1] = 0  BY <2>1 DEF PcieAt, ArcAt
    <3>2. p[1] # 0  BY <1>1, <2>1 DEF TensixX
    <3>3. QED  BY <3>1, <3>2
  <2>2. CASE ww = FALSE
    <3>1. PcieAt(ww)[2] = 0 /\ ArcAt(ww)[2] = 0  BY <2>2 DEF PcieAt, ArcAt
    <3>2. p[2] # 0  BY <1>1, <2>2
    <3>3. QED  BY <3>1, <3>2
  <2>3. QED  BY <2>1, <2>2
<1> DEFINE e == CHOOSE i \in EthIds(ww) : EthAt(ww, i) = p
<1>8. TileAt(ww, p) = <<"E", e>>  BY <1>3, <1>5, <1>6, <1>7 DEF TileAt
<1>9. p[2] \in {0, 1, 6}  BY <1>1
<1>10. QED  BY <1>1, <1>4, <1>8, <1>9 DEF p

LEMMA TileAtPcie ==
  ASSUME NEW ww \in BOOLEAN
  PROVE  TileAt(ww, PcieAt(ww)) = <<"P", 0>> /\ TileAt(ww, ArcAt(ww)) = <<"A", 0>>
<1>1. ASSUME NEW p \in {PcieAt(ww), ArcAt(ww)}
      PROVE  /\ ~(p[1] \in TensixX(ww) /\ p[2] \in TensixY(ww))
             /\ ~\E i \in EthIds(ww) : EthAt(ww, i) = p
             /\ ~\E c \in DOMAIN Ports(ww) : p \in Ports(ww)[c]
  <2>1. CASE ww = TRUE
    <3>1. p[1] = 0 /\ p[2] \in {3, 10}  BY <2>1 DEF PcieAt, ArcAt
    <3>2. 0 \notin TensixX(TRUE)  BY DEF TensixX
    <3>3. ~\E i \in EthIds(TRUE) : EthAt(TRUE, i) = p  BY <3>1, <3>2, WormholeEth
    <3>4. ~\E c \in DOMAIN Ports(TRUE) : p \in Ports(TRUE)[c]
      <4>1. SUFFICES ASSUME NEW c \in DOMAIN Ports(TRUE), p \in Ports(TRUE)[c] PROVE FALSE  OBVIOUS
      <4>2. p[1] = 0 => p[2] \in {0, 1, 11, 5, 6, 7}  BY <4>1, PortPlaces
      <4>3. QED  BY <3>1, <4>2
    <3>5. QED  BY <2>1, <3>1, <3>2, <3>3, <3>4
  <2>2. CASE ww = FALSE
    <3>1. p[1] \in {2, 8} /\ p[2] = 0  BY <2>2 DEF PcieAt, ArcAt
    <3>2. 0 \notin TensixY(FALSE)  BY DEF TensixY
    <3>3. ~\E i \in EthIds(FALSE) : EthAt(FALSE, i) = p
      <4>1. SUFFICES ASSUME NEW i \in EthIds(FALSE), EthAt(FALSE, i) = p PROVE FALSE  OBVIOUS
      <4> DEFINE x == p[1]
      <4>2. p = <<x, 1>>  BY <4>1, BlackholeEth
      <4> HIDE DEF x
      <4>3. p[2] = 1  BY <4>2, PairParts
      <4>4. QED  BY <3>1, <4>3
    <3>4. ~\E c \in DOMAIN Ports(FALSE) : p \in Ports(FALSE)[c]
      <4>1. SUFFICES ASSUME NEW c \in DOMAIN Ports(FALSE), p \in Ports(FALSE)[c] PROVE FALSE  OBVIOUS
      <4>2. p[1] \in {0, 9}  BY <4>1, PortColumns
      <4>3. QED  BY <3>1, <4>2
    <3>5. QED  BY <2>2, <3>1, <3>2, <3>3, <3>4
  <2>3. QED  BY <2>1, <2>2
<1>2. PcieAt(ww) # ArcAt(ww)
  <2>1. CASE ww = TRUE
    <3>1. PcieAt(ww)[2] = 3 /\ ArcAt(ww)[2] = 10  BY <2>1 DEF PcieAt, ArcAt
    <3>2. QED  BY <3>1
  <2>2. CASE ww = FALSE
    <3>1. PcieAt(ww)[1] = 2 /\ ArcAt(ww)[1] = 8  BY <2>2 DEF PcieAt, ArcAt
    <3>2. QED  BY <3>1
  <2>3. QED  BY <2>1, <2>2
<1>3. TileAt(ww, PcieAt(ww)) = <<"P", 0>>
  <2> DEFINE p == PcieAt(ww)
  <2>1. /\ ~(p[1] \in TensixX(ww) /\ p[2] \in TensixY(ww))
        /\ ~\E i \in EthIds(ww) : EthAt(ww, i) = p
        /\ ~\E c \in DOMAIN Ports(ww) : p \in Ports(ww)[c]
    BY <1>1
  <2>2. p = PcieAt(ww) /\ p # ArcAt(ww)  BY <1>2
  <2> HIDE DEF p
  <2>3. TileAt(ww, p) = <<"P", 0>>  BY <2>1, <2>2 DEF TileAt
  <2>4. QED  BY <2>3 DEF p
<1>4. TileAt(ww, ArcAt(ww)) = <<"A", 0>>
  <2> DEFINE p == ArcAt(ww)
  <2>1. /\ ~(p[1] \in TensixX(ww) /\ p[2] \in TensixY(ww))
        /\ ~\E i \in EthIds(ww) : EthAt(ww, i) = p
        /\ ~\E c \in DOMAIN Ports(ww) : p \in Ports(ww)[c]
    BY <1>1
  <2>2. p = ArcAt(ww) /\ p # PcieAt(ww)  BY <1>2
  <2> HIDE DEF p
  <2>3. TileAt(ww, p) = <<"A", 0>>  BY <2>1, <2>2 DEF TileAt
  <2>4. QED  BY <2>3 DEF p
<1>5. QED  BY <1>3, <1>4

-----------------------------------------------------------------------------
(* A name leads to the tile that has it.                                   *)

\* What the coordinates become, before the mirroring of NoC 1.
Inner(ww, h, n, on, xy) ==
  << IF on /\ (ww \/ xy[2] \notin {0, 1}) THEN TableX(ww, h, n)[xy[1]] ELSE xy[1],
     IF on THEN TableY(ww, h, n)[xy[2]] ELSE xy[2] >>

Reaches(ww, h, n, on, xy, t) ==
  Leads(ww, h, n, on, xy) # Nowhere /\ TileAt(ww, Leads(ww, h, n, on, xy)) = t

LEMMA LeadsTo ==
  ASSUME NEW ww \in BOOLEAN, NEW h, NEW n \in Nocs, NEW on \in BOOLEAN, NEW xy, NEW t,
         NEW x \in Columns(ww), NEW y \in Rows, TileAt(ww, <<x, y>>) = t,
         Inner(ww, h, n, on, xy) = <<MirrorX(ww, n, x), MirrorY(n, y)>>
  PROVE  Reaches(ww, h, n, on, xy, t)
<1> DEFINE a == IF on /\ (ww \/ xy[2] \notin {0, 1}) THEN TableX(ww, h, n)[xy[1]] ELSE xy[1]
<1> DEFINE b == IF on THEN TableY(ww, h, n)[xy[2]] ELSE xy[2]
<1> DEFINE mx == MirrorX(ww, n, x)
<1> DEFINE my == MirrorY(n, y)
<1>1. mx \in Columns(ww) /\ my \in Rows /\ MirrorX(ww, n, mx) = x /\ MirrorY(n, my) = y
  BY MirrorsX, MirrorsY
<1>2. <<a, b>> = <<mx, my>>  BY DEF Inner
<1>3. Leads(ww, h, n, on, xy)
        = IF a \notin Columns(ww) \/ b \notin Rows THEN Nowhere
          ELSE <<MirrorX(ww, n, a), MirrorY(n, b)>>
  BY DEF Leads, Remap
<1> HIDE DEF a, b, mx, my
<1>4. a = mx /\ b = my  BY <1>2
<1>5. Leads(ww, h, n, on, xy) = <<x, y>>  BY <1>1, <1>3, <1>4
<1>6. <<x, y>> # Nowhere
  <2>1. x \in 0 .. 16  BY DEF Columns
  <2>2. QED  BY <2>1 DEF Nowhere
<1>7. QED  BY <1>5, <1>6 DEF Reaches

\* The entries of the tables that are not for Tensix tiles.
LEMMA WormholeEntries ==
  ASSUME NEW h, NEW n \in Nocs
  PROVE  /\ \A v \in 0 .. 15 : TableX(TRUE, h, n)[v] = v /\ TableY(TRUE, h, n)[v] = v
         /\ TableX(TRUE, h, n)[16] = MirrorX(TRUE, n, 0) /\ TableX(TRUE, h, n)[17] = MirrorX(TRUE, n, 5)
         /\ TableY(TRUE, h, n)[16] = MirrorY(n, 0) /\ TableY(TRUE, h, n)[17] = MirrorY(n, 6)
<1>1. ASSUME NEW v \in 0 .. 15 PROVE TableX(TRUE, h, n)[v] = v /\ TableY(TRUE, h, n)[v] = v
  <2>1. /\ v \in 0 .. 31 /\ v <= 15 /\ v # 16 /\ v # 17
        /\ v \notin 18 .. 25 /\ v \notin 18 .. 27
    OBVIOUS
  <2>2. PhysicalX(TRUE, ColumnOrder(h), v) = v  BY <2>1 DEF PhysicalX
  <2>3. PhysicalY(TRUE, RowOrder(h), v) = v  BY <2>1 DEF PhysicalY
  <2>4. QED  BY <2>1, <2>2, <2>3 DEF TableX, TableY
<1>2. PhysicalX(TRUE, ColumnOrder(h), 16) = 0 /\ PhysicalX(TRUE, ColumnOrder(h), 17) = 5  BY DEF PhysicalX
<1>3. PhysicalY(TRUE, RowOrder(h), 16) = 0 /\ PhysicalY(TRUE, RowOrder(h), 17) = 6  BY DEF PhysicalY
<1>4. ASSUME NEW v \in 16 .. 17
      PROVE  /\ TableX(TRUE, h, n)[v] = MirrorX(TRUE, n, PhysicalX(TRUE, ColumnOrder(h), v))
             /\ TableY(TRUE, h, n)[v] = MirrorY(n, PhysicalY(TRUE, RowOrder(h), v))
  <2>1. v \in 0 .. 31 /\ ~(v <= 15) /\ ~(v > 25) /\ ~(v > 27)  OBVIOUS
  <2>2. QED  BY <2>1 DEF TableX, TableY
<1>5. /\ TableX(TRUE, h, n)[16] = MirrorX(TRUE, n, 0) /\ TableX(TRUE, h, n)[17] = MirrorX(TRUE, n, 5)
      /\ TableY(TRUE, h, n)[16] = MirrorY(n, 0) /\ TableY(TRUE, h, n)[17] = MirrorY(n, 6)
  <2>1. 16 \in 16 .. 17 /\ 17 \in 16 .. 17  OBVIOUS
  <2>2. QED  BY <1>2, <1>3, <1>4, <2>1
<1>6. QED  BY <1>1, <1>5

LEMMA BlackholeEntries ==
  ASSUME NEW h, NEW n \in Nocs
  PROVE  /\ TableX(FALSE, h, n)[17] = MirrorX(FALSE, n, 0)
         /\ TableX(FALSE, h, n)[18] = MirrorX(FALSE, n, 9)
         /\ TableX(FALSE, h, n)[19] = MirrorX(FALSE, n, 2)
         /\ \A k \in 0 .. 11 :
              TableX(FALSE, h, n)[20 + k] = MirrorX(FALSE, n, TENSIX_HARVESTING_ORDER[k + 1])
         /\ \A v \in 0 .. 11 : TableY(FALSE, h, n)[v] = MirrorY(n, v)
         /\ \A v \in 12 .. 23 : TableY(FALSE, h, n)[v] = MirrorY(n, GDDR_ROWS[v - 11])
         /\ TableY(FALSE, h, n)[24] = MirrorY(n, 0) /\ TableY(FALSE, h, n)[25] = MirrorY(n, 1)
<1> DEFINE order == ColumnOrder(h)
<1>1. ASSUME NEW v \in 17 .. 31 PROVE v \notin ToSet(TENSIX_COLUMNS(FALSE))
  <2> DEFINE s == TENSIX_COLUMNS(FALSE)
  <2>1. Len(s) = 14 /\ \A k \in 1 .. 14 : s[k] = IF k <= 7 THEN k ELSE k + 2  BY ColumnList
  <2>2. DOMAIN s = 1 .. 14  BY DEF TENSIX_COLUMNS
  <2> HIDE DEF s
  <2>3. \A k \in 1 .. 14 : s[k] # v  BY <2>1
  <2>4. v \notin ToSet(s)  BY <2>2, <2>3 DEF ToSet
  <2>5. QED  BY <2>4 DEF s
<1>2. ASSUME NEW v \in 17 .. 31
      PROVE  TableX(FALSE, h, n)[v] = MirrorX(FALSE, n, PhysicalX(FALSE, order, v))
  <2>1. v \in 0 .. 31  OBVIOUS
  <2>2. QED  BY <2>1 DEF TableX
<1>3. ASSUME NEW v \in 0 .. 31
      PROVE  TableY(FALSE, h, n)[v] = MirrorY(n, PhysicalY(FALSE, RowOrder(h), v))
  BY DEF TableY
<1> HIDE DEF order
<1>4. PhysicalX(FALSE, order, 17) = 0 /\ PhysicalX(FALSE, order, 18) = 9
      /\ PhysicalX(FALSE, order, 19) = 2
  BY <1>1 DEF PhysicalX, LiveEth
<1>5. ASSUME NEW k \in 0 .. 11
      PROVE  PhysicalX(FALSE, order, 20 + k) = TENSIX_HARVESTING_ORDER[k + 1]
  <2>1. 20 + k \in 17 .. 31 /\ 20 + k \notin {8, 9} /\ 20 + k # 18 /\ 20 + k # 19
        /\ 20 + k \in 20 .. 19 + LiveEth /\ (20 + k) - 19 = k + 1
    BY DEF LiveEth
  <2>2. 20 + k \notin ToSet(TENSIX_COLUMNS(FALSE))  BY <1>1, <2>1
  <2>3. QED  BY <2>1, <2>2 DEF PhysicalX
<1>6. \A v \in 0 .. 11 : PhysicalY(FALSE, RowOrder(h), v) = v  BY DEF PhysicalY
<1>7. ASSUME NEW v \in 12 .. 23 PROVE PhysicalY(FALSE, RowOrder(h), v) = GDDR_ROWS[v - 11]
  <2>1. ~(v <= 11)  OBVIOUS
  <2>2. QED  BY <2>1 DEF PhysicalY
<1>8. PhysicalY(FALSE, RowOrder(h), 24) = 0 /\ PhysicalY(FALSE, RowOrder(h), 25) = 1
  <2>1. ASSUME NEW v \in 24 .. 25
        PROVE  PhysicalY(FALSE, RowOrder(h), v) = IF v = 25 THEN 1 ELSE 0
    <3>1. ~(v <= 11) /\ v \notin 12 .. 23  OBVIOUS
    <3>2. QED  BY <3>1 DEF PhysicalY
  <2>2. 24 \in 24 .. 25 /\ 25 \in 24 .. 25 /\ 24 # 25  OBVIOUS
  <2>3. QED  BY <2>1, <2>2
<1>9. \A k \in 0 .. 11 :
        TableX(FALSE, h, n)[20 + k] = MirrorX(FALSE, n, TENSIX_HARVESTING_ORDER[k + 1])
  <2> SUFFICES ASSUME NEW k \in 0 .. 11
               PROVE  TableX(FALSE, h, n)[20 + k] = MirrorX(FALSE, n, TENSIX_HARVESTING_ORDER[k + 1])
    OBVIOUS
  <2>1. 20 + k \in 17 .. 31  OBVIOUS
  <2>2. QED  BY <1>2, <1>5, <2>1
<1>10. /\ TableX(FALSE, h, n)[17] = MirrorX(FALSE, n, 0)
       /\ TableX(FALSE, h, n)[18] = MirrorX(FALSE, n, 9)
       /\ TableX(FALSE, h, n)[19] = MirrorX(FALSE, n, 2)
  <2>1. 17 \in 17 .. 31 /\ 18 \in 17 .. 31 /\ 19 \in 17 .. 31  OBVIOUS
  <2>2. QED  BY <1>2, <1>4, <2>1
<1>11. \A v \in 0 .. 11 : TableY(FALSE, h, n)[v] = MirrorY(n, v)
  <2> SUFFICES ASSUME NEW v \in 0 .. 11 PROVE TableY(FALSE, h, n)[v] = MirrorY(n, v)  OBVIOUS
  <2>1. v \in 0 .. 31  OBVIOUS
  <2>2. QED  BY <1>3, <1>6, <2>1
<1>12. \A v \in 12 .. 23 : TableY(FALSE, h, n)[v] = MirrorY(n, GDDR_ROWS[v - 11])
  <2> SUFFICES ASSUME NEW v \in 12 .. 23
               PROVE  TableY(FALSE, h, n)[v] = MirrorY(n, GDDR_ROWS[v - 11])
    OBVIOUS
  <2>1. v \in 0 .. 31  OBVIOUS
  <2>2. QED  BY <1>3, <1>7, <2>1
<1>13. TableY(FALSE, h, n)[24] = MirrorY(n, 0) /\ TableY(FALSE, h, n)[25] = MirrorY(n, 1)
  <2>1. 24 \in 0 .. 31 /\ 25 \in 0 .. 31  OBVIOUS
  <2>2. QED  BY <1>3, <1>8, <2>1
<1>14. QED  BY <1>9, <1>10, <1>11, <1>12, <1>13

\* The tiles with a NIU of their own, by their kinds, and where they are.
LEMMA Kinds ==
  ASSUME NEW ww, NEW h, NEW n, NEW t \in DOMAIN Ids(ww, h, n)
  PROVE  \/ \E x \in TensixX(ww), y \in TensixY(ww) : t = <<"T", <<x, y>> >>
         \/ \E k \in EthIds(ww) : t = <<"E", k>>
         \/ t = <<"P", 0>> \/ t = <<"A", 0>>
<1>1. t \in Tiles(ww) /\ t[1] # "D"  BY DEF Ids
<1>2. CASE t \in {<<"T", xy>> : xy \in TensixX(ww) \X TensixY(ww)}
  <2>1. PICK xy \in TensixX(ww) \X TensixY(ww) : t = <<"T", xy>>  BY <1>2
  <2>2. xy = <<xy[1], xy[2]>> /\ xy[1] \in TensixX(ww) /\ xy[2] \in TensixY(ww)  BY <2>1
  <2>3. QED  BY <2>1, <2>2
<1>3. CASE t \in {<<"D", c>> : c \in 0 .. Len(Ports(ww)) - 1}
  <2>1. t[1] = "D"  BY <1>3
  <2>2. QED  BY <1>1, <2>1
<1>4. QED  BY <1>1, <1>2, <1>3 DEF Tiles

LEMMA KindGiven ==
  ASSUME NEW ww, NEW h, NEW n, NEW t \in DOMAIN Ids(ww, h, n)
  PROVE  /\ t[1] = "T" \/ t[1] = "E" \/ t[1] = "P" \/ t[1] = "A"
         /\ t[1] = "T" => \E x \in TensixX(ww), y \in TensixY(ww) : t = <<"T", <<x, y>> >>
         /\ t[1] = "E" => \E k \in EthIds(ww) : t = <<"E", k>>
         /\ t[1] = "P" => t = <<"P", 0>>
         /\ t[1] = "A" => t = <<"A", 0>>
<1>1. ASSUME NEW a, NEW b, t = <<a, b>> PROVE t[1] = a  BY <1>1, PairParts
<1> DEFINE isT == \E x \in TensixX(ww), y \in TensixY(ww) : t = <<"T", <<x, y>> >>
<1> DEFINE isE == \E k \in EthIds(ww) : t = <<"E", k>>
<1>2. isT => t[1] = "T"  BY <1>1
<1>3. isE => t[1] = "E"  BY <1>1
<1>4. t = <<"P", 0>> => t[1] = "P"  BY <1>1
<1>5. t = <<"A", 0>> => t[1] = "A"  BY <1>1
<1>6. isT \/ isE \/ t = <<"P", 0>> \/ t = <<"A", 0>>  BY Kinds
<1> HIDE DEF isT, isE
<1>7. /\ t[1] = "T" \/ t[1] = "E" \/ t[1] = "P" \/ t[1] = "A"
      /\ t[1] = "T" => isT
      /\ t[1] = "E" => isE
      /\ t[1] = "P" => t = <<"P", 0>>
      /\ t[1] = "A" => t = <<"A", 0>>
  BY <1>2, <1>3, <1>4, <1>5, <1>6
<1>8. QED  BY <1>7 DEF isT, isE

PlacedAt(ww, t, x, y) ==
  x \in Columns(ww) /\ y \in Rows /\ Coord(ww, t) = <<x, y>> /\ TileAt(ww, <<x, y>>) = t

LEMMA TilePlaces ==
  ASSUME NEW ww \in BOOLEAN, NEW h, NEW n, NEW t \in DOMAIN Ids(ww, h, n)
  PROVE  \E x, y : PlacedAt(ww, t, x, y)
<1>1. CASE \E x \in TensixX(ww), y \in TensixY(ww) : t = <<"T", <<x, y>> >>
  <2>1. PICK x \in TensixX(ww), y \in TensixY(ww) : t = <<"T", <<x, y>> >>  BY <1>1
  <2>2. x \in Columns(ww) /\ y \in Rows  BY DEF TensixX, TensixY, Columns, Rows
  <2>3. Coord(ww, t) = <<x, y>>  BY <2>1 DEF Coord
  <2>4. TileAt(ww, <<x, y>>) = t  BY <2>1, TileAtTensix
  <2>5. QED  BY <2>2, <2>3, <2>4 DEF PlacedAt
<1>2. CASE \E k \in EthIds(ww) : t = <<"E", k>>
  <2>1. PICK k \in EthIds(ww) : t = <<"E", k>>  BY <1>2
  <2> DEFINE x == EthAt(ww, k)[1]
  <2> DEFINE y == EthAt(ww, k)[2]
  <2>2. EthAt(ww, k) = <<x, y>> /\ TileAt(ww, EthAt(ww, k)) = t /\ x \in TensixX(ww) /\ y \in {0, 1, 6}
    BY <2>1, TileAtEth
  <2>3. Coord(ww, t) = EthAt(ww, k)  BY <2>1 DEF Coord
  <2> HIDE DEF x, y
  <2>4. x \in Columns(ww) /\ y \in Rows  BY <2>2 DEF TensixX, Columns, Rows
  <2>5. PlacedAt(ww, t, x, y)  BY <2>2, <2>3, <2>4 DEF PlacedAt
  <2>6. QED  BY <2>5
<1>3. CASE t = <<"P", 0>>
  <2> DEFINE x == IF ww THEN 0 ELSE 2
  <2> DEFINE y == IF ww THEN 3 ELSE 0
  <2>1. PcieAt(ww) = <<x, y>>  BY DEF PcieAt
  <2>2. x \in Columns(ww) /\ y \in Rows  BY DEF Columns, Rows
  <2>3. Coord(ww, t) = PcieAt(ww)  BY <1>3 DEF Coord
  <2>4. TileAt(ww, PcieAt(ww)) = t  BY <1>3, TileAtPcie
  <2> HIDE DEF x, y
  <2>5. PlacedAt(ww, t, x, y)  BY <2>1, <2>2, <2>3, <2>4 DEF PlacedAt
  <2>6. QED  BY <2>5
<1>4. CASE t = <<"A", 0>>
  <2> DEFINE x == IF ww THEN 0 ELSE 8
  <2> DEFINE y == IF ww THEN 10 ELSE 0
  <2>1. ArcAt(ww) = <<x, y>>  BY DEF ArcAt
  <2>2. x \in Columns(ww) /\ y \in Rows  BY DEF Columns, Rows
  <2>3. Coord(ww, t) = ArcAt(ww)  BY <1>4 DEF Coord
  <2>4. TileAt(ww, ArcAt(ww)) = t  BY <1>4, TileAtPcie
  <2> HIDE DEF x, y
  <2>5. PlacedAt(ww, t, x, y)  BY <2>1, <2>2, <2>3, <2>4 DEF PlacedAt
  <2>6. QED  BY <2>5
<1>5. QED  BY <1>1, <1>2, <1>3, <1>4, Kinds

\* By its NOC_NODE_ID.
LEMMA NodeReaches ==
  ASSUME NEW ww \in BOOLEAN, NEW h, NEW n \in Nocs, NEW on \in BOOLEAN,
         NEW t \in DOMAIN Ids(ww, h, n), on \/ ~ww,
         ww \/ ~on \/ (n = 0 /\ Coord(ww, t)[2] \in {0, 1})
  PROVE  Reaches(ww, h, n, on, NodeId(ww, n, t), t)
<1>1. PICK x, y : PlacedAt(ww, t, x, y)  BY TilePlaces
<1>2. /\ x \in Columns(ww) /\ y \in Rows
      /\ Coord(ww, t) = <<x, y>> /\ TileAt(ww, <<x, y>>) = t
  BY <1>1 DEF PlacedAt
<1> DEFINE a == MirrorX(ww, n, x)
<1> DEFINE b == MirrorY(n, y)
<1>3. NodeId(ww, n, t) = <<a, b>>  BY <1>2 DEF NodeId
<1>4. a \in Columns(ww) /\ b \in Rows  BY <1>2, MirrorsX, MirrorsY
<1>5. Coord(ww, t)[2] = y  BY <1>2
<1> DEFINE xy == <<a, b>>
<1>6. xy[1] = a /\ xy[2] = b  OBVIOUS
<1>7. Inner(ww, h, n, on, xy) = <<a, b>>
  <2>1. CASE ww = TRUE
    <3>1. a \in 0 .. 15 /\ b \in 0 .. 15
      <4> HIDE DEF a, b
      <4>1. QED  BY <1>4, <2>1 DEF Columns, Rows
    <3> HIDE DEF a, b, xy
    <3>2. TableX(TRUE, h, n)[a] = a /\ TableY(TRUE, h, n)[b] = b  BY <3>1, WormholeEntries
    <3>3. QED  BY <1>6, <2>1, <3>2 DEF Inner
  <2>2. CASE ww = FALSE /\ on = FALSE
    <3> HIDE DEF a, b, xy
    <3>1. QED  BY <1>6, <2>2 DEF Inner
  <2>3. CASE ww = FALSE /\ on = TRUE
    <3>1. n = 0 /\ y \in {0, 1}  BY <1>5, <2>3
    <3>2. b = y  BY <3>1 DEF MirrorY
    <3>3. y \in 0 .. 11  BY <3>1
    <3>4. TableY(FALSE, h, n)[y] = MirrorY(n, y)  BY <3>3, BlackholeEntries
    <3>5. TableY(FALSE, h, n)[b] = b  BY <3>2, <3>4
    <3> HIDE DEF a, b, xy
    <3>6. b \in {0, 1}  BY <3>1, <3>2
    <3>7. QED  BY <1>6, <2>3, <3>5, <3>6 DEF Inner
  <2>4. QED  BY <2>1, <2>2, <2>3
<1>8. Inner(ww, h, n, on, xy) = <<MirrorX(ww, n, x), MirrorY(n, y)>>  BY <1>7
<1> HIDE DEF xy, a, b
<1>9. Reaches(ww, h, n, on, xy, t)  BY <1>2, <1>8, LeadsTo
<1>10. QED  BY <1>3, <1>9 DEF xy

\* By its NOC_ID_LOGICAL, but for the Ethernet tiles that are fused off.
LEMMA EdgeIds ==
  ASSUME NEW h, NEW n \in Nocs
  PROVE  /\ Find(TableX(TRUE, h, n), MirrorX(TRUE, n, 0), 16 .. 17) = 16
         /\ Find(TableY(TRUE, h, n), MirrorY(n, 0), 16 .. 17) = 16
         /\ Find(TableY(TRUE, h, n), MirrorY(n, 6), 16 .. 17) = 17
<1> DEFINE tx == TableX(TRUE, h, n)
<1> DEFINE ty == TableY(TRUE, h, n)
<1> DEFINE range == 16 .. 17
<1> DEFINE x0 == MirrorX(TRUE, n, 0)
<1> DEFINE y0 == MirrorY(n, 0)
<1> DEFINE y6 == MirrorY(n, 6)
<1>1. tx[16] = x0 /\ tx[17] = MirrorX(TRUE, n, 5) /\ ty[16] = y0 /\ ty[17] = y6
  BY WormholeEntries
<1>2. x0 # MirrorX(TRUE, n, 5) /\ y0 # y6  BY DEF MirrorX, MirrorY, LastX, LastY, Nocs
<1>3. range \in SUBSET Int /\ 16 \in range /\ 17 \in range /\ \A j \in range : j = 16 \/ j = 17
  OBVIOUS
<1> HIDE DEF tx, ty, range, x0, y0, y6
<1>4. \A j \in range : tx[j] = x0 => j = 16  BY <1>1, <1>2, <1>3
<1>5. \A j \in range : ty[j] = y0 => j = 16  BY <1>1, <1>2, <1>3
<1>6. \A j \in range : ty[j] = y6 => j = 17  BY <1>1, <1>2, <1>3
<1>7. Find(tx, x0, range) = 16  BY <1>1, <1>3, <1>4, FindOnly
<1>8. Find(ty, y0, range) = 16  BY <1>1, <1>3, <1>5, FindOnly
<1>9. Find(ty, y6, range) = 17  BY <1>1, <1>3, <1>6, FindOnly
<1>10. QED  BY <1>7, <1>8, <1>9 DEF tx, ty, range, x0, y0, y6

HasId(ww, h, n, t, id) == Ids(ww, h, n)[t] = id
EthId(h, n, x, y) == <<Find(TableX(TRUE, h, n), MirrorX(TRUE, n, x), 18 .. 25),
                       Find(TableY(TRUE, h, n), MirrorY(n, y), 16 .. 17)>>
EdgeId(h, n, x, y) == <<Find(TableX(TRUE, h, n), MirrorX(TRUE, n, x), 16 .. 17), MirrorY(n, y)>>

LEMMA WormholeEthId ==
  ASSUME NEW h, NEW n, NEW t \in DOMAIN Ids(TRUE, h, n), NEW x, NEW y, PlacedAt(TRUE, t, x, y),
         t[1] = "E"
  PROVE  HasId(TRUE, h, n, t, EthId(h, n, x, y))
<1> DEFINE tx == TableX(TRUE, h, n)
<1> DEFINE ty == TableY(TRUE, h, n)
<1>1. Ids(TRUE, h, n)[t] = LogicalId(TRUE, tx, ty, n, t)  BY DEF Ids
<1>2. Coord(TRUE, t) = <<x, y>>  BY DEF PlacedAt
<1> HIDE DEF tx, ty
<1>3. Coord(TRUE, t)[1] = x /\ Coord(TRUE, t)[2] = y  BY <1>2, PairParts
<1>4. LogicalId(TRUE, tx, ty, n, t) = <<Find(tx, MirrorX(TRUE, n, Coord(TRUE, t)[1]), 18 .. 25),
                                        Find(ty, MirrorY(n, Coord(TRUE, t)[2]), 16 .. 17)>>
  BY DEF LogicalId
<1>5. QED  BY <1>1, <1>3, <1>4, Zenon DEF tx, ty, HasId, EthId

LEMMA WormholeEdgeId ==
  ASSUME NEW h, NEW n, NEW t \in DOMAIN Ids(TRUE, h, n), NEW x, NEW y, PlacedAt(TRUE, t, x, y),
         t[1] = "P" \/ t[1] = "A"
  PROVE  HasId(TRUE, h, n, t, EdgeId(h, n, x, y))
<1> DEFINE tx == TableX(TRUE, h, n)
<1> DEFINE ty == TableY(TRUE, h, n)
<1>1. Ids(TRUE, h, n)[t] = LogicalId(TRUE, tx, ty, n, t)  BY DEF Ids
<1>2. Coord(TRUE, t) = <<x, y>>  BY DEF PlacedAt
<1> HIDE DEF tx, ty
<1>3. Coord(TRUE, t)[1] = x /\ Coord(TRUE, t)[2] = y  BY <1>2, PairParts
<1>4. LogicalId(TRUE, tx, ty, n, t) = <<Find(tx, MirrorX(TRUE, n, Coord(TRUE, t)[1]), 16 .. 17),
                                        MirrorY(n, Coord(TRUE, t)[2])>>
  BY DEF LogicalId
<1>5. QED  BY <1>1, <1>3, <1>4, Zenon DEF tx, ty, HasId, EdgeId

LEMMA BlackholeEthId ==
  ASSUME NEW h, NEW n, NEW t \in DOMAIN Ids(FALSE, h, n), t[1] = "E", t[2] < LiveEth
  PROVE  HasId(FALSE, h, n, t, <<20 + t[2], 25>>)
<1> DEFINE tx == TableX(FALSE, h, n)
<1> DEFINE ty == TableY(FALSE, h, n)
<1>1. Ids(FALSE, h, n)[t] = LogicalId(FALSE, tx, ty, n, t)  BY DEF Ids
<1> HIDE DEF tx, ty
<1>2. LogicalId(FALSE, tx, ty, n, t) = <<20 + t[2], 25>>  BY DEF LogicalId
<1>3. QED  BY <1>1, <1>2, Zenon DEF HasId

LEMMA BlackholePcieId ==
  ASSUME NEW h, NEW n, NEW t \in DOMAIN Ids(FALSE, h, n), t[1] = "P"
  PROVE  HasId(FALSE, h, n, t, <<19, 24>>)
<1> DEFINE tx == TableX(FALSE, h, n)
<1> DEFINE ty == TableY(FALSE, h, n)
<1>1. Ids(FALSE, h, n)[t] = LogicalId(FALSE, tx, ty, n, t)  BY DEF Ids
<1> HIDE DEF tx, ty
<1>2. LogicalId(FALSE, tx, ty, n, t) = <<19, 24>>  BY DEF LogicalId
<1>3. QED  BY <1>1, <1>2, Zenon DEF HasId

LEMMA BlackholeArcId ==
  ASSUME NEW h, NEW n, NEW t \in DOMAIN Ids(FALSE, h, n), t[1] = "A"
  PROVE  HasId(FALSE, h, n, t, <<8, 0>>)
<1> DEFINE tx == TableX(FALSE, h, n)
<1> DEFINE ty == TableY(FALSE, h, n)
<1>1. Ids(FALSE, h, n)[t] = LogicalId(FALSE, tx, ty, n, t)  BY DEF Ids
<1> HIDE DEF tx, ty
<1>2. LogicalId(FALSE, tx, ty, n, t) = <<8, 0>>  BY DEF LogicalId
<1>3. QED  BY <1>1, <1>2, Zenon DEF HasId

LEMMA WormholeIdReaches ==
  ASSUME NEW h, NEW n \in Nocs, NEW t \in DOMAIN Ids(TRUE, h, n), t[1] # "T"
  PROVE  Reaches(TRUE, h, n, TRUE, Ids(TRUE, h, n)[t], t)
<1> DEFINE tx == TableX(TRUE, h, n)
<1> DEFINE ty == TableY(TRUE, h, n)
<1> DEFINE id == Ids(TRUE, h, n)[t]
<1>1. PICK x, y : PlacedAt(TRUE, t, x, y)  BY TilePlaces
<1>2. /\ x \in Columns(TRUE) /\ y \in Rows
      /\ Coord(TRUE, t) = <<x, y>> /\ TileAt(TRUE, <<x, y>>) = t
  BY <1>1 DEF PlacedAt
<1> DEFINE mx == MirrorX(TRUE, n, x)
<1> DEFINE my == MirrorY(n, y)
<1>3. SUFFICES \E i, j : id = <<i, j>> /\ tx[i] = mx /\ ty[j] = my
  <2>1. PICK i, j : id = <<i, j>> /\ tx[i] = mx /\ ty[j] = my  BY <1>3
  <2>2. Inner(TRUE, h, n, TRUE, id) = <<tx[id[1]], ty[id[2]]>>  BY DEF Inner
  <2> HIDE DEF tx, ty, id, mx, my
  <2>3. id[1] = i /\ id[2] = j  BY <2>1, PairParts
  <2>4. Inner(TRUE, h, n, TRUE, id) = <<mx, my>>  BY <2>1, <2>2, <2>3
  <2>5. Inner(TRUE, h, n, TRUE, id) = <<MirrorX(TRUE, n, x), MirrorY(n, y)>>  BY <2>4 DEF mx, my
  <2>6. Reaches(TRUE, h, n, TRUE, id, t)  BY <1>2, <2>5, LeadsTo
  <2>7. QED  BY <2>6 DEF id
<1> DEFINE range == 16 .. 17
<1>4. CASE t[1] = "E"
  <2>1. id = <<Find(tx, mx, 18 .. 25), Find(ty, my, range)>>
    <3>1. HasId(TRUE, h, n, t, EthId(h, n, x, y))  BY <1>1, <1>4, WormholeEthId
    <3>2. QED  BY <3>1, Zenon DEF HasId, EthId
  <2>2. PICK k \in EthIds(TRUE) : t = <<"E", k>>  BY <1>4, KindGiven
  <2>3. Coord(TRUE, t) = EthAt(TRUE, k)  BY <2>2 DEF Coord
  <2>4. EthAt(TRUE, k) = <<x, y>>  BY <1>2, <2>3
  <2>5. x \in TensixX(TRUE) /\ y \in {0, 6}
    <3>1. EthAt(TRUE, k)[1] = x /\ EthAt(TRUE, k)[2] = y  BY <2>4, PairParts
    <3>2. QED  BY <3>1, WormholeEth
  <2> DEFINE i == IF x <= 4 THEN 17 + x ELSE 16 + x
  <2>6. IdX(TRUE, h, n)[x] = i /\ tx[i] = mx  BY <2>5, WormholeColumns
  <2>7. IdX(TRUE, h, n)[x] = Find(tx, mx, 18 .. 25)  BY <2>5 DEF IdX
  <2>8. \E j : Find(ty, my, range) = j /\ ty[j] = my
    <3>1. /\ Find(ty, MirrorY(n, 0), range) = 16 /\ ty[16] = MirrorY(n, 0)
          /\ Find(ty, MirrorY(n, 6), range) = 17 /\ ty[17] = MirrorY(n, 6)
      BY EdgeIds, WormholeEntries
    <3>2. my = MirrorY(n, 0) \/ my = MirrorY(n, 6)
      <4>1. y = 0 \/ y = 6  BY <2>5
      <4>2. QED  BY <4>1
    <3> HIDE DEF ty, my, range
    <3>3. QED  BY <3>1, <3>2
  <2> HIDE DEF tx, ty, id, mx, my, i, range
  <2>9. QED  BY <2>1, <2>6, <2>7, <2>8
<1>5. CASE t[1] = "P" \/ t[1] = "A"
  <2>1. id = <<Find(tx, mx, range), my>>
    <3>1. HasId(TRUE, h, n, t, EdgeId(h, n, x, y))  BY <1>1, <1>5, WormholeEdgeId
    <3>2. QED  BY <3>1, Zenon DEF HasId, EdgeId
  <2>2. x = 0
    <3>1. t = <<"P", 0>> \/ t = <<"A", 0>>  BY <1>5, KindGiven
    <3>2. t = <<"P", 0>> => Coord(TRUE, t) = PcieAt(TRUE)  BY DEF Coord
    <3>3. t = <<"A", 0>> => Coord(TRUE, t) = ArcAt(TRUE)  BY DEF Coord
    <3>4. PcieAt(TRUE)[1] = 0 /\ ArcAt(TRUE)[1] = 0  BY DEF PcieAt, ArcAt
    <3>5. Coord(TRUE, t)[1] = 0  BY <3>1, <3>2, <3>3, <3>4
    <3>6. QED  BY <1>2, <3>5, PairParts
  <2>3. Find(tx, mx, range) = 16 /\ tx[16] = mx
    <3>1. Find(tx, MirrorX(TRUE, n, 0), range) = 16 /\ tx[16] = MirrorX(TRUE, n, 0)
      BY EdgeIds, WormholeEntries
    <3>2. mx = MirrorX(TRUE, n, 0)  BY <2>2
    <3> HIDE DEF tx, mx, range
    <3>3. QED  BY <3>1, <3>2
  <2>4. ty[my] = my
    <3>1. my \in Rows  BY <1>2, MirrorsY
    <3> HIDE DEF my
    <3>2. my \in 0 .. 15  BY <3>1 DEF Rows
    <3>3. QED  BY <3>2, WormholeEntries
  <2> HIDE DEF tx, ty, id, mx, my, range
  <2>5. id = <<16, my>>  BY <2>1, <2>3
  <2>6. QED  BY <2>3, <2>4, <2>5
<1>6. t[1] = "E" \/ t[1] = "P" \/ t[1] = "A"  BY KindGiven
<1>7. QED  BY <1>4, <1>5, <1>6

LEMMA BlackholeIdReaches ==
  ASSUME NEW h, NEW n \in Nocs, NEW t \in DOMAIN Ids(FALSE, h, n), t[1] # "T",
         t[1] # "E" \/ t[2] < LiveEth
  PROVE  Reaches(FALSE, h, n, TRUE, Ids(FALSE, h, n)[t], t)
<1> DEFINE tx == TableX(FALSE, h, n)
<1> DEFINE ty == TableY(FALSE, h, n)
<1> DEFINE id == Ids(FALSE, h, n)[t]
<1>1. PICK x, y : PlacedAt(FALSE, t, x, y)  BY TilePlaces
<1>2. /\ x \in Columns(FALSE) /\ y \in Rows
      /\ Coord(FALSE, t) = <<x, y>> /\ TileAt(FALSE, <<x, y>>) = t
  BY <1>1 DEF PlacedAt
<1> DEFINE mx == MirrorX(FALSE, n, x)
<1> DEFINE my == MirrorY(n, y)
<1>3. SUFFICES \E i, j : /\ id = <<i, j>> /\ ty[j] = my
                         /\ mx = IF j \in {0, 1} THEN i ELSE tx[i]
  <2>1. PICK i, j : id = <<i, j>> /\ ty[j] = my /\ mx = IF j \in {0, 1} THEN i ELSE tx[i]  BY <1>3
  <2>2. Inner(FALSE, h, n, TRUE, id)
          = <<IF id[2] \notin {0, 1} THEN tx[id[1]] ELSE id[1], ty[id[2]]>>
    BY DEF Inner
  <2> HIDE DEF tx, ty, id, mx, my
  <2>3. id[1] = i /\ id[2] = j  BY <2>1, PairParts
  <2>4. Inner(FALSE, h, n, TRUE, id) = <<mx, my>>  BY <2>1, <2>2, <2>3
  <2>5. Inner(FALSE, h, n, TRUE, id) = <<MirrorX(FALSE, n, x), MirrorY(n, y)>>  BY <2>4 DEF mx, my
  <2>6. Reaches(FALSE, h, n, TRUE, id, t)  BY <1>2, <2>5, LeadsTo
  <2>7. QED  BY <2>6 DEF id
<1>4. CASE t[1] = "E"
  <2>1. PICK k \in EthIds(FALSE) : t = <<"E", k>>  BY <1>4, KindGiven
  <2>2. t[2] = k  BY <2>1, PairParts
  <2>3. k \in 0 .. 11
    <3>1. k \in 0 .. 13  BY BlackholeEth
    <3>2. k < 12  BY <1>4, <2>2 DEF LiveEth
    <3>3. QED  BY <3>1, <3>2
  <2>4. id = <<20 + k, 25>>
    <3>1. t[2] < LiveEth  BY <1>4
    <3>2. HasId(FALSE, h, n, t, <<20 + t[2], 25>>)  BY <1>4, <3>1, BlackholeEthId
    <3>3. QED  BY <2>2, <3>2 DEF HasId
  <2>5. Coord(FALSE, t) = EthAt(FALSE, k)  BY <2>1 DEF Coord
  <2>6. EthAt(FALSE, k) = <<x, y>>  BY <1>2, <2>5
  <2>7. x = TENSIX_HARVESTING_ORDER[k + 1] /\ y = 1
    <3>1. EthAt(FALSE, k)[1] = x /\ EthAt(FALSE, k)[2] = y  BY <2>6, PairParts
    <3>2. EthAt(FALSE, k) = <<EthAt(FALSE, k)[1], 1>> /\ x = TENSIX_HARVESTING_ORDER[k + 1]
      BY <3>1, BlackholeEth
    <3>3. <<x, y>> = <<x, 1>>  BY <2>6, <3>1, <3>2
    <3>4. QED  BY <3>2, <3>3
  <2>8. tx[20 + k] = mx /\ ty[25] = my
    <3>1. tx[20 + k] = MirrorX(FALSE, n, TENSIX_HARVESTING_ORDER[k + 1]) /\ ty[25] = MirrorY(n, 1)
      BY <2>3, BlackholeEntries
    <3>2. mx = MirrorX(FALSE, n, TENSIX_HARVESTING_ORDER[k + 1]) /\ my = MirrorY(n, 1)  BY <2>7
    <3> HIDE DEF tx, ty, mx, my
    <3>3. QED  BY <3>1, <3>2
  <2> HIDE DEF tx, ty, id, mx, my
  <2>9. 25 \notin {0, 1}  OBVIOUS
  <2>10. QED  BY <2>4, <2>8, <2>9
<1>5. CASE t[1] = "P"
  <2>1. id = <<19, 24>>
    <3>1. HasId(FALSE, h, n, t, <<19, 24>>)  BY <1>5, BlackholePcieId
    <3>2. QED  BY <3>1 DEF HasId
  <2>2. t = <<"P", 0>>  BY <1>5, KindGiven
  <2>3. Coord(FALSE, t) = PcieAt(FALSE)  BY <2>2 DEF Coord
  <2>4. PcieAt(FALSE) = <<2, 0>>  BY DEF PcieAt
  <2>5. <<x, y>> = <<2, 0>>  BY <1>2, <2>3, <2>4
  <2>6. tx[19] = mx /\ ty[24] = my
    <3>1. tx[19] = MirrorX(FALSE, n, 2) /\ ty[24] = MirrorY(n, 0)  BY BlackholeEntries
    <3>2. x = 2 /\ y = 0  BY <2>5
    <3>3. mx = MirrorX(FALSE, n, 2) /\ my = MirrorY(n, 0)  BY <3>2
    <3> HIDE DEF tx, ty, mx, my
    <3>4. QED  BY <3>1, <3>3
  <2> HIDE DEF tx, ty, id, mx, my
  <2>7. 24 \notin {0, 1}  OBVIOUS
  <2>8. QED  BY <2>1, <2>6, <2>7
<1>6. CASE t[1] = "A"
  <2>1. id = <<8, 0>>
    <3>1. HasId(FALSE, h, n, t, <<8, 0>>)  BY <1>6, BlackholeArcId
    <3>2. QED  BY <3>1 DEF HasId
  <2>2. t = <<"A", 0>>  BY <1>6, KindGiven
  <2>3. Coord(FALSE, t) = ArcAt(FALSE)  BY <2>2 DEF Coord
  <2>4. ArcAt(FALSE) = <<8, 0>>  BY DEF ArcAt
  <2>5. <<x, y>> = <<8, 0>>  BY <1>2, <2>3, <2>4
  <2>6. x = 8 /\ y = 0  BY <2>5
  <2>7. mx = 8  BY <2>6 DEF MirrorX, LastX
  <2>8. ty[0] = my
    <3>1. 0 \in 0 .. 11  OBVIOUS
    <3>2. ty[0] = MirrorY(n, 0)  BY <3>1, BlackholeEntries
    <3>3. my = MirrorY(n, 0)  BY <2>6
    <3> HIDE DEF ty, my
    <3>4. QED  BY <3>2, <3>3
  <2> HIDE DEF tx, ty, id, mx, my
  <2>9. QED  BY <2>1, <2>7, <2>8
<1>7. t[1] = "E" \/ t[1] = "P" \/ t[1] = "A"  BY KindGiven
<1>8. QED  BY <1>4, <1>5, <1>6, <1>7

LEMMA LogicalReaches ==
  ASSUME NEW ww \in BOOLEAN, NEW h \in Masks(ww), NEW n \in Nocs, NEW t \in DOMAIN Ids(ww, h, n),
         ww \/ t[1] # "E" \/ t[2] < LiveEth
  PROVE  Reaches(ww, h, n, TRUE, Ids(ww, h, n)[t], t)
<1>1. CASE t[1] = "T"
  <2>1. \E x \in TensixX(ww), y \in TensixY(ww) : t = <<"T", <<x, y>> >>  BY <1>1, KindGiven
  <2>2. PICK x \in TensixX(ww), y \in TensixY(ww) : t = <<"T", <<x, y>> >>  BY <2>1
  <2> DEFINE id == <<IdX(ww, h, n)[x], IdY(ww, h, n)[y]>>
  <2>3. /\ Ids(ww, h, n)[t] = id
        /\ Leads(ww, h, n, TRUE, id) = <<x, y>>
        /\ TileAt(ww, <<x, y>>) = t
    BY <2>2, TensixIds
  <2> HIDE DEF id
  <2>4. <<x, y>> # Nowhere
    <3>1. x \in 0 .. 16  BY DEF TensixX
    <3>2. QED  BY <3>1 DEF Nowhere
  <2>5. QED  BY <2>3, <2>4 DEF Reaches
<1>2. CASE t[1] # "T"
  <2>1. CASE ww = TRUE  BY <1>2, <2>1, WormholeIdReaches
  <2>2. CASE ww = FALSE  BY <1>2, <2>2, BlackholeIdReaches
  <2>3. QED  BY <2>1, <2>2
<1>3. QED  BY <1>1, <1>2

\* A channel of DRAM, by what software calls its ports.
LEMMA WormholeDramReaches ==
  ASSUME NEW h, NEW n \in Nocs, NEW xy \in (0 .. 31) \X (0 .. 31), NEW c \in DOMAIN Ports(TRUE),
         <<MirrorX(TRUE, n, xy[1]), MirrorY(n, xy[2])>> \in Ports(TRUE)[c]
  PROVE  Reaches(TRUE, h, n, TRUE, xy, <<"D", c - 1>>)
<1> DEFINE a == xy[1]
<1> DEFINE b == xy[2]
<1> DEFINE x == MirrorX(TRUE, n, a)
<1> DEFINE y == MirrorY(n, b)
<1> DEFINE p == <<x, y>>
<1>1. a \in 0 .. 31 /\ b \in 0 .. 31  OBVIOUS
<1>2. p \in Ports(TRUE)[c]  OBVIOUS
<1>3. x \in Columns(TRUE) /\ y \in Rows
  <2>1. p[1] = x /\ p[2] = y  OBVIOUS
  <2> HIDE DEF p, x, y
  <2>2. p[1] \in Columns(TRUE) /\ p[2] \in Rows  BY <1>2, PortPlaces
  <2>3. QED  BY <2>1, <2>2
<1>4. TileAt(TRUE, p) = <<"D", c - 1>>
  <2> HIDE DEF p
  <2>1. QED  BY <1>2, TileAtPort
<1> HIDE DEF a, b
<1>5. a \in 0 .. 9 /\ b \in 0 .. 11 /\ MirrorX(TRUE, n, x) = a /\ MirrorY(n, y) = b
  BY <1>1, <1>3 DEF MirrorX, MirrorY, LastX, LastY, Columns, Rows, Nocs
<1>6. TableX(TRUE, h, n)[a] = a /\ TableY(TRUE, h, n)[b] = b
  <2>1. a \in 0 .. 15 /\ b \in 0 .. 15  BY <1>5
  <2>2. QED  BY <2>1, WormholeEntries
<1>7. Inner(TRUE, h, n, TRUE, xy) = <<TableX(TRUE, h, n)[a], TableY(TRUE, h, n)[b]>>
  BY DEF Inner, a, b
<1> HIDE DEF x, y
<1>8. Inner(TRUE, h, n, TRUE, xy) = <<MirrorX(TRUE, n, x), MirrorY(n, y)>>  BY <1>5, <1>6, <1>7
<1>9. TileAt(TRUE, <<x, y>>) = <<"D", c - 1>>  BY <1>4
<1>10. QED  BY <1>3, <1>8, <1>9, LeadsTo

LEMMA DramRow ==
  ASSUME NEW c \in 1 .. 8, NEW v \in 12 .. 23, (v - 12) \div 3 = (c - 1) % 4
  PROVE  /\ GDDR_ROWS[v - 11] \in Rows
         /\ <<IF c <= 4 THEN 0 ELSE 9, GDDR_ROWS[v - 11]>> \in Ports(FALSE)[c]
<1> DEFINE s == GDDR_ROWS
<1> DEFINE k == v - 11
<1> DEFINE q == (c - 1) % 4
<1>1. /\ s[1] = 0 /\ s[2] = 1 /\ s[3] = 11 /\ s[4] = 2 /\ s[5] = 10 /\ s[6] = 3
      /\ s[7] = 9 /\ s[8] = 4 /\ s[9] = 8 /\ s[10] = 5 /\ s[11] = 7 /\ s[12] = 6
  BY DEF GDDR_ROWS
<1>2. k \in 1 .. 12 /\ q \in 0 .. 3 /\ (k - 1) \div 3 = q
  <2>1. k - 1 = v - 12  OBVIOUS
  <2>2. QED  BY <2>1
<1>3. /\ q = 0 => c = 1 \/ c = 5
      /\ q = 1 => c = 2 \/ c = 6
      /\ q = 2 => c = 3 \/ c = 7
      /\ q = 3 => c = 4 \/ c = 8
  OBVIOUS
<1> HIDE DEF s, k, q
<1>4. /\ q = 0 => k = 1 \/ k = 2 \/ k = 3
      /\ q = 1 => k = 4 \/ k = 5 \/ k = 6
      /\ q = 2 => k = 7 \/ k = 8 \/ k = 9
      /\ q = 3 => k = 10 \/ k = 11 \/ k = 12
      /\ q = 0 \/ q = 1 \/ q = 2 \/ q = 3
  BY <1>2
<1>5. /\ q = 0 => s[k] \in {0, 1, 11}
      /\ q = 1 => s[k] \in {2, 3, 10}
      /\ q = 2 => s[k] \in {4, 8, 9}
      /\ q = 3 => s[k] \in {5, 6, 7}
  BY <1>1, <1>4
<1> DEFINE y == s[k]
<1> DEFINE x == IF c <= 4 THEN 0 ELSE 9
<1> HIDE DEF y
<1>6. y \in Rows
  <2>1. y \in {0, 1, 2, 3, 4, 5, 6, 7, 8, 9, 10, 11}  BY <1>4, <1>5 DEF y
  <2>2. QED  BY <2>1 DEF Rows
<1>7. (c = 1 \/ c = 2 \/ c = 3 \/ c = 4 => x = 0) /\ (c = 5 \/ c = 6 \/ c = 7 \/ c = 8 => x = 9)
  OBVIOUS
<1> HIDE DEF x
<1>8. <<x, y>> \in Ports(FALSE)[c]
  <2>1. CASE q = 0
    <3>1. y \in {0, 1, 11} /\ (c = 1 \/ c = 5)  BY <1>3, <1>5, <2>1 DEF y
    <3>2. c = 1 => x = 0 /\ Ports(FALSE)[c] = Three(0, 0, 1, 11)  BY <1>7, BlackholePorts
    <3>3. c = 5 => x = 9 /\ Ports(FALSE)[c] = Three(9, 0, 1, 11)  BY <1>7, BlackholePorts
    <3>4. Ports(FALSE)[c] = Three(x, 0, 1, 11)  BY <3>1, <3>2, <3>3
    <3>5. QED  BY <3>1, <3>4 DEF Three
  <2>2. CASE q = 1
    <3>1. y \in {2, 3, 10} /\ (c = 2 \/ c = 6)  BY <1>3, <1>5, <2>2 DEF y
    <3>2. c = 2 => x = 0 /\ Ports(FALSE)[c] = Three(0, 2, 3, 10)  BY <1>7, BlackholePorts
    <3>3. c = 6 => x = 9 /\ Ports(FALSE)[c] = Three(9, 2, 3, 10)  BY <1>7, BlackholePorts
    <3>4. Ports(FALSE)[c] = Three(x, 2, 3, 10)  BY <3>1, <3>2, <3>3
    <3>5. QED  BY <3>1, <3>4 DEF Three
  <2>3. CASE q = 2
    <3>1. y \in {4, 8, 9} /\ (c = 3 \/ c = 7)  BY <1>3, <1>5, <2>3 DEF y
    <3>2. c = 3 => x = 0 /\ Ports(FALSE)[c] = Three(0, 4, 8, 9)  BY <1>7, BlackholePorts
    <3>3. c = 7 => x = 9 /\ Ports(FALSE)[c] = Three(9, 4, 8, 9)  BY <1>7, BlackholePorts
    <3>4. Ports(FALSE)[c] = Three(x, 4, 8, 9)  BY <3>1, <3>2, <3>3
    <3>5. QED  BY <3>1, <3>4 DEF Three
  <2>4. CASE q = 3
    <3>1. y \in {5, 6, 7} /\ (c = 4 \/ c = 8)  BY <1>3, <1>5, <2>4 DEF y
    <3>2. c = 4 => x = 0 /\ Ports(FALSE)[c] = Three(0, 5, 6, 7)  BY <1>7, BlackholePorts
    <3>3. c = 8 => x = 9 /\ Ports(FALSE)[c] = Three(9, 5, 6, 7)  BY <1>7, BlackholePorts
    <3>4. Ports(FALSE)[c] = Three(x, 5, 6, 7)  BY <3>1, <3>2, <3>3
    <3>5. QED  BY <3>1, <3>4 DEF Three
  <2>5. QED  BY <1>4, <2>1, <2>2, <2>3, <2>4
<1>9. QED  BY <1>6, <1>8 DEF x, y, s, k

LEMMA BlackholeDramReaches ==
  ASSUME NEW h, NEW n \in Nocs, NEW xy, NEW c \in 1 .. 8,
         xy[1] = IF c <= 4 THEN 17 ELSE 18, xy[2] \in 12 .. 23, (xy[2] - 12) \div 3 = (c - 1) % 4
  PROVE  Reaches(FALSE, h, n, TRUE, xy, <<"D", c - 1>>)
<1> DEFINE tx == TableX(FALSE, h, n)
<1> DEFINE ty == TableY(FALSE, h, n)
<1> DEFINE b == xy[2]
<1> DEFINE x == IF c <= 4 THEN 0 ELSE 9
<1> DEFINE y == GDDR_ROWS[b - 11]
<1> DEFINE p == <<x, y>>
<1>1. y \in Rows /\ p \in Ports(FALSE)[c]
  <2> HIDE DEF b
  <2>1. b \in 12 .. 23 /\ (b - 12) \div 3 = (c - 1) % 4  BY DEF b
  <2>2. QED  BY <2>1, DramRow
<1>2. x \in Columns(FALSE)  BY DEF Columns
<1>3. c \in DOMAIN Ports(FALSE)  BY BlackholePorts
<1>4. TileAt(FALSE, p) = <<"D", c - 1>>
  <2> HIDE DEF p
  <2>1. QED  BY <1>1, <1>3, TileAtPort
<1>5. Inner(FALSE, h, n, TRUE, xy) = <<tx[xy[1]], ty[b]>>
  <2>1. b \notin {0, 1}  OBVIOUS
  <2> HIDE DEF tx, ty
  <2>2. QED  BY <2>1 DEF Inner, tx, ty
<1>6. tx[xy[1]] = MirrorX(FALSE, n, x)
  <2>1. tx[17] = MirrorX(FALSE, n, 0) /\ tx[18] = MirrorX(FALSE, n, 9)  BY BlackholeEntries
  <2> HIDE DEF tx
  <2>2. CASE c <= 4
    <3>1. x = 0 /\ xy[1] = 17  BY <2>2
    <3>2. QED  BY <2>1, <3>1
  <2>3. CASE ~(c <= 4)
    <3>1. x = 9 /\ xy[1] = 18  BY <2>3
    <3>2. QED  BY <2>1, <3>1
  <2>4. QED  BY <2>2, <2>3
<1>7. ty[b] = MirrorY(n, y)
  <2>1. b \in 12 .. 23  OBVIOUS
  <2> HIDE DEF b
  <2>2. QED  BY <2>1, BlackholeEntries
<1>8. TileAt(FALSE, <<x, y>>) = <<"D", c - 1>>  BY <1>4
<1> HIDE DEF tx, ty, b, x, y, p
<1>9. Inner(FALSE, h, n, TRUE, xy) = <<MirrorX(FALSE, n, x), MirrorY(n, y)>>  BY <1>5, <1>6, <1>7
<1>10. QED  BY <1>1, <1>2, <1>8, <1>9, LeadsTo

-----------------------------------------------------------------------------
(* The invariant.                                                          *)

Counts == [acks : Int, sent : Int, posted : Int, reads : Int, atomics : Int,
           postedAtomics : Int, outstanding : Int]

\* The tables and ids are those of the chip.
OfBoard ==
  /\ board \in Boards /\ me \in DOMAIN Programs[board] /\ prog \in Programs[board][me]
  /\ noc_translation_x = [n \in Nocs |-> TableX(w, board[2], n)]
  /\ noc_translation_y = [n \in Nocs |-> TableY(w, board[2], n)]
  /\ noc_id_logical = [n \in Nocs |-> Ids(w, board[2], n)]

Typed ==
  /\ pc \in Nat \ {0}
  /\ translate \in [Nocs -> BOOLEAN]
  /\ clock_off = [n \in Nocs |-> clock_off[n]]
  /\ skip_x = [n \in Nocs |-> skip_x[n]] /\ skip_y = [n \in Nocs |-> skip_y[n]]
  /\ counters \in [Nocs -> Counts]
  /\ word = [t \in Tiles(w) |-> word[t]]

\* What is skipped is what the chip starts with, or what was last asked for.
AsReset(n) ==
  /\ Asked(n) = {}
  /\ skip_x[n] = NonTensixColumns(w) \cup HarvestedColumns(w, board[2])
  /\ skip_y[n] = NonTensixRows(w) \cup HarvestedRows(w, board[2])
AsAsked(n) ==
  \E i \in Asked(n) : /\ \A j \in Asked(n) : j <= i
                      /\ skip_x[n] = prog[i].columns /\ skip_y[n] = prog[i].rows
SkipsKept(n) ==
  /\ NonTensixColumns(w) \subseteq skip_x[n] /\ NonTensixRows(w) \subseteq skip_y[n]
  /\ error = "none" => AsReset(n) \/ AsAsked(n)

NiuInv == OfBoard /\ Typed /\ \A n \in Nocs : SkipsKept(n)

\* What the assumptions say of the board and of the next request.
LEMMA BoardFacts ==
  ASSUME OfBoard
  PROVE  /\ w \in BOOLEAN /\ board[2] \in Masks(w)
         /\ me \in Tiles(w) /\ me[1] \in {"T", "E"}
<1>1. board \in Boards /\ me \in DOMAIN Programs[board]  BY DEF OfBoard
<1>2. board \in ({TRUE} \X SUBSET (0 .. 9)) \cup ({FALSE} \X SUBSET (0 .. 13))
  BY <1>1, BoardsAssumption
<1>3. me \in Tiles(board[1]) /\ me[1] \in {"T", "E"}  BY <1>1, ProgramsAssumption
<1>4. CASE board \in {TRUE} \X SUBSET (0 .. 9)
  <2>1. board[1] = TRUE /\ board[2] \in SUBSET (0 .. 9)  BY <1>4
  <2>2. QED  BY <1>3, <2>1 DEF w, Masks
<1>5. CASE board \in {FALSE} \X SUBSET (0 .. 13)
  <2>1. board[1] = FALSE /\ board[2] \in SUBSET (0 .. 13)  BY <1>5
  <2>2. QED  BY <1>3, <2>1 DEF w, Masks
<1>6. QED  BY <1>2, <1>4, <1>5

WellFormed(r) ==
  /\ r.op \in {"niu cfg", "router cfg", "clear"} \cup Transactions => r.noc \in Nocs
  /\ r.op \in {"niu cfg", "config"} => r.on \in BOOLEAN /\ r.off \in BOOLEAN
  /\ r.op = "config" => r.reg \in Nocs
  /\ r.op \in Transactions =>
       /\ {r.own, r.at, r.start} \subseteq (0 .. 31) \X (0 .. 31)
       /\ r.op # "multicast" => r.start \in {r.own, r.at}

LEMMA RequestFacts ==
  ASSUME OfBoard, Typed, More
  PROVE  WellFormed(Request) /\ pc \in 1 .. Len(prog)
<1>1. board \in Boards /\ me \in DOMAIN Programs[board] /\ prog \in Programs[board][me]
  BY DEF OfBoard
<1>2. Len(prog) \in Nat /\ \A i \in 1 .. Len(prog) : WellFormed(prog[i])
  BY <1>1, ProgramsAssumption DEF WellFormed
<1>3. pc \in 1 .. Len(prog)  BY <1>2 DEF Typed, More
<1>4. QED  BY <1>2, <1>3 DEF Request

\* Coordinates by which software means a tile lead to it.
LEMMA AtLeads ==
  ASSUME OfBoard, NEW n \in Nocs, NEW xy
  PROVE  At(n, xy) = Leads(w, board[2], n, translate[n], xy)
<1>1. noc_translation_x[n] = TableX(w, board[2], n) /\ noc_translation_y[n] = TableY(w, board[2], n)
  BY DEF OfBoard
<1>2. QED  BY <1>1 DEF At, Leads

LEMMA ReachesTile ==
  ASSUME OfBoard, NEW n \in Nocs, NEW xy, NEW t, Reaches(w, board[2], n, translate[n], xy, t)
  PROVE  At(n, xy) # Nowhere /\ TileOf(n, xy) = t
<1>1. At(n, xy) = Leads(w, board[2], n, translate[n], xy)  BY AtLeads
<1>2. At(n, xy) # Nowhere /\ TileAt(w, At(n, xy)) = t  BY <1>1 DEF Reaches
<1>3. QED  BY <1>2 DEF TileOf

LEMMA NamesReach ==
  ASSUME OfBoard, Typed, NEW n \in Nocs, NEW xy \in (0 .. 31) \X (0 .. 31),
         translate[n] \/ ~w, NEW t \in Means(n, xy)
  PROVE  Reaches(w, board[2], n, translate[n], xy, t) /\ t \in Tiles(w)
<1> DEFINE h == board[2]
<1> DEFINE on == translate[n]
<1>1. w \in BOOLEAN /\ h \in Masks(w) /\ on \in BOOLEAN
  BY BoardFacts DEF Typed
<1>2. noc_id_logical[n] = Ids(w, h, n)  BY DEF OfBoard
<1>3. \A u \in DOMAIN Ids(w, h, n) : u \in Tiles(w)  BY DEF Ids
<1>4. CASE \E c \in Dram(n, xy) : t = <<"D", c - 1>>
  <2>1. PICK c \in Dram(n, xy) : t = <<"D", c - 1>>  BY <1>4
  <2>2. c \in DOMAIN Ports(w)  BY <2>1 DEF Dram
  <2>3. t \in Tiles(w)
    <3>1. DOMAIN Ports(w) = 1 .. Len(Ports(w)) /\ Len(Ports(w)) \in Nat  BY <1>1, PortCount
    <3>2. c - 1 \in 0 .. Len(Ports(w)) - 1  BY <2>2, <3>1
    <3>3. QED  BY <2>1, <3>2 DEF Tiles
  <2>4. CASE w = TRUE
    <3>1. on = TRUE  BY <1>1, <2>4
    <3>2. <<MirrorX(TRUE, n, xy[1]), MirrorY(n, xy[2])>> \in Ports(TRUE)[c]  BY <2>1, <2>4 DEF Dram
    <3>3. c \in DOMAIN Ports(TRUE)  BY <2>2, <2>4
    <3> HIDE DEF h, on
    <3>4. Reaches(TRUE, h, n, TRUE, xy, <<"D", c - 1>>)  BY <3>2, <3>3, WormholeDramReaches
    <3>5. QED  BY <2>1, <2>3, <2>4, <3>1, <3>4 DEF h, on
  <2>5. CASE w = FALSE
    <3>1. on = TRUE  BY <1>1, <2>1, <2>5 DEF Dram
    <3>2. xy[1] = (IF c <= 4 THEN 17 ELSE 18) /\ xy[2] \in 12 .. 23
          /\ (xy[2] - 12) \div 3 = (c - 1) % 4
      BY <2>1, <2>5 DEF Dram
    <3>3. c \in 1 .. 8  BY <2>2, <2>5, BlackholePorts
    <3> HIDE DEF h, on
    <3>4. Reaches(FALSE, h, n, TRUE, xy, <<"D", c - 1>>)  BY <3>2, <3>3, BlackholeDramReaches
    <3>5. QED  BY <2>1, <2>3, <2>5, <3>1, <3>4 DEF h, on
  <2>6. QED  BY <1>1, <2>4, <2>5
<1>5. CASE t \in DOMAIN Ids(w, h, n)
           /\ \/ IdLeads(t) /\ on /\ Ids(w, h, n)[t] = xy
              \/ AsItIs(n, t) /\ NodeId(w, n, t) = xy
  <2>1. t \in Tiles(w)  BY <1>3, <1>5
  <2>2. CASE IdLeads(t) /\ on /\ Ids(w, h, n)[t] = xy
    <3>1. on = TRUE  BY <1>1, <2>2
    <3>2. w \/ t[1] # "E" \/ t[2] < LiveEth  BY <2>2 DEF IdLeads
    <3> HIDE DEF h, on
    <3>3. Reaches(w, h, n, TRUE, Ids(w, h, n)[t], t)  BY <1>1, <1>5, <3>2, LogicalReaches
    <3>4. QED  BY <2>1, <2>2, <3>1, <3>3 DEF h, on
  <2>3. CASE AsItIs(n, t) /\ NodeId(w, n, t) = xy
    <3>1. w \/ ~on \/ (n = 0 /\ Coord(w, t)[2] \in {0, 1})  BY <2>3 DEF AsItIs
    <3>2. on \/ ~w  OBVIOUS
    <3> HIDE DEF h, on
    <3>3. Reaches(w, h, n, on, NodeId(w, n, t), t)  BY <1>1, <1>5, <3>1, <3>2, NodeReaches
    <3>4. QED  BY <2>1, <2>3, <3>3 DEF h, on
  <2>4. QED  BY <1>5, <2>2, <2>3
<1>6. QED  BY <1>2, <1>4, <1>5 DEF Means

LEMMA NiuInit == Init => NiuInv
<1> SUFFICES ASSUME Init PROVE NiuInv  OBVIOUS
<1>1. OfBoard  BY DEF Init, OfBoard
<1>2. pc = 1  BY DEF Init
<1>3. Typed
  <2>1. pc \in Nat \ {0}  BY <1>2
  <2>2. translate \in [Nocs -> BOOLEAN] /\ clock_off = [n \in Nocs |-> clock_off[n]]  BY DEF Init
  <2>3. skip_x = [n \in Nocs |-> skip_x[n]] /\ skip_y = [n \in Nocs |-> skip_y[n]]  BY DEF Init
  <2>4. Cleared \in Counts  BY DEF Cleared, Counts
  <2>5. counters \in [Nocs -> Counts]  BY <2>4 DEF Init
  <2>6. word = [t \in Tiles(w) |-> word[t]]  BY DEF Init
  <2>7. QED  BY <2>1, <2>2, <2>3, <2>5, <2>6 DEF Typed
<1>4. ASSUME NEW n \in Nocs PROVE SkipsKept(n)
  <2>1. /\ skip_x[n] = NonTensixColumns(w) \cup HarvestedColumns(w, board[2])
        /\ skip_y[n] = NonTensixRows(w) \cup HarvestedRows(w, board[2])
    BY DEF Init
  <2>2. Asked(n) = {}  BY <1>2 DEF Asked
  <2>3. QED  BY <2>1, <2>2 DEF SkipsKept, AsReset
<1>5. QED  BY <1>1, <1>3, <1>4 DEF NiuInv

\* A rectangle has finitely many tiles.
LEMMA AtPair ==
  ASSUME OfBoard, NEW n \in Nocs, NEW xy
  PROVE  At(n, xy)[1] \in Int /\ At(n, xy)[2] \in Int
<1>1. w \in BOOLEAN  BY BoardFacts
<1> DEFINE p == At(n, xy)
<1>2. CASE p = Nowhere
  <2>1. Nowhere[1] = 99 /\ Nowhere[2] = 99  BY DEF Nowhere
  <2>2. QED  BY <1>2, <2>1
<1>3. CASE p # Nowhere
  <2>1. \E x \in Columns(w), y \in Rows : p = <<MirrorX(w, n, x), MirrorY(n, y)>>
    BY <1>3 DEF At, Remap
  <2>2. PICK x \in Columns(w), y \in Rows : p = <<MirrorX(w, n, x), MirrorY(n, y)>>  BY <2>1
  <2>3. MirrorX(w, n, x) \in Columns(w) /\ MirrorY(n, y) \in Rows  BY <1>1, MirrorsX, MirrorsY
  <2>4. MirrorX(w, n, x) \in Int /\ MirrorY(n, y) \in Int  BY <2>3 DEF Columns, Rows
  <2>5. p[1] = MirrorX(w, n, x) /\ p[2] = MirrorY(n, y)
    <3> HIDE DEF p
    <3>1. QED  BY <2>2, PairParts
  <2>6. QED  BY <2>4, <2>5
<1>4. QED  BY <1>2, <1>3

LEMMA RectangleFinite ==
  ASSUME NEW n, NEW low, NEW high, low[1] \in Int, low[2] \in Int, high[1] \in Int, high[2] \in Int
  PROVE  IsFiniteSet({TileAt(w, xy) : xy \in Reached(n, low, high)})
<1> DEFINE X == low[1] .. high[1]
<1> DEFINE Y == low[2] .. high[2]
<1>1. IsFiniteSet(X) /\ IsFiniteSet(Y)  BY FS_Interval
<1> DEFINE S == Reached(n, low, high)
<1>2. S \in SUBSET (X \X Y)  BY DEF Reached
<1> HIDE DEF X, Y, S
<1>3. IsFiniteSet(X \X Y)  BY <1>1, FS_Product
<1>4. IsFiniteSet(S)  BY <1>2, <1>3, FS_Subset
<1> DEFINE f == [xy \in S |-> TileAt(w, xy)]
<1> DEFINE T == {f[xy] : xy \in S}
<1>5. T = {TileAt(w, xy) : xy \in S}  OBVIOUS
<1>6. f \in Surjection(S, T)  BY DEF Surjection
<1> HIDE DEF f, T
<1>7. IsFiniteSet(T)  BY <1>4, <1>6, FS_Surjection
<1>8. QED  BY <1>5, <1>7 DEF S

\* A request skips what was skipped before it, and counts in numbers.
ConfigKept ==
  /\ translate' \in [Nocs -> BOOLEAN]
  /\ clock_off' = [n \in Nocs |-> clock_off'[n]]
  /\ skip_x' = skip_x /\ skip_y' = skip_y
Kept ==
  /\ ConfigKept
  /\ counters' \in [Nocs -> Counts]
  /\ word' = [t \in Tiles(w) |-> word'[t]]

LEMMA ConfigSame ==
  ASSUME Typed, UNCHANGED Config
  PROVE  ConfigKept
BY DEF Config, Typed, ConfigKept

LEMMA ConfigSet ==
  ASSUME Typed, NEW t, NEW m \in Nocs, NEW on \in BOOLEAN, NEW off, SetNiuCfg(t, m, on, off),
         UNCHANGED <<skip_x, skip_y>>
  PROVE  ConfigKept
<1>1. translate' \in [Nocs -> BOOLEAN]  BY DEF SetNiuCfg, Typed
<1>2. clock_off' = [n \in Nocs |-> clock_off'[n]]  BY DEF SetNiuCfg, Typed
<1>3. QED  BY <1>1, <1>2 DEF ConfigKept

LEMMA FailsKeeps ==
  ASSUME Typed, NEW e, Fails(e)
  PROVE  Kept /\ error' = e
<1>1. ConfigKept  BY ConfigSame DEF Fails
<1>2. QED  BY <1>1 DEF Fails, Typed, Kept

LEMMA MulticastKeeps ==
  ASSUME OfBoard, Typed, NEW n \in Nocs, NEW r, Multicast(n, r), UNCHANGED Config
  PROVE  Kept
<1> DEFINE low == Span(n, r)[1]
<1> DEFINE high == Span(n, r)[2]
<1> DEFINE tiles == {TileAt(w, xy) : xy \in Reached(n, low, high)}
<1> DEFINE written == IF r.include THEN tiles ELSE tiles \ {me}
<1> DEFINE acks == Cardinality(written)
<1>1. CASE \E e : Fails(e)  BY <1>1, FailsKeeps
<1>2. CASE /\ word' = [t \in DOMAIN word |-> IF t \in written THEN local ELSE word[t]]
           /\ counters' =
                IF r.posted THEN [counters EXCEPT ![n].posted = @ + 1]
                ELSE [counters EXCEPT ![n].acks = @ + acks, ![n].sent = @ + 1,
                                      ![n].outstanding = @ - acks + 1]
  <2>1. acks \in Nat
    <3>1. low[1] \in Int /\ low[2] \in Int /\ high[1] \in Int /\ high[2] \in Int
      <4>1. low = At(n, r.at) \/ low = At(n, r.start)  BY DEF Span
      <4>2. high = At(n, r.at) \/ high = At(n, r.start)  BY DEF Span
      <4> HIDE DEF low, high
      <4>3. QED  BY <4>1, <4>2, AtPair
    <3>2. IsFiniteSet(tiles)
      <4> HIDE DEF low, high
      <4>1. QED  BY <3>1, RectangleFinite
    <3>3. written \in SUBSET tiles  OBVIOUS
    <3> HIDE DEF tiles, written
    <3>4. IsFiniteSet(written)  BY <3>2, <3>3, FS_Subset
    <3>5. QED  BY <3>4, FS_CardinalityType
  <2> HIDE DEF acks, written
  <2>2. counters \in [Nocs -> Counts]  BY DEF Typed
  <2>3. counters' \in [Nocs -> Counts]  BY <1>2, <2>1, <2>2 DEF Counts
  <2>4. word' = [t \in Tiles(w) |-> word'[t]]
    <3>1. DOMAIN word = Tiles(w)  BY DEF Typed
    <3>2. QED  BY <1>2, <3>1
  <2>5. ConfigKept  BY ConfigSame
  <2>6. QED  BY <2>3, <2>4, <2>5 DEF Kept
<1>3. QED  BY <1>1, <1>2 DEF Multicast

LEMMA CmdKeeps ==
  ASSUME OfBoard, Typed, NEW n \in Nocs, NEW r, WellFormed(r), CmdCtrl(n, r)
  PROVE  Kept
<1>1. CASE \E e : Fails(e)  BY <1>1, FailsKeeps
<1>2. CASE UNCHANGED Config /\ Multicast(n, r)  BY <1>2, MulticastKeeps
<1>t. counters \in [Nocs -> Counts] /\ counters[n] \in Counts
      /\ word = [t \in Tiles(w) |-> word[t]]
  BY DEF Typed
<1>c. UNCHANGED Config => ConfigKept  BY ConfigSame
<1>3. CASE UNCHANGED Config /\ Write(n, r)
  <2>1. counters' \in [Nocs -> Counts]  BY <1>3, <1>t DEF Write, Acked, Counts
  <2>2. word' = [t \in Tiles(w) |-> word'[t]]  BY <1>3, <1>t DEF Write
  <2>3. QED  BY <1>3, <1>c, <2>1, <2>2 DEF Kept
<1>4. CASE UNCHANGED Config /\ InlineWrite(n, r)
  <2>1. CASE \E e : Fails(e)  BY <2>1, FailsKeeps
  <2>2. CASE word' = [word EXCEPT ![TileOf(n, r.at)] = r.data] /\ Acked(n, r)
    <3>1. counters' \in [Nocs -> Counts]  BY <1>t, <2>2 DEF Acked, Counts
    <3>2. word' = [t \in Tiles(w) |-> word'[t]]  BY <1>t, <2>2
    <3>3. QED  BY <1>4, <1>c, <3>1, <3>2 DEF Kept
  <2>3. QED  BY <1>4, <2>1, <2>2 DEF InlineWrite
<1>5. CASE UNCHANGED Config /\ Atomic(n, r)
  <2> DEFINE far == TileOf(n, r.at)
  <2>1. CASE \E e : Fails(e)  BY <2>1, FailsKeeps
  <2>2. CASE /\ word' = [word EXCEPT ![far] = @ + r.data]
             /\ counters' = IF r.posted THEN [counters EXCEPT ![n].postedAtomics = @ + 1]
                             ELSE [counters EXCEPT ![n].atomics = @ + 1]
    <3>1. counters' \in [Nocs -> Counts]  BY <1>t, <2>2 DEF Counts
    <3>2. word' = [t \in Tiles(w) |-> word'[t]]  BY <1>t, <2>2
    <3>3. QED  BY <1>5, <1>c, <3>1, <3>2 DEF Kept
  <2>3. QED  BY <1>5, <2>1, <2>2 DEF Atomic
<1>6. CASE UNCHANGED Config /\ Read(n, r)
  <2>1. counters' \in [Nocs -> Counts]  BY <1>6, <1>t DEF Read, Counts
  <2>2. word' = [t \in Tiles(w) |-> word'[t]]  BY <1>6, <1>t DEF Read
  <2>3. QED  BY <1>6, <1>c, <2>1, <2>2 DEF Kept
<1>7. CASE r.op = "config" /\ InlineConfig(n, r)
  <2>1. r.reg \in Nocs /\ r.on \in BOOLEAN  BY <1>7 DEF WellFormed
  <2>2. CASE \E e : Fails(e)  BY <2>2, FailsKeeps
  <2>3. CASE /\ SetNiuCfg(TileOf(n, r.at), r.reg, r.on, r.off) /\ Acked(n, r)
             /\ UNCHANGED <<skip_x, skip_y, word>>
    <3>1. ConfigKept  BY <2>1, <2>3, ConfigSet
    <3>2. counters' \in [Nocs -> Counts]  BY <1>t, <2>3 DEF Acked, Counts
    <3>3. QED  BY <1>t, <2>3, <3>1, <3>2 DEF Kept
  <2>4. QED  BY <1>7, <2>2, <2>3 DEF InlineConfig
<1>8. QED  BY <1>1, <1>2, <1>3, <1>4, <1>5, <1>6, <1>7 DEF CmdCtrl

\* What was asked for so far, after one more request.
LEMMA AskedOnce ==
  ASSUME Typed, pc' = pc + 1, prog' = prog, NEW n
  PROVE  Asked(n)' = Asked(n) \cup (IF Request.op = "router cfg" /\ Request.noc = n THEN {pc} ELSE {})
<1>1. pc \in Nat \ {0}  BY DEF Typed
<1>2. \A i : i \in 1 .. pc' - 1 <=> i \in 1 .. pc - 1 \/ i = pc  BY <1>1
<1>3. Asked(n)' = {i \in 1 .. pc' - 1 : prog[i].op = "router cfg" /\ prog[i].noc = n}  BY DEF Asked
<1>4. QED  BY <1>2, <1>3 DEF Asked, Request

LEMMA SkipsStay ==
  ASSUME OfBoard, Typed, NEW n, SkipsKept(n), pc' = pc + 1, prog' = prog, board' = board,
         skip_x'[n] = skip_x[n], skip_y'[n] = skip_y[n],
         ~(Request.op = "router cfg" /\ Request.noc = n), error = "none"
  PROVE  SkipsKept(n)'
<1>1. Asked(n)' = Asked(n)  BY AskedOnce
<1>2. w' = w  BY DEF w
<1>3. AsReset(n) => AsReset(n)'  BY <1>1, <1>2 DEF AsReset
<1>4. AsAsked(n) => AsAsked(n)'  BY <1>1, <1>2 DEF AsAsked
<1>5. QED  BY <1>2, <1>3, <1>4 DEF SkipsKept

LEMMA SkipsFail ==
  ASSUME NEW n, SkipsKept(n), board' = board, skip_x' = skip_x, skip_y' = skip_y, error' # "none"
  PROVE  SkipsKept(n)'
<1>1. w' = w  BY DEF w
<1>2. QED  BY <1>1 DEF SkipsKept

LEMMA AskedBefore ==
  ASSUME Typed, NEW n
  PROVE  pc <= pc /\ \A j \in Asked(n) : j <= pc
<1>1. pc \in Nat \ {0}  BY DEF Typed
<1>2. \A j \in 1 .. pc - 1 : j <= pc  BY <1>1
<1>3. pc <= pc  BY <1>1
<1>4. QED  BY <1>2, <1>3 DEF Asked

\* One's own request to skip is the last.
LEMMA SkipsSet ==
  ASSUME OfBoard, Typed, NEW n, pc' = pc + 1, prog' = prog, board' = board,
         Request.op = "router cfg", Request.noc = n,
         skip_x'[n] = Request.columns, skip_y'[n] = Request.rows,
         NonTensixColumns(w) \subseteq Request.columns, NonTensixRows(w) \subseteq Request.rows
  PROVE  SkipsKept(n)'
<1>1. Asked(n)' = Asked(n) \cup {pc}  BY AskedOnce
<1>2. w' = w  BY DEF w
<1>3. \A j \in Asked(n) : j <= pc  BY AskedBefore
<1>4. pc <= pc  BY AskedBefore
<1>5. AsAsked(n)'
  <2>1. pc \in Asked(n)'  BY <1>1
  <2>2. \A j \in Asked(n)' : j <= pc  BY <1>1, <1>3, <1>4
  <2>3. skip_x'[n] = prog[pc].columns /\ skip_y'[n] = prog[pc].rows  BY DEF Request
  <2>4. \E i \in Asked(n)' : /\ \A j \in Asked(n)' : j <= i
                             /\ skip_x'[n] = prog'[i].columns /\ skip_y'[n] = prog'[i].rows
    BY <2>1, <2>2, <2>3
  <2>5. QED  BY <2>4 DEF AsAsked
<1>6. QED  BY <1>2, <1>5 DEF SkipsKept

LEMMA StoreKeeps ==
  ASSUME NiuInv, Store
  PROVE  NiuInv'
<1>1. More /\ pc' = pc + 1 /\ UNCHANGED fixed  BY DEF Store
<1>2. OfBoard /\ Typed /\ \A n \in Nocs : SkipsKept(n)  BY DEF NiuInv
<1>3. /\ board' = board /\ me' = me /\ prog' = prog /\ noc_translation_x' = noc_translation_x
      /\ noc_translation_y' = noc_translation_y /\ noc_id_logical' = noc_id_logical
  BY <1>1 DEF fixed
<1>4. w' = w  BY <1>3 DEF w
<1>5. OfBoard'  BY <1>2, <1>3, <1>4 DEF OfBoard
<1>6. pc' \in Nat \ {0}  BY <1>1, <1>2 DEF Typed
<1>7. WellFormed(Request) /\ error = "none"  BY <1>1, <1>2, RequestFacts DEF More
<1>8. ASSUME Kept, Request.op # "router cfg" PROVE NiuInv'
  <2>1. skip_x' = skip_x /\ skip_y' = skip_y  BY <1>8 DEF Kept, ConfigKept
  <2>2. Typed'  BY <1>2, <1>4, <1>6, <1>8, <2>1 DEF Typed, Kept, ConfigKept
  <2>3. \A n \in Nocs : SkipsKept(n)'  BY <1>1, <1>2, <1>3, <1>7, <1>8, <2>1, SkipsStay
  <2>4. QED  BY <1>5, <2>2, <2>3 DEF NiuInv
<1>9. CASE Request.op \in Transactions /\ CmdCtrl(Request.noc, Request)
  <2>1. Request.noc \in Nocs  BY <1>7, <1>9 DEF WellFormed
  <2>2. Kept  BY <1>2, <1>7, <1>9, <2>1, CmdKeeps
  <2>3. Request.op # "router cfg"  BY <1>9 DEF Transactions
  <2>4. QED  BY <1>8, <2>2, <2>3
<1>10. CASE Request.op = "niu cfg" /\ WriteNiuCfg(Request.noc, Request.on, Request.off)
  <2>1. Request.noc \in Nocs /\ Request.on \in BOOLEAN  BY <1>7, <1>10 DEF WellFormed
  <2>2. ConfigKept  BY <1>2, <1>10, <2>1, ConfigSet DEF WriteNiuCfg
  <2>3. Kept  BY <1>2, <1>10, <2>2 DEF WriteNiuCfg, Kept, Typed
  <2>4. QED  BY <1>8, <1>10, <2>3
<1>11. CASE /\ Request.op = "router cfg"
            /\ WriteRouterCfg(Request.noc, Request.columns, Request.rows)
  <2>1. PICK m \in Nocs : Request.noc = m  BY <1>7, <1>11 DEF WellFormed
  <2>2. CASE \E e : e # "none" /\ Fails(e)
    <3>1. Kept /\ error' # "none"  BY <1>2, <2>2, FailsKeeps
    <3>2. skip_x' = skip_x /\ skip_y' = skip_y  BY <3>1 DEF Kept, ConfigKept
    <3>3. Typed'  BY <1>2, <1>4, <1>6, <3>1, <3>2 DEF Typed, Kept, ConfigKept
    <3>4. \A n \in Nocs : SkipsKept(n)'  BY <1>2, <1>3, <3>1, <3>2, SkipsFail
    <3>5. QED  BY <1>5, <3>3, <3>4 DEF NiuInv
  <2>3. CASE /\ NonTensixColumns(w) \subseteq Request.columns /\ NonTensixRows(w) \subseteq Request.rows
             /\ skip_x' = [skip_x EXCEPT ![Request.noc] = Request.columns]
             /\ skip_y' = [skip_y EXCEPT ![Request.noc] = Request.rows]
             /\ UNCHANGED <<translate, clock_off, counters, word, local, error>>
    <3>1. DOMAIN skip_x = Nocs /\ DOMAIN skip_y = Nocs  BY <1>2 DEF Typed
    <3>2. skip_x' = [n \in Nocs |-> skip_x'[n]] /\ skip_y' = [n \in Nocs |-> skip_y'[n]]
      BY <2>3, <3>1
    <3>3. Typed'  BY <1>2, <1>4, <1>6, <2>3, <3>2 DEF Typed
    <3>4. SkipsKept(m)'
      <4>1. skip_x'[m] = Request.columns /\ skip_y'[m] = Request.rows  BY <2>1, <2>3, <3>1
      <4>2. QED  BY <1>1, <1>2, <1>3, <1>11, <2>1, <2>3, <4>1, SkipsSet
    <3>5. ASSUME NEW n \in Nocs, n # m PROVE SkipsKept(n)'
      <4>1. skip_x'[n] = skip_x[n] /\ skip_y'[n] = skip_y[n]  BY <2>1, <2>3, <3>1, <3>5
      <4>2. QED  BY <1>1, <1>2, <1>3, <1>7, <2>1, <3>5, <4>1, SkipsStay
    <3>6. \A n \in Nocs : SkipsKept(n)'
      <4> SUFFICES ASSUME NEW n \in Nocs PROVE SkipsKept(n)'  OBVIOUS
      <4>1. CASE n = m  BY <3>4, <4>1
      <4>2. CASE n # m  BY <3>5, <4>2
      <4>3. QED  BY <4>1, <4>2
    <3>7. QED  BY <1>5, <3>3, <3>6 DEF NiuInv
  <2>4. QED  BY <1>11, <2>2, <2>3 DEF WriteRouterCfg
<1>12. CASE Request.op = "clear" /\ ClearOutstanding(Request.noc)
  <2>1. Request.noc \in Nocs  BY <1>7, <1>12 DEF WellFormed
  <2>2. counters \in [Nocs -> Counts]  BY <1>2 DEF Typed
  <2>3. counters' \in [Nocs -> Counts]  BY <1>12, <2>1, <2>2 DEF ClearOutstanding, Counts
  <2>4. Kept  BY <1>2, <1>12, <2>3, ConfigSame DEF ClearOutstanding, Kept, Typed
  <2>5. QED  BY <1>8, <1>12, <2>4
<1>13. CASE Request.op = "store" /\ CoreStore(Request.data)
  <2>1. Kept  BY <1>2, <1>13, ConfigSame DEF CoreStore, Kept, Typed
  <2>2. QED  BY <1>8, <1>13, <2>1
<1>14. QED  BY <1>9, <1>10, <1>11, <1>12, <1>13 DEF Store

LEMMA NiuStays ==
  ASSUME NiuInv, UNCHANGED vars
  PROVE  NiuInv'
<1>1. /\ UNCHANGED fixed /\ UNCHANGED <<translate, clock_off, skip_x, skip_y, counters, word, pc, error>>
  BY DEF vars
<1>2. w' = w  BY <1>1 DEF w, fixed
<1>3. OfBoard'  BY <1>1, <1>2 DEF NiuInv, OfBoard, fixed
<1>4. Typed'  BY <1>1, <1>2 DEF NiuInv, Typed
<1>5. ASSUME NEW n \in Nocs PROVE SkipsKept(n)'
  <2>1. Asked(n)' = Asked(n)  BY <1>1 DEF Asked, fixed
  <2>2. SkipsKept(n)  BY DEF NiuInv
  <2>3. QED  BY <1>1, <1>2, <2>1, <2>2 DEF SkipsKept, AsReset, AsAsked, fixed
<1>6. QED  BY <1>3, <1>4, <1>5 DEF NiuInv

\* The tables and ids of a NIU are those of its chip, its counters are numbers,
\* and it skips what the chip starts with or what software asked it to last,
\* never less than the columns and rows without Tensix tiles.
THEOREM NiuInvariant == Spec => []NiuInv
<1>1. Init => NiuInv  BY NiuInit
<1>2. NiuInv /\ [Next]_vars => NiuInv'
  <2> SUFFICES ASSUME NiuInv, [Next]_vars PROVE NiuInv'  OBVIOUS
  <2>1. CASE Store  BY <2>1, StoreKeeps
  <2>2. CASE Done  BY <2>2, NiuStays DEF Done
  <2>3. CASE UNCHANGED vars  BY <2>3, NiuStays
  <2>4. QED  BY <2>1, <2>2, <2>3 DEF Next
<1>3. QED  BY <1>1, <1>2, PTL DEF Spec

-----------------------------------------------------------------------------
(* Requests to one tile.                                                   *)

LEMMA NotATile == NoTile \notin Tiles(w)
<1> SUFFICES ASSUME NoTile \in Tiles(w) PROVE FALSE  OBVIOUS
<1>1. \E v : \/ NoTile = <<"T", v>> \/ NoTile = <<"E", v>> \/ NoTile = <<"D", v>>
             \/ NoTile = <<"P", v>> \/ NoTile = <<"A", v>>
  BY DEF Tiles
<1>2. PICK v : \/ NoTile = <<"T", v>> \/ NoTile = <<"E", v>> \/ NoTile = <<"D", v>>
               \/ NoTile = <<"P", v>> \/ NoTile = <<"A", v>>
  BY <1>1
<1>3. NoTile[1] = "T" \/ NoTile[1] = "E" \/ NoTile[1] = "D" \/ NoTile[1] = "P" \/ NoTile[1] = "A"
  BY <1>2
<1>4. NoTile[1] = "none"  BY DEF NoTile
<1>5. QED  BY <1>3, <1>4

\* A name of a tile resolves to it.
LEMMA NameResolves ==
  ASSUME OfBoard, Typed, NEW n \in Nocs, NEW xy \in (0 .. 31) \X (0 .. 31),
         translate[n] \/ ~w, NEW t \in Means(n, xy)
  PROVE  TileOf(n, xy) = t /\ t \in Tiles(w) /\ At(n, xy) # Nowhere
<1>1. Reaches(w, board[2], n, translate[n], xy, t) /\ t \in Tiles(w)  BY NamesReach
<1>2. QED  BY <1>1, ReachesTile

\* What a request to tile t does, when it is answered.
Served(r, t) ==
  /\ error' = "none"
  /\ word' = [word EXCEPT ![t] = CASE r.op = "read" -> @
                                   [] r.op = "write" -> local
                                   [] r.op = "inline" -> r.data
                                   [] r.op = "atomic" -> @ + r.data
                                   [] r.op = "config" -> @]
  /\ local' = IF r.op = "read" \/ (r.op = "atomic" /\ ~r.posted) THEN word[t] ELSE local
  /\ \A m \in Nocs :
       clock_off'[m] = IF r.op # "config" \/ m # r.reg THEN clock_off[m]
                       ELSE IF r.off THEN clock_off[m] \cup {t} ELSE clock_off[m] \ {t}

LEMMA Answered ==
  ASSUME NEW t
  PROVE  Answers(t) <=> ~ClockOff(t)
BY DEF Answers, ClockOff

LEMMA UnicastStored ==
  ASSUME NiuInv, Store
  PROVE  UnicastStep
<1> DEFINE r == Request
<1> DEFINE n == Request.noc
<1> SUFFICES ASSUME r.op \in Transactions \ {"multicast"}, translate[n] \/ ~w,
                    Means(n, r.own) = {me}, NEW t \in Means(n, r.at),
                    r.op \in {"inline", "atomic", "config"} => t[1] \in {"T", "E"}
             PROVE  IF ~Answers(t) /\ r.op # "config"
                    THEN error' # "none" /\ UNCHANGED <<Config, word, local>>
                    ELSE Served(r, t)
  BY DEF UnicastStep, Served
<1>1. OfBoard /\ Typed /\ More  BY DEF NiuInv, Store
<1>2. error = "none"  BY <1>1 DEF More
<1>3. WellFormed(r)  BY <1>1, RequestFacts
<1>4. /\ n \in Nocs /\ r.own \in (0 .. 31) \X (0 .. 31) /\ r.at \in (0 .. 31) \X (0 .. 31)
      /\ r.start \in {r.own, r.at}
  BY <1>3 DEF WellFormed
<1>5. CmdCtrl(n, r)  BY DEF Store, Transactions
<1> HIDE DEF r, n
<1>6. TileOf(n, r.own) = me /\ me \in Tiles(w)
  <2>1. me \in Means(n, r.own)  OBVIOUS
  <2>2. QED  BY <1>1, <1>4, <2>1, NameResolves
<1>7. TileOf(n, r.at) = t /\ t \in Tiles(w)  BY <1>1, <1>4, NameResolves
<1>8. Resolved(n, r)
  <2>1. TileOf(n, r.own) # NoTile /\ TileOf(n, r.at) # NoTile  BY <1>6, <1>7, NotATile
  <2>2. TileOf(n, r.start) # NoTile  BY <1>4, <2>1
  <2>3. At(n, r.start) # Nowhere  BY <2>2 DEF TileOf
  <2>4. QED  BY <2>1, <2>3 DEF Resolved
<1>9. CASE r.op # "config" /\ ~Answers(t)
  <2>1. Fails("its clock is off")
    BY <1>5, <1>6, <1>7, <1>8, <1>9, Answered DEF CmdCtrl
  <2>2. error' = "its clock is off" /\ UNCHANGED <<Config, word, local>>
    BY <2>1 DEF Fails
  <2>3. QED  BY <1>9, <2>2
<1>10. CASE r.op # "config" /\ Answers(t)
  <2> SUFFICES Served(r, t)  BY <1>10
  <2>1. /\ \/ r.op = "write" /\ Write(n, r)
           \/ r.op = "inline" /\ InlineWrite(n, r)
           \/ r.op = "atomic" /\ Atomic(n, r)
           \/ r.op = "read" /\ Read(n, r)
        /\ UNCHANGED Config
    BY <1>5, <1>6, <1>7, <1>8, <1>10, Answered DEF CmdCtrl
  <2>2. word = [u \in Tiles(w) |-> word[u]]  BY <1>1 DEF Typed
  <2>3. clock_off' = clock_off  BY <2>1 DEF Config
  <2>4. CASE r.op = "write" /\ Write(n, r)
    <3>1. word' = [word EXCEPT ![t] = local] /\ local' = local /\ error' = error
      BY <1>7, <2>4 DEF Write
    <3>2. QED  BY <1>2, <2>3, <2>4, <3>1 DEF Served
  <2>5. CASE r.op = "inline" /\ InlineWrite(n, r)
    <3>1. t[1] \in {"T", "E"}  BY <2>5
    <3>2. word' = [word EXCEPT ![t] = r.data] /\ local' = local /\ error' = error
      BY <1>7, <2>5, <3>1 DEF InlineWrite
    <3>3. QED  BY <1>2, <2>3, <2>5, <3>2 DEF Served
  <2>6. CASE r.op = "atomic" /\ Atomic(n, r)
    <3>1. t[1] \in {"T", "E"}  BY <2>6
    <3>2. /\ word' = [word EXCEPT ![t] = word[t] + r.data]
          /\ local' = (IF r.posted THEN local ELSE word[t]) /\ error' = error
      BY <1>7, <2>6, <3>1 DEF Atomic
    <3>3. QED  BY <1>2, <2>3, <2>6, <3>2 DEF Served
  <2>7. CASE r.op = "read" /\ Read(n, r)
    <3>1. local' = word[t] /\ word' = word /\ error' = error  BY <1>7, <2>7 DEF Read
    <3>2. word = [word EXCEPT ![t] = word[t]]  BY <1>7, <2>2
    <3>3. QED  BY <1>2, <2>3, <2>7, <3>1, <3>2 DEF Served
  <2>8. QED  BY <2>1, <2>4, <2>5, <2>6, <2>7
<1>11. CASE r.op = "config"
  <2> SUFFICES Served(r, t)  BY <1>11
  <2>1. InlineConfig(n, r)  BY <1>5, <1>6, <1>7, <1>8, <1>11 DEF CmdCtrl
  <2>2. t[1] \in {"T", "E"}  BY <1>11
  <2>3. SetNiuCfg(t, r.reg, r.on, r.off) /\ UNCHANGED <<word, local, error>>
    BY <1>7, <2>1, <2>2 DEF InlineConfig
  <2>4. word = [word EXCEPT ![t] = word[t]]
    <3>1. word = [u \in Tiles(w) |-> word[u]]  BY <1>1 DEF Typed
    <3>2. QED  BY <1>7, <3>1
  <2>5. \A m \in Nocs :
          clock_off'[m] = IF m # r.reg THEN clock_off[m]
                          ELSE IF r.off THEN clock_off[m] \cup {t} ELSE clock_off[m] \ {t}
    <3>1. DOMAIN clock_off = Nocs  BY <1>1 DEF Typed
    <3>2. QED  BY <2>3, <3>1 DEF SetNiuCfg
  <2>6. QED  BY <1>2, <1>11, <2>3, <2>4, <2>5 DEF Served
<1>12. QED  BY <1>9, <1>10, <1>11

\* A write, read, inline write or atomic serves the tile that its coordinates
\* name, and no other, if neither of that tile's NIUs turns its clock off, and
\* otherwise ends the simulation; a write to NIU_CFG_0 is performed in any case.
\* This holds for every harvesting of either chip, on either NoC, by every name
\* that software has for a tile, after any writes to the NIUs of the chip.
THEOREM UnicastServed == Spec => UnicastExact
<1>1. NiuInv /\ [Next]_vars => [UnicastStep]_vars
  <2> SUFFICES ASSUME NiuInv, Next PROVE UnicastStep \/ UNCHANGED vars  OBVIOUS
  <2>1. CASE Store  BY <2>1, UnicastStored
  <2>2. CASE Done  BY <2>2 DEF Done
  <2>3. QED  BY <2>1, <2>2 DEF Next
<1>2. QED  BY <1>1, NiuInvariant, PTL DEF Spec, UnicastExact

-----------------------------------------------------------------------------
(* Multicasts.                                                             *)

LEMMA ColumnNamed ==
  ASSUME NEW ww \in BOOLEAN, NEW h \in Masks(ww), NEW n \in Nocs,
         NEW a \in UsedX(ww, h), NEW b \in UsedX(ww, h), NEW x \in TensixX(ww)
  PROVE  /\ IdX(ww, h, n)[x] \in IdX(ww, h, n)[a] .. IdX(ww, h, n)[b]
              <=> x \in UsedX(ww, h) /\ x \in a .. b
         /\ IdX(ww, h, n)[a] <= IdX(ww, h, n)[b] => a <= b
<1> DEFINE id == IdX(ww, h, n)
<1> DEFINE vals == TensixX(ww)
<1> DEFINE used == UsedX(ww, h)
<1>1. vals \in SUBSET Int  BY DEF TensixX
<1>2. used \in SUBSET vals  BY DEF UsedX
<1>3. KeepsOrder(id, vals, used) /\ \A v \in vals : id[v] \in 1 .. 31  BY ColumnIds
<1> HIDE DEF id, vals, used
<1>4. \A v \in vals : id[v] \in Int  BY <1>3
<1>5. a \in used /\ b \in used /\ x \in vals  BY DEF used, vals
<1>6. id[x] \in id[a] .. id[b] <=> x \in used /\ x \in a .. b  BY <1>1, <1>2, <1>3, <1>4, <1>5, Between
<1>7. id[a] <= id[b] => a <= b  BY <1>2, <1>3, <1>5 DEF KeepsOrder
<1>8. QED  BY <1>6, <1>7 DEF id, vals, used

LEMMA RowNamed ==
  ASSUME NEW ww \in BOOLEAN, NEW h \in Masks(ww), NEW n \in Nocs,
         NEW a \in UsedY(ww, h), NEW b \in UsedY(ww, h), NEW y \in TensixY(ww)
  PROVE  /\ IdY(ww, h, n)[y] \in IdY(ww, h, n)[a] .. IdY(ww, h, n)[b]
              <=> y \in UsedY(ww, h) /\ y \in a .. b
         /\ IdY(ww, h, n)[a] <= IdY(ww, h, n)[b] => a <= b
<1> DEFINE id == IdY(ww, h, n)
<1> DEFINE vals == TensixY(ww)
<1> DEFINE used == UsedY(ww, h)
<1>1. vals \in SUBSET Int  BY DEF TensixY
<1>2. used \in SUBSET vals  BY DEF UsedY
<1>3. KeepsOrder(id, vals, used) /\ \A v \in vals : id[v] \in 2 .. 31  BY RowIds
<1> HIDE DEF id, vals, used
<1>4. \A v \in vals : id[v] \in Int  BY <1>3
<1>5. a \in used /\ b \in used /\ y \in vals  BY DEF used, vals
<1>6. id[y] \in id[a] .. id[b] <=> y \in used /\ y \in a .. b  BY <1>1, <1>2, <1>3, <1>4, <1>5, Between
<1>7. id[a] <= id[b] => a <= b  BY <1>2, <1>3, <1>5 DEF KeepsOrder
<1>8. QED  BY <1>6, <1>7 DEF id, vals, used

\* The end of a span is where a tile in use is.
CornerAt(ww, h, n, x, y, t) ==
  /\ Ids(ww, h, n)[t] = <<IdX(ww, h, n)[x], IdY(ww, h, n)[y]>>
  /\ Leads(ww, h, n, TRUE, <<IdX(ww, h, n)[x], IdY(ww, h, n)[y]>>) = <<x, y>>
  /\ TileAt(ww, <<x, y>>) = t
EndAt(n, xy, x, y) ==
  /\ xy = <<IdX(w, board[2], n)[x], IdY(w, board[2], n)[y]>>
  /\ At(n, xy) = <<x, y>>
  /\ TileOf(n, xy) = <<"T", <<x, y>> >>

LEMMA SpanCorner ==
  ASSUME NEW ww \in BOOLEAN, NEW h \in Masks(ww), NEW n \in Nocs,
         NEW x \in TensixX(ww), NEW y \in TensixY(ww)
  PROVE  CornerAt(ww, h, n, x, y, <<"T", <<x, y>> >>)
<1>1. /\ Ids(ww, h, n)[<<"T", <<x, y>> >>] = <<IdX(ww, h, n)[x], IdY(ww, h, n)[y]>>
      /\ Leads(ww, h, n, TRUE, <<IdX(ww, h, n)[x], IdY(ww, h, n)[y]>>) = <<x, y>>
      /\ TileAt(ww, <<x, y>>) = <<"T", <<x, y>> >>
  BY TensixIds
<1>2. QED  BY <1>1 DEF CornerAt

LEMMA SpanEnd ==
  ASSUME OfBoard, NEW n \in Nocs, translate[n] = TRUE, NEW xy,
         NEW t \in DOMAIN noc_id_logical[n], InUse(t), noc_id_logical[n][t] = xy
  PROVE  \E x \in UsedX(w, board[2]), y \in UsedY(w, board[2]) : EndAt(n, xy, x, y)
<1> DEFINE h == board[2]
<1>1. w \in BOOLEAN /\ h \in Masks(w)  BY BoardFacts
<1>2. noc_id_logical[n] = Ids(w, h, n)  BY DEF OfBoard
<1>3. t \in DOMAIN Ids(w, h, n) /\ t[1] = "T"  BY <1>2 DEF InUse
<1>4. PICK x \in TensixX(w), y \in TensixY(w) : t = <<"T", <<x, y>> >>  BY <1>3, KindGiven
<1>5. t[2] = <<x, y>>  BY <1>4
<1>6. t[2][1] = x /\ t[2][2] = y  BY <1>5
<1>7. x \in UsedX(w, h) /\ y \in UsedY(w, h)  BY <1>6 DEF InUse, UsedX, UsedY
<1>8. /\ Ids(w, h, n)[t] = <<IdX(w, h, n)[x], IdY(w, h, n)[y]>>
      /\ Leads(w, h, n, TRUE, <<IdX(w, h, n)[x], IdY(w, h, n)[y]>>) = <<x, y>>
      /\ TileAt(w, <<x, y>>) = t
  <2> HIDE DEF h
  <2>1. CornerAt(w, h, n, x, y, <<"T", <<x, y>> >>)  BY <1>1, <1>4, SpanCorner
  <2>2. QED  BY <1>4, <2>1 DEF CornerAt
<1>9. xy = <<IdX(w, h, n)[x], IdY(w, h, n)[y]>>  BY <1>2, <1>8
<1>10. At(n, xy) = Leads(w, h, n, translate[n], xy)  BY AtLeads
<1>11. At(n, xy) = <<x, y>>  BY <1>8, <1>9, <1>10
<1>12. <<x, y>> # Nowhere
  <2>1. x # 99  BY <1>4 DEF TensixX
  <2>2. <<x, y>>[1] = x /\ Nowhere[1] = 99  BY DEF Nowhere
  <2>3. QED  BY <2>1, <2>2
<1>13. TileOf(n, xy) = t  BY <1>8, <1>11, <1>12 DEF TileOf
<1>14. QED  BY <1>4, <1>7, <1>9, <1>11, <1>13 DEF EndAt

\* What is skipped of the columns and rows in use is what software asked for.
LEMMA SkipsAsked ==
  ASSUME OfBoard, Typed, NEW n \in Nocs, SkipsKept(n), error = "none",
         NEW x \in UsedX(w, board[2]), NEW y \in UsedY(w, board[2]), NEW t, t[2] = <<x, y>>
  PROVE  AskedToSkip(n, t) <=> x \in skip_x[n] \/ y \in skip_y[n]
<1>1. t[2][1] = x /\ t[2][2] = y  OBVIOUS
<1>2. CASE AsReset(n)
  <2>1. ~AskedToSkip(n, t)  BY <1>2 DEF AsReset, AskedToSkip
  <2>2. x \notin NonTensixColumns(w) /\ y \notin NonTensixRows(w)
    <3>1. w \in BOOLEAN  BY BoardFacts
    <3>2. x \in TensixX(w) /\ y \in TensixY(w)  BY DEF UsedX, UsedY
    <3>3. QED  BY <3>1, <3>2 DEF TensixX, TensixY, NonTensixColumns, NonTensixRows
  <2>3. x \notin HarvestedColumns(w, board[2]) /\ y \notin HarvestedRows(w, board[2])
    BY DEF UsedX, UsedY
  <2>4. x \notin skip_x[n] /\ y \notin skip_y[n]  BY <1>2, <2>2, <2>3 DEF AsReset
  <2>5. QED  BY <2>1, <2>4
<1>3. CASE AsAsked(n)
  <2>1. PICK i \in Asked(n) : /\ \A j \in Asked(n) : j <= i
                              /\ skip_x[n] = prog[i].columns /\ skip_y[n] = prog[i].rows
    BY <1>3 DEF AsAsked
  <2>2. \A k \in Asked(n) : k \in Int
    <3>1. pc \in Nat \ {0}  BY DEF Typed
    <3>2. \A k \in 1 .. pc - 1 : k \in Int  BY <3>1
    <3>3. QED  BY <3>2 DEF Asked
  <2>3. \A k \in Asked(n) : (\A j \in Asked(n) : j <= k) => k = i  BY <2>1, <2>2
  <2>4. AskedToSkip(n, t) <=> x \in prog[i].columns \/ y \in prog[i].rows
    BY <1>1, <2>1, <2>3 DEF AskedToSkip
  <2>5. QED  BY <2>1, <2>4
<1>4. QED  BY <1>2, <1>3 DEF SkipsKept

\* Tile u is in the rectangle, in use and not to be skipped.
Within(n, u, lx, ly, hx, hy) ==
  \E x \in UsedX(w, board[2]), y \in UsedY(w, board[2]) :
    /\ u = <<"T", <<x, y>> >> /\ x \in lx .. hx /\ y \in ly .. hy
    /\ ~AskedToSkip(n, u)

\* What is not skipped, in a rectangle with corners in use, is in use.
LEMMA RectangleReached ==
  ASSUME OfBoard, Typed, NEW n \in Nocs, SkipsKept(n), error = "none",
         HarvestedColumns(w, board[2]) \subseteq skip_x[n],
         HarvestedRows(w, board[2]) \subseteq skip_y[n],
         NEW lx \in UsedX(w, board[2]), NEW hx \in UsedX(w, board[2]),
         NEW ly \in UsedY(w, board[2]), NEW hy \in UsedY(w, board[2]),
         NEW low, low = <<lx, ly>>, NEW high, high = <<hx, hy>>, NEW u
  PROVE  u \in {TileAt(w, xy) : xy \in Reached(n, low, high)} <=> Within(n, u, lx, ly, hx, hy)
<1> DEFINE usedX == UsedX(w, board[2])
<1> DEFINE usedY == UsedY(w, board[2])
<1>1. w \in BOOLEAN  BY BoardFacts
<1>2. low[1] = lx /\ low[2] = ly /\ high[1] = hx /\ high[2] = hy  OBVIOUS
<1>3. /\ lx \in TensixX(w) /\ hx \in TensixX(w) /\ ly \in TensixY(w) /\ hy \in TensixY(w)
      /\ usedX \subseteq TensixX(w) /\ usedY \subseteq TensixY(w)
  BY DEF UsedX, UsedY
<1>4. \A x \in (lx .. hx) \ skip_x[n] : x \in usedX
  <2> SUFFICES ASSUME NEW x \in (lx .. hx) \ skip_x[n] PROVE x \in usedX  OBVIOUS
  <2>1. x \notin NonTensixColumns(w) /\ x \notin HarvestedColumns(w, board[2])  BY DEF SkipsKept
  <2>2. x \in TensixX(w)  BY <1>1, <1>3, <2>1 DEF TensixX, NonTensixColumns
  <2>3. QED  BY <2>1, <2>2 DEF UsedX
<1>5. \A y \in (ly .. hy) \ skip_y[n] : y \in usedY
  <2> SUFFICES ASSUME NEW y \in (ly .. hy) \ skip_y[n] PROVE y \in usedY  OBVIOUS
  <2>1. y \notin NonTensixRows(w) /\ y \notin HarvestedRows(w, board[2])  BY DEF SkipsKept
  <2>2. y \in TensixY(w)  BY <1>1, <1>3, <2>1 DEF TensixY, NonTensixRows
  <2>3. QED  BY <2>1, <2>2 DEF UsedY
<1>6. ASSUME NEW x \in usedX, NEW y \in usedY
      PROVE  /\ TileAt(w, <<x, y>>) = <<"T", <<x, y>> >>
             /\ AskedToSkip(n, <<"T", <<x, y>> >>) <=> x \in skip_x[n] \/ y \in skip_y[n]
  <2>1. x \in TensixX(w) /\ y \in TensixY(w)  BY <1>3
  <2>2. TileAt(w, <<x, y>>) = <<"T", <<x, y>> >>  BY <1>1, <2>1, TileAtTensix
  <2> DEFINE t == <<"T", <<x, y>> >>
  <2>3. t[2] = <<x, y>>  OBVIOUS
  <2> HIDE DEF t
  <2>4. AskedToSkip(n, t) <=> x \in skip_x[n] \/ y \in skip_y[n]  BY <2>3, SkipsAsked
  <2>5. QED  BY <2>2, <2>4 DEF t
<1> DEFINE X == (lx .. hx) \ skip_x[n]
<1> DEFINE Y == (ly .. hy) \ skip_y[n]
<1> DEFINE tiles == {TileAt(w, xy) : xy \in Reached(n, low, high)}
<1>7. u \in tiles <=> \E x \in X, y \in Y : u = TileAt(w, <<x, y>>)
  <2> DEFINE S == Reached(n, low, high)
  <2>1. S = {<<x, y>> : x \in X, y \in Y}  BY <1>2 DEF Reached
  <2> HIDE DEF S, X, Y
  <2>2. \A xy : xy \in S <=> \E x \in X, y \in Y : xy = <<x, y>>  BY <2>1
  <2>3. u \in tiles <=> \E xy \in S : u = TileAt(w, xy)  BY DEF S
  <2> HIDE DEF tiles
  <2>4. ASSUME u \in tiles PROVE \E x \in X, y \in Y : u = TileAt(w, <<x, y>>)
    <3>1. PICK xy \in S : u = TileAt(w, xy)  BY <2>3, <2>4
    <3>2. PICK x \in X, y \in Y : xy = <<x, y>>  BY <2>2
    <3>3. QED  BY <3>1, <3>2
  <2>5. ASSUME NEW x \in X, NEW y \in Y, u = TileAt(w, <<x, y>>) PROVE u \in tiles
    <3>1. <<x, y>> \in S  BY <2>2
    <3>2. QED  BY <2>3, <2>5, <3>1
  <2>6. QED  BY <2>4, <2>5
<1> HIDE DEF usedX, usedY
<1>8. ASSUME u \in {TileAt(w, xy) : xy \in Reached(n, low, high)}
      PROVE  Within(n, u, lx, ly, hx, hy)
  <2>1. PICK x \in X, y \in Y : u = TileAt(w, <<x, y>>)
    <3> HIDE DEF X, Y
    <3>1. QED  BY <1>8, <1>7
  <2>2. x \in usedX /\ y \in usedY  BY <1>4, <1>5
  <2>3. u = <<"T", <<x, y>> >> /\ ~AskedToSkip(n, u)  BY <1>6, <2>1, <2>2
  <2>4. QED  BY <2>2, <2>3 DEF Within, usedX, usedY
<1>9. ASSUME Within(n, u, lx, ly, hx, hy)
      PROVE  u \in {TileAt(w, xy) : xy \in Reached(n, low, high)}
  <2>1. PICK x \in usedX, y \in usedY :
          /\ u = <<"T", <<x, y>> >> /\ x \in lx .. hx /\ y \in ly .. hy
          /\ ~AskedToSkip(n, u)
    BY <1>9 DEF Within, usedX, usedY
  <2>2. u = TileAt(w, <<x, y>>) /\ x \notin skip_x[n] /\ y \notin skip_y[n]  BY <1>6, <2>1
  <2>3. x \in X /\ y \in Y  BY <2>1, <2>2
  <2>4. QED
    <3> HIDE DEF X, Y
    <3>1. QED  BY <1>7, <2>2, <2>3
<1>10. QED  BY <1>8, <1>9

\* The tiles that software names with a span.
LEMMA SpanNames ==
  ASSUME OfBoard, NEW n \in Nocs, NEW r,
         NEW lx \in UsedX(w, board[2]), NEW hx \in UsedX(w, board[2]),
         NEW ly \in UsedY(w, board[2]), NEW hy \in UsedY(w, board[2]),
         EndAt(n, Low(n, r), lx, ly), EndAt(n, High(n, r), hx, hy), NEW u
  PROVE  u \in NamedTiles(n, r) <=> (u # me \/ r.include) /\ Within(n, u, lx, ly, hx, hy)
<1> DEFINE h == board[2]
<1> DEFINE idx == IdX(w, board[2], n)
<1> DEFINE idy == IdY(w, board[2], n)
<1> DEFINE low == Low(n, r)
<1> DEFINE high == High(n, r)
<1>1. w \in BOOLEAN /\ h \in Masks(w)  BY BoardFacts
<1>2. noc_id_logical[n] = Ids(w, h, n)  BY DEF OfBoard
<1>3. low = <<idx[lx], idy[ly]>> /\ high = <<idx[hx], idy[hy]>>  BY DEF EndAt
<1>4. low[1] = idx[lx] /\ low[2] = idy[ly] /\ high[1] = idx[hx] /\ high[2] = idy[hy]
  <2> HIDE DEF low, high, idx, idy
  <2>1. QED  BY <1>3
<1>5. ASSUME NEW x \in TensixX(w), NEW y \in TensixY(w), u = <<"T", <<x, y>> >>
      PROVE  /\ u \in DOMAIN Ids(w, h, n)
             /\ Ids(w, h, n)[u][1] = idx[x] /\ Ids(w, h, n)[u][2] = idy[y]
             /\ idx[x] \in idx[lx] .. idx[hx] <=> x \in UsedX(w, h) /\ x \in lx .. hx
             /\ idy[y] \in idy[ly] .. idy[hy] <=> y \in UsedY(w, h) /\ y \in ly .. hy
  <2>1. CornerAt(w, h, n, x, y, <<"T", <<x, y>> >>)  BY <1>1, SpanCorner
  <2>2. Ids(w, h, n)[u] = <<idx[x], idy[y]>>  BY <1>5, <2>1 DEF CornerAt
  <2>3. u \in DOMAIN Ids(w, h, n)  BY <1>5 DEF Ids, Tiles
  <2>4. idx[x] \in idx[lx] .. idx[hx] <=> x \in UsedX(w, h) /\ x \in lx .. hx  BY <1>1, ColumnNamed
  <2>5. idy[y] \in idy[ly] .. idy[hy] <=> y \in UsedY(w, h) /\ y \in ly .. hy  BY <1>1, RowNamed
  <2>6. Ids(w, h, n)[u][1] = idx[x] /\ Ids(w, h, n)[u][2] = idy[y]
    <3> HIDE DEF h, idx, idy
    <3>1. QED  BY <2>2
  <2>7. QED  BY <2>3, <2>4, <2>5, <2>6
<1> DEFINE ids == Ids(w, h, n)
<1>6. NamedTiles(n, r) =
        {t \in DOMAIN ids :
           /\ t[1] = "T" /\ ~AskedToSkip(n, t)
           /\ t # me \/ r.include
           /\ \A axis \in {1, 2} : ids[t][axis] \in low[axis] .. high[axis]}
  BY <1>2 DEF NamedTiles
<1>7. u \in DOMAIN ids /\ u[1] = "T" => \E x \in TensixX(w), y \in TensixY(w) : u = <<"T", <<x, y>> >>
  BY KindGiven
<1>8. UsedX(w, h) \subseteq TensixX(w) /\ UsedY(w, h) \subseteq TensixY(w)  BY DEF UsedX, UsedY
<1> HIDE DEF h, idx, idy, low, high, ids
<1>9. CASE \E x \in TensixX(w), y \in TensixY(w) : u = <<"T", <<x, y>> >>
  <2>1. PICK x \in TensixX(w), y \in TensixY(w) : u = <<"T", <<x, y>> >>  BY <1>9
  <2>2. /\ u \in DOMAIN ids /\ u[1] = "T"
        /\ ids[u][1] = idx[x] /\ ids[u][2] = idy[y]
        /\ idx[x] \in idx[lx] .. idx[hx] <=> x \in UsedX(w, h) /\ x \in lx .. hx
        /\ idy[y] \in idy[ly] .. idy[hy] <=> y \in UsedY(w, h) /\ y \in ly .. hy
    BY <1>5, <2>1 DEF ids
  <2>3. (\A axis \in {1, 2} : ids[u][axis] \in low[axis] .. high[axis])
          <=> x \in UsedX(w, h) /\ x \in lx .. hx /\ y \in UsedY(w, h) /\ y \in ly .. hy
    BY <1>4, <2>2
  <2>4. Within(n, u, lx, ly, hx, hy)
          <=> /\ x \in UsedX(w, h) /\ x \in lx .. hx /\ y \in UsedY(w, h) /\ y \in ly .. hy
              /\ ~AskedToSkip(n, u)
    <3>1. \A a, b : u = <<"T", <<a, b>> >> => a = x /\ b = y  BY <2>1
    <3>2. QED  BY <2>1, <3>1 DEF Within, h
  <2>5. QED  BY <1>6, <2>2, <2>3, <2>4
<1>10. CASE ~\E x \in TensixX(w), y \in TensixY(w) : u = <<"T", <<x, y>> >>
  <2>1. u \notin NamedTiles(n, r)  BY <1>6, <1>7, <1>10
  <2>2. ~Within(n, u, lx, ly, hx, hy)  BY <1>8, <1>10 DEF Within, h
  <2>3. QED  BY <2>1, <2>2
<1>11. QED  BY <1>9, <1>10

LEMMA MulticastStored ==
  ASSUME NiuInv, Store
  PROVE  MulticastStep
<1> DEFINE r == Request
<1> DEFINE n == Request.noc
<1> DEFINE named == NamedTiles(n, r)
<1> SUFFICES ASSUME r.op = "multicast", NamesSpan(n, r)
             PROVE  IF \E t \in named : ~Answers(t) THEN error' # "none"
                    ELSE /\ error' = "none"
                         /\ word' = [t \in DOMAIN word |-> IF t \in named THEN local ELSE word[t]]
                         /\ counters'[n].acks =
                              counters[n].acks + IF r.posted THEN 0 ELSE Cardinality(named)
  BY DEF MulticastStep
<1>1. OfBoard /\ Typed /\ More  BY DEF NiuInv, Store
<1>2. error = "none"  BY <1>1 DEF More
<1>3. WellFormed(r)  BY <1>1, RequestFacts
<1>4. n \in Nocs /\ r.own \in (0 .. 31) \X (0 .. 31)  BY <1>3 DEF WellFormed, Transactions
<1>5. CmdCtrl(n, r)  BY DEF Store, Transactions
<1> HIDE DEF r, n, named
<1>6. translate[n] = TRUE /\ Means(n, r.own) = {me}
  BY <1>1, <1>4 DEF NamesSpan, Typed
<1>7. TileOf(n, r.own) = me /\ me \in Tiles(w)
  <2>1. me \in Means(n, r.own)  BY <1>6
  <2>2. QED  BY <1>1, <1>4, <1>6, <2>1, NameResolves
<1> DEFINE usedX == UsedX(w, board[2])
<1> DEFINE usedY == UsedY(w, board[2])
<1>8. \A xy \in {r.start, r.at} : \E x \in usedX, y \in usedY : EndAt(n, xy, x, y)
  <2> SUFFICES ASSUME NEW xy \in {r.start, r.at}
               PROVE  \E x \in usedX, y \in usedY : EndAt(n, xy, x, y)
    OBVIOUS
  <2>1. PICK t \in DOMAIN noc_id_logical[n] : InUse(t) /\ noc_id_logical[n][t] = xy
    BY DEF NamesSpan
  <2>2. QED  BY <1>1, <1>4, <1>6, <2>1, SpanEnd
<1> DEFINE lowId == Low(n, r)
<1> DEFINE highId == High(n, r)
<1>9. lowId \in {r.start, r.at} /\ highId \in {r.start, r.at}  BY DEF Low, High
<1>10. Span(n, r) = <<At(n, lowId), At(n, highId)>>  BY DEF Low, High, Span
<1> HIDE DEF lowId, highId
<1>11. PICK lx \in usedX, ly \in usedY : EndAt(n, lowId, lx, ly)  BY <1>8, <1>9
<1>12. PICK hx \in usedX, hy \in usedY : EndAt(n, highId, hx, hy)  BY <1>8, <1>9
<1> DEFINE low == Span(n, r)[1]
<1> DEFINE high == Span(n, r)[2]
<1>13. low = <<lx, ly>> /\ high = <<hx, hy>>  BY <1>10, <1>11, <1>12 DEF EndAt
<1> HIDE DEF low, high
<1>14. lx <= hx /\ ly <= hy
  <2> DEFINE idx == IdX(w, board[2], n)
  <2> DEFINE idy == IdY(w, board[2], n)
  <2>1. w \in BOOLEAN /\ board[2] \in Masks(w)  BY <1>1, BoardFacts
  <2>2. lowId[1] <= highId[1] /\ lowId[2] <= highId[2]  BY DEF NamesSpan, lowId, highId
  <2>3. lowId = <<idx[lx], idy[ly]>> /\ highId = <<idx[hx], idy[hy]>>  BY <1>11, <1>12 DEF EndAt
  <2>4. lx \in TensixX(w) /\ ly \in TensixY(w)  BY DEF UsedX, UsedY
  <2>5. idx[lx] <= idx[hx] => lx <= hx  BY <1>4, <2>1, <2>4, ColumnNamed
  <2>6. idy[ly] <= idy[hy] => ly <= hy  BY <1>4, <2>1, <2>4, RowNamed
  <2> HIDE DEF idx, idy
  <2>7. idx[lx] <= idx[hx] /\ idy[ly] <= idy[hy]  BY <2>2, <2>3
  <2>8. QED  BY <2>5, <2>6, <2>7
<1>15. Resolved(n, r)
  <2>1. TileOf(n, r.own) # NoTile  BY <1>7, NotATile
  <2>2. \A xy \in {r.start, r.at} : TileOf(n, xy) # NoTile
    <3> SUFFICES ASSUME NEW xy \in {r.start, r.at} PROVE TileOf(n, xy) # NoTile  OBVIOUS
    <3>1. PICK x \in usedX, y \in usedY : EndAt(n, xy, x, y)  BY <1>8
    <3>2. TileOf(n, xy) = <<"T", <<x, y>> >>  BY <3>1 DEF EndAt
    <3>3. TileOf(n, xy)[1] = "T" /\ NoTile[1] = "none"  BY <3>2 DEF NoTile
    <3>4. QED  BY <3>3
  <2>3. At(n, r.start) # Nowhere  BY <2>2 DEF TileOf
  <2>4. QED  BY <1>6, <2>1, <2>2, <2>3 DEF Resolved
<1>16. Multicast(n, r)  BY <1>5, <1>7, <1>15 DEF CmdCtrl
<1> DEFINE tiles == {TileAt(w, xy) : xy \in Reached(n, low, high)}
<1> DEFINE written == IF r.include THEN tiles ELSE tiles \ {me}
<1>17. \A u : u \in tiles <=> Within(n, u, lx, ly, hx, hy)
  <2>1. SkipsKept(n)  BY <1>4 DEF NiuInv
  <2>2. HarvestedColumns(w, board[2]) \subseteq skip_x[n] /\ HarvestedRows(w, board[2]) \subseteq skip_y[n]
    BY DEF NamesSpan
  <2>3. QED  BY <1>1, <1>2, <1>4, <1>13, <2>1, <2>2, RectangleReached
<1> HIDE DEF tiles
<1>18. written = named
  <2>1. \A u : u \in named <=> (u # me \/ r.include) /\ Within(n, u, lx, ly, hx, hy)
    BY <1>1, <1>4, <1>11, <1>12, SpanNames DEF named, lowId, highId
  <2>2. \A u : u \in written <=> (u # me \/ r.include) /\ u \in tiles  OBVIOUS
  <2> HIDE DEF written
  <2>3. \A u : u \in written <=> u \in named  BY <1>17, <2>1, <2>2
  <2>4. QED  BY <2>3
<1>19. \A u \in tiles : u[1] = "T"
  <2> SUFFICES ASSUME NEW u \in tiles PROVE u[1] = "T"  OBVIOUS
  <2>1. PICK x, y : u = <<"T", <<x, y>> >>  BY <1>17 DEF Within
  <2>2. QED  BY <2>1
<1>20. low[1] <= high[1] /\ low[2] <= high[2]  BY <1>13, <1>14
<1>21. CASE \E u \in written : ClockOff(u)
  <2>1. Fails("its clock is off")
    BY <1>16, <1>19, <1>20, <1>21 DEF Multicast, low, high, tiles
  <2>2. error' # "none"  BY <2>1 DEF Fails
  <2>3. \E u \in named : ~Answers(u)  BY <1>18, <1>21, Answered
  <2>4. QED  BY <2>2, <2>3
<1>22. CASE ~\E u \in written : ClockOff(u)
  <2> DEFINE acks == Cardinality(written)
  <2>1. /\ word' = [t \in DOMAIN word |-> IF t \in written THEN local ELSE word[t]]
        /\ counters' =
             IF r.posted THEN [counters EXCEPT ![n].posted = @ + 1]
             ELSE [counters EXCEPT ![n].acks = @ + acks, ![n].sent = @ + 1,
                                   ![n].outstanding = @ - acks + 1]
        /\ error' = error
    BY <1>16, <1>19, <1>20, <1>22 DEF Multicast, low, high, tiles
  <2> HIDE DEF written
  <2>2. counters'[n].acks = counters[n].acks + IF r.posted THEN 0 ELSE acks
    <3> HIDE DEF acks
    <3>1. counters \in [Nocs -> Counts] /\ counters[n].acks \in Int  BY <1>1, <1>4 DEF Typed, Counts
    <3>2. QED  BY <1>4, <2>1, <3>1 DEF Counts
  <2>3. ~\E u \in named : ~Answers(u)  BY <1>18, <1>22, Answered
  <2>4. QED  BY <1>2, <1>18, <2>1, <2>2, <2>3
<1>23. QED  BY <1>21, <1>22

\* A multicast over a span of ids of tiles in use writes the Tensix tiles whose
\* ids are in the span, but those that software has asked to be skipped, and no
\* other, and counts an acknowledgement for each, or ends the simulation if the
\* clock of one of them is off: for every harvesting of either chip, on either NoC.
THEOREM MulticastServed == Spec => MulticastExact
<1>1. NiuInv /\ [Next]_vars => [MulticastStep]_vars
  <2> SUFFICES ASSUME NiuInv, Next PROVE MulticastStep \/ UNCHANGED vars  OBVIOUS
  <2>1. CASE Store  BY <2>1, MulticastStored
  <2>2. CASE Done  BY <2>2 DEF Done
  <2>3. QED  BY <2>1, <2>2 DEF Next
<1>2. QED  BY <1>1, NiuInvariant, PTL DEF Spec, MulticastExact

=============================================================================
