---------------------------- MODULE RvMemoryProofs ----------------------------
(***************************************************************************)
(* Proofs about RvMemory: its types, that PMP flattened to segments decides *)
(* as the entries do, that reservations hold, the assertion LR makes, and   *)
(* that the TLBs hold no more than PMP allows.                              *)
(***************************************************************************)
EXTENDS RvMemory, WellFoundedInduction, FiniteSetTheorems, TLAPS

-----------------------------------------------------------------------------
(* Numbers                                                                  *)

LEMMA LeastIn ==
  ASSUME NEW T \in SUBSET Nat, T # {}
  PROVE  \E i \in T : \A j \in T : i <= j
<1> DEFINE R == OpToRel(<, Nat)
<1>1. PICK i \in T : \A j \in T : ~(<<j, i>> \in R)
  <2>1. IsWellFoundedOn(R, Nat)
    BY NatLessThanWellFounded
  <2> HIDE DEF R
  <2> QED BY <2>1, WFMin
<1> SUFFICES ASSUME NEW j \in T PROVE i <= j
  BY <1>1
<1>2. ~(j < i)
  BY <1>1 DEF OpToRel
<1> QED BY <1>2

LEMMA MinIs ==
  ASSUME NEW T \in SUBSET Nat, T # {}
  PROVE  Min(T) \in T /\ \A j \in T : Min(T) <= j
BY LeastIn DEF Min

\* A set of k elements has more than k subsets.
LEMMA PowerOfTwo ==
  ASSUME NEW k \in Nat
  PROVE  2^k \in Nat \ {0} /\ k < 2^k
<1> DEFINE S == 1 .. k
           f == [x \in S |-> {x}]
<1>1. IsFiniteSet(S) /\ Cardinality(S) = k
  BY FS_Interval
<1>2. Cardinality(SUBSET S) = 2^k /\ IsFiniteSet(SUBSET S)
  BY <1>1, FS_SUBSET
<1> HIDE DEF S
<1>3. f \in Injection(S, SUBSET S) /\ f \notin Surjection(S, SUBSET S)
  <2>1. f \in Injection(S, SUBSET S)
    BY DEF Injection, IsInjective
  <2>2. {} \in SUBSET S /\ \A x \in S : f[x] # {}
    OBVIOUS
  <2> QED BY <2>1, <2>2 DEF Surjection
<1> HIDE DEF f
<1>4. k <= 2^k /\ k # 2^k
  BY <1>1, <1>2, <1>3, FS_Injection
<1>5. 2^k \in Nat
  BY <1>2, FS_CardinalityType
<1> QED BY <1>4, <1>5

LEMMA Remainder ==
  ASSUME NEW a \in Nat, NEW b \in Nat \ {0}
  PROVE  a % b \in 0 .. b - 1 /\ a % b <= a /\ a \div b \in Nat /\ a = (a \div b) * b + (a % b)
<1>1. a % b \in 0 .. b - 1 /\ a \div b \in Nat /\ a = (a \div b) * b + (a % b)
  OBVIOUS
<1>2. (a \div b) * b >= 0
  BY <1>1
<1> QED BY <1>1, <1>2

LEMMA PagesTyped ==
  /\ Fan \in Nat \ {0} /\ PageUnits \in Nat /\ PageUnits >= 2 /\ PageUnits = 2 * Fan
  /\ \A p \in Nat : Base(p) \in Nat
<1>1. Fan \in Nat \ {0}
  BY PowerOfTwo, ShapeAssumption DEF Fan
<1>2. PageUnits = 2 * Fan
  BY DEF PageUnits
<1> HIDE DEF Fan
<1>3. PageUnits \in Nat /\ PageUnits >= 2
  BY <1>1, <1>2
<1>4. ASSUME NEW p \in Nat
      PROVE  Base(p) \in Nat
  BY <1>3 DEF Base
<1> QED BY <1>1, <1>2, <1>3, <1>4

-----------------------------------------------------------------------------
(* The entries of PMP                                                       *)

LEMMA TrailingOnesIs ==
  ASSUME NEW a \in Nat
  PROVE  TrailingOnes(a) \in Nat
<1> DEFINE T == {k \in Nat : (a \div 2^k) % 2 = 0}
<1>1. a \div 2^a = 0
  <2>1. 2^a \in Nat \ {0} /\ a < 2^a
    BY PowerOfTwo
  <2> DEFINE p == 2^a
  <2> HIDE DEF p
  <2>2. \A q \in Nat \ {0} : a < q => a \div q = 0
    OBVIOUS
  <2> QED BY <2>1, <2>2
<1>2. a \in T
  <2> DEFINE q == a \div 2^a
  <2>1. q = 0
    BY <1>1
  <2> HIDE DEF q
  <2>2. q % 2 = 0
    BY <2>1
  <2> QED BY <2>2 DEF q
<1>3. PICK k \in T : \A j \in T : k <= j
  BY <1>2, LeastIn
<1>4. \A j \in 0 .. k - 1 : (a \div 2^j) % 2 = 1
  <2> SUFFICES ASSUME NEW j \in 0 .. k - 1 PROVE (a \div 2^j) % 2 = 1
    OBVIOUS
  <2>1. 2^j \in Nat \ {0}
    BY PowerOfTwo
  <2>2. a \div 2^j \in Nat
    BY <2>1, Remainder
  <2>3. j \notin T
    BY <1>3
  <2> QED BY <2>2, <2>3
<1>5. k \in 0 .. a
  BY <1>2, <1>3
<1>6. \E i \in 0 .. a : (a \div 2^i) % 2 = 0 /\ \A j \in 0 .. (i - 1) : (a \div 2^j) % 2 = 1
  BY <1>3, <1>4, <1>5
<1>7. TrailingOnes(a) \in 0 .. a
  BY <1>6 DEF TrailingOnes
<1> QED BY <1>7

RuleTable == [1..PmpN -> [lo : Nat, hi : Nat, perm : SUBSET Bits, lock : BOOLEAN]]

LEMMA RulesTyped ==
  ASSUME NEW cfg \in [1..PmpN -> PmpEntry], NEW addr \in [1..PmpN -> Nat]
  PROVE  Rules(cfg, addr) \in RuleTable
<1> SUFFICES ASSUME NEW i \in 1..PmpN
             PROVE  /\ RuleLo(addr, i, cfg[i].kind) \in Nat
                    /\ RuleHi(addr, i, cfg[i].kind) \in Nat
  BY DEF Rules, RuleTable, PmpEntry
<1>1. addr[i] \in Nat /\ cfg[i].kind \in {"OFF", "TOR", "NA4", "NAPOT"}
  BY DEF PmpEntry
<1>2. CASE cfg[i].kind = "TOR"
  <2>1. i # 1 => addr[i - 1] \in Nat
    BY ShapeAssumption
  <2> QED BY <1>1, <1>2, <2>1 DEF RuleLo, RuleHi
<1>3. CASE cfg[i].kind = "NA4"
  BY <1>1, <1>3 DEF RuleLo, RuleHi
<1>4. CASE cfg[i].kind = "NAPOT"
  <2> DEFINE size == 2^(TrailingOnes(addr[i]) + 1)
  <2>1. size \in Nat \ {0}
    <3> DEFINE t == TrailingOnes(addr[i])
    <3>1. t \in Nat
      BY <1>1, TrailingOnesIs
    <3> HIDE DEF t
    <3>2. t + 1 \in Nat
      BY <3>1
    <3>3. 2^(t + 1) \in Nat \ {0}
      BY <3>2, PowerOfTwo
    <3> QED BY <3>3 DEF t
  <2>2. RuleLo(addr, i, "NAPOT") = addr[i] - (addr[i] % size)
        /\ RuleHi(addr, i, "NAPOT") = RuleLo(addr, i, "NAPOT") + size
    BY DEF RuleLo, RuleHi
  <2> HIDE DEF size
  <2>3. addr[i] % size \in Nat /\ addr[i] % size <= addr[i]
    <3>1. addr[i] % size \in 0 .. size - 1 /\ addr[i] % size <= addr[i]
      BY <1>1, <2>1, Remainder, Zenon
    <3> QED BY <2>1, <3>1
  <2>4. addr[i] - (addr[i] % size) \in Nat /\ addr[i] - (addr[i] % size) + size \in Nat
    BY <1>1, <2>1, <2>3
  <2> QED BY <1>4, <2>2, <2>4
<1>5. CASE cfg[i].kind = "OFF"
  BY <1>5 DEF RuleLo, RuleHi
<1> QED BY <1>1, <1>2, <1>3, <1>4, <1>5

-----------------------------------------------------------------------------
(* The segments                                                             *)

\* The first rule that has a in its range, or PmpN + 1.
IsFirst(rules, a, f) ==
  /\ f \in 1 .. PmpN + 1
  /\ f <= PmpN => Covers(rules[f], a)
  /\ \A i \in 1 .. PmpN : Covers(rules[i], a) => f <= i

LEMMA FirstRuleIs ==
  ASSUME NEW rules, NEW a
  PROVE  IsFirst(rules, a, FirstRule(rules, a))
<1> DEFINE T == {i \in 1..PmpN : Covers(rules[i], a)} \cup {PmpN + 1}
<1>1. T \in SUBSET Nat /\ T # {}
  BY ShapeAssumption
<1>2. Min(T) \in T /\ \A j \in T : Min(T) <= j
  BY <1>1, MinIs
<1>3. FirstRule(rules, a) = Min(T)
  BY DEF FirstRule
<1> QED BY <1>2, <1>3, ShapeAssumption DEF IsFirst

LEMMA OneFirst ==
  ASSUME NEW rules, NEW a, NEW f, NEW g, IsFirst(rules, a, f), IsFirst(rules, a, g)
  PROVE  f = g
BY ShapeAssumption DEF IsFirst

\* Between two bounds the first rule stays the same.
LEMMA SameBetweenBounds ==
  ASSUME NEW rules \in RuleTable, NEW a \in Nat, a > 0, a \notin Bounds(rules)
  PROVE  FirstRule(rules, a) = FirstRule(rules, a - 1)
<1>1. ASSUME NEW i \in 1..PmpN
      PROVE  Covers(rules[i], a) <=> Covers(rules[i], a - 1)
  <2>1. rules[i].lo \in Nat /\ rules[i].hi \in Nat
    BY DEF RuleTable
  <2>2. rules[i].lo < rules[i].hi => rules[i].lo # a /\ rules[i].hi # a
    BY DEF Bounds, CanMatch
  <2> QED BY <2>1, <2>2 DEF Covers
<1>2. {i \in 1..PmpN : Covers(rules[i], a)} = {i \in 1..PmpN : Covers(rules[i], a - 1)}
  BY <1>1
<1> QED BY <1>2 DEF FirstRule

LEMMA BoundsTyped ==
  ASSUME NEW rules \in RuleTable
  PROVE  Bounds(rules) \subseteq Nat /\ Starts(rules) \subseteq Nat /\ 0 \in Starts(rules)
BY DEF Bounds, Starts, CanMatch, RuleTable

LEMMA LastOfIs ==
  ASSUME NEW rules \in RuleTable, NEW b \in Starts(rules)
  PROVE  /\ LastOf(rules, b) \in Nat /\ LastOf(rules, b) <= Top
         /\ \A n \in Starts(rules) : n > b => LastOf(rules, b) < n
         /\ LastOf(rules, b) < Top => LastOf(rules, b) + 1 \in Starts(rules) /\ LastOf(rules, b) >= b
<1> DEFINE T == {n - 1 : n \in {x \in Starts(rules) : x > b}} \cup {Top}
<1>1. b \in Nat /\ Starts(rules) \subseteq Nat /\ Top \in Nat
  BY BoundsTyped, ShapeAssumption
<1>2. T \in SUBSET Nat /\ T # {}
  BY <1>1
<1>3. Min(T) \in T /\ \A j \in T : Min(T) <= j
  BY <1>2, MinIs
<1> DEFINE last == LastOf(rules, b)
<1>4. last \in T /\ \A j \in T : last <= j
  BY <1>3 DEF LastOf
<1> HIDE DEF last
<1>5. last \in Nat /\ last <= Top
  BY <1>1, <1>2, <1>4
<1>6. ASSUME NEW n \in Starts(rules), n > b
      PROVE  last < n
  <2>1. n - 1 \in T
    BY <1>6
  <2>2. last <= n - 1
    BY <1>4, <2>1
  <2> QED BY <1>1, <1>5, <2>2
<1>7. ASSUME last < Top
      PROVE  last + 1 \in Starts(rules) /\ last >= b
  <2>1. PICK n \in Starts(rules) : n > b /\ last = n - 1
    BY <1>1, <1>4, <1>7
  <2> QED BY <1>1, <2>1
<1> QED BY <1>5, <1>6, <1>7 DEF last

\* All of a segment has the same first rule.
LEMMA SameInSegment ==
  ASSUME NEW rules \in RuleTable, NEW b \in Starts(rules), NEW x \in Nat,
         b <= x, x <= LastOf(rules, b)
  PROVE  FirstRule(rules, x) = FirstRule(rules, b)
<1> DEFINE T == {y \in b .. x : FirstRule(rules, y) # FirstRule(rules, b)}
<1>1. b \in Nat /\ Starts(rules) \subseteq Nat /\ LastOf(rules, b) \in Nat
  BY BoundsTyped, LastOfIs
<1> SUFFICES ASSUME T # {} PROVE FALSE
  BY <1>1
<1>2. T \in SUBSET Nat
  BY <1>1
<1>3. PICK y \in T : \A z \in T : y <= z
  BY <1>2, LeastIn
<1>4. y \in Nat /\ y > b /\ y - 1 \in b .. x /\ y <= x
  BY <1>1, <1>3
<1>5. FirstRule(rules, y - 1) = FirstRule(rules, b)
  BY <1>3, <1>4
<1>6. FirstRule(rules, y) # FirstRule(rules, y - 1)
  BY <1>3, <1>5
<1>7. y \in Bounds(rules)
  BY <1>1, <1>4, <1>6, SameBetweenBounds
<1>8. y \in Starts(rules)
  BY <1>6, <1>7 DEF Starts
<1> QED BY <1>1, <1>4, <1>8, LastOfIs

\* Every unit up to Top is in a segment, and in one only.
LEMMA InSegment ==
  ASSUME NEW rules \in RuleTable, NEW a \in 0 .. Top
  PROVE  \E b \in Starts(rules) : b <= a /\ a <= LastOf(rules, b)
<1> DEFINE T == {d \in 0 .. a : a - d \in Starts(rules)}
<1>1. Starts(rules) \subseteq Nat /\ 0 \in Starts(rules) /\ Top \in Nat /\ a \in Nat
  BY BoundsTyped, ShapeAssumption
<1>2. T \in SUBSET Nat /\ a \in T
  BY <1>1
<1>3. PICK d \in T : \A e \in T : d <= e
  BY <1>2, LeastIn
<1>4. a - d \in Starts(rules) /\ a - d <= a /\ a - d \in Nat
  BY <1>1, <1>3
<1>5. ASSUME LastOf(rules, a - d) < a
      PROVE  FALSE
  <2> DEFINE n == LastOf(rules, a - d) + 1
  <2>1. n \in Starts(rules) /\ n > a - d /\ n <= a /\ n \in Nat
    BY <1>1, <1>4, <1>5, LastOfIs
  <2> HIDE DEF n
  <2>2. a - n \in T /\ a - n < d
    BY <1>1, <1>3, <2>1
  <2> QED BY <1>2, <1>3, <2>2
<1>6. LastOf(rules, a - d) \in Nat
  BY <1>4, LastOfIs
<1> QED BY <1>1, <1>4, <1>5, <1>6

LEMMA OneSegment ==
  ASSUME NEW rules \in RuleTable, NEW a \in Nat, NEW b \in Starts(rules), NEW c \in Starts(rules),
         b <= a, a <= LastOf(rules, b), c <= a, a <= LastOf(rules, c)
  PROVE  b = c
<1>1. b \in Nat /\ c \in Nat /\ LastOf(rules, b) \in Nat /\ LastOf(rules, c) \in Nat
  BY BoundsTyped, LastOfIs
<1>2. ~(b < c) /\ ~(c < b)
  BY <1>1, LastOfIs
<1> QED BY <1>1, <1>2

\* What PmpUpdate leaves.
Flattened(hr) ==
  /\ hr.segs = Segments(Rules(hr.cfg, hr.addr))
  /\ hr.nrules = Cardinality(CanMatch(Rules(hr.cfg, hr.addr)))
  /\ hr.mFast = AllOpen(Rules(hr.cfg, hr.addr))

SegmentFrom(rules, b) == SegmentOf(rules, FirstRule(rules, b), b, LastOf(rules, b))

LEMMA SegmentAtIs ==
  ASSUME NEW hr, NEW rules \in RuleTable, hr.segs = Segments(rules), NEW a \in 0 .. Top
  PROVE  \E b \in Starts(rules) : /\ b <= a /\ a <= LastOf(rules, b)
                                  /\ SegmentAt(hr, a) = SegmentFrom(rules, b)
<1>1. PICK b \in Starts(rules) : b <= a /\ a <= LastOf(rules, b)
  BY InSegment
<1> DEFINE s == SegmentFrom(rules, b)
           Has(t) == t.lo <= a /\ a <= t.last
<1>2. s \in hr.segs /\ Has(s)
  BY <1>1 DEF Segments, SegmentFrom, SegmentOf
<1>3. SegmentAt(hr, a) \in hr.segs /\ Has(SegmentAt(hr, a))
  BY <1>2 DEF SegmentAt
<1>4. PICK c \in Starts(rules) : SegmentAt(hr, a) = SegmentFrom(rules, c)
  BY <1>3 DEF Segments, SegmentFrom
<1>5. c <= a /\ a <= LastOf(rules, c)
  BY <1>3, <1>4 DEF SegmentFrom, SegmentOf
<1>6. b = c
  BY <1>1, <1>5, OneSegment
<1> QED BY <1>1, <1>4, <1>6

-----------------------------------------------------------------------------
(* The segments decide as the entries do                                    *)

\* The entry that decides an access to these bytes.
Deciding(hr, bytes) == Min({i \in 1..PmpN : Ranges(hr)[i] \cap bytes # {}} \cup {PmpN + 1})

LEMMA RangesIs ==
  ASSUME NEW hr, NEW rules \in RuleTable, rules = Rules(hr.cfg, hr.addr), NEW i \in 1..PmpN, NEW x \in Nat
  PROVE  x \in Ranges(hr)[i] <=> Covers(rules[i], x)
<1>1. rules[i].lo = RuleLo(hr.addr, i, hr.cfg[i].kind) /\ rules[i].hi = RuleHi(hr.addr, i, hr.cfg[i].kind)
  BY DEF Rules
<1>2. rules[i].lo \in Nat /\ rules[i].hi \in Nat
  BY DEF RuleTable
<1>3. Ranges(hr)[i] = rules[i].lo .. (rules[i].hi - 1)
  BY <1>1 DEF Ranges
<1> QED BY <1>2, <1>3 DEF Covers

LEMMA DecidingIs ==
  ASSUME NEW hr, NEW rules \in RuleTable, rules = Rules(hr.cfg, hr.addr), NEW bytes \in SUBSET Nat
  PROVE  LET f == Deciding(hr, bytes)
         IN  /\ f \in 1 .. PmpN + 1
             /\ f <= PmpN => \E x \in bytes : Covers(rules[f], x)
             /\ \A i \in 1..PmpN, x \in bytes : Covers(rules[i], x) => f <= i
             /\ f <= PmpN => (bytes \subseteq Ranges(hr)[f] <=> \A x \in bytes : Covers(rules[f], x))
<1> DEFINE T == {i \in 1..PmpN : Ranges(hr)[i] \cap bytes # {}} \cup {PmpN + 1}
           f == Deciding(hr, bytes)
<1>1. T \in SUBSET Nat /\ T # {}
  BY ShapeAssumption
<1>2. f \in T /\ \A j \in T : f <= j
  BY <1>1, MinIs DEF Deciding
<1> HIDE DEF f
<1>3. f \in 1 .. PmpN + 1 /\ (f <= PmpN => Ranges(hr)[f] \cap bytes # {})
  BY <1>2, ShapeAssumption
<1>4. ASSUME NEW i \in 1..PmpN
      PROVE  /\ \A x \in bytes : x \in Ranges(hr)[i] <=> Covers(rules[i], x)
             /\ Ranges(hr)[i] \cap bytes # {} <=> \E x \in bytes : Covers(rules[i], x)
             /\ bytes \subseteq Ranges(hr)[i] <=> \A x \in bytes : Covers(rules[i], x)
  <2>1. \A x \in bytes : x \in Ranges(hr)[i] <=> Covers(rules[i], x)
    BY RangesIs
  <2> QED BY <2>1
<1>5. f <= PmpN => f \in 1..PmpN
  BY <1>3, ShapeAssumption
<1>6. ASSUME NEW i \in 1..PmpN, NEW x \in bytes, Covers(rules[i], x)
      PROVE  f <= i
  <2>1. i \in T
    BY <1>4, <1>6
  <2> QED BY <1>2, <2>1
<1>7. f <= PmpN => /\ \E x \in bytes : Covers(rules[f], x)
                   /\ bytes \subseteq Ranges(hr)[f] <=> \A x \in bytes : Covers(rules[f], x)
  BY <1>3, <1>4, <1>5
<1> QED BY <1>3, <1>6, <1>7 DEF f

LEMMA PmpAllowsIs ==
  ASSUME NEW hr, NEW bytes, NEW acc, NEW priv
  PROVE  PmpAllows(hr, bytes, acc, priv) =
           LET f == Deciding(hr, bytes)
           IN  IF f > PmpN THEN priv = "M"
               ELSE /\ bytes \subseteq Ranges(hr)[f]
                    /\ Need(acc) \in hr.cfg[f].perm \/ (priv = "M" /\ ~hr.cfg[f].lock)
BY DEF PmpAllows, Deciding

\* Bytes that have the same first rule are decided by it.
LEMMA DecidedByFirst ==
  ASSUME NEW hr, NEW rules \in RuleTable, rules = Rules(hr.cfg, hr.addr),
         NEW bytes \in SUBSET Nat, bytes # {}, NEW f,
         \A x \in bytes : FirstRule(rules, x) = f
  PROVE  /\ Deciding(hr, bytes) = f
         /\ f <= PmpN => bytes \subseteq Ranges(hr)[f]
<1> DEFINE d == Deciding(hr, bytes)
<1>1. \A x \in bytes : IsFirst(rules, x, f)
  BY FirstRuleIs
<1>2. /\ d \in 1 .. PmpN + 1
      /\ d <= PmpN => \E x \in bytes : Covers(rules[d], x)
      /\ \A i \in 1..PmpN, x \in bytes : Covers(rules[i], x) => d <= i
      /\ d <= PmpN => (bytes \subseteq Ranges(hr)[d] <=> \A x \in bytes : Covers(rules[d], x))
  BY DecidingIs
<1> HIDE DEF d
<1>3. f \in 1 .. PmpN + 1
  BY <1>1 DEF IsFirst
<1>4. ~(f < d)
  <2> SUFFICES ASSUME f < d PROVE FALSE
    OBVIOUS
  <2>1. f \in 1..PmpN /\ f <= PmpN
    BY <1>2, <1>3, ShapeAssumption
  <2>2. PICK x \in bytes : Covers(rules[f], x)
    BY <1>1, <2>1 DEF IsFirst
  <2> QED BY <1>2, <1>3, <2>1, <2>2
<1>5. ~(d < f)
  <2> SUFFICES ASSUME d < f PROVE FALSE
    OBVIOUS
  <2>1. d \in 1..PmpN
    BY <1>2, <1>3, ShapeAssumption
  <2>2. PICK x \in bytes : Covers(rules[d], x)
    BY <1>2, <2>1
  <2> QED BY <1>1, <1>2, <1>3, <2>1, <2>2 DEF IsFirst
<1>6. d = f
  BY <1>2, <1>3, <1>4, <1>5, ShapeAssumption
<1>7. f <= PmpN => \A x \in bytes : Covers(rules[f], x)
  BY <1>1 DEF IsFirst
<1> QED BY <1>2, <1>6, <1>7 DEF d

Accesses == {"Fetch", "Load", "Store"}

LEMMA SegmentsDecide ==
  ASSUME NEW hr, hr.cfg \in [1..PmpN -> PmpEntry], hr.addr \in [1..PmpN -> Nat], Flattened(hr),
         NEW a \in Nat, NEW len \in Nat \ {0}, a + len - 1 <= Top, NEW acc \in Accesses, NEW priv
  PROVE  PmpOk(hr, a, len, acc, priv) <=> PmpAllows(hr, a .. (a + len - 1), acc, priv)
<1> DEFINE rules == Rules(hr.cfg, hr.addr)
           bytes == a .. (a + len - 1)
           d == Deciding(hr, bytes)
           s == SegmentAt(hr, a)
<1> SUFFICES PmpOk(hr, a, len, acc, priv) <=> PmpAllows(hr, bytes, acc, priv)
  OBVIOUS
<1>1. rules \in RuleTable
  BY RulesTyped
<1>2. hr.segs = Segments(rules)
  BY DEF Flattened
<1>3. a \in 0 .. Top /\ Top \in Nat
  BY ShapeAssumption
<1>4. \A i \in 1..PmpN : rules[i].perm = hr.cfg[i].perm /\ rules[i].lock = hr.cfg[i].lock
  BY DEF Rules
<1>5. rules = Rules(hr.cfg, hr.addr)
  OBVIOUS
<1> HIDE DEF rules
<1>6. PICK b \in Starts(rules) : b <= a /\ a <= LastOf(rules, b) /\ s = SegmentFrom(rules, b)
  BY <1>1, <1>2, <1>3, SegmentAtIs
<1> DEFINE f == FirstRule(rules, b)
           last == LastOf(rules, b)
<1>7. /\ s.last = last
      /\ s.su = IF f > PmpN THEN {} ELSE rules[f].perm
      /\ s.m = IF f > PmpN THEN Bits ELSE IF rules[f].lock THEN rules[f].perm ELSE Bits
  BY <1>6 DEF SegmentFrom, SegmentOf
<1>8. b \in Nat /\ last \in Nat /\ last <= Top
  BY <1>1, BoundsTyped, LastOfIs
<1>9. bytes \in SUBSET Nat /\ a \in bytes /\ a + len - 1 \in bytes
  OBVIOUS
<1>10. PmpOk(hr, a, len, acc, priv) <=>
         a + len - 1 <= last /\ Need(acc) \in IF priv = "M" THEN s.m ELSE s.su
  BY <1>7 DEF PmpOk
<1>11. PmpAllows(hr, bytes, acc, priv) <=>
         IF d > PmpN THEN priv = "M"
         ELSE /\ bytes \subseteq Ranges(hr)[d]
              /\ Need(acc) \in hr.cfg[d].perm \/ (priv = "M" /\ ~hr.cfg[d].lock)
  BY PmpAllowsIs
<1>12. f \in 1 .. PmpN + 1
  BY FirstRuleIs DEF IsFirst
<1>13. CASE a + len - 1 <= last
  <2>1. \A x \in bytes : FirstRule(rules, x) = f
    BY <1>1, <1>6, <1>8, <1>13, SameInSegment
  <2> HIDE DEF bytes, f
  <2>2. d = f /\ (f <= PmpN => bytes \subseteq Ranges(hr)[f])
    BY <1>1, <1>5, <1>9, <2>1, DecidedByFirst
  <2> HIDE DEF d, s
  <2>3. CASE f > PmpN
    <3>1. Need(acc) \in Bits
      BY DEF Need, Bits, Accesses
    <3>2. PmpOk(hr, a, len, acc, priv) <=> Need(acc) \in IF priv = "M" THEN Bits ELSE {}
      BY <1>7, <1>10, <1>13, <2>3
    <3>3. PmpAllows(hr, bytes, acc, priv) <=> priv = "M"
      BY <1>11, <2>2, <2>3
    <3>4. PmpOk(hr, a, len, acc, priv) <=> priv = "M"
      BY <3>1, <3>2
    <3> QED BY <3>3, <3>4, Zenon
  <2>4. CASE f <= PmpN
    <3>1. f \in 1..PmpN /\ ~(f > PmpN)
      BY <1>12, <2>4, ShapeAssumption
    <3>2. Need(acc) \in Bits
      BY DEF Need, Bits, Accesses
    <3>3. rules[f].perm = hr.cfg[f].perm /\ rules[f].lock = hr.cfg[f].lock
      BY <1>4, <3>1
    <3>4. PmpOk(hr, a, len, acc, priv) <=>
            Need(acc) \in IF priv = "M" /\ ~rules[f].lock THEN Bits ELSE rules[f].perm
      BY <1>7, <1>10, <1>13, <3>1
    <3>5. PmpAllows(hr, bytes, acc, priv) <=>
            Need(acc) \in rules[f].perm \/ (priv = "M" /\ ~rules[f].lock)
      BY <1>11, <2>2, <3>1, <3>3
    <3>6. CASE priv = "M" /\ ~rules[f].lock
      <4>1. PmpOk(hr, a, len, acc, priv)
        BY <3>2, <3>4, <3>6, Zenon
      <4> QED BY <3>5, <3>6, <4>1, Zenon
    <3>7. CASE ~(priv = "M" /\ ~rules[f].lock)
      <4>1. PmpOk(hr, a, len, acc, priv) <=> Need(acc) \in rules[f].perm
        BY <3>4, <3>7, Zenon
      <4> QED BY <3>5, <3>7, <4>1, Zenon
    <3> QED BY <3>6, <3>7
  <2> QED BY <1>12, <2>3, <2>4, ShapeAssumption
<1>14. CASE a + len - 1 > last
  <2> DEFINE n == last + 1
  <2>1. n \in Starts(rules) /\ n > b /\ n - 1 = last
    BY <1>1, <1>3, <1>8, <1>14, LastOfIs
  <2>2. n \in bytes /\ last \in bytes /\ n \in Nat
    BY <1>6, <1>8, <1>14
  <2>3. FirstRule(rules, n) # FirstRule(rules, last)
    BY <1>8, <2>1 DEF Starts
  <2> HIDE DEF n, last, bytes
  <2>4. IsFirst(rules, n, FirstRule(rules, n)) /\ IsFirst(rules, last, FirstRule(rules, last))
    BY FirstRuleIs
  <2>5. /\ d \in 1 .. PmpN + 1
        /\ \A i \in 1..PmpN, x \in bytes : Covers(rules[i], x) => d <= i
        /\ d <= PmpN => (bytes \subseteq Ranges(hr)[d] <=> \A x \in bytes : Covers(rules[d], x))
    BY <1>1, <1>5, <1>9, DecidingIs
  <2> HIDE DEF d
  <2>6. ASSUME d > PmpN
        PROVE  FALSE
    <3>1. ASSUME NEW x \in bytes
          PROVE  IsFirst(rules, x, FirstRule(rules, x)) => FirstRule(rules, x) = PmpN + 1
      BY <2>5, <2>6, ShapeAssumption DEF IsFirst
    <3> QED BY <2>2, <2>3, <2>4, <3>1
  <2>7. ASSUME d <= PmpN, bytes \subseteq Ranges(hr)[d]
        PROVE  FALSE
    <3>1. d \in 1..PmpN /\ \A x \in bytes : Covers(rules[d], x)
      BY <2>5, <2>7, ShapeAssumption
    <3>2. ASSUME NEW x \in bytes
          PROVE  IsFirst(rules, x, d)
      BY <2>5, <3>1, ShapeAssumption DEF IsFirst
    <3> QED BY <2>2, <2>3, <2>4, <3>2, OneFirst
  <2>8. ~PmpAllows(hr, bytes, acc, priv)
    BY <1>11, <2>5, <2>6, <2>7, ShapeAssumption
  <2>9. ~PmpOk(hr, a, len, acc, priv)
    BY <1>8, <1>10, <1>14
  <2> QED BY <2>8, <2>9
<1> QED BY <1>8, <1>13, <1>14


\* Where translate does not look at the segments, M may.
LEMMA ShortcutsAllow ==
  ASSUME NEW hr, hr.cfg \in [1..PmpN -> PmpEntry], hr.addr \in [1..PmpN -> Nat], Flattened(hr),
         NEW a \in Nat, NEW len \in Nat \ {0}, NEW acc \in Accesses,
         hr.nrules = 0 \/ (hr.mFast /\ (a % 2) + len <= 2)
  PROVE  PmpAllows(hr, a .. (a + len - 1), acc, "M")
<1> DEFINE rules == Rules(hr.cfg, hr.addr)
           bytes == a .. (a + len - 1)
           d == Deciding(hr, bytes)
<1> SUFFICES PmpAllows(hr, bytes, acc, "M")
  OBVIOUS
<1>1. rules \in RuleTable
  BY RulesTyped
<1>2. rules = Rules(hr.cfg, hr.addr) /\ \A i \in 1..PmpN : rules[i].lock = hr.cfg[i].lock
  BY DEF Rules
<1>3. hr.nrules = Cardinality(CanMatch(rules)) /\ hr.mFast = AllOpen(rules)
  BY DEF Flattened
<1> HIDE DEF rules
<1>4. bytes \in SUBSET Nat
  OBVIOUS
<1>5. /\ d \in 1 .. PmpN + 1
      /\ d <= PmpN => \E x \in bytes : Covers(rules[d], x)
      /\ d <= PmpN => (bytes \subseteq Ranges(hr)[d] <=> \A x \in bytes : Covers(rules[d], x))
  <2> HIDE DEF bytes
  <2>1. rules = Rules(hr.cfg, hr.addr)
    BY <1>2
  <2> QED BY <1>1, <1>4, <2>1, DecidingIs
<1>6. PmpAllows(hr, bytes, acc, "M") <=>
         IF d > PmpN THEN TRUE
         ELSE bytes \subseteq Ranges(hr)[d] /\ (Need(acc) \in hr.cfg[d].perm \/ ~hr.cfg[d].lock)
  BY PmpAllowsIs
<1> HIDE DEF d
<1>7. SUFFICES ASSUME d <= PmpN
               PROVE  bytes \subseteq Ranges(hr)[d] /\ ~hr.cfg[d].lock
  BY <1>5, <1>6, ShapeAssumption
<1>8. d \in 1..PmpN
  BY <1>5, <1>7, ShapeAssumption
<1>9. PICK x \in bytes : Covers(rules[d], x)
  BY <1>5, <1>7
<1>10. rules[d].lo \in Nat /\ rules[d].hi \in Nat /\ x \in Nat
  BY <1>1, <1>4, <1>8 DEF RuleTable
<1>11. d \in CanMatch(rules)
  BY <1>8, <1>9, <1>10 DEF CanMatch, Covers
<1>12. hr.nrules # 0
  <2>1. IsFiniteSet(1..PmpN) /\ CanMatch(rules) \subseteq 1..PmpN
    BY FS_Interval, ShapeAssumption DEF CanMatch
  <2>2. IsFiniteSet(CanMatch(rules))
    BY <2>1, FS_Subset
  <2>3. Cardinality(CanMatch(rules)) # 0
    BY <1>11, <2>2, FS_EmptySet
  <2> QED BY <1>3, <2>3
<1>13. hr.mFast /\ (a % 2) + len <= 2
  BY <1>12
<1>14. ~rules[d].lock /\ rules[d].lo % 2 = 0 /\ rules[d].hi % 2 = 0
  BY <1>3, <1>11, <1>13 DEF AllOpen
<1>15. \A y \in bytes : Covers(rules[d], y)
  <2> DEFINE lo == rules[d].lo
             hi == rules[d].hi
  <2>1. lo \in Nat /\ hi \in Nat /\ lo % 2 = 0 /\ hi % 2 = 0 /\ lo <= x /\ x < hi
    BY <1>9, <1>10, <1>14 DEF Covers
  <2> HIDE DEF lo, hi
  <2>2. \A y \in bytes : y \div 2 = a \div 2
    BY <1>13
  <2>3. \A y \in bytes : lo <= y /\ y < hi
    BY <1>4, <2>1, <2>2
  <2> QED BY <2>3 DEF Covers, lo, hi
<1> QED BY <1>2, <1>5, <1>7, <1>8, <1>14, <1>15

LEMMA FlattenedIsExact ==
  ASSUME NEW hr, hr.cfg \in [1..PmpN -> PmpEntry], hr.addr \in [1..PmpN -> Nat], Flattened(hr)
  PROVE  Exact(hr)
<1> SUFFICES ASSUME NEW a \in 0..Base(DramBase + DramPages), NEW len \in {1, 2, PageUnits},
                    NEW acc \in Accesses
             PROVE  LET bytes == a .. (a + len - 1)
                    IN  /\ \A priv \in Privs : PmpOk(hr, a, len, acc, priv) = PmpAllows(hr, bytes, acc, priv)
                        /\ hr.nrules = 0 \/ (hr.mFast /\ (a % 2) + len <= 2) => PmpAllows(hr, bytes, acc, "M")
  BY DEF Exact, Accesses
<1>1. PageUnits \in Nat /\ PageUnits >= 2 /\ Base(DramBase + DramPages) \in Nat
  BY PagesTyped, ShapeAssumption
<1>2. len \in Nat \ {0} /\ a \in Nat /\ a + len - 1 <= Top
  BY <1>1, ShapeAssumption
<1>3. ASSUME NEW priv
      PROVE  PmpOk(hr, a, len, acc, priv) = PmpAllows(hr, a .. (a + len - 1), acc, priv)
  <2>1. PmpOk(hr, a, len, acc, priv) <=> PmpAllows(hr, a .. (a + len - 1), acc, priv)
    BY <1>2, SegmentsDecide
  <2>2. PmpOk(hr, a, len, acc, priv) \in BOOLEAN
    BY Zenon DEF PmpOk
  <2>3. PmpAllows(hr, a .. (a + len - 1), acc, priv) \in BOOLEAN
    BY Zenon DEF PmpAllows
  <2> QED BY <2>1, <2>2, <2>3
<1>4. hr.nrules = 0 \/ (hr.mFast /\ (a % 2) + len <= 2) => PmpAllows(hr, a .. (a + len - 1), acc, "M")
  BY <1>2, ShortcutsAllow
<1> QED BY <1>3, <1>4


-----------------------------------------------------------------------------
(* What an operation of a hart may do to the machine                        *)

\* What an instruction of one hart leaves of a hart: flattened rules stay so, and of its
\* reservation and its store entries there is nothing new.
Kept(r, s) ==
  /\ s \in HartState
  /\ Flattened(r) => Flattened(s)
  /\ s.resv.valid => s.resv = r.resv
  /\ \A e \in Entries(DTLB_N) : s.store[e].page \in {r.store[e].page, None}

LEMMA EntriesTyped ==
  /\ NoEntry \in L1Entry /\ NoEntry.page = None
  /\ NoEntries \in [Entries(DTLB_N) -> L1Entry] /\ \A e \in Entries(DTLB_N) : NoEntries[e].page = None
  /\ NoL2Entries \in [Entries(L2TLB_N) -> L2Entry]
<1>1. NoEntry \in L1Entry /\ NoEntry.page = None
  BY DEF NoEntry, L1Entry
<1>2. NoL2 \in L2Entry
  BY DEF NoL2, L2Entry
<1> HIDE DEF NoEntry, NoL2
<1> QED BY <1>1, <1>2 DEF NoEntries, NoL2Entries

LEMMA KeptItself ==
  ASSUME NEW r \in HartState
  PROVE  Kept(r, r)
BY DEF Kept

LEMMA KeptTwice ==
  ASSUME NEW r, NEW s, NEW t, Kept(r, s), Kept(s, t)
  PROVE  Kept(r, t)
BY DEF Kept

LEMMA FlushL1Keeps ==
  ASSUME NEW r \in HartState
  PROVE  Kept(r, FlushL1(r))
BY EntriesTyped DEF Kept, Flattened, FlushL1, HartState

LEMMA FlushKeeps ==
  ASSUME NEW r \in HartState
  PROVE  Kept(r, Flush(r))
BY EntriesTyped DEF Kept, Flattened, FlushL1, Flush, HartState

\* As take_trap, xret and sfence.vma do.
LEMMA ReleasedKeeps ==
  ASSUME NEW r \in HartState
  PROVE  Kept(r, [r EXCEPT !.resv.valid = FALSE]) /\ ~[r EXCEPT !.resv.valid = FALSE].resv.valid
<1> DEFINE v == [r.resv EXCEPT !.valid = FALSE]
           s == [r EXCEPT !.resv = v]
<1>1. v \in Reservation /\ v.valid = FALSE
  BY DEF HartState, Reservation
<1> HIDE DEF v
<1>2. Kept(r, s) /\ ~s.resv.valid
  BY <1>1 DEF Kept, Flattened, HartState
<1> QED BY <1>2 DEF v

LEMMA TrappedKeeps ==
  ASSUME NEW r \in HartState
  PROVE  Kept(r, Trapped(r))
<1> DEFINE toS == r.priv # "M" /\ r.deleg
           to == IF toS THEN "S" ELSE "M"
           saved == IF toS THEN [r EXCEPT !.spp = r.priv] ELSE [r EXCEPT !.mpp = r.priv]
           away == [saved EXCEPT !.priv = to]
           in == [away EXCEPT !.resv.valid = FALSE]
<1>1. Kept(r, saved)
  BY DEF Kept, Flattened, HartState, Privs
<1>2. to \in Privs
  BY DEF Privs
<1>3. saved \in HartState
  BY <1>1 DEF Kept
<1> HIDE DEF toS, to, saved
<1>4. Kept(saved, away)
  BY <1>2, <1>3 DEF Kept, Flattened, HartState
<1>5. away \in HartState
  BY <1>4 DEF Kept
<1>6. Kept(away, in)
  <2> HIDE DEF away
  <2> QED BY <1>5, ReleasedKeeps
<1>9. Trapped(r) = IF to # r.priv THEN FlushL1(in) ELSE in
  BY DEF Trapped, toS, to, saved
<1> HIDE DEF away, in
<1>7. Kept(r, away) /\ Kept(r, in)
  BY <1>1, <1>4, <1>6, KeptTwice
<1>8. Kept(in, FlushL1(in))
  BY <1>7, FlushL1Keeps DEF Kept
<1> QED BY <1>7, <1>8, <1>9, KeptTwice

LEMMA MstatusKeeps ==
  ASSUME NEW r \in HartState, NEW v \in Status
  PROVE  Kept(r, WriteMstatus(r, v))
<1> DEFINE s == [r EXCEPT !.mprv = v.mprv, !.mpp = v.mpp, !.sum = v.sum, !.mxr = v.mxr]
<1>1. v.mprv \in BOOLEAN /\ v.mpp \in Privs /\ v.sum \in BOOLEAN /\ v.mxr \in BOOLEAN
  BY DEF Status
<1>2. Kept(r, s)
  BY <1>1 DEF Kept, Flattened, HartState
<1> HIDE DEF s
<1>3. Kept(s, FlushL1(s))
  BY <1>2, FlushL1Keeps DEF Kept
<1> QED BY <1>2, <1>3, KeptTwice DEF WriteMstatus, s

LEMMA SatpKeeps ==
  ASSUME NEW r \in HartState, NEW root \in Nat \cup {None}
  PROVE  Kept(r, WriteSatp(r, root))
<1> DEFINE s == [r EXCEPT !.root = root]
<1>1. Kept(r, s)
  BY DEF Kept, Flattened, HartState
<1> HIDE DEF s
<1>2. Kept(s, Flush(s))
  BY <1>1, FlushKeeps DEF Kept
<1> QED BY <1>1, <1>2, KeptTwice DEF WriteSatp, s

LEMMA SfenceKeeps ==
  ASSUME NEW r \in HartState
  PROVE  Kept(r, SfenceVma(r))
<1> DEFINE s == Flush(r)
           t == [s EXCEPT !.resv.valid = FALSE]
<1>1. Kept(r, s)
  BY FlushKeeps
<1> HIDE DEF s
<1>2. Kept(s, t)
  BY <1>1, ReleasedKeeps DEF Kept
<1> HIDE DEF t
<1>3. Kept(r, t)
  BY <1>1, <1>2, KeptTwice
<1> QED BY <1>3 DEF SfenceVma, s, t

LEMMA ReturnedKeeps ==
  ASSUME NEW r \in HartState, NEW from
  PROVE  Kept(r, Returned(r, from))
<1> DEFINE to == IF from = "M" THEN r.mpp ELSE r.spp
           popped == IF from = "M" THEN [r EXCEPT !.mpp = "U"] ELSE [r EXCEPT !.spp = "U"]
           back == [popped EXCEPT !.priv = to, !.mprv = @ /\ to = "M"]
           s == [back EXCEPT !.resv.valid = FALSE]
<1>1. Kept(r, popped) /\ popped.mprv \in BOOLEAN
  BY DEF Kept, Flattened, HartState, Privs
<1>2. to \in Privs
  BY DEF Privs, HartState
<1>3. Returned(r, from) = FlushL1(s)
  BY DEF Returned
<1> HIDE DEF to, popped
<1>4. popped \in HartState
  BY <1>1 DEF Kept
<1>5. Kept(popped, back)
  <2> DEFINE p == popped.mprv /\ to = "M"
  <2>1. p \in BOOLEAN
    OBVIOUS
  <2> HIDE DEF p
  <2>2. Kept(popped, [popped EXCEPT !.priv = to, !.mprv = p])
    BY <1>2, <1>4, <2>1 DEF Kept, Flattened, HartState
  <2> QED BY <2>2 DEF p
<1> HIDE DEF back
<1>6. Kept(back, s)
  BY <1>5, ReleasedKeeps DEF Kept
<1> HIDE DEF s
<1>7. Kept(r, back) /\ Kept(r, s)
  BY <1>1, <1>5, <1>6, KeptTwice
<1>8. Kept(s, FlushL1(s))
  BY <1>7, FlushL1Keeps DEF Kept
<1> QED BY <1>3, <1>7, <1>8, KeptTwice


LEMMA SegmentsTyped ==
  ASSUME NEW rules \in RuleTable
  PROVE  /\ Segments(rules) \in SUBSET Segment
         /\ Cardinality(CanMatch(rules)) \in Nat
         /\ AllOpen(rules) \in BOOLEAN
<1>1. ASSUME NEW b \in Starts(rules)
      PROVE  SegmentOf(rules, FirstRule(rules, b), b, LastOf(rules, b)) \in Segment
  <2> DEFINE f == FirstRule(rules, b)
             last == LastOf(rules, b)
             su == IF f > PmpN THEN {} ELSE rules[f].perm
             mm == IF f > PmpN THEN Bits ELSE IF rules[f].lock THEN rules[f].perm ELSE Bits
  <2>1. b \in Nat /\ last \in Nat
    BY BoundsTyped, LastOfIs
  <2>2. f \in 1 .. PmpN + 1
    BY FirstRuleIs DEF IsFirst
  <2>3. SegmentOf(rules, f, b, last) = [lo |-> b, last |-> last, su |-> su, m |-> mm]
    BY DEF SegmentOf
  <2> HIDE DEF f, last
  <2>4. f > PmpN \/ f \in 1..PmpN
    BY <2>2, ShapeAssumption
  <2>5. su \in SUBSET Bits /\ mm \in SUBSET Bits
    BY <2>4 DEF RuleTable
  <2> HIDE DEF su, mm
  <2> QED BY <2>1, <2>3, <2>5 DEF f, last, Segment
<1>2. Segments(rules) \in SUBSET Segment
  BY <1>1 DEF Segments
<1>3. IsFiniteSet(1..PmpN) /\ CanMatch(rules) \subseteq 1..PmpN
  BY FS_Interval, ShapeAssumption DEF CanMatch
<1>4. Cardinality(CanMatch(rules)) \in Nat
  BY <1>3, FS_Subset, FS_CardinalityType
<1>5. AllOpen(rules) \in BOOLEAN
  BY DEF AllOpen
<1> QED BY <1>2, <1>4, <1>5

LEMMA PmpUpdateKeeps ==
  ASSUME NEW r \in HartState
  PROVE  Kept(r, PmpUpdate(r)) /\ Flattened(PmpUpdate(r))
<1> DEFINE rules == Rules(r.cfg, r.addr)
           segs == Segments(rules)
           n == Cardinality(CanMatch(rules))
           open == AllOpen(rules)
           s == [r EXCEPT !.segs = segs, !.nrules = n, !.mFast = open]
<1>1. rules \in RuleTable
  BY RulesTyped DEF HartState
<1>2. PmpUpdate(r) = Flush(s)
  BY DEF PmpUpdate
<1>3. rules = Rules(r.cfg, r.addr)
  OBVIOUS
<1> HIDE DEF rules
<1>4. segs \in SUBSET Segment /\ n \in Nat /\ open \in BOOLEAN
  BY <1>1, SegmentsTyped
<1>5. segs = Segments(rules) /\ n = Cardinality(CanMatch(rules)) /\ open = AllOpen(rules)
  OBVIOUS
<1> HIDE DEF segs, n, open
<1>6. /\ s \in HartState /\ s.cfg = r.cfg /\ s.addr = r.addr /\ s.resv = r.resv /\ s.store = r.store
      /\ s.segs = segs /\ s.nrules = n /\ s.mFast = open
  BY <1>4 DEF HartState
<1> HIDE DEF s
<1>7. Flattened(s)
  BY <1>3, <1>5, <1>6 DEF Flattened
<1>8. Kept(r, s)
  BY <1>6, <1>7 DEF Kept
<1>9. Kept(s, Flush(s))
  BY <1>6, FlushKeeps
<1> QED BY <1>2, <1>7, <1>8, <1>9, KeptTwice DEF Kept

LEMMA PmpCfgKeeps ==
  ASSUME NEW r \in HartState, Flattened(r), NEW cfg \in [1..PmpN -> PmpEntry]
  PROVE  Kept(r, WritePmpCfg(r, cfg))
<1> DEFINE c == [i \in DOMAIN r.cfg |-> IF r.cfg[i].lock THEN r.cfg[i] ELSE LegalCfg(cfg[i])]
           s == [r EXCEPT !.cfg = c]
<1>1. ASSUME NEW e \in PmpEntry
      PROVE  LegalCfg(e) \in PmpEntry
  BY DEF LegalCfg, PmpEntry
<1>2. r.cfg \in [1..PmpN -> PmpEntry]
  BY DEF HartState
<1>3. c \in [1..PmpN -> PmpEntry]
  BY <1>1, <1>2
<1>4. WritePmpCfg(r, cfg) = PmpUpdate(s)
  BY DEF WritePmpCfg
<1> HIDE DEF c
<1>5. s \in HartState /\ s.resv = r.resv /\ s.store = r.store
  BY <1>3 DEF HartState
<1> HIDE DEF s
<1>6. Kept(s, PmpUpdate(s)) /\ Flattened(PmpUpdate(s))
  BY <1>5, PmpUpdateKeeps
<1> QED BY <1>4, <1>5, <1>6 DEF Kept

LEMMA PmpAddrKeeps ==
  ASSUME NEW r \in HartState, Flattened(r), NEW i \in 1..PmpN, NEW addr \in Nat
  PROVE  Kept(r, WritePmpAddr(r, i, addr))
<1> DEFINE a == [r.addr EXCEPT ![i] = addr]
           s == [r EXCEPT !.addr = a]
<1>1. a \in [1..PmpN -> Nat]
  BY DEF HartState
<1>2. WritePmpAddr(r, i, addr) \in {r, PmpUpdate(s)}
  BY DEF WritePmpAddr
<1> HIDE DEF a
<1>3. s \in HartState /\ s.resv = r.resv /\ s.store = r.store
  BY <1>1 DEF HartState
<1> HIDE DEF s
<1>4. Kept(s, PmpUpdate(s)) /\ Flattened(PmpUpdate(s))
  BY <1>3, PmpUpdateKeeps
<1>5. Kept(r, PmpUpdate(s))
  BY <1>3, <1>4 DEF Kept
<1> QED BY <1>2, <1>5, KeptItself


MachineState == [harts : [Harts -> HartState], mem : [Units -> Words], ended : BOOLEAN]
Sound(m) == m \in MachineState /\ \A i \in Harts : Flattened(m.harts[i])

\* From m to n, hart h has made nothing unsound, no reservation is new, nor is any way
\* to store unseen into a page that has one, and what the others reserve is as it was.
Clash(m, i, j, e) ==
  /\ NumHarts > 1 /\ i \in Harts /\ j \in Harts /\ e \in Entries(DTLB_N)
  /\ m.harts[i].resv.valid /\ m.harts[j].store[e].page = PageOf(m.harts[i].resv.pa)
Holds(m, n, i) ==
  n.harts[i].resv.valid =>
    /\ n.harts[i].resv = m.harts[i].resv
    /\ \A u \in Units : u \in Reserves(n.harts[i].resv) => n.mem[u] = m.mem[u]
Flows(m, n, h) ==
  /\ Sound(n)
  /\ n.harts[h].resv.valid => n.harts[h].resv = m.harts[h].resv
  /\ \A i \in Harts \ {h} : Holds(m, n, i)
  /\ \A i, j, e : Clash(n, i, j, e) => Clash(m, i, j, e)

LEMMA ReservationTyped ==
  ASSUME NEW s \in HartState
  PROVE  s.resv \in Reservation /\ s.resv.pa \in Nat /\ s.resv.size \in {1, 2}
<1>1. s.resv \in Reservation
  BY DEF HartState
<1> QED BY <1>1 DEF Reservation

LEMMA FlowsItself ==
  ASSUME NEW m, Sound(m), NEW h \in Harts
  PROVE  Flows(m, m, h)
BY DEF Flows, Holds

LEMMA FlowsTwice ==
  ASSUME NEW m, NEW n, NEW k, NEW h \in Harts, Flows(m, n, h), Flows(n, k, h)
  PROVE  Flows(m, k, h)
<1>1. Sound(k) /\ \A i, j, e : Clash(k, i, j, e) => Clash(m, i, j, e)
  BY DEF Flows
<1>2. k.harts[h].resv.valid => k.harts[h].resv = m.harts[h].resv
  BY DEF Flows
<1>3. ASSUME NEW i \in Harts \ {h}
      PROVE  Holds(m, k, i)
  <2>1. Holds(m, n, i) /\ Holds(n, k, i)
    BY DEF Flows
  <2> QED BY <2>1 DEF Holds
<1> QED BY <1>1, <1>2, <1>3 DEF Flows

LEMMA PageOfTyped ==
  ASSUME NEW a \in Nat
  PROVE  PageOf(a) \in Nat /\ PageOf(a) # None /\ a % PageUnits \in 0 .. PageUnits - 1
<1>1. PageUnits \in Nat \ {0}
  BY PagesTyped
<1> HIDE DEF PageUnits
<1> QED BY <1>1 DEF PageOf, None

\* A step that leaves memory and the other harts alone.
Own1(m, n, h) ==
  n \in MachineState /\ n.mem = m.mem /\ \A i \in Harts \ {h} : n.harts[i] = m.harts[i]

LEMMA OwnFlows ==
  ASSUME NEW m, Sound(m), NEW n, NEW h \in Harts, Own1(m, n, h), Kept(m.harts[h], n.harts[h])
  PROVE  Flows(m, n, h)
<1>1. \A i \in Harts : m.harts[i] \in HartState /\ n.harts[i] \in HartState
  BY DEF Sound, MachineState, Own1
<1>2. Sound(n)
  <2>1. ASSUME NEW i \in Harts
        PROVE  Flattened(n.harts[i])
    BY DEF Sound, Own1, Kept
  <2> QED BY <2>1 DEF Sound, Own1
<1>3. \A i \in Harts : n.harts[i].resv.valid => n.harts[i].resv = m.harts[i].resv
  BY DEF Kept, Own1
<1>4. \A i \in Harts : Holds(m, n, i)
  BY <1>3 DEF Holds, Own1
<1>5. ASSUME NEW i, NEW j, NEW e, Clash(n, i, j, e)
      PROVE  Clash(m, i, j, e)
  <2>1. i \in Harts /\ j \in Harts /\ e \in Entries(DTLB_N) /\ n.harts[i].resv.valid
    BY <1>5 DEF Clash
  <2>2. n.harts[i].resv = m.harts[i].resv
    BY <1>3, <2>1
  <2>3. m.harts[i].resv.pa \in Nat
    BY <1>1, <2>1 DEF HartState, Reservation
  <2>4. PageOf(m.harts[i].resv.pa) # None
    BY <2>3, PageOfTyped
  <2>5. n.harts[j].store[e].page \in {m.harts[j].store[e].page, None}
    BY <2>1 DEF Kept, Own1
  <2> QED BY <1>5, <2>1, <2>2, <2>4, <2>5 DEF Clash
<1> QED BY <1>2, <1>3, <1>4, <1>5 DEF Flows

Put(m, h, s) == [m EXCEPT !.harts[h] = s]

LEMMA PutIs ==
  ASSUME NEW m \in MachineState, NEW h \in Harts, NEW s \in HartState
  PROVE  Own1(m, Put(m, h, s), h) /\ Put(m, h, s).harts[h] = s /\ Put(m, h, s).ended = m.ended
BY DEF Put, Own1, MachineState

LEMMA PutFlows ==
  ASSUME NEW m, Sound(m), NEW h \in Harts, NEW s, Kept(m.harts[h], s)
  PROVE  Flows(m, Put(m, h, s), h)
<1>1. m \in MachineState /\ s \in HartState
  BY DEF Sound, Kept
<1> QED BY <1>1, PutIs, OwnFlows

LEMMA RaisedFlows ==
  ASSUME NEW m, Sound(m), NEW h \in Harts
  PROVE  Flows(m, Raised(m, h), h)
<1>1. m.harts[h] \in HartState
  BY DEF Sound, MachineState
<1>2. Raised(m, h) = Put(m, h, Trapped(m.harts[h]))
  BY DEF Raised, Put, Sound, MachineState
<1> QED BY <1>1, <1>2, TrappedKeeps, PutFlows

\* A store that others are told of.
LEMMA ToldFlows ==
  ASSUME NEW m, Sound(m), NEW h \in Harts, NEW pa \in Nat, NEW len \in Nat,
         NEW n \in MachineState, n.harts = m.harts,
         \A u \in Units : n.mem[u] # m.mem[u] => pa <= u /\ u < pa + len
  PROVE  Flows(m, ClearReservations(n, h, pa, len), h)
<1> DEFINE k == ClearReservations(n, h, pa, len)
<1> SUFFICES Flows(m, k, h)
  OBVIOUS
<1>1. \A i \in Harts : m.harts[i] \in HartState
  BY DEF Sound, MachineState
<1>2. /\ k \in MachineState /\ k.mem = n.mem
      /\ \A i \in Harts : Kept(m.harts[i], k.harts[i])
      /\ NumHarts # 1 => \A i \in Harts \ {h} : k.harts[i].resv.valid => ~Overlaps(m.harts[i].resv, pa, len)
  <2>1. CASE NumHarts = 1
    BY <1>1, <2>1, KeptItself DEF ClearReservations
  <2>2. CASE NumHarts # 1
    <3> DEFINE free(i) == [m.harts[i] EXCEPT !.resv.valid = FALSE]
               out(i) == i # h /\ Overlaps(m.harts[i].resv, pa, len)
               hs == [i \in Harts |-> IF out(i) THEN free(i) ELSE m.harts[i]]
    <3>1. k = [n EXCEPT !.harts = hs]
      BY <2>2 DEF ClearReservations, MachineState
    <3>2. \A i \in Harts : Kept(m.harts[i], free(i)) /\ ~free(i).resv.valid
      BY <1>1, ReleasedKeeps
    <3> HIDE DEF free
    <3>3. \A i \in Harts : Kept(m.harts[i], hs[i]) /\ (out(i) => ~hs[i].resv.valid)
      BY <1>1, <3>2, KeptItself
    <3> HIDE DEF out
    <3>4. hs \in [Harts -> HartState]
      BY <3>3 DEF Kept
    <3> HIDE DEF hs, k
    <3>5. k \in MachineState /\ k.mem = n.mem /\ k.harts = hs
      BY <3>1, <3>4 DEF MachineState
    <3> QED BY <3>3, <3>5 DEF out
  <2> QED BY <2>1, <2>2
<1> HIDE DEF k
<1>3. Sound(k)
  <2>1. ASSUME NEW i \in Harts
        PROVE  Flattened(k.harts[i])
    BY <1>2 DEF Sound, Kept
  <2> QED BY <1>2, <2>1 DEF Sound
<1>4. ASSUME NEW i \in Harts, k.harts[i].resv.valid
      PROVE  k.harts[i].resv = m.harts[i].resv
  <2>1. Kept(m.harts[i], k.harts[i])
    BY <1>2
  <2> QED BY <1>4, <2>1 DEF Kept
<1>5. ASSUME NEW i \in Harts \ {h}, k.harts[i].resv.valid, NEW u \in Units, u \in Reserves(k.harts[i].resv)
      PROVE  k.mem[u] = m.mem[u]
  <2>1. NumHarts # 1
    BY ShapeAssumption DEF Harts
  <2> DEFINE r == m.harts[i].resv
  <2>2. k.harts[i].resv = r
    BY <1>4, <1>5
  <2>5. ~Overlaps(r, pa, len)
    BY <1>2, <1>5, <2>1
  <2>6. r.valid /\ u \in r.pa .. (r.pa + r.size - 1)
    BY <1>5, <2>2 DEF Reserves
  <2>3. r.pa \in Nat /\ r.size \in Nat
    <3>1. m.harts[i] \in HartState
      BY <1>1
    <3> QED BY <3>1, ReservationTyped
  <2> HIDE DEF r
  <2>4. ~(pa <= u /\ u < pa + len)
    BY <2>5, <2>6, <2>3 DEF Overlaps
  <2> QED BY <1>2, <2>4
<1>6. \A i \in Harts \ {h} : Holds(m, k, i)
  BY <1>4, <1>5 DEF Holds
<1>7. ASSUME NEW i, NEW j, NEW e, Clash(k, i, j, e)
      PROVE  Clash(m, i, j, e)
  <2>1. i \in Harts /\ j \in Harts /\ e \in Entries(DTLB_N) /\ k.harts[i].resv.valid
    BY <1>7 DEF Clash
  <2>2. k.harts[i].resv = m.harts[i].resv
    BY <1>4, <2>1
  <2>3. m.harts[i].resv.pa \in Nat
    BY <1>1, <2>1 DEF HartState, Reservation
  <2>4. PageOf(m.harts[i].resv.pa) # None
    BY <2>3, PageOfTyped
  <2>5. k.harts[j].store[e].page \in {m.harts[j].store[e].page, None}
    <3>1. Kept(m.harts[j], k.harts[j])
      BY <1>2, <2>1
    <3> QED BY <2>1, <3>1 DEF Kept
  <2> QED BY <1>7, <2>1, <2>2, <2>4, <2>5 DEF Clash
<1>8. k.harts[h].resv.valid => k.harts[h].resv = m.harts[h].resv
  BY <1>4
<1> QED BY <1>3, <1>6, <1>7, <1>8 DEF Flows

-----------------------------------------------------------------------------
(* translate                                                                *)

\* A page has no reservation that a store entry for it could clash with.
LEMMA FillL1Flows ==
  ASSUME NEW m, Sound(m), NEW h \in Harts, NEW vpn \in Nat, NEW page, NEW acc \in Accesses,
         NEW pageOk \in BOOLEAN
  PROVE  Flows(m, FillL1(m, h, vpn, page, acc, pageOk), h)
<1> DEFINE entry == IF page \in DramPageSet /\ pageOk THEN [vpn |-> vpn, page |-> page] ELSE NoEntry
           slot == vpn % DTLB_N
           r == m.harts[h]
<1>1. entry \in L1Entry /\ entry.page \in {page, None}
  BY EntriesTyped DEF L1Entry
<1>2. slot \in Entries(DTLB_N)
  BY ShapeAssumption DEF Entries
<1>3. r \in HartState
  BY DEF Sound, MachineState
<1>4. CASE acc = "Fetch"
  <2> DEFINE s == [r EXCEPT !.itlb = entry]
  <2>1. FillL1(m, h, vpn, page, acc, pageOk) = Put(m, h, s)
    BY <1>4 DEF FillL1, Put, Sound, MachineState
  <2> HIDE DEF entry, r
  <2>2. Kept(r, s)
    BY <1>1, <1>3 DEF Kept, Flattened, HartState
  <2> QED BY <2>1, <2>2, PutFlows DEF r
<1>5. CASE acc = "Load"
  <2> DEFINE load == [r.load EXCEPT ![slot] = entry]
             s == [r EXCEPT !.load = load]
  <2>1. FillL1(m, h, vpn, page, acc, pageOk) = Put(m, h, s)
    BY <1>5 DEF FillL1, Put, Sound, MachineState
  <2> HIDE DEF entry, r, slot
  <2>2. load \in [Entries(DTLB_N) -> L1Entry]
    BY <1>1, <1>2, <1>3 DEF HartState
  <2> HIDE DEF load
  <2>3. Kept(r, s)
    BY <1>3, <2>2 DEF Kept, Flattened, HartState
  <2> QED BY <2>1, <2>3, PutFlows DEF r
<1>6. CASE acc = "Store" /\ NumHarts > 1 /\ PageReserved(m, page)
  <2>1. FillL1(m, h, vpn, page, acc, pageOk) = m
    BY <1>6 DEF FillL1
  <2> QED BY <2>1, FlowsItself
<1>7. CASE acc = "Store" /\ ~(NumHarts > 1 /\ PageReserved(m, page))
  <2> DEFINE store == [r.store EXCEPT ![slot] = entry]
             s == [r EXCEPT !.store = store]
             n == Put(m, h, s)
  <2>1. FillL1(m, h, vpn, page, acc, pageOk) = n
    BY <1>7 DEF FillL1, Put, Sound, MachineState
  <2> HIDE DEF entry, r, slot
  <2>2. store \in [Entries(DTLB_N) -> L1Entry]
        /\ \A e \in Entries(DTLB_N) : store[e] \in {r.store[e], entry}
    BY <1>1, <1>2, <1>3 DEF HartState
  <2> HIDE DEF store
  <2>3. s \in HartState /\ (Flattened(r) => Flattened(s)) /\ s.resv = r.resv /\ s.store = store
    BY <1>3, <2>2 DEF Flattened, HartState
  <2> HIDE DEF s
  <2>4. Own1(m, n, h) /\ n.harts[h] = s
    BY <2>3, PutIs DEF Sound
  <2> HIDE DEF n
  <2>5. \A i \in Harts : n.harts[i].resv = m.harts[i].resv
    BY <2>3, <2>4 DEF Own1, r
  <2>6. Sound(n)
    <3>1. ASSUME NEW i \in Harts
          PROVE  Flattened(n.harts[i])
      BY <2>3, <2>4 DEF Sound, Own1, r
    <3> QED BY <2>4, <3>1 DEF Sound, Own1
  <2>7. \A i \in Harts : Holds(m, n, i)
    BY <2>4, <2>5 DEF Holds, Own1
  <2>8. ASSUME NEW i, NEW j, NEW e, Clash(n, i, j, e)
        PROVE  Clash(m, i, j, e)
    <3>1. i \in Harts /\ j \in Harts /\ e \in Entries(DTLB_N) /\ NumHarts > 1
          /\ m.harts[i].resv.valid /\ n.harts[j].store[e].page = PageOf(m.harts[i].resv.pa)
      BY <2>5, <2>8 DEF Clash
    <3>2. PageOf(m.harts[i].resv.pa) # page
      BY <1>7, <3>1 DEF PageReserved
    <3>3. m.harts[i] \in HartState
      BY <3>1 DEF Sound, MachineState
    <3>4. PageOf(m.harts[i].resv.pa) # None
      BY <3>3, ReservationTyped, PageOfTyped
    <3>5. n.harts[j].store[e] # entry
      BY <1>1, <3>1, <3>2, <3>4
    <3>6. n.harts[j].store[e] = m.harts[j].store[e]
      BY <2>2, <2>3, <2>4, <3>1, <3>5 DEF Own1, r
    <3> QED BY <3>1, <3>6 DEF Clash
  <2>9. Flows(m, n, h)
    BY <2>5, <2>6, <2>7, <2>8 DEF Flows
  <2> QED BY <2>1, <2>9
<1> QED BY <1>4, <1>5, <1>6, <1>7 DEF Accesses


LEMMA BaseGrows ==
  ASSUME NEW p \in Nat, NEW q \in Nat, p <= q
  PROVE  Base(p) <= Base(q)
<1>1. PageUnits \in Nat
  BY PagesTyped
<1> HIDE DEF PageUnits
<1>2. (q - p) * PageUnits >= 0 /\ q * PageUnits = p * PageUnits + (q - p) * PageUnits
  BY <1>1
<1>3. p * PageUnits \in Int /\ q * PageUnits \in Int /\ (q - p) * PageUnits \in Int
  BY <1>1
<1> QED BY <1>2, <1>3 DEF Base

LEMMA AllowTyped ==
  ASSUME NEW r \in HartState, Flattened(r), NEW page \in DramPageSet
  PROVE  PmpPageAllows(r, page) \in SUBSET Bits
<1> DEFINE rules == Rules(r.cfg, r.addr)
           a == Base(page)
           s == SegmentAt(r, a)
<1>1. rules \in RuleTable /\ r.segs = Segments(rules)
  BY RulesTyped DEF HartState, Flattened
<1> HIDE DEF rules
<1>2. page \in Nat /\ DramBase + DramPages \in Nat /\ page <= DramBase + DramPages
  BY ShapeAssumption DEF DramPageSet
<1>3. a \in 0 .. Top
  <2>1. a \in Nat /\ a <= Base(DramBase + DramPages) /\ Base(DramBase + DramPages) \in Nat
    BY <1>2, BaseGrows, PagesTyped
  <2> QED BY <2>1, PagesTyped, ShapeAssumption
<1> HIDE DEF a
<1>4. PICK b \in Starts(rules) : s = SegmentFrom(rules, b)
  BY <1>1, <1>3, SegmentAtIs
<1>5. s \in r.segs
  BY <1>1, <1>4 DEF Segments, SegmentFrom
<1>6. s \in Segment
  BY <1>5 DEF HartState
<1> HIDE DEF s
<1>7. PmpPageAllows(r, page) = IF a + PageUnits - 1 <= s.last THEN s.su ELSE {}
  BY DEF PmpPageAllows, s, a
<1> QED BY <1>6, <1>7 DEF Segment

LEMMA CacheFlows ==
  ASSUME NEW m, Sound(m), NEW h \in Harts, NEW vpn \in Nat, NEW page \in Nat,
         NEW flags \in SUBSET Flags, NEW allow, page \in DramPageSet => allow \in SUBSET Bits
  PROVE  Flows(m, Cache(m, h, vpn, page, flags, allow), h)
<1> DEFINE r == m.harts[h]
           slot == vpn % L2TLB_N
           entry == IF page \notin DramPageSet THEN [r.l2[slot] EXCEPT !.tag = None]
                    ELSE [vpn |-> vpn, tag |-> r.root, page |-> page, flags |-> flags, allow |-> allow]
           l2 == [r.l2 EXCEPT ![slot] = entry]
           s == [r EXCEPT !.l2 = l2]
<1>1. r \in HartState
  BY DEF Sound, MachineState
<1>2. slot \in Entries(L2TLB_N)
  BY ShapeAssumption DEF Entries
<1>3. Cache(m, h, vpn, page, flags, allow) = Put(m, h, s)
  BY DEF Cache, Put, Sound, MachineState
<1> HIDE DEF r, slot
<1>4. r.l2[slot] \in L2Entry /\ r.root \in Nat \cup {None} /\ r.l2 \in [Entries(L2TLB_N) -> L2Entry]
  BY <1>1, <1>2 DEF HartState
<1>5. entry \in L2Entry
  BY <1>4 DEF L2Entry
<1> HIDE DEF entry
<1>6. l2 \in [Entries(L2TLB_N) -> L2Entry]
  BY <1>4, <1>5
<1> HIDE DEF l2
<1>7. Kept(r, s)
  BY <1>1, <1>6 DEF Kept, Flattened, HartState
<1> QED BY <1>3, <1>7, PutFlows DEF r

LEMMA MarkFlows ==
  ASSUME NEW m, Sound(m), NEW h \in Harts, NEW a \in Nat, a \in Units, NEW flags \in SUBSET Flags
  PROVE  Flows(m, Mark(m, h, a, flags), h)
<1> DEFINE w == [m.mem[a] EXCEPT !.flags = flags]
           mem1 == [m.mem EXCEPT ![a] = w]
           n == [m EXCEPT !.mem = mem1]
<1>1. m.mem \in [Units -> Words] /\ m \in MachineState
  BY DEF Sound, MachineState
<1>2. w \in Words
  BY <1>1 DEF Words
<1>3. Mark(m, h, a, flags) \in {m, ClearReservations(n, h, a, 2)}
  BY <1>1 DEF Mark, MachineState
<1> HIDE DEF w
<1>4. mem1 \in [Units -> Words] /\ \A u \in Units : mem1[u] # m.mem[u] => a <= u /\ u < a + 2
  BY <1>1, <1>2
<1> HIDE DEF mem1
<1>5. n \in MachineState /\ n.harts = m.harts /\ n.mem = mem1
  BY <1>1, <1>4 DEF MachineState
<1> HIDE DEF n
<1>6. Flows(m, ClearReservations(n, h, a, 2), h)
  BY <1>4, <1>5, ToldFlows
<1> QED BY <1>3, <1>6, FlowsItself

LEMMA MarkedIs ==
  ASSUME NEW m \in MachineState, NEW h \in Harts, NEW a, NEW flags
  PROVE  Mark(m, h, a, flags).harts[h] = m.harts[h] /\ Mark(m, h, a, flags).ended = m.ended
BY DEF Mark, ClearReservations, MachineState

\* What translate, or what follows it, returns.
Outcome(m, t, h) ==
  /\ t = [m |-> t.m, pa |-> t.pa, pageOk |-> t.pageOk, fault |-> t.fault]
  /\ Flows(m, t.m, h) /\ t.pa \in Nat /\ t.pageOk \in BOOLEAN /\ t.fault \in BOOLEAN

LEMMA FaultIs ==
  ASSUME NEW m, Sound(m), NEW h \in Harts
  PROVE  Outcome(m, Fault(m, h), h) /\ Fault(m, h).fault /\ Fault(m, h).m.ended = m.ended
<1>1. Raised(m, h).ended = m.ended
  BY DEF Raised, Sound, MachineState
<1> QED BY <1>1, RaisedFlows DEF Outcome, Fault

LEMMA ReachIs ==
  ASSUME NEW m, Sound(m), NEW h \in Harts, NEW va \in Nat, NEW acc \in Accesses, NEW size,
         NEW page \in Nat, NEW allow
  PROVE  /\ Outcome(m, Reach(m, h, va, acc, size, page, allow), h)
         /\ Reach(m, h, va, acc, size, page, allow).m.ended = m.ended
<1> DEFINE pa == Base(page) + (va % PageUnits)
           ok == Need(acc) \in allow
           n == FillL1(m, h, PageOf(va), page, acc, ok)
           t == Reach(m, h, va, acc, size, page, allow)
<1> SUFFICES Outcome(m, t, h) /\ t.m.ended = m.ended
  OBVIOUS
<1>1. pa \in Nat /\ PageOf(va) \in Nat
  BY PagesTyped, PageOfTyped
<1>2. ok \in BOOLEAN
  OBVIOUS
<1>3. t \in {Result(n, pa, ok), Fault(m, h)}
  BY DEF Reach
<1> HIDE DEF t, pa, ok
<1>4. Flows(m, n, h)
  BY <1>1, <1>2, FillL1Flows
<1>5. n.ended = m.ended
  BY DEF FillL1, Sound, MachineState, Accesses
<1> HIDE DEF n
<1>6. Outcome(m, Result(n, pa, ok), h) /\ Result(n, pa, ok).m.ended = m.ended
  BY <1>1, <1>2, <1>4, <1>5 DEF Outcome, Result
<1> QED BY <1>3, <1>6, FaultIs


LEMMA OutcomeAfter ==
  ASSUME NEW m, NEW n, NEW t, NEW h \in Harts, Flows(m, n, h), Outcome(n, t, h)
  PROVE  Outcome(m, t, h)
BY FlowsTwice DEF Outcome

\* A leaf that a walk found, and what follows from it.
LEMMA LeafTyped ==
  ASSUME NEW m, Sound(m), NEW h \in Harts, NEW leaf, Found(m, h, leaf), NEW vpn \in Nat
  PROVE  /\ leaf.at \in Units /\ leaf.at \in Nat
         /\ m.mem[leaf.at].flags \in SUBSET Flags
         /\ LeafPage(m.mem[leaf.at].ppn, leaf.lv, vpn) \in Nat
<1> DEFINE old == m.mem[leaf.at]
           span == Span(leaf.lv)
<1>1. leaf.at \in Units /\ leaf.lv \in Nat
  BY DEF Found, Readable, InDram
<1>2. Units \in SUBSET Nat
  <2>1. Base(DramBase) \in Nat /\ Base(DramBase + DramPages) \in Nat
    BY PagesTyped, ShapeAssumption
  <2> QED BY <2>1 DEF Units
<1>3. old \in Words
  BY <1>1 DEF Sound, MachineState
<1>4. old.flags \in SUBSET Flags /\ old.ppn \in Nat
  BY <1>3 DEF Words
<1> HIDE DEF old
<1>5. span \in Nat \ {0}
  <2>1. VpnBits * leaf.lv \in Nat
    BY <1>1, ShapeAssumption
  <2> QED BY <2>1, PowerOfTwo DEF Span
<1> HIDE DEF span
<1>6. ((old.ppn \div span) * span) + (vpn % span) \in Nat
  <2>1. old.ppn \div span \in Nat /\ vpn % span \in Nat
    BY <1>4, <1>5
  <2> DEFINE q == old.ppn \div span
             v == vpn % span
  <2> HIDE DEF q, v
  <2>2. q * span \in Nat
    BY <1>5, <2>1 DEF q, v
  <2>3. q \in Nat /\ v \in Nat
    BY <2>1 DEF q, v
  <2>4. q * span + v \in Nat
    BY <2>2, <2>3
  <2> QED BY <2>4 DEF q, v
<1>7. LeafPage(old.ppn, leaf.lv, vpn) \in Nat
  BY <1>6 DEF LeafPage, span
<1> QED BY <1>1, <1>2, <1>4, <1>7 DEF old

FlagsAfter(m, acc, leaf) == m.mem[leaf.at].flags \cup {"A"} \cup (IF acc = "Store" THEN {"D"} ELSE {})
PageAt(m, va, leaf) == LeafPage(m.mem[leaf.at].ppn, leaf.lv, PageOf(va))
AllowAt(m, h, va, leaf) == PmpPageAllows(m.harts[h], PageAt(m, va, leaf))
Marked(m, h, acc, leaf) == Mark(m, h, leaf.at, FlagsAfter(m, acc, leaf))
Filled(m, h, va, acc, leaf) ==
  Cache(Marked(m, h, acc, leaf), h, PageOf(va), PageAt(m, va, leaf), FlagsAfter(m, acc, leaf),
        AllowAt(m, h, va, leaf))

LEMMA UseLeafCases ==
  ASSUME NEW m, NEW h, NEW va, NEW acc, NEW size, NEW leaf
  PROVE  \/ UseLeaf(m, h, va, acc, size, leaf) = Fault(m, h)
         \/ /\ Found(m, h, leaf)
            /\ Permits(m.mem[leaf.at].flags, m.harts[h], acc, EffPriv(m.harts[h], acc))
            /\ UseLeaf(m, h, va, acc, size, leaf) =
                 Reach(Filled(m, h, va, acc, leaf), h, va, acc, size, PageAt(m, va, leaf), AllowAt(m, h, va, leaf))
BY DEF UseLeaf, Filled, Marked, FlagsAfter, PageAt, AllowAt

LEMMA FilledIs ==
  ASSUME NEW m, Sound(m), NEW h \in Harts, NEW va \in Nat, NEW acc \in Accesses, NEW leaf, Found(m, h, leaf)
  PROVE  /\ Flows(m, Filled(m, h, va, acc, leaf), h) /\ Filled(m, h, va, acc, leaf).ended = m.ended
         /\ Sound(Marked(m, h, acc, leaf)) /\ Marked(m, h, acc, leaf).harts[h] = m.harts[h]
         /\ PageAt(m, va, leaf) \in Nat
<1> DEFINE flags == FlagsAfter(m, acc, leaf)
           vpn == PageOf(va)
           page == PageAt(m, va, leaf)
           allow == AllowAt(m, h, va, leaf)
           n == Marked(m, h, acc, leaf)
           k == Filled(m, h, va, acc, leaf)
<1>1. vpn \in Nat
  BY PageOfTyped
<1>2. leaf.at \in Units /\ leaf.at \in Nat /\ m.mem[leaf.at].flags \in SUBSET Flags /\ page \in Nat
  BY <1>1, LeafTyped DEF PageAt
<1>3. page \in DramPageSet => allow \in SUBSET Bits
  BY AllowTyped DEF Sound, MachineState, AllowAt
<1>4. flags \in SUBSET Flags
  BY <1>2 DEF Flags, FlagsAfter
<1>5. n = Mark(m, h, leaf.at, flags) /\ k = Cache(n, h, vpn, page, flags, allow)
  BY DEF Marked, Filled
<1> HIDE DEF page, vpn, allow, flags, n, k
<1>6. Flows(m, n, h) /\ Sound(n)
  BY <1>2, <1>4, <1>5, MarkFlows DEF Flows
<1>7. Flows(n, k, h)
  BY <1>1, <1>2, <1>3, <1>4, <1>5, <1>6, CacheFlows
<1>8. n.harts[h] = m.harts[h] /\ n.ended = m.ended
  BY <1>5, MarkedIs DEF Sound
<1>9. k.ended = n.ended
  BY <1>5, <1>6 DEF Cache, Sound, MachineState
<1>10. Flows(m, k, h)
  BY <1>6, <1>7, FlowsTwice
<1> QED BY <1>2, <1>6, <1>8, <1>9, <1>10 DEF page, n, k

LEMMA UseLeafIs ==
  ASSUME NEW m, Sound(m), NEW h \in Harts, NEW va \in Nat, NEW acc \in Accesses, NEW size, NEW leaf
  PROVE  /\ Outcome(m, UseLeaf(m, h, va, acc, size, leaf), h)
         /\ UseLeaf(m, h, va, acc, size, leaf).m.ended = m.ended
<1> DEFINE k == Filled(m, h, va, acc, leaf)
           page == PageAt(m, va, leaf)
           allow == AllowAt(m, h, va, leaf)
           t == UseLeaf(m, h, va, acc, size, leaf)
<1> SUFFICES Outcome(m, t, h) /\ t.m.ended = m.ended
  OBVIOUS
<1>1. t = Fault(m, h) \/ (Found(m, h, leaf) /\ t = Reach(k, h, va, acc, size, page, allow))
  BY UseLeafCases
<1> HIDE DEF t
<1>2. CASE t = Fault(m, h)
  BY <1>2, FaultIs
<1>3. CASE Found(m, h, leaf) /\ t = Reach(k, h, va, acc, size, page, allow)
  <2>1. Flows(m, k, h) /\ k.ended = m.ended /\ page \in Nat
    BY <1>3, FilledIs
  <2> HIDE DEF k, page, allow
  <2>2. Sound(k)
    BY <2>1 DEF Flows
  <2>3. Outcome(k, t, h) /\ t.m.ended = k.ended
    BY <1>3, <2>1, <2>2, ReachIs
  <2> QED BY <2>1, <2>3, OutcomeAfter
<1> QED BY <1>1, <1>2, <1>3

LEMMA TranslateIs ==
  ASSUME NEW m, Sound(m), NEW h \in Harts, NEW va \in Nat, NEW acc \in Accesses, NEW size
  PROVE  /\ Outcome(m, Translate(m, h, va, acc, size), h)
         /\ Translate(m, h, va, acc, size).m.ended = m.ended
<1> DEFINE hr == m.harts[h]
           t == Translate(m, h, va, acc, size)
           l2 == hr.l2[PageOf(va) % L2TLB_N]
           priv == EffPriv(hr, acc)
           pageOk == /\ acc = "Fetch"
                     /\ \/ priv = "M" /\ hr.nrules = 0
                        \/ PmpOk(hr, Base(PageOf(va)), PageUnits, acc, priv)
<1> SUFFICES Outcome(m, t, h) /\ t.m.ended = m.ended
  OBVIOUS
<1>1. l2 \in L2Entry
  <2>1. PageOf(va) % L2TLB_N \in Entries(L2TLB_N)
    BY PageOfTyped, ShapeAssumption DEF Entries
  <2>2. hr.l2 \in [Entries(L2TLB_N) -> L2Entry]
    BY DEF Sound, MachineState, HartState
  <2> QED BY <2>1, <2>2
<1>2. pageOk \in BOOLEAN
  OBVIOUS
<1>3. \/ t = Reach(m, h, va, acc, size, l2.page, l2.allow)
      \/ t = Fault(m, h)
      \/ t = UseLeaf(m, h, va, acc, size, Walk(m, h, PageOf(va)))
      \/ t = Result(m, va, pageOk)
  BY DEF Translate, TranslateSlow
<1> HIDE DEF l2, pageOk
<1>4. Outcome(m, Result(m, va, pageOk), h) /\ Result(m, va, pageOk).m.ended = m.ended
  BY <1>2, FlowsItself DEF Outcome, Result
<1>5. l2.page \in Nat
  BY <1>1 DEF L2Entry
<1> HIDE DEF t
<1> QED BY <1>3, <1>4, <1>5, ReachIs, FaultIs, UseLeafIs


-----------------------------------------------------------------------------
(* Loads and stores                                                         *)

With(t, n) == [t EXCEPT !.m = n]

LEMMA WithIs ==
  ASSUME NEW m, NEW t, NEW h \in Harts, Outcome(m, t, h), NEW n, Flows(t.m, n, h)
  PROVE  Outcome(m, With(t, n), h)
<1> DEFINE s == With(t, n)
<1>1. s = [m |-> n, pa |-> t.pa, pageOk |-> t.pageOk, fault |-> t.fault]
  BY DEF Outcome, With
<1> HIDE DEF s
<1>2. Flows(m, n, h)
  BY FlowsTwice DEF Outcome
<1>3. t.pa \in Nat /\ t.pageOk \in BOOLEAN /\ t.fault \in BOOLEAN
  BY DEF Outcome
<1>4. Outcome(m, s, h)
  BY <1>1, <1>2, <1>3 DEF Outcome
<1> QED BY <1>4 DEF s

LEMMA DeviceFlows ==
  ASSUME NEW m, Sound(m), NEW h \in Harts, NEW pa, NEW size
  PROVE  Flows(m, Device(m, pa, size), h)
<1> DEFINE b == m.ended \/ PageOf(pa) >= DramBase
           n == [m EXCEPT !.ended = b]
<1>1. b \in BOOLEAN
  OBVIOUS
<1>2. Device(m, pa, size) = n
  BY DEF Device
<1> HIDE DEF b
<1>3. n \in MachineState /\ n.harts = m.harts /\ n.mem = m.mem
  BY <1>1 DEF Sound, MachineState
<1> HIDE DEF n
<1>4. Sound(n)
  BY <1>3 DEF Sound
<1>5. Flows(m, n, h)
  BY <1>3, <1>4 DEF Flows, Holds, Clash
<1> QED BY <1>2, <1>5

LEMMA WrittenIs ==
  ASSUME NEW m \in MachineState, NEW pa \in Int, NEW size, NEW word \in Words
  PROVE  LET n == Written(m, pa, size, word)
         IN  /\ n \in MachineState /\ n.harts = m.harts /\ n.ended = m.ended
             /\ \A u \in Units : n.mem[u] # m.mem[u] => pa <= u /\ u < pa + size
<1> DEFINE mem1 == [u \in Units |-> IF pa <= u /\ u < pa + size THEN word ELSE m.mem[u]]
           n == [m EXCEPT !.mem = mem1]
<1>1. m.mem \in [Units -> Words]
  BY DEF MachineState
<1>2. mem1 \in [Units -> Words] /\ \A u \in Units : mem1[u] # m.mem[u] => pa <= u /\ u < pa + size
  BY <1>1
<1>3. Written(m, pa, size, word) = n
  BY DEF Written, MachineState
<1> HIDE DEF mem1
<1>4. n \in MachineState /\ n.harts = m.harts /\ n.ended = m.ended /\ n.mem = mem1
  BY <1>2 DEF MachineState
<1> QED BY <1>2, <1>3, <1>4

LEMMA AccessedIs ==
  ASSUME NEW m, Sound(m), NEW h \in Harts, NEW t, Outcome(m, t, h),
         NEW acc, NEW size \in Nat, NEW word \in Words
  PROVE  Outcome(m, Accessed(t, h, acc, size, word), h)
<1> DEFINE n == Written(t.m, t.pa, size, word)
           k == ClearReservations(n, h, t.pa, size)
<1>1. Accessed(t, h, acc, size, word) \in {t, With(t, Device(t.m, t.pa, size)), With(t, k)}
  BY DEF Accessed, With, Outcome
<1>2. Sound(t.m) /\ t.m \in MachineState /\ t.pa \in Nat
  BY DEF Outcome, Flows, Sound
<1>3. n \in MachineState /\ n.harts = t.m.harts
      /\ \A u \in Units : n.mem[u] # t.m.mem[u] => t.pa <= u /\ u < t.pa + size
  BY <1>2, WrittenIs
<1> HIDE DEF n
<1>4. Flows(t.m, k, h)
  BY <1>2, <1>3, ToldFlows
<1>5. Flows(t.m, Device(t.m, t.pa, size), h)
  BY <1>2, DeviceFlows
<1> HIDE DEF k
<1> QED BY <1>1, <1>4, <1>5, WithIs

LEMMA SysAccessIs ==
  ASSUME NEW m, Sound(m), NEW h \in Harts, NEW va \in Nat, NEW acc \in Accesses,
         NEW size \in Nat, NEW word \in Words
  PROVE  Outcome(m, SysAccess(m, h, va, acc, size, word), h)
<1> DEFINE t == Translate(m, h, va, acc, size)
<1>1. Outcome(m, t, h)
  BY TranslateIs
<1>2. SysAccess(m, h, va, acc, size, word) = Accessed(t, h, acc, size, word)
  BY DEF SysAccess
<1> HIDE DEF t
<1> QED BY <1>1, <1>2, AccessedIs

LEMMA AccessIs ==
  ASSUME NEW m, Sound(m), NEW h \in Harts, NEW va \in Nat, NEW acc \in Accesses,
         NEW size \in Nat, NEW word \in Words
  PROVE  Outcome(m, Access(m, h, va, acc, size, word), h)
<1> DEFINE part == Min({Room(va), size})
           first == SysAccess(m, h, va, acc, part, word)
           t == Access(m, h, va, acc, size, word)
<1>1. Room(va) \in Nat
  BY PageOfTyped, PagesTyped DEF Room
<1>2. part \in Nat /\ part <= size
  BY <1>1, MinIs
<1>3. \/ t = first
      \/ t = SysAccess(first.m, h, va + part, acc, size - part, word)
  BY DEF Access, Rest
<1> HIDE DEF part, t
<1>4. Outcome(m, first, h)
  BY <1>2, SysAccessIs
<1> HIDE DEF first
<1>5. Sound(first.m) /\ Flows(m, first.m, h)
  BY <1>4 DEF Outcome, Flows
<1>6. va + part \in Nat /\ size - part \in Nat
  BY <1>2
<1>7. Outcome(first.m, SysAccess(first.m, h, va + part, acc, size - part, word), h)
  BY <1>5, <1>6, SysAccessIs
<1> QED BY <1>3, <1>4, <1>5, <1>7, OutcomeAfter DEF t

\* A reservation lies in one page of memory.
Placed(s) ==
  NumHarts > 1 /\ s.resv.valid => s.resv.pa % s.resv.size = 0 /\ InDram(s.resv.pa, s.resv.size)

LEMMA InOnePage ==
  ASSUME NEW a \in Nat, NEW size \in {1, 2}, a % size = 0, NEW u \in a .. (a + size - 1)
  PROVE  PageOf(u) = PageOf(a)
<1> DEFINE f == Fan
<1>1. f \in Nat \ {0} /\ PageUnits = 2 * f
  BY PagesTyped
<1> HIDE DEF f
<1>2. CASE u = a
  BY <1>2
<1>3. CASE u # a
  <2>1. size = 2 /\ u = a + 1 /\ a % 2 = 0
    BY <1>3
  <2>2. PICK k \in Nat : a = 2 * k
    BY <2>1
  <2>3. k \div f \in Nat /\ k % f \in 0 .. f - 1 /\ k = (k \div f) * f + (k % f)
    BY <1>1, <2>2, Remainder
  <2> DEFINE q == k \div f
             r == k % f
             b == 2 * f
  <2>4. q \in Nat /\ r \in 0 .. f - 1 /\ k = q * f + r /\ q * f \in Nat
    BY <1>1, <2>3
  <2> HIDE DEF q, r
  <2>5. q * b = 2 * (q * f)
    BY <1>1, <2>4
  <2>6. b \in Nat \ {0} /\ a = q * b + 2 * r /\ u = q * b + (2 * r + 1)
        /\ 2 * r \in 0 .. b - 1 /\ 2 * r + 1 \in 0 .. b - 1
    BY <1>1, <2>1, <2>2, <2>4, <2>5
  <2>7. ASSUME NEW o \in 0 .. b - 1
        PROVE  (q * b + o) \div b = q
    <3> HIDE DEF b
    <3> QED BY <2>4, <2>6
  <2> HIDE DEF b
  <2>8. a \div b = q /\ u \div b = q
    BY <2>6, <2>7
  <2> QED BY <1>1, <2>8 DEF PageOf, b
<1> QED BY <1>2, <1>3


Guarded(m) == \A i, j, e : ~Clash(m, i, j, e)
AllPlaced(m) == \A i \in Harts : Placed(m.harts[i])

\* An aligned access does not leave its page.
LEMMA AlignedStays ==
  ASSUME NEW va \in Nat, NEW size \in {1, 2}, va % size = 0
  PROVE  (va % PageUnits) % size = 0 /\ (va % PageUnits) + size <= PageUnits
<1> DEFINE f == Fan
           b == PageUnits
           o == va % b
           q == va \div b
<1> SUFFICES o % size = 0 /\ o + size <= b
  OBVIOUS
<1>1. f \in Nat \ {0} /\ b = 2 * f /\ b \in Nat \ {0}
  BY PagesTyped
<1> HIDE DEF f, b
<1>2. o \in 0 .. b - 1 /\ q \in Nat /\ va = q * b + o
  <2>1. b \in Nat \ {0}
    BY <1>1
  <2> QED BY <2>1, Remainder
<1> HIDE DEF o, q
<1>3. q * b = 2 * (q * f) /\ q * f \in Nat
  BY <1>1, <1>2
<1>4. CASE size = 1
  BY <1>1, <1>2, <1>4
<1>5. CASE size = 2
  <2>1. PICK k \in Nat : va = 2 * k
    BY <1>5
  <2>2. o % 2 = 0
    BY <1>2, <1>3, <2>1
  <2> QED BY <1>1, <1>2, <1>5, <2>2
<1> QED BY <1>4, <1>5

LEMMA MemWrFlows ==
  ASSUME NEW m, Sound(m), Guarded(m), AllPlaced(m), NEW h \in Harts, NEW va \in Nat,
         NEW size \in {1, 2}, NEW word \in Words
  PROVE  Flows(m, MemWr(m, h, va, size, word), h)
<1> DEFINE slot == PageOf(va) % DTLB_N
           e == m.harts[h].store[slot]
           pa == Base(e.page) + (va % PageUnits)
           n == Written(m, pa, size, word)
           r == Access(m, h, va, "Store", size, word)
<1>1. slot \in Entries(DTLB_N)
  BY PageOfTyped, ShapeAssumption DEF Entries
<1>2. e \in L1Entry
  <2>1. m.harts[h].store \in [Entries(DTLB_N) -> L1Entry]
    BY DEF Sound, MachineState, HartState
  <2> HIDE DEF slot
  <2> QED BY <1>1, <2>1
<1>3. MemWr(m, h, va, size, word) = IF Hits(m.harts[h].store, va, size) THEN n ELSE r.m
  BY DEF MemWr
<1>4. Flows(m, r.m, h)
  BY AccessIs DEF Outcome, Accesses
<1>5. CASE Hits(m.harts[h].store, va, size)
  <2> DEFINE b == PageUnits
             o == va % b
             page == e.page
  <2>1. va % size = 0
    BY <1>5 DEF Hits
  <2>2. o \in Nat /\ o + size <= b /\ b \in Nat \ {0}
    <3>1. PageUnits \in Nat /\ PageUnits >= 2
      BY PagesTyped
    <3>2. (va % PageUnits) \in 0 .. PageUnits - 1
      BY PageOfTyped
    <3>3. (va % PageUnits) + size <= PageUnits
      BY <2>1, AlignedStays
    <3> HIDE DEF PageUnits
    <3> QED BY <3>1, <3>2, <3>3
  <2>3. page \in Nat \cup {-1} /\ pa = page * b + o
    <3>1. page \in {None} \cup DramPageSet
      <4> HIDE DEF e
      <4> QED BY <1>2 DEF L1Entry, NoEntry
    <3>2. DramPageSet \subseteq Nat
      BY ShapeAssumption DEF DramPageSet
    <3> QED BY <3>1, <3>2 DEF Base, None
  <2>4. pa \in Int
    <3> HIDE DEF pa, page, o, b
    <3> QED BY <2>2, <2>3
  <2>5. n \in MachineState /\ n.harts = m.harts
        /\ \A u \in Units : n.mem[u] # m.mem[u] => pa <= u /\ u < pa + size
    BY <2>4, WrittenIs DEF Sound
  <2> HIDE DEF n
  <2>6. ASSUME NEW u \in Nat, pa <= u, u < pa + size
        PROVE  PageOf(u) = page
    <3> DEFINE d == u - page * b
    <3> HIDE DEF pa, page, o, b
    <3>1. d \in 0 .. b - 1 /\ u = page * b + d /\ page \in Int
      BY <2>2, <2>3, <2>6
    <3> HIDE DEF d
    <3>2. u \div b = page
      BY <2>2, <3>1
    <3> QED BY <3>2 DEF PageOf, b
  <2>7. ASSUME NEW i \in Harts \ {h}, m.harts[i].resv.valid, NEW u \in Units, u \in Reserves(m.harts[i].resv)
        PROVE  n.mem[u] = m.mem[u]
    <3> SUFFICES ASSUME n.mem[u] # m.mem[u] PROVE FALSE
      OBVIOUS
    <3>1. NumHarts > 1
      BY ShapeAssumption DEF Harts
    <3> DEFINE s == m.harts[i].resv
    <3>2. s.pa \in Nat /\ s.size \in {1, 2}
      BY ReservationTyped DEF Sound, MachineState
    <3>3. s.pa % s.size = 0
      BY <2>7, <3>1 DEF AllPlaced, Placed
    <3>4. u \in s.pa .. (s.pa + s.size - 1)
      BY <2>7 DEF Reserves
    <3>5. u \in Nat
      BY <3>2, <3>4
    <3>6. PageOf(u) = PageOf(s.pa)
      BY <3>2, <3>3, <3>4, InOnePage
    <3>7. PageOf(u) = page
      BY <2>5, <2>6, <3>5
    <3>8. Clash(m, i, h, slot)
      BY <1>1, <2>7, <3>1, <3>6, <3>7 DEF Clash
    <3> QED BY <3>8 DEF Guarded
  <2>8. Sound(n)
    BY <2>5 DEF Sound
  <2>9. \A i \in Harts \ {h} : Holds(m, n, i)
    BY <2>5, <2>7 DEF Holds
  <2>10. \A i, j, x : Clash(n, i, j, x) => Clash(m, i, j, x)
    BY <2>5 DEF Clash
  <2>11. Flows(m, n, h)
    BY <2>5, <2>8, <2>9, <2>10 DEF Flows
  <2> QED BY <1>3, <1>5, <2>11 DEF n
<1> HIDE DEF n, r
<1> QED BY <1>3, <1>4, <1>5

LEMMA MemRdFlows ==
  ASSUME NEW m, Sound(m), NEW h \in Harts, NEW va \in Nat, NEW size \in {1, 2}
  PROVE  Flows(m, MemRd(m, h, va, size), h)
<1>1. Data(0) \in Words
  BY DEF Data, Word, Words
<1>2. Flows(m, Access(m, h, va, "Load", size, Data(0)).m, h)
  BY <1>1, AccessIs DEF Outcome, Accesses
<1> QED BY <1>2, FlowsItself DEF MemRd

LEMMA AtomicDramIs ==
  ASSUME NEW m, Sound(m), NEW h \in Harts, NEW va \in Nat, NEW size \in {1, 2}, NEW acc \in Accesses
  PROVE  Outcome(m, AtomicDram(m, h, va, size, acc), h)
<1> DEFINE t == Translate(m, h, va, acc, size)
           r == AtomicDram(m, h, va, size, acc)
<1>1. Outcome(m, t, h)
  BY TranslateIs
<1>2. r \in {t, Fault(m, h), Fault(t.m, h)}
  BY DEF AtomicDram, OnlyDram
<1> HIDE DEF t, r
<1>3. Sound(t.m) /\ Flows(m, t.m, h)
  BY <1>1 DEF Outcome, Flows
<1>4. Outcome(m, Fault(m, h), h) /\ Outcome(t.m, Fault(t.m, h), h)
  BY <1>3, FaultIs
<1>5. Outcome(m, Fault(t.m, h), h)
  BY <1>3, <1>4, OutcomeAfter
<1> QED BY <1>1, <1>2, <1>4, <1>5 DEF r


LEMMA StoreConditionalFlows ==
  ASSUME NEW m, Sound(m), NEW h \in Harts, NEW va \in Nat, NEW size \in {1, 2}, NEW word \in Words,
         NEW checked, Outcome(m, checked, h)
  PROVE  Flows(m, StoreConditional(checked, h, va, size, word), h)
<1> DEFINE r == checked.m.harts[h].resv
           here == r.valid /\ r.va = va /\ r.size = size
           read == IF here THEN Access(checked.m, h, va, "Load", size, Data(0)) ELSE checked
<1>1. Sound(checked.m) /\ Flows(m, checked.m, h)
  BY DEF Outcome, Flows
<1>2. Outcome(checked.m, Access(checked.m, h, va, "Load", size, Data(0)), h)
  <2>1. Data(0) \in Words
    BY DEF Data, Word, Words
  <2> QED BY <1>1, <2>1, AccessIs DEF Accesses
<1>3. StoreConditional(checked, h, va, size, word) \in {checked.m, Conclude(read, here, h, va, size, word)}
  BY DEF StoreConditional
<1>4. Outcome(m, read, h)
  BY <1>1, <1>2, OutcomeAfter
<1> HIDE DEF read, here
<1>5. Flows(m, Conclude(read, here, h, va, size, word), h)
  <2> DEFINE hit == here /\ read.m.mem[read.pa] = read.m.harts[h].resv.value
             sc == IF hit THEN "done" ELSE "failed"
             s == read.m.harts[h]
             free == [s EXCEPT !.resv.valid = FALSE]
             u == [free EXCEPT !.sc = sc]
             done == Put(read.m, h, u)
  <2>1. sc \in {"done", "failed"}
    OBVIOUS
  <2>2. Sound(read.m) /\ Flows(m, read.m, h) /\ s \in HartState
    BY <1>4 DEF Outcome, Flows, Sound, MachineState
  <2>3. Conclude(read, here, h, va, size, word) \in
          {read.m, done, Access(done, h, va, "Store", size, word).m}
    <3> DEFINE d == [read.m EXCEPT !.harts[h].resv.valid = FALSE,
                                   !.harts[h].sc = IF hit THEN "done" ELSE "failed"]
    <3>1. d = done
      BY <2>2 DEF Put, Sound, MachineState
    <3>2. Conclude(read, here, h, va, size, word) =
            IF read.fault THEN read.m ELSE IF hit THEN Access(d, h, va, "Store", size, word).m ELSE d
      BY DEF Conclude
    <3> HIDE DEF d, hit, done
    <3> QED BY <3>1, <3>2
  <2> HIDE DEF sc, s
  <2>4. Kept(s, free)
    BY <2>2, ReleasedKeeps
  <2> HIDE DEF free
  <2>5. Kept(free, u)
    BY <2>1, <2>4 DEF Kept, Flattened, HartState
  <2> HIDE DEF u
  <2>6. Kept(s, u)
    BY <2>4, <2>5, KeptTwice
  <2>7. Flows(read.m, done, h)
    BY <2>2, <2>6, PutFlows DEF s
  <2> HIDE DEF done
  <2>8. Flows(m, done, h) /\ Sound(done)
    BY <2>2, <2>7, FlowsTwice DEF Flows
  <2>9. Outcome(done, Access(done, h, va, "Store", size, word), h)
    BY <2>8, AccessIs DEF Accesses
  <2>10. Flows(m, Access(done, h, va, "Store", size, word).m, h)
    BY <2>8, <2>9, OutcomeAfter DEF Outcome
  <2> QED BY <2>2, <2>3, <2>8, <2>10
<1> QED BY <1>1, <1>3, <1>5

LEMMA AmoFlows ==
  ASSUME NEW m, Sound(m), NEW h \in Harts, NEW va \in Nat, NEW size \in {1, 2}, NEW word \in Words,
         NEW checked, Outcome(m, checked, h)
  PROVE  Flows(m, Amo(checked, h, va, size, word), h)
<1> DEFINE read == Access(checked.m, h, va, "Load", size, Data(0))
           store == Access(read.m, h, va, "Store", size, word)
<1>1. Amo(checked, h, va, size, word) \in {checked.m, read.m, store.m}
  BY DEF Amo, Update
<1>2. Sound(checked.m) /\ Flows(m, checked.m, h)
  BY DEF Outcome, Flows
<1>3. Outcome(checked.m, read, h)
  <2>1. Data(0) \in Words
    BY DEF Data, Word, Words
  <2> QED BY <1>2, <2>1, AccessIs DEF Accesses
<1> HIDE DEF read
<1>4. Outcome(m, read, h)
  BY <1>2, <1>3, OutcomeAfter
<1>5. Sound(read.m) /\ Flows(m, read.m, h)
  BY <1>4 DEF Outcome, Flows
<1>6. Outcome(read.m, store, h)
  BY <1>5, AccessIs DEF Accesses
<1> HIDE DEF store
<1>7. Outcome(m, store, h)
  BY <1>5, <1>6, OutcomeAfter
<1> QED BY <1>1, <1>2, <1>5, <1>7 DEF Outcome

-----------------------------------------------------------------------------
(* Fetches                                                                  *)

LEMMA ItlbFlows ==
  ASSUME NEW m, Sound(m), NEW h \in Harts, NEW entry \in L1Entry
  PROVE  Flows(m, [m EXCEPT !.harts[h].itlb = entry], h)
<1> DEFINE s == [m.harts[h] EXCEPT !.itlb = entry]
<1>1. m.harts[h] \in HartState
  BY DEF Sound, MachineState
<1>2. Kept(m.harts[h], s)
  BY <1>1 DEF Kept, Flattened, HartState
<1>3. [m EXCEPT !.harts[h].itlb = entry] = Put(m, h, s)
  BY DEF Put, Sound, MachineState
<1> HIDE DEF s
<1> QED BY <1>2, <1>3, PutFlows

LEMMA FetchPageIs ==
  ASSUME NEW m, Sound(m), NEW h \in Harts, NEW va \in Nat, NEW wide \in BOOLEAN
  PROVE  Outcome(m, FetchPage(m, h, va, wide), h)
<1> DEFINE t == Translate(m, h, va, "Fetch", 1)
           entry == [vpn |-> PageOf(va), page |-> PageOf(t.pa)]
           n == [t.m EXCEPT !.harts[h].itlb = NoEntry]
           k == [t.m EXCEPT !.harts[h].itlb = entry]
           r == FetchPage(m, h, va, wide)
<1>1. Outcome(m, t, h)
  BY TranslateIs DEF Accesses
<1>2. r = FillItlb(t, h, va, wide)
  BY DEF FetchPage
<1> HIDE DEF t, r
<1>3. Sound(t.m) /\ Flows(m, t.m, h)
  BY <1>1 DEF Outcome, Flows
<1>4. r \in {t, Fault(n, h)} \/ (PageOf(t.pa) \in DramPageSet /\ r = With(t, k))
  BY <1>1, <1>2 DEF FillItlb, Executable, With, Outcome
<1>5. Flows(t.m, n, h)
  BY <1>3, EntriesTyped, ItlbFlows
<1>6. ASSUME PageOf(t.pa) \in DramPageSet
      PROVE  Flows(t.m, k, h)
  <2>1. entry \in L1Entry
    BY <1>6, PageOfTyped DEF L1Entry
  <2> HIDE DEF entry
  <2> QED BY <1>3, <2>1, ItlbFlows
<1> HIDE DEF n, k
<1>7. Sound(n) /\ Flows(m, n, h)
  BY <1>3, <1>5, FlowsTwice DEF Flows
<1>8. Outcome(m, Fault(n, h), h)
  BY <1>7, FaultIs, OutcomeAfter
<1> QED BY <1>1, <1>4, <1>6, <1>8, WithIs DEF r

LEMMA FetchFlows ==
  ASSUME NEW m, Sound(m), NEW h \in Harts, NEW va \in Nat, NEW wide \in BOOLEAN
  PROVE  Flows(m, FetchAt(m, h, va, wide), h)
<1> DEFINE first == IF m.harts[h].itlb.vpn = PageOf(va) THEN Result(m, 0, TRUE) ELSE FetchPage(m, h, va, wide)
           last == Crossed(first, h, va, wide)
           once == ~first.pageOk \/ (~last.fault /\ ~last.pageOk)
<1>1. Outcome(m, Result(m, 0, TRUE), h)
  BY FlowsItself DEF Outcome, Result
<1>2. Outcome(m, first, h)
  BY <1>1, FetchPageIs
<1>3. FetchAt(m, h, va, wide) = Finish(first, last, h)
  BY DEF FetchAt, FetchFrom
<1> HIDE DEF first
<1>4. last \in {first, FetchPage(first.m, h, va + 1, FALSE)}
  BY DEF Crossed
<1>5. Sound(first.m) /\ Flows(m, first.m, h)
  BY <1>2 DEF Outcome, Flows
<1>6. Outcome(first.m, FetchPage(first.m, h, va + 1, FALSE), h)
  <2>1. va + 1 \in Nat /\ FALSE \in BOOLEAN
    OBVIOUS
  <2> QED BY <1>5, <2>1, FetchPageIs
<1> HIDE DEF last
<1>7. Outcome(m, last, h)
  BY <1>2, <1>4, <1>5, <1>6, OutcomeAfter
<1>8. Sound(last.m) /\ Flows(m, last.m, h)
  BY <1>7 DEF Outcome, Flows
<1> DEFINE n == [last.m EXCEPT !.harts[h].itlb = NoEntry]
<1>9. Finish(first, last, h) \in {first.m, last.m, n}
  BY DEF Finish, OnceOnly
<1>10. Flows(last.m, n, h)
  BY <1>8, EntriesTyped, ItlbFlows
<1> HIDE DEF n
<1>11. Flows(m, n, h)
  BY <1>8, <1>10, FlowsTwice
<1> QED BY <1>3, <1>5, <1>8, <1>9, <1>11


-----------------------------------------------------------------------------
(* LR: what has been translated once is translated again to the same place  *)

\* Hart r can load from va, without a walk, and reaches pa.
Reaches(r, va, size, pa) ==
  LET l2 == r.l2[PageOf(va) % L2TLB_N]
      priv == EffPriv(r, "Load")
  IN  IF priv # "M" /\ r.root # None
      THEN /\ l2.tag = r.root /\ l2.vpn = PageOf(va) /\ PteAccessOk(l2.flags, r, "Load", priv)
           /\ pa = Base(l2.page) + (va % PageUnits)
           /\ "R" \in l2.allow \/ PmpOk(r, pa, size, "Load", priv)
      ELSE /\ pa = va
           /\ (priv = "M" /\ r.mFast /\ (va % 2) + size <= 2) \/ PmpOk(r, va, size, "Load", priv)

SameView(r, s) ==
  /\ s.priv = r.priv /\ s.mprv = r.mprv /\ s.mpp = r.mpp /\ s.sum = r.sum /\ s.mxr = r.mxr
  /\ s.root = r.root /\ s.segs = r.segs /\ s.mFast = r.mFast /\ s.l2 = r.l2

LEMMA SameViewReaches ==
  ASSUME NEW r, NEW s, SameView(r, s), NEW va, NEW size, NEW pa, Reaches(r, va, size, pa)
  PROVE  Reaches(s, va, size, pa)
<1>1. EffPriv(s, "Load") = EffPriv(r, "Load")
  BY DEF SameView, EffPriv
<1>2. \A a, priv : PmpOk(s, a, size, "Load", priv) <=> PmpOk(r, a, size, "Load", priv)
  BY DEF SameView, PmpOk, SegmentAt
<1>3. \A flags, priv : PteAccessOk(flags, s, "Load", priv) <=> PteAccessOk(flags, r, "Load", priv)
  BY DEF SameView, PteAccessOk, Permits
<1> QED BY <1>1, <1>2, <1>3 DEF Reaches, SameView

\* From m to n only the load entries of hart h have changed.
OnlyLoads(m, n, h) ==
  /\ Own1(m, n, h) /\ n.ended = m.ended
  /\ SameView(m.harts[h], n.harts[h]) /\ Flattened(n.harts[h])
  /\ n.harts[h].resv = m.harts[h].resv /\ n.harts[h].store = m.harts[h].store

LEMMA LoadEntryIs ==
  ASSUME NEW m, Sound(m), NEW h \in Harts, NEW vpn \in Nat, NEW page, NEW pageOk \in BOOLEAN
  PROVE  OnlyLoads(m, FillL1(m, h, vpn, page, "Load", pageOk), h)
<1> DEFINE entry == IF page \in DramPageSet /\ pageOk THEN [vpn |-> vpn, page |-> page] ELSE NoEntry
           slot == vpn % DTLB_N
           r == m.harts[h]
           load == [r.load EXCEPT ![slot] = entry]
           s == [r EXCEPT !.load = load]
<1>1. entry \in L1Entry
  BY EntriesTyped DEF L1Entry
<1>2. slot \in Entries(DTLB_N)
  BY ShapeAssumption DEF Entries
<1>3. r \in HartState /\ Flattened(r)
  BY DEF Sound, MachineState
<1>4. FillL1(m, h, vpn, page, "Load", pageOk) = Put(m, h, s)
  BY DEF FillL1, Put, Sound, MachineState
<1> HIDE DEF entry, r, slot
<1>5. load \in [Entries(DTLB_N) -> L1Entry]
  BY <1>1, <1>2, <1>3 DEF HartState
<1> HIDE DEF load
<1>6. s \in HartState /\ SameView(r, s) /\ Flattened(s) /\ s.resv = r.resv /\ s.store = r.store
  BY <1>3, <1>5 DEF Flattened, HartState, SameView
<1> HIDE DEF s
<1>7. Own1(m, Put(m, h, s), h) /\ Put(m, h, s).harts[h] = s /\ Put(m, h, s).ended = m.ended
  BY <1>6, PutIs DEF Sound
<1> QED BY <1>4, <1>6, <1>7 DEF OnlyLoads, r

LEMMA ReachesAgain ==
  ASSUME NEW m, Sound(m), NEW h \in Harts, NEW va \in Nat, NEW size, NEW pa,
         Reaches(m.harts[h], va, size, pa)
  PROVE  LET t == Translate(m, h, va, "Load", size)
         IN  ~t.fault /\ t.pa = pa /\ OnlyLoads(m, t.m, h)
<1> DEFINE r == m.harts[h]
           l2 == r.l2[PageOf(va) % L2TLB_N]
           priv == EffPriv(r, "Load")
           t == Translate(m, h, va, "Load", size)
<1> SUFFICES ~t.fault /\ t.pa = pa /\ OnlyLoads(m, t.m, h)
  OBVIOUS
<1>1. r \in HartState /\ Flattened(r) /\ m \in MachineState
  BY DEF Sound, MachineState
<1>2. Need("Load") = "R"
  BY DEF Need
<1>3. CASE priv # "M" /\ r.root # None
  <2> DEFINE ok == Need("Load") \in l2.allow
             n == FillL1(m, h, PageOf(va), l2.page, "Load", ok)
  <2>1. pa = Base(l2.page) + (va % PageUnits) /\ (ok \/ PmpOk(r, pa, size, "Load", priv))
    BY <1>2, <1>3 DEF Reaches
  <2>2. t = Reach(m, h, va, "Load", size, l2.page, l2.allow)
    BY <1>3 DEF Translate, TranslateSlow, Reaches
  <2>3. t = Result(n, pa, ok)
    BY <2>1, <2>2 DEF Reach
  <2>4. ok \in BOOLEAN /\ PageOf(va) \in Nat
    BY PageOfTyped
  <2>5. OnlyLoads(m, n, h)
    <3> HIDE DEF ok, l2
    <3> QED BY <2>4, LoadEntryIs
  <2> HIDE DEF n, ok, t
  <2> QED BY <2>3, <2>5 DEF Result
<1>4. CASE ~(priv # "M" /\ r.root # None)
  <2>1. pa = va /\ ((priv = "M" /\ r.mFast /\ (va % 2) + size <= 2) \/ PmpOk(r, va, size, "Load", priv))
    BY <1>4 DEF Reaches
  <2>2. t = Result(m, pa, FALSE)
    BY <1>4, <2>1 DEF Translate
  <2>3. OnlyLoads(m, m, h)
    BY <1>1 DEF OnlyLoads, Own1, SameView
  <2> HIDE DEF t
  <2> QED BY <2>2, <2>3 DEF Result
<1> QED BY <1>3, <1>4


\* Caching a leaf changes, of the hart's own state, its second level only.
LEMMA CachedIs ==
  ASSUME NEW m \in MachineState, NEW h \in Harts, NEW vpn, NEW page, page \in DramPageSet, NEW flags, NEW allow,
         vpn % L2TLB_N \in Entries(L2TLB_N)
  PROVE  LET r == m.harts[h]
             s == Cache(m, h, vpn, page, flags, allow).harts[h]
         IN  /\ s.l2[vpn % L2TLB_N] = [vpn |-> vpn, tag |-> r.root, page |-> page, flags |-> flags, allow |-> allow]
             /\ s.priv = r.priv /\ s.mprv = r.mprv /\ s.mpp = r.mpp /\ s.sum = r.sum /\ s.mxr = r.mxr
             /\ s.root = r.root /\ s.segs = r.segs /\ s.mFast = r.mFast
<1> DEFINE r == m.harts[h]
           entry == [vpn |-> vpn, tag |-> r.root, page |-> page, flags |-> flags, allow |-> allow]
           l2 == [r.l2 EXCEPT ![vpn % L2TLB_N] = entry]
           s == [r EXCEPT !.l2 = l2]
<1>1. r \in HartState
  BY DEF MachineState
<1>2. Cache(m, h, vpn, page, flags, allow).harts[h] = s
  BY DEF Cache, MachineState
<1> HIDE DEF entry, r
<1>3. l2[vpn % L2TLB_N] = entry
  BY <1>1 DEF HartState
<1> HIDE DEF l2
<1>4. /\ s.l2 = l2
      /\ s.priv = r.priv /\ s.mprv = r.mprv /\ s.mpp = r.mpp /\ s.sum = r.sum /\ s.mxr = r.mxr
      /\ s.root = r.root /\ s.segs = r.segs /\ s.mFast = r.mFast
  BY <1>1 DEF HartState
<1> HIDE DEF s
<1> QED BY <1>2, <1>3, <1>4 DEF entry, r


LEMMA ReachLoads ==
  ASSUME NEW m, Sound(m), NEW h \in Harts, NEW va \in Nat, NEW size, NEW page \in Nat, NEW allow,
         ~Reach(m, h, va, "Load", size, page, allow).fault
  PROVE  LET t == Reach(m, h, va, "Load", size, page, allow)
         IN  /\ t.pa = Base(page) + (va % PageUnits)
             /\ "R" \in allow \/ PmpOk(m.harts[h], t.pa, size, "Load", EffPriv(m.harts[h], "Load"))
             /\ OnlyLoads(m, t.m, h)
<1> DEFINE t == Reach(m, h, va, "Load", size, page, allow)
           pa == Base(page) + (va % PageUnits)
           ok == Need("Load") \in allow
           n == FillL1(m, h, PageOf(va), page, "Load", ok)
           can == ok \/ PmpOk(m.harts[h], pa, size, "Load", EffPriv(m.harts[h], "Load"))
<1>1. t = IF can THEN Result(n, pa, ok) ELSE Fault(m, h)
  BY DEF Reach
<1>2. ok <=> "R" \in allow
  BY DEF Need
<1>3. ok \in BOOLEAN /\ PageOf(va) \in Nat
  BY PageOfTyped
<1>4. OnlyLoads(m, n, h)
  <2> HIDE DEF ok
  <2> QED BY <1>3, LoadEntryIs
<1>5. ~t.fault
  OBVIOUS
<1> HIDE DEF t, n, ok, pa
<1>6. can
  BY <1>1, <1>5, FaultIs
<1>7. t.pa = pa /\ t.m = n
  BY <1>1, <1>6 DEF Result
<1> QED BY <1>2, <1>4, <1>6, <1>7 DEF t, pa

LEMMA PageSplits ==
  ASSUME NEW page \in Nat, NEW va \in Nat
  PROVE  LET pa == Base(page) + (va % PageUnits)
         IN  PageOf(pa) = page /\ pa % PageUnits = va % PageUnits
<1> DEFINE b == PageUnits
           o == va % b
<1>1. b \in Nat \ {0} /\ o \in 0 .. b - 1
  BY PagesTyped, PageOfTyped
<1> HIDE DEF b, o
<1>2. (page * b + o) \div b = page /\ (page * b + o) % b = o
  BY <1>1
<1> QED BY <1>2 DEF Base, PageOf, b, o

\* A load that was translated to memory can be translated again.
LEMMA TranslatedReaches ==
  ASSUME NEW m, Sound(m), NEW h \in Harts, NEW va \in Nat, NEW size,
         ~Translate(m, h, va, "Load", size).fault,
         PageOf(Translate(m, h, va, "Load", size).pa) \in DramPageSet
  PROVE  LET t == Translate(m, h, va, "Load", size)
         IN  Reaches(t.m.harts[h], va, size, t.pa) /\ t.pa % PageUnits = va % PageUnits
<1> DEFINE t == Translate(m, h, va, "Load", size)
           r == m.harts[h]
           slot == PageOf(va) % L2TLB_N
           l2 == r.l2[slot]
           priv == EffPriv(r, "Load")
           leaf == Walk(m, h, PageOf(va))
<1> SUFFICES Reaches(t.m.harts[h], va, size, t.pa) /\ t.pa % PageUnits = va % PageUnits
  OBVIOUS
<1>1. ~t.fault /\ PageOf(t.pa) \in DramPageSet
  OBVIOUS
<1>2. r \in HartState /\ m \in MachineState /\ Flattened(r)
  BY DEF Sound, MachineState
<1>3. PageOf(va) \in Nat /\ slot \in Entries(L2TLB_N)
  BY PageOfTyped, ShapeAssumption DEF Entries
<1>4. Fault(m, h).fault
  BY FaultIs
<1>5. CASE /\ priv # "M" /\ r.root # None
           /\ l2.tag = r.root /\ l2.vpn = PageOf(va) /\ PteAccessOk(l2.flags, r, "Load", priv)
  <2>1. t = Reach(m, h, va, "Load", size, l2.page, l2.allow)
    BY <1>5 DEF Translate, TranslateSlow
  <2>2. l2 \in L2Entry
    <3>1. r.l2 \in [Entries(L2TLB_N) -> L2Entry]
      BY <1>2 DEF HartState
    <3> QED BY <1>3, <3>1
  <2>3. l2.page \in Nat
    BY <2>2 DEF L2Entry
  <2> DEFINE page == l2.page
             allow == l2.allow
  <2>8. t = Reach(m, h, va, "Load", size, page, allow) /\ page \in Nat
    BY <2>1, <2>3
  <2> HIDE DEF t, page, allow
  <2>4. /\ t.pa = Base(page) + (va % PageUnits)
        /\ "R" \in allow \/ PmpOk(r, t.pa, size, "Load", priv)
        /\ OnlyLoads(m, t.m, h)
    BY <1>1, <2>8, ReachLoads
  <2>5. Reaches(r, va, size, t.pa)
    BY <1>5, <2>4 DEF Reaches, page, allow
  <2>6. t.pa % PageUnits = va % PageUnits
    BY <2>4, <2>8, PageSplits
  <2>7. SameView(r, t.m.harts[h])
    BY <2>4 DEF OnlyLoads
  <2> QED BY <2>5, <2>6, <2>7, SameViewReaches
<1>6. CASE /\ priv # "M" /\ r.root # None
           /\ ~(l2.tag = r.root /\ l2.vpn = PageOf(va) /\ PteAccessOk(l2.flags, r, "Load", priv))
  <2> DEFINE page == PageAt(m, va, leaf)
             allow == AllowAt(m, h, va, leaf)
             flags == FlagsAfter(m, "Load", leaf)
             n == Marked(m, h, "Load", leaf)
             k == Filled(m, h, va, "Load", leaf)
             s == k.harts[h]
  <2>1. t = Fault(m, h) \/ t = UseLeaf(m, h, va, "Load", size, leaf)
    BY <1>6 DEF Translate, TranslateSlow
  <2> HIDE DEF t, leaf
  <2>2. /\ Found(m, h, leaf) /\ Permits(m.mem[leaf.at].flags, r, "Load", priv)
        /\ t = Reach(k, h, va, "Load", size, page, allow)
    BY <1>1, <1>4, <2>1, UseLeafCases
  <2>3. Sound(k) /\ Sound(n) /\ n.harts[h] = r /\ page \in Nat
    BY <2>2, FilledIs DEF Flows, Accesses
  <2>4. k = Cache(n, h, PageOf(va), page, flags, allow)
    BY DEF Filled
  <2>5. PteAccessOk(flags, r, "Load", priv)
    <3>1. priv \in {"U", "S"}
      BY <1>2, <1>6 DEF EffPriv, HartState, Privs
    <3> DEFINE old == m.mem[leaf.at].flags
    <3>2. flags = old \cup {"A"} /\ Permits(old, r, "Load", priv)
      BY <2>2 DEF FlagsAfter
    <3> HIDE DEF old, flags, priv, r
    <3> QED BY <3>1, <3>2 DEF PteAccessOk, Permits
  <2> HIDE DEF page, allow, flags, n, k
  <2>6. /\ t.pa = Base(page) + (va % PageUnits)
        /\ "R" \in allow \/ PmpOk(s, t.pa, size, "Load", EffPriv(s, "Load"))
        /\ OnlyLoads(k, t.m, h)
    BY <1>1, <2>2, <2>3, ReachLoads
  <2>7. PageOf(t.pa) = page /\ t.pa % PageUnits = va % PageUnits
    BY <2>3, <2>6, PageSplits
  <2>8. page \in DramPageSet
    BY <1>1, <2>7
  <2>9. /\ s.l2[slot] = [vpn |-> PageOf(va), tag |-> r.root, page |-> page, flags |-> flags, allow |-> allow]
        /\ s.priv = r.priv /\ s.mprv = r.mprv /\ s.mpp = r.mpp /\ s.sum = r.sum /\ s.mxr = r.mxr
        /\ s.root = r.root /\ s.segs = r.segs /\ s.mFast = r.mFast
    BY <1>3, <2>3, <2>4, <2>8, CachedIs DEF Sound
  <2> HIDE DEF s, slot
  <2>10. EffPriv(s, "Load") = priv
    BY <2>9 DEF EffPriv
  <2>11. PteAccessOk(flags, s, "Load", priv)
    BY <2>5, <2>9 DEF PteAccessOk, Permits
  <2>12. Reaches(s, va, size, t.pa)
    BY <1>6, <2>6, <2>9, <2>10, <2>11 DEF Reaches, slot
  <2>13. SameView(s, t.m.harts[h])
    BY <2>6 DEF OnlyLoads, s
  <2> QED BY <2>7, <2>12, <2>13, SameViewReaches
<1>7. CASE ~(priv # "M" /\ r.root # None)
  <2>1. /\ t = Result(m, va, FALSE)
        /\ (priv = "M" /\ r.mFast /\ (va % 2) + size <= 2) \/ PmpOk(r, va, size, "Load", priv)
    <3> DEFINE can == \/ priv = "M" /\ r.mFast /\ (va % 2) + size <= 2
                      \/ PmpOk(r, va, size, "Load", priv)
    <3>1. t = IF can THEN Result(m, va, FALSE) ELSE Fault(m, h)
      BY <1>7 DEF Translate
    <3> HIDE DEF t, can
    <3>2. can
      BY <1>1, <1>4, <3>1
    <3> QED BY <3>1, <3>2 DEF can
  <2>2. t.m = m /\ t.pa = va
    BY <2>1 DEF Result
  <2>3. Reaches(r, va, size, va)
    BY <1>7, <2>1 DEF Reaches
  <2> HIDE DEF t
  <2> QED BY <2>2, <2>3
<1> QED BY <1>5, <1>6, <1>7


\* No store entry is left for the page.
LEMMA EvictedIs ==
  ASSUME NEW r \in HartState, NEW page \in Nat
  PROVE  LET s == Evicted(r, page)
         IN  /\ Kept(r, s) /\ s.resv = r.resv
             /\ \A e \in Entries(DTLB_N) : s.store[e].page # page
<1> DEFINE o == [e \in DOMAIN r.store |-> IF r.store[e].page = page THEN NoEntry ELSE r.store[e]]
           s == [r EXCEPT !.store = o]
<1>1. r.store \in [Entries(DTLB_N) -> L1Entry]
  BY DEF HartState
<1>2. page # None /\ NoEntry \in L1Entry /\ NoEntry.page = None
  BY EntriesTyped DEF None
<1>3. /\ o \in [Entries(DTLB_N) -> L1Entry]
      /\ \A e \in Entries(DTLB_N) : o[e].page # page /\ o[e].page \in {r.store[e].page, None}
  BY <1>1, <1>2
<1>4. Evicted(r, page) = s
  BY DEF Evicted
<1> HIDE DEF o
<1>5. s \in HartState /\ s.resv = r.resv /\ s.store = o /\ (Flattened(r) => Flattened(s))
  BY <1>3 DEF HartState, Flattened
<1> HIDE DEF s
<1>6. Kept(r, s)
  BY <1>3, <1>5 DEF Kept
<1> QED BY <1>3, <1>4, <1>5, <1>6

LEMMA EvictAllIs ==
  ASSUME NEW m, Sound(m), NEW page \in Nat
  PROVE  LET k == EvictAll(m, page)
         IN  /\ k \in MachineState /\ k.mem = m.mem /\ k.ended = m.ended
             /\ \A i \in Harts : Kept(m.harts[i], k.harts[i]) /\ k.harts[i].resv = m.harts[i].resv
             /\ \A i \in Harts, e \in Entries(DTLB_N) : k.harts[i].store[e].page # page
<1> DEFINE hs == [i \in Harts |-> Evicted(m.harts[i], page)]
           k == EvictAll(m, page)
<1>1. k = [m EXCEPT !.harts = hs]
  BY DEF EvictAll
<1>2. ASSUME NEW i \in Harts
      PROVE  /\ Kept(m.harts[i], Evicted(m.harts[i], page))
             /\ Evicted(m.harts[i], page).resv = m.harts[i].resv
             /\ \A e \in Entries(DTLB_N) : Evicted(m.harts[i], page).store[e].page # page
  <2>1. m.harts[i] \in HartState
    BY DEF Sound, MachineState
  <2> QED BY <2>1, EvictedIs
<1>3. hs \in [Harts -> HartState]
  BY <1>2 DEF Kept
<1>4. \A i \in Harts : hs[i] = Evicted(m.harts[i], page)
  OBVIOUS
<1> HIDE DEF hs, k
<1>5. k \in MachineState /\ k.mem = m.mem /\ k.ended = m.ended /\ k.harts = hs
  BY <1>1, <1>3 DEF Sound, MachineState
<1> QED BY <1>2, <1>4, <1>5 DEF k

LEMMA ReservedIs ==
  ASSUME NEW read, Sound(read.m), NEW h \in Harts, NEW va \in Nat, NEW size \in {1, 2},
         read.pa \in Units
  PROVE  LET n == Reserved(read, h, va, size)
         IN  /\ Sound(n) /\ Own1(read.m, n, h) /\ n.ended = read.m.ended
             /\ SameView(read.m.harts[h], n.harts[h]) /\ n.harts[h].store = read.m.harts[h].store
             /\ n.harts[h].resv.size = size /\ n.harts[h].resv.va = va /\ n.harts[h].resv.valid
<1> DEFINE m == read.m
           r == m.harts[h]
           value == m.mem[read.pa]
           v == [r.resv EXCEPT !.valid = TRUE, !.va = va, !.size = size, !.value = value]
           s == [r EXCEPT !.sc = "", !.resv = v]
           n == Reserved(read, h, va, size)
<1>1. r \in HartState /\ Flattened(r) /\ m \in MachineState
  BY DEF Sound, MachineState
<1>2. value \in Words
  BY DEF Sound, MachineState
<1>3. n = Put(m, h, s)
  BY DEF Reserved, Put, Sound, MachineState
<1>4. r.resv \in Reservation
  BY <1>1, ReservationTyped
<1> HIDE DEF value, r
<1>5. v \in Reservation /\ v.size = size /\ v.va = va /\ v.valid
  BY <1>2, <1>4 DEF Reservation
<1> HIDE DEF v
<1>6. s \in HartState /\ Flattened(s) /\ SameView(r, s) /\ s.store = r.store /\ s.resv = v
  BY <1>1, <1>5 DEF HartState, Flattened, SameView
<1> HIDE DEF s, n
<1>7. Own1(m, n, h) /\ n.harts[h] = s /\ n.ended = m.ended
  BY <1>1, <1>3, <1>6, PutIs
<1>8. Sound(n)
  <2>1. \A i \in Harts : Flattened(n.harts[i])
    BY <1>6, <1>7 DEF Sound, Own1
  <2> QED BY <1>7, <2>1 DEF Own1, Sound
<1> QED BY <1>5, <1>6, <1>7, <1>8 DEF n, r

LEMMA PageOfUnits ==
  ASSUME NEW a \in Nat, a \in Units
  PROVE  PageOf(a) \in DramPageSet
<1> DEFINE b == PageUnits
           lo == DramBase
           hi == DramBase + DramPages
<1>1. b \in Nat \ {0} /\ lo \in Nat /\ hi \in Nat
  BY PagesTyped, ShapeAssumption
<1>2. lo * b <= a /\ a < hi * b
  <2>1. lo * b \in Int /\ hi * b \in Int /\ Units = (lo * b) .. (hi * b - 1)
    BY <1>1 DEF Units, Base
  <2> HIDE DEF b, lo, hi
  <2> QED BY <2>1
<1> DEFINE q == a \div b
           r == a % b
<1> HIDE DEF b
<1>3. q \in Nat /\ r \in 0 .. b - 1 /\ a = q * b + r
  BY <1>1, Remainder
<1> HIDE DEF q, r, lo, hi
<1>4. ~(q < lo)
  <2> SUFFICES ASSUME q < lo PROVE FALSE
    OBVIOUS
  <2>1. PICK d \in Nat : lo = q + 1 + d
    BY <1>1, <1>3
  <2>2. lo * b = q * b + b + d * b /\ d * b >= 0 /\ q * b \in Int /\ d * b \in Int
    BY <1>1, <1>3, <2>1
  <2> QED BY <1>1, <1>2, <1>3, <2>2
<1>5. ~(q >= hi)
  <2> SUFFICES ASSUME q >= hi PROVE FALSE
    OBVIOUS
  <2>1. PICK d \in Nat : q = hi + d
    BY <1>1, <1>3
  <2>2. q * b = hi * b + d * b /\ d * b >= 0 /\ hi * b \in Int /\ d * b \in Int
    BY <1>1, <1>3, <2>1
  <2> QED BY <1>1, <1>2, <1>3, <2>2
<1>6. q \in lo .. (hi - 1)
  BY <1>1, <1>3, <1>4, <1>5
<1>7. q \in DramPageSet
  BY <1>1, <1>3, <1>6, ShapeAssumption DEF DramPageSet, lo, hi
<1>8. PageOf(a) = q
  BY DEF PageOf, q, b
<1> QED BY <1>7, <1>8

\* Addresses at the same place in a page are aligned alike.
LEMMA AlignedAlike ==
  ASSUME NEW a \in Nat, NEW va \in Nat, NEW size \in {1, 2}, va % size = 0, a % PageUnits = va % PageUnits
  PROVE  a % size = 0
<1> DEFINE f == Fan
           b == PageUnits
           o == va % b
           q == a \div b
<1>1. f \in Nat \ {0} /\ b = 2 * f /\ b \in Nat \ {0}
  BY PagesTyped
<1>2. o % size = 0
  BY AlignedStays
<1>3. a % b = o
  OBVIOUS
<1> HIDE DEF f, b
<1>4. o \in Nat /\ q \in Nat /\ a = q * b + o
  <2>1. a % b \in 0 .. b - 1 /\ q \in Nat /\ a = q * b + (a % b)
    <3>1. b \in Nat \ {0}
      BY <1>1
    <3> QED BY <3>1, Remainder
  <2> QED BY <1>1, <1>3, <2>1
<1> HIDE DEF o, q
<1>5. q * b = 2 * (q * f) /\ q * f \in Nat
  BY <1>1, <1>4
<1>6. CASE size = 1
  BY <1>6
<1>7. CASE size = 2
  BY <1>2, <1>4, <1>5, <1>7
<1> QED BY <1>6, <1>7

LEMMA OnlyLoadsSound ==
  ASSUME NEW m, Sound(m), NEW n, NEW h \in Harts, OnlyLoads(m, n, h)
  PROVE  Sound(n)
<1>1. \A i \in Harts : Flattened(n.harts[i])
  BY DEF OnlyLoads, Own1, Sound
<1> QED BY <1>1 DEF OnlyLoads, Own1, Sound

Placing(m, h, pa) == [m EXCEPT !.harts[h].resv.pa = pa]

LEMMA PlacingIs ==
  ASSUME NEW m, Sound(m), NEW h \in Harts, NEW pa \in Nat
  PROVE  LET n == Placing(m, h, pa)
         IN  /\ Sound(n) /\ n.mem = m.mem /\ n.ended = m.ended
             /\ \A i \in Harts \ {h} : n.harts[i] = m.harts[i]
             /\ n.harts[h].store = m.harts[h].store
             /\ n.harts[h].resv.pa = pa /\ n.harts[h].resv.size = m.harts[h].resv.size
<1> DEFINE r == m.harts[h]
           v == [r.resv EXCEPT !.pa = pa]
           s == [r EXCEPT !.resv = v]
           n == Placing(m, h, pa)
<1>1. r \in HartState /\ Flattened(r) /\ m \in MachineState
  BY DEF Sound, MachineState
<1>2. n = Put(m, h, s)
  BY DEF Placing, Put, Sound, MachineState
<1>3. r.resv \in Reservation
  BY <1>1, ReservationTyped
<1> HIDE DEF r
<1>4. v \in Reservation /\ v.pa = pa /\ v.size = r.resv.size
  BY <1>3 DEF Reservation
<1> HIDE DEF v
<1>5. s \in HartState /\ Flattened(s) /\ s.store = r.store /\ s.resv = v
  BY <1>1, <1>4 DEF HartState, Flattened
<1> HIDE DEF s, n
<1>6. Own1(m, n, h) /\ n.harts[h] = s /\ n.ended = m.ended
  BY <1>1, <1>2, <1>5, PutIs
<1>7. \A i \in Harts : Flattened(n.harts[i])
  BY <1>5, <1>6 DEF Sound, Own1
<1> QED BY <1>4, <1>5, <1>6, <1>7 DEF n, r, Own1, Sound

LEMMA FlowsSafe ==
  ASSUME NEW m, NEW n, NEW h \in Harts, Flows(m, n, h), Guarded(m), AllPlaced(m)
  PROVE  Sound(n) /\ Guarded(n) /\ AllPlaced(n) /\ \A i \in Harts \ {h} : Holds(m, n, i)
<1>1. Sound(n) /\ Guarded(n) /\ \A i \in Harts \ {h} : Holds(m, n, i)
  BY DEF Flows, Guarded
<1>2. ASSUME NEW i \in Harts
      PROVE  Placed(n.harts[i])
  <2>1. n.harts[i].resv.valid => n.harts[i].resv = m.harts[i].resv
    BY <1>1 DEF Flows, Holds
  <2> QED BY <2>1 DEF AllPlaced, Placed
<1> QED BY <1>1, <1>2 DEF AllPlaced

\* What LR's load of a word in memory does.
LEMMA WordLoads ==
  ASSUME NEW m, Sound(m), NEW h \in Harts, NEW va \in Nat, NEW size \in {1, 2}, va % size = 0,
         NEW pa, InDram(pa, size), Reaches(m.harts[h], va, size, pa)
  PROVE  LET t == Access(m, h, va, "Load", size, Data(0))
         IN  ~t.fault /\ t.pa = pa /\ OnlyLoads(m, t.m, h)
<1> DEFINE t == Translate(m, h, va, "Load", size)
           part == Min({Room(va), size})
           first == SysAccess(m, h, va, "Load", part, Data(0))
           r == Access(m, h, va, "Load", size, Data(0))
<1>1. ~t.fault /\ t.pa = pa /\ OnlyLoads(m, t.m, h)
  BY ReachesAgain
<1>2. part = size
  <2> DEFINE room == Room(va)
  <2>1. room \in Nat /\ size <= room
    <3>1. PageUnits \in Nat /\ va % PageUnits \in 0 .. PageUnits - 1 /\ (va % PageUnits) + size <= PageUnits
      BY PagesTyped, PageOfTyped, AlignedStays
    <3> DEFINE b == PageUnits
               o == va % PageUnits
    <3>2. room = b - o /\ b \in Nat /\ o \in 0 .. b - 1 /\ o + size <= b
      BY <3>1 DEF Room
    <3> HIDE DEF b, o, room
    <3> QED BY <3>2
  <2> HIDE DEF room
  <2>2. {room, size} \in SUBSET Nat /\ {room, size} # {}
    BY <2>1
  <2>3. Min({room, size}) \in {room, size} /\ \A j \in {room, size} : Min({room, size}) <= j
    BY <2>2, MinIs
  <2>4. Min({room, size}) = size
    BY <2>1, <2>3
  <2> QED BY <2>4 DEF room
<1>3. r = Rest(first, h, va + part, "Load", size - part, Data(0))
  BY DEF Access
<1> HIDE DEF part
<1>4. first = Accessed(t, h, "Load", size, Data(0))
  BY <1>2 DEF SysAccess
<1> HIDE DEF t, first
<1>5. first = t
  BY <1>1, <1>4 DEF Accessed
<1>6. size - part = 0
  BY <1>2
<1>7. r = first
  BY <1>3, <1>6 DEF Rest
<1> HIDE DEF r
<1> QED BY <1>1, <1>5, <1>7 DEF r

\* The three readings of LR, once the first has found a word of memory.
LrFirst(m, h, va, size) == Translate(m, h, va, "Load", size)
LrRead(m, h, va, size) == Access(LrFirst(m, h, va, size).m, h, va, "Load", size, Data(0))
LrNoted(m, h, va, size) == Reserved(LrRead(m, h, va, size), h, va, size)
LrAgain(m, h, va, size) == Translate(LrNoted(m, h, va, size), h, va, "Load", size)

LEMMA LrReads ==
  ASSUME NEW m, Sound(m), NEW h \in Harts, NEW va \in Nat, NEW size \in {1, 2},
         ~AtomicDram(m, h, va, size, "Load").fault
  PROVE  LET t == LrFirst(m, h, va, size)
             read == LrRead(m, h, va, size)
             n == LrNoted(m, h, va, size)
             last == LrAgain(m, h, va, size)
         IN  /\ AtomicDram(m, h, va, size, "Load") = t /\ va % size = 0
             /\ Outcome(m, t, h) /\ InDram(t.pa, size) /\ t.m.ended = m.ended
             /\ t.pa \in Units /\ PageOf(t.pa) \in Nat /\ t.pa % PageUnits = va % PageUnits
             /\ ~read.fault /\ read.pa = t.pa /\ OnlyLoads(t.m, read.m, h) /\ Sound(read.m)
             /\ Sound(n) /\ Own1(read.m, n, h) /\ n.ended = read.m.ended
             /\ n.harts[h].store = read.m.harts[h].store /\ n.harts[h].resv.size = size
             /\ ~last.fault /\ last.pa = t.pa /\ OnlyLoads(n, last.m, h)
<1> DEFINE checked == AtomicDram(m, h, va, size, "Load")
           t == LrFirst(m, h, va, size)
           read == LrRead(m, h, va, size)
           n == LrNoted(m, h, va, size)
           last == LrAgain(m, h, va, size)
<1>1. Outcome(m, t, h) /\ t.m.ended = m.ended
  BY TranslateIs DEF Accesses, LrFirst
<1>2. Sound(t.m)
  BY <1>1 DEF Outcome, Flows
<1>3. \/ checked = Fault(m, h) \/ (checked = Fault(t.m, h) /\ ~t.fault)
      \/ checked = t /\ va % size = 0 /\ (t.fault \/ InDram(t.pa, size))
  BY DEF AtomicDram, OnlyDram, LrFirst
<1>4. ~checked.fault
  OBVIOUS
<1>5. t = Translate(m, h, va, "Load", size) /\ read = Access(t.m, h, va, "Load", size, Data(0))
      /\ n = Reserved(read, h, va, size) /\ last = Translate(n, h, va, "Load", size)
  BY DEF LrFirst, LrRead, LrNoted, LrAgain
<1> HIDE DEF checked, t, read, n, last
<1>6. checked = t /\ va % size = 0 /\ InDram(t.pa, size) /\ ~t.fault
  BY <1>2, <1>3, <1>4, FaultIs
<1> DEFINE m1 == t.m
           pa == t.pa
<1>7. pa \in Units /\ pa \in Nat /\ PageOf(pa) \in Nat
  BY <1>1, <1>6, PageOfTyped DEF InDram, Outcome
<1>8. PageOf(pa) \in DramPageSet
  BY <1>7, PageOfUnits
<1>9. Reaches(m1.harts[h], va, size, pa) /\ pa % PageUnits = va % PageUnits
  BY <1>5, <1>6, <1>8, TranslatedReaches
<1>10. ~read.fault /\ read.pa = pa /\ OnlyLoads(m1, read.m, h)
  BY <1>2, <1>5, <1>6, <1>9, WordLoads
<1>11. Sound(read.m)
  BY <1>2, <1>10, OnlyLoadsSound
<1>12. /\ Sound(n) /\ Own1(read.m, n, h) /\ n.ended = read.m.ended
       /\ SameView(read.m.harts[h], n.harts[h]) /\ n.harts[h].store = read.m.harts[h].store
       /\ n.harts[h].resv.size = size /\ n.harts[h].resv.va = va /\ n.harts[h].resv.valid
  BY <1>5, <1>7, <1>10, <1>11, ReservedIs
<1>13. Reaches(n.harts[h], va, size, pa)
  BY <1>9, <1>10, <1>12, SameViewReaches DEF OnlyLoads
<1>14. ~last.fault /\ last.pa = pa /\ OnlyLoads(n, last.m, h)
  BY <1>5, <1>12, <1>13, ReachesAgain
<1> QED BY <1>1, <1>6, <1>7, <1>9, <1>10, <1>11, <1>12, <1>14 DEF checked, t, read, n, last

LEMMA LrSteps ==
  ASSUME NEW m, Sound(m), Guarded(m), AllPlaced(m), NEW h \in Harts, NEW va \in Nat, NEW size \in {1, 2}
  PROVE  LET k == LoadReserved(AtomicDram(m, h, va, size, "Load"), h, va, size)
         IN  /\ Sound(k) /\ Guarded(k) /\ AllPlaced(k) /\ k.ended = m.ended
             /\ \A i \in Harts \ {h} : Holds(m, k, i)
<1> DEFINE checked == AtomicDram(m, h, va, size, "Load")
           t == LrFirst(m, h, va, size)
           k == LoadReserved(checked, h, va, size)
<1> SUFFICES /\ Sound(k) /\ Guarded(k) /\ AllPlaced(k) /\ k.ended = m.ended
             /\ \A i \in Harts \ {h} : Holds(m, k, i)
  OBVIOUS
<1>1. Outcome(m, checked, h)
  BY AtomicDramIs DEF Accesses
<1>2. Outcome(m, t, h) /\ t.m.ended = m.ended
  BY TranslateIs DEF Accesses, LrFirst
<1>3. Sound(t.m)
  BY <1>2 DEF Outcome, Flows
<1>4. checked \in {Fault(m, h), Fault(t.m, h), t}
  BY DEF AtomicDram, OnlyDram, LrFirst
<1>5. CASE checked.fault
  <2> HIDE DEF t, checked
  <2>1. k = checked.m
    BY <1>5 DEF LoadReserved
  <2>2. checked.m.ended = m.ended
    BY <1>2, <1>3, <1>4, FaultIs
  <2>3. Flows(m, checked.m, h)
    BY <1>1 DEF Outcome
  <2> HIDE DEF k
  <2> QED BY <2>1, <2>2, <2>3, FlowsSafe
<1>6. CASE ~checked.fault
  <2> DEFINE read == LrRead(m, h, va, size)
             n == LrNoted(m, h, va, size)
             last == LrAgain(m, h, va, size)
             m1 == t.m
             pa == t.pa
  <2>1. /\ checked = t /\ va % size = 0 /\ InDram(pa, size)
        /\ pa \in Units /\ PageOf(pa) \in Nat /\ pa % PageUnits = va % PageUnits
        /\ ~read.fault /\ read.pa = pa /\ OnlyLoads(m1, read.m, h) /\ Sound(read.m)
        /\ Sound(n) /\ Own1(read.m, n, h) /\ n.ended = read.m.ended
        /\ n.harts[h].store = read.m.harts[h].store /\ n.harts[h].resv.size = size
        /\ ~last.fault /\ last.pa = pa /\ OnlyLoads(n, last.m, h)
    BY <1>6, LrReads
  <2>2. k = Reserve(last, h)
    BY <1>6, <2>1 DEF LoadReserved, LrRead, LrNoted, LrAgain
  <2>3. pa \in Nat
    BY <1>2 DEF Outcome
  <2> HIDE DEF k, t, m1, pa, read, n, last, checked
  <2>4. Sound(m1) /\ Flows(m, m1, h) /\ m1.ended = m.ended
    BY <1>2, <1>3 DEF m1, Outcome
  <2> DEFINE x == last.m
  <2>5. Sound(x)
    BY <2>1, OnlyLoadsSound
  <2>6. /\ x.mem = m1.mem /\ x.ended = m.ended
        /\ \A i \in Harts \ {h} : x.harts[i] = m1.harts[i]
        /\ x.harts[h].store = m1.harts[h].store /\ x.harts[h].resv.size = size
    BY <2>1, <2>4 DEF OnlyLoads, Own1
  <2> HIDE DEF x
  <2>7. k = IF NumHarts = 1 THEN x ELSE EvictAll(Placing(x, h, pa), PageOf(pa))
    BY <2>1, <2>2 DEF Reserve, x, Placing
  <2>8. Guarded(m1) /\ AllPlaced(m1) /\ \A i \in Harts \ {h} : Holds(m, m1, i)
    BY <2>4, FlowsSafe
  <2>9. CASE NumHarts = 1
    <3>1. k = x
      BY <2>7, <2>9
    <3>2. Guarded(k) /\ AllPlaced(k)
      BY <2>9 DEF Guarded, Clash, AllPlaced, Placed
    <3>3. \A i \in Harts : i = h
      BY <2>9 DEF Harts
    <3> QED BY <2>5, <2>6, <3>1, <3>2, <3>3
  <2>10. CASE NumHarts # 1
    <3> DEFINE y == Placing(x, h, pa)
    <3>1. /\ Sound(y) /\ y.mem = x.mem /\ y.ended = x.ended
          /\ \A i \in Harts \ {h} : y.harts[i] = x.harts[i]
          /\ y.harts[h].store = x.harts[h].store
          /\ y.harts[h].resv.pa = pa /\ y.harts[h].resv.size = x.harts[h].resv.size
      BY <2>3, <2>5, PlacingIs
    <3>2. k = EvictAll(y, PageOf(pa))
      BY <2>7, <2>10
    <3> HIDE DEF y
    <3>3. /\ k \in MachineState /\ k.mem = y.mem /\ k.ended = y.ended
          /\ \A i \in Harts : Kept(y.harts[i], k.harts[i]) /\ k.harts[i].resv = y.harts[i].resv
          /\ \A i \in Harts, e \in Entries(DTLB_N) : k.harts[i].store[e].page # PageOf(pa)
      BY <2>1, <3>1, <3>2, EvictAllIs
    <3>4. Sound(k)
      <4>1. ASSUME NEW i \in Harts
            PROVE  Flattened(k.harts[i])
        BY <3>1, <3>3 DEF Sound, Kept
      <4> QED BY <3>3, <4>1 DEF Sound
    <3>5. k.mem = m1.mem /\ k.ended = m.ended
      BY <2>6, <3>1, <3>3
    <3>6. ASSUME NEW i \in Harts \ {h}
          PROVE  k.harts[i].resv = m1.harts[i].resv
      BY <2>6, <3>1, <3>3
    <3>7. ASSUME NEW i \in Harts \ {h}
          PROVE  Holds(m, k, i)
      BY <2>8, <3>5, <3>6 DEF Holds
    <3>8. k.harts[h].resv.pa = pa /\ k.harts[h].resv.size = size
      BY <2>6, <3>1, <3>3
    <3>9. AllPlaced(k)
      <4>1. \A i \in Harts \ {h} : Placed(k.harts[i])
        BY <2>8, <3>6 DEF AllPlaced, Placed
      <4>2. pa % size = 0
        BY <2>1, <2>3, AlignedAlike
      <4>3. Placed(k.harts[h])
        BY <2>1, <3>8, <4>2 DEF Placed
      <4> QED BY <4>1, <4>3 DEF AllPlaced
    <3>10. ASSUME NEW i, NEW j, NEW e, Clash(k, i, j, e)
           PROVE  FALSE
      <4>1. i \in Harts /\ j \in Harts /\ e \in Entries(DTLB_N) /\ NumHarts > 1
            /\ k.harts[i].resv.valid /\ k.harts[j].store[e].page = PageOf(k.harts[i].resv.pa)
        BY <3>10 DEF Clash
      <4>2. i # h
        BY <3>3, <3>8, <4>1
      <4>3. k.harts[i].resv = m1.harts[i].resv
        BY <3>6, <4>1, <4>2
      <4>4. m1.harts[i].resv.pa \in Nat
        BY <2>4, <4>1, ReservationTyped DEF Sound, MachineState
      <4>5. PageOf(m1.harts[i].resv.pa) # None
        BY <4>4, PageOfTyped
      <4>6. k.harts[j].store[e].page \in {m1.harts[j].store[e].page, None}
        <5>1. Kept(y.harts[j], k.harts[j])
          BY <3>3, <4>1
        <5>2. y.harts[j].store = m1.harts[j].store
          BY <2>6, <3>1, <4>1
        <5> QED BY <4>1, <5>1, <5>2 DEF Kept
      <4>7. Clash(m1, i, j, e)
        BY <4>1, <4>3, <4>5, <4>6 DEF Clash
      <4> QED BY <2>8, <4>7 DEF Guarded
    <3> QED BY <3>4, <3>5, <3>7, <3>9, <3>10 DEF Guarded
  <2> QED BY <2>9, <2>10
<1> QED BY <1>5, <1>6

-----------------------------------------------------------------------------
(* What the TLBs hold and what PMP allows                                   *)

\* A page is allowed as a whole.
PageOk(r, page, acc, priv) == PmpOk(r, Base(page), PageUnits, acc, priv)

\* The second level and the data TLBs of a hart hold only what its segments allow.
L2Fits(r) ==
  \A e \in Entries(L2TLB_N) : r.l2[e].tag # None =>
    r.l2[e].page \in DramPageSet /\ r.l2[e].allow \subseteq PmpPageAllows(r, r.l2[e].page)
EntryFits(r, e, acc) ==
  e.vpn # None /\ ~Nested(r) =>
    EffPriv(r, acc) # "M" /\ r.root # None /\ PageOk(r, e.page, acc, EffPriv(r, acc))
Fits(r) ==
  /\ L2Fits(r)
  /\ \A e \in Entries(DTLB_N) : EntryFits(r, r.load[e], "Load") /\ EntryFits(r, r.store[e], "Store")

\* So does the entry for fetches, except in the middle of a fetch from a page that is
\* allowed in part.
ItlbFits(r) == r.itlb.vpn # None => PageOk(r, r.itlb.page, "Fetch", r.priv)

Tame(r, s) == Fits(r) => Fits(s) /\ (ItlbFits(r) => ItlbFits(s))

LEMMA TameItself ==
  ASSUME NEW r
  PROVE  Tame(r, r)
BY DEF Tame

LEMMA TameTwice ==
  ASSUME NEW r, NEW s, NEW t, Tame(r, s), Tame(s, t)
  PROVE  Tame(r, t)
BY DEF Tame

\* What protection, and the translation of loads and stores, depend on.
SameMode(r, s) ==
  s.segs = r.segs /\ s.priv = r.priv /\ s.mprv = r.mprv /\ s.mpp = r.mpp /\ s.root = r.root

LEMMA SameSegsDecide ==
  ASSUME NEW r, NEW s, s.segs = r.segs, NEW page
  PROVE  /\ PmpPageAllows(s, page) = PmpPageAllows(r, page)
         /\ \A acc, priv : PageOk(s, page, acc, priv) <=> PageOk(r, page, acc, priv)
<1>1. \A a : SegmentAt(s, a) = SegmentAt(r, a)
  BY DEF SegmentAt
<1> QED BY <1>1 DEF PmpPageAllows, PageOk, PmpOk

LEMMA SameModeFits ==
  ASSUME NEW r, NEW s, SameMode(r, s), NEW e, NEW acc
  PROVE  EntryFits(s, e, acc) <=> EntryFits(r, e, acc)
<1>1. PageOk(s, e.page, acc, EffPriv(r, acc)) <=> PageOk(r, e.page, acc, EffPriv(r, acc))
  BY SameSegsDecide DEF SameMode
<1>2. EffPriv(s, acc) = EffPriv(r, acc) /\ (Nested(s) <=> Nested(r))
  BY DEF SameMode, EffPriv, Nested
<1> QED BY <1>1, <1>2 DEF EntryFits, SameMode

LEMMA NoEntryFits ==
  ASSUME NEW r, NEW acc
  PROVE  EntryFits(r, NoEntry, acc)
BY DEF EntryFits, NoEntry

\* Entries may go.
Fewer(r, s) ==
  /\ s.itlb \in {r.itlb, NoEntry}
  /\ \A e \in Entries(DTLB_N) : s.load[e] \in {r.load[e], NoEntry} /\ s.store[e] \in {r.store[e], NoEntry}

LEMMA FewerTame ==
  ASSUME NEW r, NEW s, SameMode(r, s), s.l2 = r.l2, Fewer(r, s)
  PROVE  Tame(r, s)
<1> SUFFICES ASSUME Fits(r) PROVE Fits(s) /\ (ItlbFits(r) => ItlbFits(s))
  BY DEF Tame
<1>1. L2Fits(s)
  <2>1. ASSUME NEW e \in Entries(L2TLB_N), s.l2[e].tag # None
        PROVE  s.l2[e].page \in DramPageSet /\ s.l2[e].allow \subseteq PmpPageAllows(s, s.l2[e].page)
    <3>1. r.l2[e].page \in DramPageSet /\ r.l2[e].allow \subseteq PmpPageAllows(r, r.l2[e].page)
      BY <2>1 DEF Fits, L2Fits
    <3>2. PmpPageAllows(s, r.l2[e].page) = PmpPageAllows(r, r.l2[e].page)
      BY SameSegsDecide DEF SameMode
    <3> QED BY <3>1, <3>2
  <2> QED BY <2>1 DEF L2Fits
<1>2. ASSUME NEW e \in Entries(DTLB_N)
      PROVE  EntryFits(s, s.load[e], "Load") /\ EntryFits(s, s.store[e], "Store")
  <2>1. EntryFits(r, r.load[e], "Load") /\ EntryFits(r, r.store[e], "Store")
    BY DEF Fits
  <2>2. EntryFits(s, r.load[e], "Load") /\ EntryFits(s, r.store[e], "Store")
    BY <2>1, SameModeFits
  <2> QED BY <2>2, NoEntryFits DEF Fewer
<1>3. ASSUME ItlbFits(r)
      PROVE  ItlbFits(s)
  <2>1. s.itlb = r.itlb \/ s.itlb.vpn = None
    BY DEF Fewer, NoEntry
  <2>2. PageOk(s, r.itlb.page, "Fetch", r.priv) <=> PageOk(r, r.itlb.page, "Fetch", r.priv)
    BY SameSegsDecide DEF SameMode
  <2> QED BY <1>3, <2>1, <2>2 DEF ItlbFits, SameMode
<1> QED BY <1>1, <1>2, <1>3 DEF Fits

\* All of the first level may go, whatever changes but the segments and the second level.
LEMMA FlushL1Tame ==
  ASSUME NEW r \in HartState, NEW s \in HartState, s.segs = r.segs, s.l2 = r.l2
  PROVE  Tame(r, FlushL1(s))
<1> DEFINE t == FlushL1(s)
<1>1. /\ t.itlb = NoEntry /\ t.segs = r.segs /\ t.l2 = r.l2
      /\ \A e \in Entries(DTLB_N) : t.load[e] = NoEntry /\ t.store[e] = NoEntry
  BY DEF FlushL1, HartState, NoEntries
<1> HIDE DEF t
<1>2. ASSUME L2Fits(r)
      PROVE  L2Fits(t)
  <2>1. ASSUME NEW e \in Entries(L2TLB_N), t.l2[e].tag # None
        PROVE  t.l2[e].page \in DramPageSet /\ t.l2[e].allow \subseteq PmpPageAllows(t, t.l2[e].page)
    <3>1. r.l2[e].page \in DramPageSet /\ r.l2[e].allow \subseteq PmpPageAllows(r, r.l2[e].page)
      BY <1>1, <1>2, <2>1 DEF L2Fits
    <3>2. PmpPageAllows(t, r.l2[e].page) = PmpPageAllows(r, r.l2[e].page)
      BY <1>1, SameSegsDecide
    <3> QED BY <1>1, <3>1, <3>2
  <2> QED BY <2>1 DEF L2Fits
<1>3. ItlbFits(t)
  BY <1>1 DEF ItlbFits, NoEntry
<1>4. Tame(r, t)
  BY <1>1, <1>2, <1>3, NoEntryFits DEF Tame, Fits
<1> QED BY <1>4 DEF t

LEMMA FlushFits ==
  ASSUME NEW s \in HartState
  PROVE  Fits(Flush(s)) /\ ItlbFits(Flush(s)) /\ Flush(s) \in HartState
<1> DEFINE t == Flush(s)
<1>1. /\ t.itlb = NoEntry /\ \A e \in Entries(L2TLB_N) : t.l2[e] = NoL2
      /\ \A e \in Entries(DTLB_N) : t.load[e] = NoEntry /\ t.store[e] = NoEntry
  BY DEF FlushL1, Flush, HartState, NoEntries, NoL2Entries
<1>2. t \in HartState
  BY FlushKeeps DEF Kept
<1> HIDE DEF t
<1>3. L2Fits(t) /\ ItlbFits(t)
  BY <1>1 DEF L2Fits, ItlbFits, NoEntry, NoL2
<1>4. Fits(t)
  BY <1>1, <1>3, NoEntryFits DEF Fits
<1> QED BY <1>2, <1>3, <1>4 DEF t

\* With the first level kept, a trap taken in M may only turn M into itself.
LEMMA TrappedTame ==
  ASSUME NEW r \in HartState
  PROVE  Tame(r, Trapped(r))
<1> DEFINE toS == r.priv # "M" /\ r.deleg
           to == IF toS THEN "S" ELSE "M"
           saved == IF toS THEN [r EXCEPT !.spp = r.priv] ELSE [r EXCEPT !.mpp = r.priv]
           free == [r.resv EXCEPT !.valid = FALSE]
           in == [saved EXCEPT !.priv = to, !.resv = free]
<1>1. Trapped(r) = IF to # r.priv THEN FlushL1(in) ELSE in
  <2>1. [saved EXCEPT !.priv = to, !.resv.valid = FALSE] = in
    BY DEF HartState
  <2> HIDE DEF in
  <2> QED BY <2>1 DEF Trapped
<1>2. free \in Reservation
  <2>1. r.resv \in Reservation
    BY ReservationTyped
  <2> QED BY <2>1 DEF Reservation
<1> HIDE DEF free
<1>3. saved \in HartState /\ saved.priv = r.priv /\ saved.segs = r.segs /\ saved.l2 = r.l2
      /\ saved.mprv = r.mprv /\ saved.root = r.root /\ saved.mpp = (IF toS THEN r.mpp ELSE r.priv)
      /\ saved.itlb = r.itlb /\ saved.load = r.load /\ saved.store = r.store
  BY DEF HartState, Privs
<1>4. to \in Privs /\ (to = r.priv => (toS \/ r.priv = "M"))
  BY DEF Privs
<1> HIDE DEF saved, to
<1>5. in \in HartState /\ in.priv = to /\ in.segs = r.segs /\ in.l2 = r.l2
      /\ in.mprv = r.mprv /\ in.root = r.root /\ in.mpp = saved.mpp
      /\ in.itlb = r.itlb /\ in.load = r.load /\ in.store = r.store
  BY <1>2, <1>3, <1>4 DEF HartState
<1> HIDE DEF in
<1>6. CASE to # r.priv
  BY <1>1, <1>5, <1>6, FlushL1Tame
<1>7. CASE to = r.priv /\ toS
  <2>1. SameMode(r, in) /\ Fewer(r, in)
    BY <1>3, <1>5, <1>7 DEF SameMode, Fewer
  <2> QED BY <1>1, <1>5, <1>7, <2>1, FewerTame
<1>8. CASE to = r.priv /\ ~toS
  <2> SUFFICES ASSUME Fits(r) PROVE Fits(in) /\ (ItlbFits(r) => ItlbFits(in))
    BY <1>1, <1>8 DEF Tame
  <2>1. r.priv = "M" /\ in.mpp = "M" /\ in.priv = "M"
    BY <1>3, <1>4, <1>5, <1>8
  <2>2. ASSUME NEW e, NEW acc \in {"Load", "Store"}, EntryFits(r, e, acc)
        PROVE  EntryFits(in, e, acc)
    <3>1. CASE in.mprv
      BY <2>1, <3>1 DEF EntryFits, Nested
    <3>2. CASE ~in.mprv
      <4>1. ~Nested(r) /\ EffPriv(r, acc) = "M"
        BY <1>5, <2>1, <3>2 DEF Nested, EffPriv
      <4> QED BY <2>2, <4>1 DEF EntryFits
    <3> QED BY <3>1, <3>2
  <2>3. \A e \in Entries(DTLB_N) : EntryFits(in, in.load[e], "Load") /\ EntryFits(in, in.store[e], "Store")
    BY <1>5, <2>2 DEF Fits
  <2>4. L2Fits(in)
    BY <1>5, SameSegsDecide DEF Fits, L2Fits
  <2>5. ItlbFits(r) => ItlbFits(in)
    BY <1>5, <2>1, SameSegsDecide DEF ItlbFits
  <2> QED BY <2>3, <2>4, <2>5 DEF Fits
<1> QED BY <1>6, <1>7, <1>8

LEMMA MstatusTame ==
  ASSUME NEW r \in HartState, NEW v \in Status
  PROVE  Tame(r, WriteMstatus(r, v))
<1> DEFINE s == [r EXCEPT !.mprv = v.mprv, !.mpp = v.mpp, !.sum = v.sum, !.mxr = v.mxr]
<1>1. s \in HartState /\ s.segs = r.segs /\ s.l2 = r.l2
  BY DEF HartState, Status
<1> HIDE DEF s
<1> QED BY <1>1, FlushL1Tame DEF WriteMstatus, s

LEMMA ReturnedTame ==
  ASSUME NEW r \in HartState, NEW from
  PROVE  Tame(r, Returned(r, from))
<1> DEFINE to == IF from = "M" THEN r.mpp ELSE r.spp
           popped == IF from = "M" THEN [r EXCEPT !.mpp = "U"] ELSE [r EXCEPT !.spp = "U"]
           mprv == popped.mprv /\ to = "M"
           free == [r.resv EXCEPT !.valid = FALSE]
           s == [popped EXCEPT !.priv = to, !.mprv = mprv, !.resv = free]
<1>1. Returned(r, from) = FlushL1(s)
  <2>1. [popped EXCEPT !.priv = to, !.mprv = @ /\ to = "M", !.resv.valid = FALSE] = s
    BY DEF HartState
  <2> HIDE DEF s
  <2> QED BY <2>1 DEF Returned
<1>2. free \in Reservation
  <2>1. r.resv \in Reservation
    BY ReservationTyped
  <2> QED BY <2>1 DEF Reservation
<1> HIDE DEF free
<1>3. mprv \in BOOLEAN /\ to \in Privs
  BY DEF HartState, Privs
<1> HIDE DEF mprv, to
<1>4. popped \in HartState /\ popped.segs = r.segs /\ popped.l2 = r.l2
  BY DEF HartState, Privs
<1> HIDE DEF popped
<1>5. s \in HartState /\ s.segs = r.segs /\ s.l2 = r.l2
  BY <1>2, <1>3, <1>4 DEF HartState
<1> HIDE DEF s
<1> QED BY <1>1, <1>5, FlushL1Tame

LEMMA SatpTame ==
  ASSUME NEW r \in HartState, NEW root \in Nat \cup {None}
  PROVE  Tame(r, WriteSatp(r, root))
<1> DEFINE s == [r EXCEPT !.root = root]
<1>1. s \in HartState
  BY DEF HartState
<1> HIDE DEF s
<1> QED BY <1>1, FlushFits DEF Tame, WriteSatp, s

LEMMA SfenceTame ==
  ASSUME NEW r \in HartState
  PROVE  Tame(r, SfenceVma(r))
<1> DEFINE s == Flush(r)
           free == [s.resv EXCEPT !.valid = FALSE]
           t == [s EXCEPT !.resv = free]
<1>1. Fits(s) /\ ItlbFits(s) /\ s \in HartState
  BY FlushFits
<1> HIDE DEF s
<1>2. SfenceVma(r) = t
  BY <1>1 DEF SfenceVma, s, HartState
<1> HIDE DEF free
<1>3. SameMode(s, t) /\ t.l2 = s.l2 /\ Fewer(s, t)
  BY <1>1 DEF HartState, SameMode, Fewer
<1> HIDE DEF t
<1>4. Tame(s, t)
  BY <1>3, FewerTame
<1> QED BY <1>1, <1>2, <1>4 DEF Tame

LEMMA PmpUpdateFits ==
  ASSUME NEW r \in HartState
  PROVE  Fits(PmpUpdate(r)) /\ ItlbFits(PmpUpdate(r))
<1> DEFINE rules == Rules(r.cfg, r.addr)
           segs == Segments(rules)
           n == Cardinality(CanMatch(rules))
           open == AllOpen(rules)
           s == [r EXCEPT !.segs = segs, !.nrules = n, !.mFast = open]
<1>1. rules \in RuleTable
  BY RulesTyped DEF HartState
<1>2. PmpUpdate(r) = Flush(s)
  BY DEF PmpUpdate
<1> HIDE DEF rules
<1>3. segs \in SUBSET Segment /\ n \in Nat /\ open \in BOOLEAN
  BY <1>1, SegmentsTyped
<1> HIDE DEF segs, n, open
<1>4. s \in HartState
  BY <1>3 DEF HartState
<1> HIDE DEF s
<1> QED BY <1>2, <1>4, FlushFits

LEMMA PmpCfgTame ==
  ASSUME NEW r \in HartState, NEW cfg \in [1..PmpN -> PmpEntry]
  PROVE  Tame(r, WritePmpCfg(r, cfg))
<1> DEFINE c == [i \in DOMAIN r.cfg |-> IF r.cfg[i].lock THEN r.cfg[i] ELSE LegalCfg(cfg[i])]
           s == [r EXCEPT !.cfg = c]
<1>1. ASSUME NEW e \in PmpEntry
      PROVE  LegalCfg(e) \in PmpEntry
  BY DEF LegalCfg, PmpEntry
<1>2. r.cfg \in [1..PmpN -> PmpEntry]
  BY DEF HartState
<1>3. c \in [1..PmpN -> PmpEntry]
  BY <1>1, <1>2
<1>4. WritePmpCfg(r, cfg) = PmpUpdate(s)
  BY DEF WritePmpCfg
<1> HIDE DEF c
<1>5. s \in HartState
  BY <1>3 DEF HartState
<1> HIDE DEF s
<1> QED BY <1>4, <1>5, PmpUpdateFits DEF Tame

LEMMA PmpAddrTame ==
  ASSUME NEW r \in HartState, NEW i \in 1..PmpN, NEW addr \in Nat
  PROVE  Tame(r, WritePmpAddr(r, i, addr))
<1> DEFINE a == [r.addr EXCEPT ![i] = addr]
           s == [r EXCEPT !.addr = a]
<1>1. a \in [1..PmpN -> Nat]
  BY DEF HartState
<1>2. WritePmpAddr(r, i, addr) \in {r, PmpUpdate(s)}
  BY DEF WritePmpAddr
<1> HIDE DEF a
<1>3. s \in HartState
  BY <1>1 DEF HartState
<1> HIDE DEF s
<1>4. Tame(r, PmpUpdate(s))
  BY <1>3, PmpUpdateFits DEF Tame
<1> QED BY <1>2, <1>4, TameItself

-----------------------------------------------------------------------------
(* ... through translate                                                    *)

Tends(m, n) == \A i \in Harts : Tame(m.harts[i], n.harts[i])

LEMMA TendsItself ==
  ASSUME NEW m
  PROVE  Tends(m, m)
BY TameItself DEF Tends

LEMMA TendsTwice ==
  ASSUME NEW m, NEW n, NEW k, Tends(m, n), Tends(n, k)
  PROVE  Tends(m, k)
BY TameTwice DEF Tends

LEMMA SameHartsTend ==
  ASSUME NEW m, NEW n, n.harts = m.harts
  PROVE  Tends(m, n)
BY TameItself DEF Tends

LEMMA PutTends ==
  ASSUME NEW m, Sound(m), NEW h \in Harts, NEW s, s \in HartState, Tame(m.harts[h], s)
  PROVE  Tends(m, Put(m, h, s))
<1>1. Own1(m, Put(m, h, s), h) /\ Put(m, h, s).harts[h] = s
  BY PutIs DEF Sound
<1> QED BY <1>1, TameItself DEF Tends, Own1

LEMMA FaultTends ==
  ASSUME NEW m, Sound(m), NEW h \in Harts
  PROVE  Tends(m, Fault(m, h).m)
<1>1. m.harts[h] \in HartState
  BY DEF Sound, MachineState
<1>2. Raised(m, h) = Put(m, h, Trapped(m.harts[h]))
  BY DEF Raised, Put, Sound, MachineState
<1>3. Trapped(m.harts[h]) \in HartState
  BY <1>1, TrappedKeeps DEF Kept
<1>4. Fault(m, h).m = Raised(m, h)
  BY DEF Fault
<1> QED BY <1>1, <1>2, <1>3, <1>4, TrappedTame, PutTends

LEMMA ReleasedTame ==
  ASSUME NEW r \in HartState
  PROVE  Tame(r, [r EXCEPT !.resv.valid = FALSE])
<1> DEFINE v == [r.resv EXCEPT !.valid = FALSE]
           s == [r EXCEPT !.resv = v]
<1> HIDE DEF v
<1>1. SameMode(r, s) /\ s.l2 = r.l2 /\ Fewer(r, s)
  BY DEF HartState, SameMode, Fewer
<1> HIDE DEF s
<1>2. Tame(r, s)
  BY <1>1, FewerTame
<1> QED BY <1>2 DEF s, v

LEMMA ClearTends ==
  ASSUME NEW m \in MachineState, NEW h, NEW pa, NEW len
  PROVE  Tends(m, ClearReservations(m, h, pa, len))
<1>1. CASE NumHarts = 1
  BY <1>1, TendsItself DEF ClearReservations
<1>2. CASE NumHarts # 1
  <2> DEFINE free(i) == [m.harts[i] EXCEPT !.resv.valid = FALSE]
             out(i) == i # h /\ Overlaps(m.harts[i].resv, pa, len)
             hs == [i \in Harts |-> IF out(i) THEN free(i) ELSE m.harts[i]]
             k == ClearReservations(m, h, pa, len)
  <2>1. k = [m EXCEPT !.harts = hs]
    BY <1>2 DEF ClearReservations
  <2>2. \A i \in Harts : Tame(m.harts[i], free(i))
    BY ReleasedTame DEF MachineState
  <2> HIDE DEF free, out
  <2>3. \A i \in Harts : Tame(m.harts[i], hs[i])
    BY <2>2, TameItself
  <2> HIDE DEF hs, k
  <2>4. k.harts = hs
    BY <2>1 DEF MachineState
  <2>5. Tends(m, k)
    BY <2>3, <2>4 DEF Tends
  <2> QED BY <2>5 DEF k
<1> QED BY <1>1, <1>2

\* The entry that an access may leave in the first level.
MayFill(r, page, acc, pageOk) ==
  /\ EffPriv(r, acc) # "M" /\ r.root # None
  /\ page \in DramPageSet /\ pageOk => PageOk(r, page, acc, EffPriv(r, acc))

LEMMA EffPrivFetch ==
  ASSUME NEW r
  PROVE  EffPriv(r, "Fetch") = r.priv
BY DEF EffPriv

MayBe(r, entry, page, acc) ==
  entry = NoEntry \/ (entry.page = page /\ page \in DramPageSet /\ MayFill(r, page, acc, TRUE))

\* From r to s, no entry of the TLBs is new but this one, for that access.
Takes(r, s, entry, acc) ==
  /\ SameMode(r, s) /\ s.l2 = r.l2
  /\ (acc = "Fetch" /\ s.itlb = entry) \/ s.itlb = r.itlb
  /\ \A e \in Entries(DTLB_N) : s.load[e] = r.load[e] \/ (acc = "Load" /\ s.load[e] = entry)
  /\ \A e \in Entries(DTLB_N) : s.store[e] = r.store[e] \/ (acc = "Store" /\ s.store[e] = entry)

LEMMA FilledTame ==
  ASSUME NEW r, NEW s, NEW entry, NEW acc \in Accesses, NEW page,
         MayBe(r, entry, page, acc), Takes(r, s, entry, acc)
  PROVE  Tame(r, s)
<1> USE DEF Takes
<1> SUFFICES ASSUME Fits(r) PROVE Fits(s) /\ (ItlbFits(r) => ItlbFits(s))
  BY DEF Tame
<1>1. EntryFits(s, entry, acc)
  <2>1. CASE entry = NoEntry
    BY <2>1, NoEntryFits
  <2>2. CASE entry.page = page /\ page \in DramPageSet /\ MayFill(r, page, acc, TRUE)
    <3>1. EntryFits(r, entry, acc)
      BY <2>2 DEF MayFill, EntryFits
    <3> QED BY <3>1, SameModeFits
  <2> QED BY <2>1, <2>2 DEF MayBe
<1>2. ASSUME NEW e \in Entries(DTLB_N)
      PROVE  EntryFits(s, s.load[e], "Load") /\ EntryFits(s, s.store[e], "Store")
  <2>1. EntryFits(r, r.load[e], "Load") /\ EntryFits(r, r.store[e], "Store")
    BY DEF Fits
  <2>2. EntryFits(s, r.load[e], "Load") /\ EntryFits(s, r.store[e], "Store")
    BY <2>1, SameModeFits
  <2> QED BY <1>1, <2>2
<1>3. L2Fits(s)
  BY SameSegsDecide DEF Fits, L2Fits, SameMode
<1>4. ASSUME ItlbFits(r)
      PROVE  ItlbFits(s)
  <2>1. CASE s.itlb = r.itlb
    BY <1>4, <2>1, SameSegsDecide DEF ItlbFits, SameMode
  <2>2. CASE entry = NoEntry /\ s.itlb = entry
    BY <2>2 DEF ItlbFits, NoEntry
  <2>3. CASE /\ acc = "Fetch" /\ s.itlb = entry
             /\ entry.page = page /\ page \in DramPageSet /\ MayFill(r, page, acc, TRUE)
    <3>1. s.itlb.page = page
      BY <2>3
    <3>2. PageOk(r, page, "Fetch", r.priv)
      BY <2>3, EffPrivFetch DEF MayFill
    <3>3. PageOk(s, page, "Fetch", r.priv)
      BY <3>2, SameSegsDecide DEF SameMode
    <3> QED BY <3>1, <3>3 DEF ItlbFits, SameMode
  <2> QED BY <2>1, <2>2, <2>3 DEF MayBe
<1> QED BY <1>2, <1>3, <1>4 DEF Fits

LEMMA FillL1Tends ==
  ASSUME NEW m, Sound(m), NEW h \in Harts, NEW vpn \in Nat, NEW page, NEW acc \in Accesses,
         NEW pageOk \in BOOLEAN, MayFill(m.harts[h], page, acc, pageOk)
  PROVE  /\ Tends(m, FillL1(m, h, vpn, page, acc, pageOk))
         /\ SameMode(m.harts[h], FillL1(m, h, vpn, page, acc, pageOk).harts[h])
<1> DEFINE entry == IF page \in DramPageSet /\ pageOk THEN [vpn |-> vpn, page |-> page] ELSE NoEntry
           slot == vpn % DTLB_N
           r == m.harts[h]
           n == FillL1(m, h, vpn, page, acc, pageOk)
           s == n.harts[h]
<1>1. MayBe(r, entry, page, acc)
  BY DEF MayFill, MayBe
<1>2. slot \in Entries(DTLB_N)
  BY ShapeAssumption DEF Entries
<1>3. r \in HartState /\ m \in MachineState
  BY DEF Sound, MachineState
<1>4. r.load \in [Entries(DTLB_N) -> L1Entry] /\ r.store \in [Entries(DTLB_N) -> L1Entry]
  BY <1>3 DEF HartState
<1>5. n = IF acc = "Fetch" THEN [m EXCEPT !.harts[h].itlb = entry]
          ELSE IF acc = "Load" THEN [m EXCEPT !.harts[h].load[slot] = entry]
          ELSE IF NumHarts > 1 /\ PageReserved(m, page) THEN m
          ELSE [m EXCEPT !.harts[h].store[slot] = entry]
  BY DEF FillL1, Accesses
<1> HIDE DEF n, entry, slot
<1>6. \A i \in Harts \ {h} : n.harts[i] = m.harts[i]
  BY <1>3, <1>5 DEF MachineState
<1>7. \/ acc = "Fetch" /\ s = [r EXCEPT !.itlb = entry]
      \/ acc = "Load" /\ s = [r EXCEPT !.load = [r.load EXCEPT ![slot] = entry]]
      \/ acc = "Store" /\ s = [r EXCEPT !.store = [r.store EXCEPT ![slot] = entry]]
      \/ s = r
  BY <1>3, <1>5 DEF MachineState, Accesses
<1> HIDE DEF s, r
<1>8. SameMode(r, s) /\ s.l2 = r.l2 /\ ((acc = "Fetch" /\ s.itlb = entry) \/ s.itlb = r.itlb)
  BY <1>3, <1>7 DEF HartState, SameMode
<1>9. /\ \A e \in Entries(DTLB_N) : s.load[e] = r.load[e] \/ (acc = "Load" /\ s.load[e] = entry)
      /\ \A e \in Entries(DTLB_N) : s.store[e] = r.store[e] \/ (acc = "Store" /\ s.store[e] = entry)
  BY <1>2, <1>3, <1>4, <1>7 DEF HartState
<1>10. Tame(r, s)
  <2>1. Takes(r, s, entry, acc)
    BY <1>8, <1>9 DEF Takes
  <2> QED BY <1>1, <2>1, FilledTame
<1>11. Tends(m, n)
  BY <1>6, <1>10, TameItself DEF Tends, r, s
<1> QED BY <1>8, <1>11 DEF n, r, s

\* What is known of a page is what the segments allow of it.
Allows(r, page, allow) == page \in DramPageSet => allow \subseteq PmpPageAllows(r, page)

LEMMA AllowedIsOk ==
  ASSUME NEW r, NEW page, NEW acc, NEW priv, priv # "M", Need(acc) \in PmpPageAllows(r, page)
  PROVE  PageOk(r, page, acc, priv)
BY DEF PageOk, PmpOk, PmpPageAllows

\* A page of memory that a fetch was translated to, and may have whole, is allowed.
FetchOk(t, h) ==
  ~t.fault /\ t.pageOk /\ PageOf(t.pa) \in DramPageSet =>
    PageOk(t.m.harts[h], PageOf(t.pa), "Fetch", t.m.harts[h].priv)

LEMMA ReachTends ==
  ASSUME NEW m, Sound(m), NEW h \in Harts, NEW va \in Nat, NEW acc \in Accesses, NEW size,
         NEW page \in Nat, NEW allow, Allows(m.harts[h], page, allow),
         EffPriv(m.harts[h], acc) # "M", m.harts[h].root # None
  PROVE  LET t == Reach(m, h, va, acc, size, page, allow)
         IN  Tends(m, t.m) /\ (acc = "Fetch" => FetchOk(t, h))
<1> DEFINE pa == Base(page) + (va % PageUnits)
           ok == Need(acc) \in allow
           n == FillL1(m, h, PageOf(va), page, acc, ok)
           t == Reach(m, h, va, acc, size, page, allow)
           r == m.harts[h]
<1>1. PageOf(va) \in Nat /\ PageOf(pa) = page
  BY PageOfTyped, PageSplits
<1>2. t \in {Result(n, pa, ok), Fault(m, h)}
  BY DEF Reach
<1>3. page \in DramPageSet /\ ok => PageOk(r, page, acc, EffPriv(r, acc))
  BY AllowedIsOk DEF Allows
<1>4. MayFill(r, page, acc, ok) /\ ok \in BOOLEAN
  BY <1>3 DEF MayFill
<1>5. Need(acc) \in allow <=> ok
  OBVIOUS
<1> HIDE DEF t, pa, ok
<1>6. Tends(m, n) /\ SameMode(r, n.harts[h])
  BY <1>1, <1>4, FillL1Tends
<1> HIDE DEF n
<1>7. CASE t = Result(n, pa, ok)
  <2>1. t.m = n /\ t.pa = pa /\ t.pageOk = ok /\ t.fault = FALSE
    BY <1>7 DEF Result
  <2>2. ASSUME acc = "Fetch", ok, page \in DramPageSet
        PROVE  PageOk(n.harts[h], page, "Fetch", n.harts[h].priv)
    <3>1. PageOk(r, page, "Fetch", r.priv)
      BY <1>3, <2>2, EffPrivFetch
    <3> HIDE DEF r
    <3>2. n.harts[h].segs = r.segs /\ n.harts[h].priv = r.priv
      BY <1>6 DEF SameMode
    <3> QED BY <3>1, <3>2, SameSegsDecide
  <2>3. acc = "Fetch" => FetchOk(t, h)
    BY <1>1, <2>1, <2>2 DEF FetchOk
  <2> QED BY <1>6, <2>1, <2>3 DEF t
<1>8. CASE t = Fault(m, h)
  <2>1. t.fault
    BY <1>8 DEF Fault
  <2>2. Tends(m, t.m)
    BY <1>8, FaultTends
  <2>3. FetchOk(t, h)
    BY <2>1 DEF FetchOk
  <2> QED BY <2>2, <2>3 DEF t
<1> QED BY <1>2, <1>7, <1>8

LEMMA CacheTends ==
  ASSUME NEW m, Sound(m), NEW h \in Harts, NEW vpn \in Nat, NEW page \in Nat, NEW flags, NEW allow,
         Allows(m.harts[h], page, allow)
  PROVE  LET n == Cache(m, h, vpn, page, flags, allow)
         IN  Tends(m, n) /\ SameMode(m.harts[h], n.harts[h])
<1> DEFINE r == m.harts[h]
           slot == vpn % L2TLB_N
           entry == IF page \notin DramPageSet THEN [r.l2[slot] EXCEPT !.tag = None]
                    ELSE [vpn |-> vpn, tag |-> r.root, page |-> page, flags |-> flags, allow |-> allow]
           l2 == [r.l2 EXCEPT ![slot] = entry]
           s == [r EXCEPT !.l2 = l2]
           n == Cache(m, h, vpn, page, flags, allow)
<1>1. r \in HartState /\ m \in MachineState
  BY DEF Sound, MachineState
<1>2. slot \in Entries(L2TLB_N)
  BY ShapeAssumption DEF Entries
<1>3. n = [m EXCEPT !.harts[h] = s]
  BY DEF Cache, Sound, MachineState
<1> HIDE DEF n, slot
<1>4. r.l2 \in [Entries(L2TLB_N) -> L2Entry]
  BY <1>1 DEF HartState
<1>5. \/ entry.tag = None
      \/ page \in DramPageSet /\ entry.page = page /\ entry.allow = allow
  <2>1. r.l2[slot] \in L2Entry
    BY <1>2, <1>4
  <2> HIDE DEF r
  <2> QED BY <2>1 DEF L2Entry
<1>6. Allows(r, page, allow)
  OBVIOUS
<1>7. n.harts[h] = s /\ \A i \in Harts \ {h} : n.harts[i] = m.harts[i]
  <2> HIDE DEF s
  <2> QED BY <1>1, <1>3 DEF MachineState
<1> HIDE DEF r, entry
<1>8. \A e \in Entries(L2TLB_N) : l2[e] = r.l2[e] \/ l2[e] = entry
  BY <1>4
<1> HIDE DEF l2
<1>9. /\ SameMode(r, s) /\ s.l2 = l2 /\ s.itlb = r.itlb /\ s.load = r.load /\ s.store = r.store
  BY <1>1 DEF HartState, SameMode
<1> HIDE DEF s
<1>10. Tame(r, s)
  <2> SUFFICES ASSUME Fits(r) PROVE Fits(s) /\ (ItlbFits(r) => ItlbFits(s))
    BY DEF Tame
  <2>1. \A e \in Entries(DTLB_N) : EntryFits(s, s.load[e], "Load") /\ EntryFits(s, s.store[e], "Store")
    BY <1>9, SameModeFits DEF Fits
  <2>2. ItlbFits(r) => ItlbFits(s)
    BY <1>9, SameSegsDecide DEF ItlbFits, SameMode
  <2>3. ASSUME NEW e \in Entries(L2TLB_N), s.l2[e].tag # None
        PROVE  s.l2[e].page \in DramPageSet /\ s.l2[e].allow \subseteq PmpPageAllows(s, s.l2[e].page)
    <3>1. \A p : PmpPageAllows(s, p) = PmpPageAllows(r, p)
      BY <1>9, SameSegsDecide DEF SameMode
    <3>2. CASE s.l2[e] = r.l2[e]
      <4>1. r.l2[e].page \in DramPageSet /\ r.l2[e].allow \subseteq PmpPageAllows(r, r.l2[e].page)
        BY <2>3, <3>2 DEF Fits, L2Fits
      <4> QED BY <3>1, <3>2, <4>1
    <3>3. CASE s.l2[e] = entry
      <4>1. page \in DramPageSet /\ entry.page = page /\ entry.allow = allow
        BY <1>5, <2>3, <3>3
      <4>2. allow \subseteq PmpPageAllows(r, page)
        BY <1>6, <4>1 DEF Allows
      <4> QED BY <3>1, <3>3, <4>1, <4>2
    <3> QED BY <1>8, <1>9, <3>2, <3>3
  <2>4. L2Fits(s)
    BY <2>3 DEF L2Fits
  <2> QED BY <2>1, <2>2, <2>4 DEF Fits
<1>11. Tends(m, n)
  BY <1>7, <1>10, TameItself DEF Tends, r
<1> QED BY <1>7, <1>9, <1>11 DEF n, r

LEMMA MarkTends ==
  ASSUME NEW m, Sound(m), NEW h \in Harts, NEW a \in Units, NEW flags \in SUBSET Flags
  PROVE  Tends(m, Mark(m, h, a, flags))
<1> DEFINE w == [m.mem[a] EXCEPT !.flags = flags]
           mem1 == [m.mem EXCEPT ![a] = w]
           n == [m EXCEPT !.mem = mem1]
<1>1. m.mem \in [Units -> Words] /\ m \in MachineState
  BY DEF Sound, MachineState
<1>2. w \in Words
  BY <1>1 DEF Words
<1>3. Mark(m, h, a, flags) \in {m, ClearReservations(n, h, a, 2)}
  BY <1>1 DEF Mark, MachineState
<1> HIDE DEF w
<1>4. mem1 \in [Units -> Words]
  BY <1>1, <1>2
<1> HIDE DEF mem1
<1>5. n \in MachineState /\ n.harts = m.harts
  BY <1>1, <1>4 DEF MachineState
<1> HIDE DEF n
<1>6. Tends(m, n) /\ Tends(n, ClearReservations(n, h, a, 2))
  BY <1>5, SameHartsTend, ClearTends
<1> QED BY <1>3, <1>6, TendsItself, TendsTwice

LEMMA UseLeafTends ==
  ASSUME NEW m, Sound(m), NEW h \in Harts, NEW va \in Nat, NEW acc \in Accesses, NEW size, NEW leaf,
         EffPriv(m.harts[h], acc) # "M", m.harts[h].root # None
  PROVE  LET t == UseLeaf(m, h, va, acc, size, leaf)
         IN  Tends(m, t.m) /\ (acc = "Fetch" => FetchOk(t, h))
<1> DEFINE r == m.harts[h]
           n == Marked(m, h, acc, leaf)
           k == Filled(m, h, va, acc, leaf)
           page == PageAt(m, va, leaf)
           allow == AllowAt(m, h, va, leaf)
           flags == FlagsAfter(m, acc, leaf)
           t == UseLeaf(m, h, va, acc, size, leaf)
<1>1. t = Fault(m, h) \/ (Found(m, h, leaf) /\ t = Reach(k, h, va, acc, size, page, allow))
  BY UseLeafCases
<1> HIDE DEF t
<1>2. CASE t = Fault(m, h)
  <2>1. t.fault
    BY <1>2 DEF Fault
  <2> QED BY <1>2, <2>1, FaultTends DEF FetchOk, t
<1>3. CASE Found(m, h, leaf) /\ t = Reach(k, h, va, acc, size, page, allow)
  <2>1. /\ Flows(m, k, h) /\ Sound(n) /\ n.harts[h] = r /\ page \in Nat /\ PageOf(va) \in Nat
    BY <1>3, FilledIs, PageOfTyped
  <2>2. leaf.at \in Units /\ flags \in SUBSET Flags
    <3>1. leaf.at \in Units /\ m.mem[leaf.at].flags \in SUBSET Flags
      BY <1>3, LeafTyped
    <3> QED BY <3>1 DEF FlagsAfter, Flags
  <2>3. n = Mark(m, h, leaf.at, flags) /\ k = Cache(n, h, PageOf(va), page, flags, allow)
    BY DEF Marked, Filled
  <2>4. Allows(r, page, allow)
    BY DEF Allows, AllowAt
  <2> HIDE DEF n, k, page, allow, flags
  <2>5. Tends(m, n)
    BY <2>2, <2>3, MarkTends
  <2>6. Tends(n, k) /\ SameMode(r, k.harts[h])
    BY <2>1, <2>3, <2>4, CacheTends
  <2>7. Sound(k)
    BY <2>1 DEF Flows
  <2>8. Allows(k.harts[h], page, allow)
    <3>1. PmpPageAllows(k.harts[h], page) = PmpPageAllows(r, page)
      BY <2>6, SameSegsDecide DEF SameMode
    <3> QED BY <2>4, <3>1 DEF Allows
  <2>9. EffPriv(k.harts[h], acc) # "M" /\ k.harts[h].root # None
    BY <2>6 DEF SameMode, EffPriv
  <2>10. Tends(k, t.m) /\ (acc = "Fetch" => FetchOk(t, h))
    BY <1>3, <2>1, <2>7, <2>8, <2>9, ReachTends
  <2> QED BY <2>5, <2>6, <2>10, TendsTwice DEF t
<1> QED BY <1>1, <1>2, <1>3

\* A page of memory lies below Top.
LEMMA PageBelowTop ==
  ASSUME NEW page \in DramPageSet
  PROVE  /\ Base(page) \in Nat /\ PageUnits \in Nat \ {0}
         /\ Base(page) + PageUnits - 1 <= Top
<1>1. page \in Nat /\ DramBase + DramPages \in Nat /\ page <= DramBase + DramPages
  BY ShapeAssumption DEF DramPageSet
<1>2. Base(page) \in Nat /\ Base(DramBase + DramPages) \in Nat /\ PageUnits \in Nat \ {0}
  BY <1>1, PagesTyped
<1>3. Base(page) <= Base(DramBase + DramPages)
  BY <1>1, BaseGrows
<1>4. Top \in Nat /\ Top >= Base(DramBase + DramPages) + PageUnits
  BY ShapeAssumption
<1> HIDE DEF PageUnits, Base
<1> QED BY <1>2, <1>3, <1>4

LEMMA PageOkIs ==
  ASSUME NEW r \in HartState, Flattened(r), NEW page \in DramPageSet, NEW acc \in Accesses, NEW priv
  PROVE  PageOk(r, page, acc, priv) <=> PmpAllows(r, PageBytes(page), acc, priv)
<1>1. r.cfg \in [1..PmpN -> PmpEntry] /\ r.addr \in [1..PmpN -> Nat]
  BY DEF HartState
<1>2. /\ Base(page) \in Nat /\ PageUnits \in Nat \ {0}
      /\ Base(page) + PageUnits - 1 <= Top
  BY PageBelowTop
<1>3. PmpOk(r, Base(page), PageUnits, acc, priv)
        <=> PmpAllows(r, Base(page) .. (Base(page) + PageUnits - 1), acc, priv)
  BY <1>1, <1>2, SegmentsDecide
<1> QED BY <1>3 DEF PageOk, PageBytes

LEMMA NoRulesPageOk ==
  ASSUME NEW r \in HartState, Flattened(r), r.nrules = 0, NEW page \in DramPageSet, NEW acc \in Accesses
  PROVE  PageOk(r, page, acc, "M")
<1>1. r.cfg \in [1..PmpN -> PmpEntry] /\ r.addr \in [1..PmpN -> Nat]
  BY DEF HartState
<1>2. Base(page) \in Nat /\ PageUnits \in Nat \ {0}
  BY PageBelowTop
<1>3. PmpAllows(r, Base(page) .. (Base(page) + PageUnits - 1), acc, "M")
  BY <1>1, <1>2, ShortcutsAllow
<1> QED BY <1>3, PageOkIs DEF PageBytes

LEMMA TranslateTends ==
  ASSUME NEW m, Sound(m), NEW h \in Harts, NEW va \in Nat, NEW acc \in Accesses, NEW size,
         Fits(m.harts[h])
  PROVE  LET t == Translate(m, h, va, acc, size)
         IN  Tends(m, t.m) /\ (acc = "Fetch" => FetchOk(t, h))
<1> DEFINE hr == m.harts[h]
           t == Translate(m, h, va, acc, size)
           slot == PageOf(va) % L2TLB_N
           l2 == hr.l2[slot]
           priv == EffPriv(hr, acc)
           pageOk == /\ acc = "Fetch"
                     /\ \/ priv = "M" /\ hr.nrules = 0
                        \/ PmpOk(hr, Base(PageOf(va)), PageUnits, acc, priv)
<1> SUFFICES Tends(m, t.m) /\ (acc = "Fetch" => FetchOk(t, h))
  OBVIOUS
<1>1. l2 \in L2Entry /\ slot \in Entries(L2TLB_N)
  <2>1. slot \in Entries(L2TLB_N)
    BY PageOfTyped, ShapeAssumption DEF Entries
  <2>2. hr.l2 \in [Entries(L2TLB_N) -> L2Entry]
    BY DEF Sound, MachineState, HartState
  <2> QED BY <2>1, <2>2
<1>2. hr \in HartState /\ Flattened(hr)
  BY DEF Sound, MachineState
<1>3. \/ priv # "M" /\ hr.root # None /\ l2.tag = hr.root /\ t = Reach(m, h, va, acc, size, l2.page, l2.allow)
      \/ t = Fault(m, h)
      \/ priv # "M" /\ hr.root # None /\ t = UseLeaf(m, h, va, acc, size, Walk(m, h, PageOf(va)))
      \/ t = Result(m, va, pageOk)
  BY DEF Translate, TranslateSlow
<1>4. (l2.tag # None => l2.page \in DramPageSet /\ l2.allow \subseteq PmpPageAllows(hr, l2.page)) /\ Fits(hr)
  BY <1>1 DEF Fits, L2Fits
<1>5. ASSUME pageOk, PageOf(va) \in DramPageSet
      PROVE  acc = "Fetch" /\ PageOk(hr, PageOf(va), "Fetch", hr.priv)
  <2>1. acc = "Fetch" /\ priv = hr.priv
    BY <1>5, EffPrivFetch
  <2>2. CASE priv = "M" /\ hr.nrules = 0
    BY <1>2, <1>5, <2>1, <2>2, NoRulesPageOk DEF Accesses
  <2>3. CASE PmpOk(hr, Base(PageOf(va)), PageUnits, acc, priv)
    BY <2>1, <2>3 DEF PageOk
  <2> QED BY <1>5, <2>1, <2>2, <2>3
<1>6. l2.page \in Nat
  BY <1>1 DEF L2Entry
<1>7. priv = EffPriv(m.harts[h], acc) /\ hr = m.harts[h]
  OBVIOUS
<1> HIDE DEF t, pageOk, l2, hr, priv
<1>8. CASE priv # "M" /\ hr.root # None /\ l2.tag = hr.root /\ t = Reach(m, h, va, acc, size, l2.page, l2.allow)
  <2>1. Allows(m.harts[h], l2.page, l2.allow)
    BY <1>4, <1>7, <1>8 DEF Allows
  <2> QED BY <1>6, <1>7, <1>8, <2>1, ReachTends
<1>9. CASE t = Fault(m, h)
  <2>1. t.fault
    BY <1>9 DEF Fault
  <2> QED BY <1>9, <2>1, FaultTends DEF FetchOk
<1>10. CASE priv # "M" /\ hr.root # None /\ t = UseLeaf(m, h, va, acc, size, Walk(m, h, PageOf(va)))
  BY <1>7, <1>10, UseLeafTends
<1>11. CASE t = Result(m, va, pageOk)
  <2>1. t.m = m /\ t.pa = va /\ t.pageOk = pageOk
    BY <1>11 DEF Result
  <2>2. FetchOk(t, h)
    BY <1>5, <1>7, <2>1 DEF FetchOk
  <2> QED BY <2>1, <2>2, TendsItself
<1> QED BY <1>3, <1>8, <1>9, <1>10, <1>11

-----------------------------------------------------------------------------
(* ... through loads, stores and atomics                                    *)

LEMMA TendsFits ==
  ASSUME NEW m, NEW n, Tends(m, n), NEW h \in Harts, Fits(m.harts[h])
  PROVE  Fits(n.harts[h])
BY DEF Tends, Tame

LEMMA AccessedTends ==
  ASSUME NEW t, t.m \in MachineState, t.pa \in Nat, NEW h, NEW acc, NEW size, NEW word \in Words,
         t = [m |-> t.m, pa |-> t.pa, pageOk |-> t.pageOk, fault |-> t.fault]
  PROVE  Tends(t.m, Accessed(t, h, acc, size, word).m)
<1> DEFINE n == Written(t.m, t.pa, size, word)
           k == ClearReservations(n, h, t.pa, size)
<1>1. Accessed(t, h, acc, size, word).m \in {t.m, Device(t.m, t.pa, size), k}
  BY DEF Accessed
<1>2. n \in MachineState /\ n.harts = t.m.harts
  BY WrittenIs
<1> HIDE DEF n
<1>3. Tends(t.m, n) /\ Tends(n, k)
  BY <1>2, SameHartsTend, ClearTends
<1>4. Device(t.m, t.pa, size).harts = t.m.harts
  BY DEF Device, MachineState
<1> QED BY <1>1, <1>3, <1>4, SameHartsTend, TendsItself, TendsTwice

LEMMA SysAccessTends ==
  ASSUME NEW m, Sound(m), NEW h \in Harts, Fits(m.harts[h]), NEW va \in Nat, NEW acc \in Accesses,
         NEW size, NEW word \in Words
  PROVE  Tends(m, SysAccess(m, h, va, acc, size, word).m)
<1> DEFINE t == Translate(m, h, va, acc, size)
<1>1. Outcome(m, t, h) /\ Tends(m, t.m)
  BY TranslateIs, TranslateTends
<1>2. SysAccess(m, h, va, acc, size, word) = Accessed(t, h, acc, size, word)
  BY DEF SysAccess
<1> HIDE DEF t
<1>3. /\ t.m \in MachineState /\ t.pa \in Nat
      /\ t = [m |-> t.m, pa |-> t.pa, pageOk |-> t.pageOk, fault |-> t.fault]
  BY <1>1 DEF Outcome, Flows, Sound
<1>4. Tends(t.m, Accessed(t, h, acc, size, word).m)
  BY <1>3, AccessedTends
<1> QED BY <1>1, <1>2, <1>4, TendsTwice

LEMMA AccessTends ==
  ASSUME NEW m, Sound(m), NEW h \in Harts, Fits(m.harts[h]), NEW va \in Nat, NEW acc \in Accesses,
         NEW size \in Nat, NEW word \in Words
  PROVE  Tends(m, Access(m, h, va, acc, size, word).m)
<1> DEFINE part == Min({Room(va), size})
           first == SysAccess(m, h, va, acc, part, word)
           t == Access(m, h, va, acc, size, word)
<1>1. Room(va) \in Nat
  BY PageOfTyped, PagesTyped DEF Room
<1>2. part \in Nat /\ part <= size
  BY <1>1, MinIs
<1>3. t \in {first, SysAccess(first.m, h, va + part, acc, size - part, word)}
  BY DEF Access, Rest
<1> HIDE DEF part, t
<1>4. Outcome(m, first, h) /\ Tends(m, first.m)
  BY <1>2, SysAccessIs, SysAccessTends
<1> HIDE DEF first
<1>5. Sound(first.m) /\ Fits(first.m.harts[h])
  BY <1>4, TendsFits DEF Outcome, Flows
<1>6. va + part \in Nat
  BY <1>2
<1>7. Tends(first.m, SysAccess(first.m, h, va + part, acc, size - part, word).m)
  BY <1>5, <1>6, SysAccessTends
<1> QED BY <1>3, <1>4, <1>7, TendsTwice DEF t

LEMMA NoData ==
  Data(0) \in Words
BY DEF Data, Word, Words

LEMMA MemRdTends ==
  ASSUME NEW m, Sound(m), NEW h \in Harts, Fits(m.harts[h]), NEW va \in Nat, NEW size \in {1, 2}
  PROVE  Tends(m, MemRd(m, h, va, size))
<1>1. Tends(m, Access(m, h, va, "Load", size, Data(0)).m)
  BY NoData, AccessTends DEF Accesses
<1> QED BY <1>1, TendsItself DEF MemRd

LEMMA MemWrTends ==
  ASSUME NEW m, Sound(m), NEW h \in Harts, Fits(m.harts[h]), NEW va \in Nat, NEW size \in {1, 2},
         NEW word \in Words
  PROVE  Tends(m, MemWr(m, h, va, size, word))
<1>1. Tends(m, Access(m, h, va, "Store", size, word).m)
  BY AccessTends DEF Accesses
<1>2. \A pa : Written(m, pa, size, word).harts = m.harts
  BY DEF Written, Sound, MachineState
<1> QED BY <1>1, <1>2, SameHartsTend DEF MemWr

LEMMA AtomicDramTends ==
  ASSUME NEW m, Sound(m), NEW h \in Harts, Fits(m.harts[h]), NEW va \in Nat, NEW size \in {1, 2},
         NEW acc \in Accesses
  PROVE  Tends(m, AtomicDram(m, h, va, size, acc).m)
<1> DEFINE t == Translate(m, h, va, acc, size)
<1>1. Outcome(m, t, h) /\ Tends(m, t.m)
  BY TranslateIs, TranslateTends
<1>2. AtomicDram(m, h, va, size, acc) \in {t, Fault(m, h), Fault(t.m, h)}
  BY DEF AtomicDram, OnlyDram
<1> HIDE DEF t
<1>3. Sound(t.m)
  BY <1>1 DEF Outcome, Flows
<1>4. Tends(m, Fault(m, h).m) /\ Tends(t.m, Fault(t.m, h).m)
  BY <1>3, FaultTends
<1> QED BY <1>1, <1>2, <1>4, TendsTwice

LEMMA StoreConditionalTends ==
  ASSUME NEW m, NEW checked, Sound(checked.m), NEW h \in Harts, Tends(m, checked.m),
         Fits(checked.m.harts[h]), NEW va \in Nat, NEW size \in {1, 2}, NEW word \in Words
  PROVE  Tends(m, StoreConditional(checked, h, va, size, word))
<1> DEFINE r == checked.m.harts[h].resv
           here == r.valid /\ r.va = va /\ r.size = size
           load == Access(checked.m, h, va, "Load", size, Data(0))
           read == IF here THEN load ELSE checked
<1>1. Outcome(checked.m, load, h) /\ Tends(checked.m, load.m)
  BY NoData, AccessIs, AccessTends DEF Accesses
<1>2. StoreConditional(checked, h, va, size, word) \in {checked.m, Conclude(read, here, h, va, size, word)}
  BY DEF StoreConditional
<1>3. Sound(read.m) /\ Tends(m, read.m) /\ Fits(read.m.harts[h])
  <2>1. Sound(load.m) /\ Tends(m, load.m) /\ Fits(load.m.harts[h])
    BY <1>1, TendsTwice, TendsFits DEF Outcome, Flows
  <2> HIDE DEF load
  <2> QED BY <2>1
<1> HIDE DEF read, here
<1> DEFINE hit == here /\ read.m.mem[read.pa] = read.m.harts[h].resv.value
           sc == IF hit THEN "done" ELSE "failed"
           s == read.m.harts[h]
           free == [s.resv EXCEPT !.valid = FALSE]
           u == [s EXCEPT !.resv = free, !.sc = sc]
           done == Put(read.m, h, u)
<1>4. s \in HartState /\ read.m \in MachineState /\ sc \in {"done", "failed"}
  BY <1>3 DEF Sound, MachineState
<1>5. Conclude(read, here, h, va, size, word) \in {read.m, done, Access(done, h, va, "Store", size, word).m}
  <2> DEFINE d == [read.m EXCEPT !.harts[h].resv.valid = FALSE,
                                 !.harts[h].sc = IF hit THEN "done" ELSE "failed"]
  <2>1. d = done
    <3> HIDE DEF hit
    <3> QED BY <1>4, ZenonT(40) DEF Put, MachineState, HartState
  <2>2. Conclude(read, here, h, va, size, word) =
          IF read.fault THEN read.m ELSE IF hit THEN Access(d, h, va, "Store", size, word).m ELSE d
    BY DEF Conclude
  <2> HIDE DEF d, hit, done
  <2> QED BY <2>1, <2>2
<1> HIDE DEF sc, s
<1>6. free \in Reservation
  <2>1. s.resv \in Reservation
    BY <1>4, ReservationTyped
  <2> QED BY <2>1 DEF Reservation
<1> HIDE DEF free
<1>7. u \in HartState /\ SameMode(s, u) /\ u.l2 = s.l2 /\ Fewer(s, u) /\ (Flattened(s) => Flattened(u))
  BY <1>4, <1>6 DEF HartState, SameMode, Fewer, Flattened
<1> HIDE DEF u
<1>8. Tame(s, u)
  BY <1>7, FewerTame
<1>9. Tends(read.m, done) /\ Own1(read.m, done, h) /\ done.harts[h] = u
  BY <1>3, <1>4, <1>7, <1>8, PutTends, PutIs DEF s
<1>10. Sound(done)
  <2> HIDE DEF done
  <2>1. \A i \in Harts : Flattened(done.harts[i])
    BY <1>3, <1>7, <1>9 DEF Own1, Sound, s
  <2> QED BY <1>9, <2>1 DEF Own1, Sound
<1> HIDE DEF done
<1>11. Tends(m, done) /\ Fits(done.harts[h])
  BY <1>3, <1>9, TendsTwice, TendsFits
<1>12. Tends(done, Access(done, h, va, "Store", size, word).m)
  BY <1>10, <1>11, AccessTends DEF Accesses
<1> QED BY <1>2, <1>3, <1>5, <1>11, <1>12, TendsTwice

LEMMA AmoTends ==
  ASSUME NEW m, NEW checked, Sound(checked.m), NEW h \in Harts, Tends(m, checked.m),
         Fits(checked.m.harts[h]), NEW va \in Nat, NEW size \in {1, 2}, NEW word \in Words
  PROVE  Tends(m, Amo(checked, h, va, size, word))
<1> DEFINE read == Access(checked.m, h, va, "Load", size, Data(0))
           store == Access(read.m, h, va, "Store", size, word)
<1>1. Amo(checked, h, va, size, word) \in {checked.m, read.m, store.m}
  BY DEF Amo, Update
<1>2. Outcome(checked.m, read, h) /\ Tends(checked.m, read.m)
  BY NoData, AccessIs, AccessTends DEF Accesses
<1> HIDE DEF read
<1>3. Sound(read.m) /\ Fits(read.m.harts[h]) /\ Tends(m, read.m)
  BY <1>2, TendsTwice, TendsFits DEF Outcome, Flows
<1>4. Tends(read.m, store.m)
  BY <1>3, AccessTends DEF Accesses
<1> HIDE DEF store
<1> QED BY <1>1, <1>3, <1>4, TendsTwice

LEMMA ReservedTends ==
  ASSUME NEW read, Sound(read.m), NEW h \in Harts, NEW va \in Nat, NEW size \in {1, 2},
         read.pa \in Units
  PROVE  Tends(read.m, Reserved(read, h, va, size))
<1> DEFINE m == read.m
           r == m.harts[h]
           value == m.mem[read.pa]
           v == [r.resv EXCEPT !.valid = TRUE, !.va = va, !.size = size, !.value = value]
           s == [r EXCEPT !.sc = "", !.resv = v]
<1>1. r \in HartState
  BY DEF Sound, MachineState
<1>2. value \in Words
  BY DEF Sound, MachineState
<1>3. Reserved(read, h, va, size) = Put(m, h, s)
  BY DEF Reserved, Put, Sound, MachineState
<1>4. r.resv \in Reservation
  BY <1>1, ReservationTyped
<1>5. r = m.harts[h] /\ Sound(m)
  OBVIOUS
<1> HIDE DEF value, r, m
<1>6. v \in Reservation
  BY <1>2, <1>4 DEF Reservation
<1> HIDE DEF v
<1>7. s \in HartState /\ SameMode(r, s) /\ s.l2 = r.l2 /\ Fewer(r, s)
  BY <1>1, <1>6 DEF HartState, SameMode, Fewer
<1> HIDE DEF s
<1>8. Tame(m.harts[h], s)
  BY <1>5, <1>7, FewerTame
<1> QED BY <1>3, <1>5, <1>7, <1>8, PutTends DEF m

LEMMA PlacingTends ==
  ASSUME NEW m, Sound(m), NEW h \in Harts, NEW pa \in Nat
  PROVE  Tends(m, Placing(m, h, pa))
<1> DEFINE r == m.harts[h]
           v == [r.resv EXCEPT !.pa = pa]
           s == [r EXCEPT !.resv = v]
<1>1. r \in HartState
  BY DEF Sound, MachineState
<1>2. Placing(m, h, pa) = Put(m, h, s)
  BY DEF Placing, Put, Sound, MachineState
<1>3. r.resv \in Reservation
  BY <1>1, ReservationTyped
<1>4. r = m.harts[h]
  OBVIOUS
<1> HIDE DEF r
<1>5. v \in Reservation
  BY <1>3 DEF Reservation
<1> HIDE DEF v
<1>6. s \in HartState /\ SameMode(r, s) /\ s.l2 = r.l2 /\ Fewer(r, s)
  BY <1>1, <1>5 DEF HartState, SameMode, Fewer
<1> HIDE DEF s
<1>7. Tame(m.harts[h], s)
  BY <1>4, <1>6, FewerTame
<1> QED BY <1>2, <1>6, <1>7, PutTends

LEMMA EvictedTame ==
  ASSUME NEW r \in HartState, NEW page
  PROVE  Tame(r, Evicted(r, page))
<1> DEFINE o == [e \in DOMAIN r.store |-> IF r.store[e].page = page THEN NoEntry ELSE r.store[e]]
           s == [r EXCEPT !.store = o]
<1>1. r.store \in [Entries(DTLB_N) -> L1Entry]
  BY DEF HartState
<1>2. \A e \in Entries(DTLB_N) : o[e] \in {r.store[e], NoEntry}
  BY <1>1
<1>3. Evicted(r, page) = s
  BY DEF Evicted
<1> HIDE DEF o
<1>4. SameMode(r, s) /\ s.l2 = r.l2 /\ Fewer(r, s)
  BY <1>2 DEF HartState, SameMode, Fewer
<1> HIDE DEF s
<1> QED BY <1>3, <1>4, FewerTame

LEMMA EvictAllTends ==
  ASSUME NEW m, Sound(m), NEW page
  PROVE  Tends(m, EvictAll(m, page))
<1> DEFINE hs == [i \in Harts |-> Evicted(m.harts[i], page)]
           k == EvictAll(m, page)
<1>1. k = [m EXCEPT !.harts = hs]
  BY DEF EvictAll
<1>2. \A i \in Harts : Tame(m.harts[i], Evicted(m.harts[i], page))
  BY EvictedTame DEF Sound, MachineState
<1>3. \A i \in Harts : hs[i] = Evicted(m.harts[i], page)
  OBVIOUS
<1> HIDE DEF hs, k
<1>4. k.harts = hs
  BY <1>1 DEF Sound, MachineState
<1> QED BY <1>2, <1>3, <1>4 DEF Tends, k

LEMMA LoadReservedTends ==
  ASSUME NEW m, Sound(m), NEW h \in Harts, Fits(m.harts[h]), NEW va \in Nat, NEW size \in {1, 2}
  PROVE  Tends(m, LoadReserved(AtomicDram(m, h, va, size, "Load"), h, va, size))
<1> DEFINE checked == AtomicDram(m, h, va, size, "Load")
           k == LoadReserved(checked, h, va, size)
<1> SUFFICES Tends(m, k)
  OBVIOUS
<1>1. Tends(m, checked.m)
  BY AtomicDramTends DEF Accesses
<1>2. CASE checked.fault
  <2> HIDE DEF checked
  <2>1. k = checked.m
    BY <1>2 DEF LoadReserved
  <2> HIDE DEF k
  <2> QED BY <1>1, <2>1
<1>3. CASE ~checked.fault
  <2> DEFINE t == LrFirst(m, h, va, size)
             read == LrRead(m, h, va, size)
             n == LrNoted(m, h, va, size)
             last == LrAgain(m, h, va, size)
             x == last.m
             y == Placing(x, h, t.pa)
  <2>1. /\ checked = t /\ Outcome(m, t, h) /\ t.pa \in Units /\ read.pa = t.pa
        /\ Sound(read.m) /\ Sound(n) /\ ~last.fault /\ last.pa = t.pa /\ OnlyLoads(n, x, h)
    BY <1>3, LrReads
  <2>2. k = Reserve(last, h)
    BY <1>3, <2>1 DEF LoadReserved, LrRead, LrNoted, LrAgain
  <2>3. /\ read = Access(t.m, h, va, "Load", size, Data(0)) /\ n = Reserved(read, h, va, size)
        /\ last = Translate(n, h, va, "Load", size)
    BY DEF LrRead, LrNoted, LrAgain
  <2> HIDE DEF k, t, read, n, last, checked
  <2>4. t.pa \in Nat /\ Sound(t.m) /\ Tends(m, t.m) /\ Fits(t.m.harts[h])
    BY <1>1, <2>1, TendsFits DEF Outcome, Flows
  <2>5. Tends(t.m, read.m) /\ Fits(read.m.harts[h])
    <3>1. Tends(t.m, read.m)
      BY <2>3, <2>4, NoData, AccessTends DEF Accesses
    <3> QED BY <2>4, <3>1, TendsFits
  <2>6. Tends(read.m, n) /\ Fits(n.harts[h])
    <3>1. Tends(read.m, n)
      BY <2>1, <2>3, ReservedTends
    <3> QED BY <2>5, <3>1, TendsFits
  <2>7. Tends(n, x)
    BY <2>1, <2>3, <2>6, TranslateTends DEF Accesses
  <2>8. Sound(x)
    BY <2>1, OnlyLoadsSound
  <2>9. Tends(m, x)
    BY <2>4, <2>5, <2>6, <2>7, TendsTwice
  <2> HIDE DEF x
  <2>10. k = IF NumHarts = 1 THEN x ELSE EvictAll(y, PageOf(t.pa))
    BY <2>1, <2>2 DEF Reserve, x, Placing
  <2>11. Sound(y) /\ Tends(x, y)
    BY <2>4, <2>8, PlacingIs, PlacingTends
  <2> HIDE DEF y
  <2>12. Tends(y, EvictAll(y, PageOf(t.pa)))
    BY <2>11, EvictAllTends
  <2> QED BY <2>9, <2>10, <2>11, <2>12, TendsTwice
<1> QED BY <1>2, <1>3

-----------------------------------------------------------------------------
(* ... through fetches, which keep for one instruction an entry for a page   *)
(* that they may have in part                                                *)

Drifts(m, n, h) ==
  /\ Fits(m.harts[h]) => Fits(n.harts[h])
  /\ \A i \in Harts \ {h} : Tame(m.harts[i], n.harts[i])

LEMMA TendsDrifts ==
  ASSUME NEW m, NEW n, NEW h \in Harts, Tends(m, n)
  PROVE  Drifts(m, n, h)
BY DEF Tends, Tame, Drifts

LEMMA DriftsTwice ==
  ASSUME NEW m, NEW n, NEW k, NEW h \in Harts, Drifts(m, n, h), Drifts(n, k, h)
  PROVE  Drifts(m, k, h)
<1>1. \A i \in Harts \ {h} : Tame(m.harts[i], k.harts[i])
  BY TameTwice DEF Drifts
<1> QED BY <1>1 DEF Drifts

LEMMA DriftsEnough ==
  ASSUME NEW m, NEW n, NEW h \in Harts, Drifts(m, n, h), ItlbFits(n.harts[h])
  PROVE  Tends(m, n)
BY DEF Drifts, Tends, Tame

\* m with the entry as the hart's in its instruction TLB.
WithItlb(m, h, entry) == [m EXCEPT !.harts[h].itlb = entry]

LEMMA ItlbTends ==
  ASSUME NEW m, Sound(m), NEW h \in Harts, NEW entry \in L1Entry,
         NEW n, n = WithItlb(m, h, entry)
  PROVE  /\ Drifts(m, n, h) /\ Sound(n) /\ n.harts[h].itlb = entry
         /\ n.harts[h].segs = m.harts[h].segs /\ n.harts[h].priv = m.harts[h].priv
         /\ entry = NoEntry => Tends(m, n) /\ ItlbFits(n.harts[h])
<1> DEFINE r == m.harts[h]
           s == [r EXCEPT !.itlb = entry]
<1>1. r \in HartState /\ m \in MachineState
  BY DEF Sound, MachineState
<1>2. n = Put(m, h, s)
  BY DEF Put, Sound, MachineState, WithItlb
<1>3. Sound(n)
  BY ItlbFlows DEF Flows, WithItlb
<1>4. r = m.harts[h]
  OBVIOUS
<1> HIDE DEF r
<1>5. /\ s \in HartState /\ SameMode(r, s) /\ s.l2 = r.l2 /\ s.itlb = entry
      /\ s.load = r.load /\ s.store = r.store
  BY <1>1 DEF HartState, SameMode
<1> HIDE DEF s
<1>6. Own1(m, n, h) /\ n.harts[h] = s
  BY <1>1, <1>2, <1>5, PutIs
<1>7. Fits(r) => Fits(s)
  <2>1. Fits(r) => L2Fits(s)
    BY <1>5, SameSegsDecide DEF Fits, L2Fits, SameMode
  <2>2. ASSUME Fits(r), NEW e \in Entries(DTLB_N)
        PROVE  EntryFits(s, s.load[e], "Load") /\ EntryFits(s, s.store[e], "Store")
    <3>1. EntryFits(r, r.load[e], "Load") /\ EntryFits(r, r.store[e], "Store")
      BY <2>2 DEF Fits
    <3>2. EntryFits(s, r.load[e], "Load") /\ EntryFits(s, r.store[e], "Store")
      BY <1>5, <3>1, SameModeFits
    <3> QED BY <1>5, <3>2
  <2> QED BY <2>1, <2>2 DEF Fits
<1>8. Drifts(m, n, h)
  BY <1>4, <1>6, <1>7, TameItself DEF Drifts, Own1
<1>9. entry = NoEntry => ItlbFits(n.harts[h])
  BY <1>5, <1>6 DEF ItlbFits, NoEntry
<1>10. entry = NoEntry => Tends(m, n)
  BY <1>8, <1>9, DriftsEnough
<1>11. n.harts[h].itlb = entry /\ n.harts[h].segs = r.segs /\ n.harts[h].priv = r.priv
  BY <1>5, <1>6 DEF SameMode
<1> QED BY <1>3, <1>4, <1>8, <1>9, <1>10, <1>11

LEMMA FetchPageTends ==
  ASSUME NEW m, Sound(m), NEW h \in Harts, Fits(m.harts[h]), NEW va \in Nat, NEW wide \in BOOLEAN
  PROVE  LET r == FetchPage(m, h, va, wide)
         IN  Drifts(m, r.m, h) /\ (r.fault \/ r.pageOk => Tends(m, r.m))
<1> DEFINE t == Translate(m, h, va, "Fetch", 1)
           entry == [vpn |-> PageOf(va), page |-> PageOf(t.pa)]
           n == [t.m EXCEPT !.harts[h].itlb = NoEntry]
           k == [t.m EXCEPT !.harts[h].itlb = entry]
           r == FetchPage(m, h, va, wide)
<1> SUFFICES Drifts(m, r.m, h) /\ (r.fault \/ r.pageOk => Tends(m, r.m))
  OBVIOUS
<1>1. Outcome(m, t, h) /\ Tends(m, t.m) /\ FetchOk(t, h)
  BY TranslateIs, TranslateTends DEF Accesses
<1>2. r = FillItlb(t, h, va, wide)
  BY DEF FetchPage
<1> HIDE DEF t, r
<1>3. Sound(t.m) /\ Drifts(m, t.m, h)
  BY <1>1, TendsDrifts DEF Outcome, Flows
<1>4. \/ r = t /\ t.fault
      \/ r = Fault(n, h)
      \/ PageOf(t.pa) \in DramPageSet /\ ~t.fault /\ r = With(t, k)
  BY <1>1, <1>2 DEF FillItlb, Executable, With, Outcome
<1>5. CASE r = t /\ t.fault
  BY <1>1, <1>3, <1>5
<1>6. CASE r = Fault(n, h)
  <2>1. Sound(n) /\ Tends(t.m, n)
    <3>1. n = WithItlb(t.m, h, NoEntry)
      BY DEF WithItlb
    <3> HIDE DEF n
    <3> QED BY <1>3, <3>1, EntriesTyped, ItlbTends
  <2> HIDE DEF n
  <2>2. Tends(n, r.m)
    BY <1>6, <2>1, FaultTends
  <2>3. Tends(m, r.m)
    BY <1>1, <2>1, <2>2, TendsTwice
  <2> QED BY <2>3, TendsDrifts
<1>7. CASE PageOf(t.pa) \in DramPageSet /\ ~t.fault /\ r = With(t, k)
  <2>1. entry \in L1Entry /\ entry.page = PageOf(t.pa)
    BY <1>7, PageOfTyped DEF L1Entry
  <2>2. r.m = k /\ r.pageOk = t.pageOk /\ r.fault = FALSE
    <3> HIDE DEF k
    <3> QED BY <1>1, <1>7 DEF With, Outcome
  <2> HIDE DEF entry
  <2>3. /\ Drifts(t.m, k, h) /\ k.harts[h].itlb = entry
        /\ k.harts[h].segs = t.m.harts[h].segs /\ k.harts[h].priv = t.m.harts[h].priv
    <3>1. k = WithItlb(t.m, h, entry)
      BY DEF WithItlb
    <3> HIDE DEF k
    <3> QED BY <1>3, <2>1, <3>1, ItlbTends
  <2> HIDE DEF k
  <2>4. Drifts(m, k, h)
    BY <1>3, <2>3, DriftsTwice
  <2>5. ASSUME t.pageOk
        PROVE  ItlbFits(k.harts[h])
    <3>1. PageOk(t.m.harts[h], entry.page, "Fetch", t.m.harts[h].priv)
      BY <1>1, <1>7, <2>1, <2>5 DEF FetchOk
    <3>2. PageOk(k.harts[h], entry.page, "Fetch", t.m.harts[h].priv)
      BY <2>3, <3>1, SameSegsDecide
    <3> QED BY <2>3, <3>2 DEF ItlbFits
  <2>6. t.pageOk => Tends(m, k)
    BY <2>4, <2>5, DriftsEnough
  <2> QED BY <2>2, <2>4, <2>6
<1> QED BY <1>4, <1>5, <1>6, <1>7

LEMMA FetchTends ==
  ASSUME NEW m, Sound(m), NEW h \in Harts, Fits(m.harts[h]), NEW va \in Nat, NEW wide \in BOOLEAN
  PROVE  Tends(m, FetchAt(m, h, va, wide))
<1> DEFINE first == IF m.harts[h].itlb.vpn = PageOf(va) THEN Result(m, 0, TRUE) ELSE FetchPage(m, h, va, wide)
           last == Crossed(first, h, va, wide)
           once == ~first.pageOk \/ (~last.fault /\ ~last.pageOk)
           n == [last.m EXCEPT !.harts[h].itlb = NoEntry]
           f == FetchAt(m, h, va, wide)
<1>1. Drifts(m, first.m, h) /\ (first.fault \/ first.pageOk => Tends(m, first.m))
  <2>1. CASE m.harts[h].itlb.vpn = PageOf(va)
    <3>1. first.m = m
      BY <2>1 DEF Result
    <3> HIDE DEF first
    <3> QED BY <3>1, TendsItself, TendsDrifts
  <2>2. CASE m.harts[h].itlb.vpn # PageOf(va)
    BY <2>2, FetchPageTends
  <2> QED BY <2>1, <2>2
<1>2. Sound(first.m)
  <2>1. Outcome(m, Result(m, 0, TRUE), h)
    BY FlowsItself DEF Outcome, Result
  <2>2. Outcome(m, first, h)
    BY <2>1, FetchPageIs
  <2> HIDE DEF first
  <2> QED BY <2>2 DEF Outcome, Flows
<1>3. f = Finish(first, last, h)
  BY DEF FetchAt, FetchFrom
<1> HIDE DEF first, f
<1> DEFINE next == FetchPage(first.m, h, va + 1, FALSE)
<1>4. last \in {first, next} /\ f = IF first.fault THEN first.m ELSE IF once THEN n ELSE last.m
  BY <1>3 DEF Crossed, Finish, OnceOnly
<1>5. Fits(first.m.harts[h])
  BY <1>1 DEF Drifts
<1>6. Drifts(first.m, next.m, h) /\ (next.fault \/ next.pageOk => Tends(first.m, next.m)) /\ Sound(next.m)
  <2>1. va + 1 \in Nat /\ FALSE \in BOOLEAN
    OBVIOUS
  <2>2. Outcome(first.m, next, h)
    BY <1>2, <2>1, FetchPageIs
  <2>3. Sound(next.m)
    <3> HIDE DEF next
    <3> QED BY <2>2 DEF Outcome, Flows
  <2> QED BY <1>2, <1>5, <2>1, <2>3, FetchPageTends
<1> HIDE DEF next, last
<1>7. Sound(last.m) /\ Drifts(m, last.m, h)
  BY <1>1, <1>2, <1>4, <1>6, DriftsTwice
<1>8. Tends(last.m, n) /\ ItlbFits(n.harts[h])
  <2>1. n = WithItlb(last.m, h, NoEntry)
    BY DEF WithItlb
  <2> HIDE DEF n
  <2> QED BY <1>7, <2>1, EntriesTyped, ItlbTends
<1> HIDE DEF n
<1>9. Tends(m, n)
  BY <1>7, <1>8, TendsDrifts, DriftsTwice, DriftsEnough
<1>10. CASE first.fault
  BY <1>1, <1>4, <1>10 DEF f
<1>11. CASE ~first.fault /\ once
  BY <1>4, <1>9, <1>11 DEF f
<1>12. CASE ~first.fault /\ ~once
  <2>1. f = last.m /\ Tends(m, first.m) /\ (last.fault \/ last.pageOk)
    BY <1>1, <1>4, <1>12
  <2>2. Tends(m, last.m)
    BY <1>4, <1>6, <2>1, TendsTwice
  <2> QED BY <2>1, <2>2 DEF f
<1> QED BY <1>10, <1>11, <1>12

-----------------------------------------------------------------------------
(* The steps                                                                *)

\* The inductive invariant: types, flattened rules, and of reservations that each lies
\* in one page of memory which no hart has a store entry for.
Safe(m) == Sound(m) /\ Guarded(m) /\ AllPlaced(m)
MemoryInv == Safe(Machine) /\ program \in DOMAIN Programs /\ at \in [Harts -> Nat \ {0}]

LEMMA MachineIs ==
  Machine.harts = harts /\ Machine.mem = mem /\ Machine.ended = ended
BY DEF Machine

LEMMA OperandIs ==
  ASSUME program \in DOMAIN Programs, at \in [Harts -> Nat \ {0}], NEW h \in Harts, Ready(h),
         NEW op, NEW o \in Can(h, op)
  PROVE  WellFormed(o) /\ o.op = op
<1>1. at[h] \in 1..Len(Programs[program][h])
  BY DEF Ready
<1>2. o \in Programs[program][h][at[h]] /\ o.op = op
  BY DEF Can
<1> QED BY <1>1, <1>2, GuestAssumption

LEMMA FlowsEnough ==
  ASSUME Safe(Machine), NEW h \in Harts, NEW n, Flows(Machine, n, h)
  PROVE  Safe(n) /\ \A i \in Harts \ {h} : Holds(Machine, n, i)
BY FlowsSafe DEF Safe

LEMMA OwnEnough ==
  ASSUME Safe(Machine), NEW h \in Harts, NEW s, Kept(harts[h], s)
  PROVE  Safe(Put(Machine, h, s)) /\ \A i \in Harts \ {h} : Holds(Machine, Put(Machine, h, s), i)
<1>1. Sound(Machine) /\ Machine.harts[h] = harts[h]
  BY MachineIs DEF Safe
<1>2. Flows(Machine, Put(Machine, h, s), h)
  BY <1>1, PutFlows
<1> QED BY <1>2, FlowsEnough

\* What a step leads to is safe, and holds what the other harts reserve.
Leads(h) ==
  \E n : Become(h, n) /\ Safe(n) /\ \A i \in Harts \ {h} : Holds(Machine, n, i)

LEMMA LoadLeads ==
  ASSUME MemoryInv, NEW h \in Harts, Ready(h), Load(h)
  PROVE  Leads(h)
<1>1. PICK o \in Can(h, "load") : Become(h, MemRd(Machine, h, o.va, o.size))
  BY DEF Load
<1>2. o.va \in Nat /\ o.size \in {1, 2}
  BY OperandIs DEF MemoryInv, WellFormed
<1>3. Flows(Machine, MemRd(Machine, h, o.va, o.size), h)
  BY <1>2, MemRdFlows DEF MemoryInv, Safe
<1> QED BY <1>1, <1>3, FlowsEnough DEF MemoryInv, Leads

LEMMA StoreLeads ==
  ASSUME MemoryInv, NEW h \in Harts, Ready(h), Store(h)
  PROVE  Leads(h)
<1>1. PICK o \in Can(h, "store") : Become(h, MemWr(Machine, h, o.va, o.size, o.word))
  BY DEF Store
<1>2. o.va \in Nat /\ o.size \in {1, 2} /\ o.word \in Words
  BY OperandIs DEF MemoryInv, WellFormed
<1>3. Flows(Machine, MemWr(Machine, h, o.va, o.size, o.word), h)
  BY <1>2, MemWrFlows DEF MemoryInv, Safe
<1> QED BY <1>1, <1>3, FlowsEnough DEF MemoryInv, Leads

LEMMA LrLeads ==
  ASSUME MemoryInv, NEW h \in Harts, Ready(h), Lr(h)
  PROVE  Leads(h) /\ ended' = ended
<1>1. PICK o \in Can(h, "lr") :
        Become(h, LoadReserved(AtomicDram(Machine, h, o.va, o.size, "Load"), h, o.va, o.size))
  BY DEF Lr
<1>2. o.va \in Nat /\ o.size \in {1, 2}
  BY OperandIs DEF MemoryInv, WellFormed
<1> DEFINE k == LoadReserved(AtomicDram(Machine, h, o.va, o.size, "Load"), h, o.va, o.size)
<1>3. /\ Sound(k) /\ Guarded(k) /\ AllPlaced(k) /\ k.ended = Machine.ended
      /\ \A i \in Harts \ {h} : Holds(Machine, k, i)
  BY <1>2, LrSteps DEF MemoryInv, Safe
<1>4. Become(h, k)
  BY <1>1
<1> HIDE DEF k
<1>5. ended' = ended
  BY <1>3, <1>4, MachineIs DEF Become
<1> QED BY <1>3, <1>4, <1>5 DEF Leads, Safe

LEMMA ScLeads ==
  ASSUME MemoryInv, NEW h \in Harts, Ready(h), Sc(h)
  PROVE  Leads(h)
<1>1. PICK o \in Can(h, "sc") :
        Become(h, StoreConditional(AtomicDram(Machine, h, o.va, o.size, "Store"), h, o.va, o.size, o.word))
  BY DEF Sc
<1>2. o.va \in Nat /\ o.size \in {1, 2} /\ o.word \in Words
  BY OperandIs DEF MemoryInv, WellFormed
<1>3. Outcome(Machine, AtomicDram(Machine, h, o.va, o.size, "Store"), h)
  BY <1>2, AtomicDramIs DEF MemoryInv, Safe, Accesses
<1>4. Flows(Machine, StoreConditional(AtomicDram(Machine, h, o.va, o.size, "Store"), h, o.va, o.size, o.word), h)
  BY <1>2, <1>3, StoreConditionalFlows DEF MemoryInv, Safe
<1> QED BY <1>1, <1>4, FlowsEnough DEF MemoryInv, Leads

LEMMA AmoLeads ==
  ASSUME MemoryInv, NEW h \in Harts, Ready(h), AmoSwap(h)
  PROVE  Leads(h)
<1>1. PICK o \in Can(h, "amo") :
        Become(h, Amo(AtomicDram(Machine, h, o.va, o.size, "Store"), h, o.va, o.size, o.word))
  BY DEF AmoSwap
<1>2. o.va \in Nat /\ o.size \in {1, 2} /\ o.word \in Words
  BY OperandIs DEF MemoryInv, WellFormed
<1>3. Outcome(Machine, AtomicDram(Machine, h, o.va, o.size, "Store"), h)
  BY <1>2, AtomicDramIs DEF MemoryInv, Safe, Accesses
<1>4. Flows(Machine, Amo(AtomicDram(Machine, h, o.va, o.size, "Store"), h, o.va, o.size, o.word), h)
  BY <1>2, <1>3, AmoFlows DEF MemoryInv, Safe
<1> QED BY <1>1, <1>4, FlowsEnough DEF MemoryInv, Leads

LEMMA FetchLeads ==
  ASSUME MemoryInv, NEW h \in Harts, Ready(h), Fetch(h)
  PROVE  Leads(h)
<1>1. PICK o \in Can(h, "fetch") : Become(h, FetchAt(Machine, h, o.va, o.wide))
  BY DEF Fetch
<1>2. o.va \in Nat /\ o.wide \in BOOLEAN
  BY OperandIs DEF MemoryInv, WellFormed
<1>3. Flows(Machine, FetchAt(Machine, h, o.va, o.wide), h)
  BY <1>2, FetchFlows DEF MemoryInv, Safe
<1> QED BY <1>1, <1>3, FlowsEnough DEF MemoryInv, Leads

\* A step of the hart on its own state.
LEMMA OwnLeads ==
  ASSUME MemoryInv, NEW h \in Harts, NEW s, Own(h, s), Kept(harts[h], s)
  PROVE  Leads(h)
<1>1. Become(h, Put(Machine, h, s))
  BY DEF Own, Put
<1>2. Safe(Put(Machine, h, s)) /\ \A i \in Harts \ {h} : Holds(Machine, Put(Machine, h, s), i)
  BY OwnEnough DEF MemoryInv
<1> QED BY <1>1, <1>2 DEF Leads

LEMMA HartTyped ==
  ASSUME MemoryInv, NEW h \in Harts
  PROVE  harts[h] \in HartState /\ Flattened(harts[h])
BY DEF MemoryInv, Safe, Sound, Machine, MachineState

LEMMA StepLeads ==
  ASSUME MemoryInv, NEW h \in Harts, Step(h)
  PROVE  Leads(h)
<1>1. Ready(h)
  BY DEF Step
<1>2. harts[h] \in HartState /\ Flattened(harts[h])
  BY HartTyped
<1>3. program \in DOMAIN Programs /\ at \in [Harts -> Nat \ {0}]
  BY DEF MemoryInv
<1>4. CASE Load(h)
  BY <1>1, <1>4, LoadLeads
<1>5. CASE Store(h)
  BY <1>1, <1>5, StoreLeads
<1>6. CASE Lr(h)
  BY <1>1, <1>6, LrLeads
<1>7. CASE Sc(h)
  BY <1>1, <1>7, ScLeads
<1>8. CASE AmoSwap(h)
  BY <1>1, <1>8, AmoLeads
<1>9. CASE Fetch(h)
  BY <1>1, <1>9, FetchLeads
<1>10. CASE Sfence(h)
  BY <1>2, <1>10, SfenceKeeps, OwnLeads DEF Sfence
<1>11. CASE Satp(h)
  <2>1. PICK o \in Can(h, "satp") : Own(h, WriteSatp(harts[h], o.root))
    BY <1>11 DEF Satp
  <2>2. o.root \in Nat \cup {None}
    BY <1>1, <1>3, OperandIs DEF WellFormed
  <2> QED BY <1>2, <2>1, <2>2, SatpKeeps, OwnLeads
<1>12. CASE Mstatus(h)
  <2>1. PICK o \in Can(h, "mstatus") : Own(h, WriteMstatus(harts[h], o.s))
    BY <1>12 DEF Mstatus
  <2>2. o.s \in Status
    BY <1>1, <1>3, OperandIs DEF WellFormed
  <2> QED BY <1>2, <2>1, <2>2, MstatusKeeps, OwnLeads
<1>13. CASE PmpCfg(h)
  <2>1. PICK o \in Can(h, "pmpcfg") : Own(h, WritePmpCfg(harts[h], o.cfg))
    BY <1>13 DEF PmpCfg
  <2>2. o.cfg \in [1..PmpN -> PmpEntry]
    BY <1>1, <1>3, OperandIs DEF WellFormed
  <2> QED BY <1>2, <2>1, <2>2, PmpCfgKeeps, OwnLeads
<1>14. CASE PmpAddr(h)
  <2>1. PICK o \in Can(h, "pmpaddr") : Own(h, WritePmpAddr(harts[h], o.i, o.addr))
    BY <1>14 DEF PmpAddr
  <2>2. o.i \in 1..PmpN /\ o.addr \in Nat
    BY <1>1, <1>3, OperandIs DEF WellFormed
  <2> QED BY <1>2, <2>1, <2>2, PmpAddrKeeps, OwnLeads
<1>15. CASE Xret(h)
  <2>1. PICK o \in Can(h, "xret") : Own(h, Returned(harts[h], o.from))
    BY <1>15 DEF Xret
  <2> QED BY <1>2, <2>1, ReturnedKeeps, OwnLeads
<1>16. CASE Trap(h)
  BY <1>2, <1>16, TrappedKeeps, OwnLeads DEF Trap
<1> QED BY <1>4, <1>5, <1>6, <1>7, <1>8, <1>9, <1>10, <1>11, <1>12, <1>13, <1>14, <1>15, <1>16 DEF Step

LEMMA BecomeSafe ==
  ASSUME MemoryInv, NEW h \in Harts, NEW n, Become(h, n), Safe(n)
  PROVE  MemoryInv'
<1>1. n = [harts |-> n.harts, mem |-> n.mem, ended |-> n.ended]
  BY DEF Safe, Sound, MachineState
<1>2. harts' = n.harts /\ mem' = n.mem /\ ended' = n.ended /\ program' = program
      /\ at' = [at EXCEPT ![h] = @ + 1]
  BY DEF Become
<1>3. Machine' = n
  BY <1>1, <1>2 DEF Machine
<1>4. Safe(Machine')
  BY <1>3
<1>5. at' \in [Harts -> Nat \ {0}] /\ program' \in DOMAIN Programs
  BY <1>2 DEF MemoryInv
<1> QED BY <1>4, <1>5 DEF MemoryInv


LEMMA ResetUpdates ==
  ASSUME NEW deleg \in BOOLEAN
  PROVE  \E r \in HartState : ~r.resv.valid /\ Reset(deleg) = PmpUpdate(r)
<1> DEFINE v == [valid |-> FALSE, va |-> 0, pa |-> 0, size |-> 1, value |-> Data(0)]
           cfg == [i \in 1..PmpN |-> OneEntry]
           addr == [i \in 1..PmpN |-> 0]
           r == [priv |-> "M", mprv |-> FALSE, mpp |-> "U", spp |-> "U", sum |-> FALSE,
                 mxr |-> FALSE, root |-> None, deleg |-> deleg, sc |-> "",
                 cfg |-> cfg, addr |-> addr,
                 segs |-> {}, nrules |-> 0, mFast |-> TRUE, itlb |-> NoEntry,
                 load |-> NoEntries, store |-> NoEntries, l2 |-> NoL2Entries, resv |-> v]
<1>1. v \in Reservation /\ v.valid = FALSE
  BY DEF Reservation, Data, Word, Words
<1>2. cfg \in [1..PmpN -> PmpEntry] /\ addr \in [1..PmpN -> Nat]
  BY DEF OneEntry, PmpEntry
<1>3. Reset(deleg) = PmpUpdate(r)
  BY DEF Reset
<1> HIDE DEF v, cfg, addr
<1>4. r \in HartState /\ r.resv = v
  BY <1>1, <1>2, EntriesTyped DEF HartState, Privs
<1> HIDE DEF r
<1> QED BY <1>1, <1>3, <1>4

LEMMA ResetIs ==
  ASSUME NEW deleg \in BOOLEAN
  PROVE  Reset(deleg) \in HartState /\ Flattened(Reset(deleg)) /\ ~Reset(deleg).resv.valid
<1>1. PICK r \in HartState : ~r.resv.valid /\ Reset(deleg) = PmpUpdate(r)
  BY ResetUpdates
<1>2. Kept(r, PmpUpdate(r)) /\ Flattened(PmpUpdate(r))
  BY PmpUpdateKeeps
<1> QED BY <1>1, <1>2 DEF Kept

LEMMA InitSafe ==
  Init => MemoryInv
<1> SUFFICES ASSUME Init PROVE MemoryInv
  OBVIOUS
<1>1. PICK deleg \in Delegations : harts = [h \in Harts |-> Reset(deleg)]
  BY DEF Init
<1>2. \A i \in Harts : harts[i] \in HartState /\ Flattened(harts[i]) /\ ~harts[i].resv.valid
  BY <1>1, ResetIs, ShapeAssumption
<1>3. harts \in [Harts -> HartState]
  BY <1>1, <1>2
<1>4. mem \in [Units -> Words] /\ ended \in BOOLEAN
  BY GuestAssumption DEF Init
<1>5. Sound(Machine)
  BY <1>2, <1>3, <1>4 DEF Sound, Machine, MachineState
<1>6. Guarded(Machine) /\ AllPlaced(Machine)
  BY <1>2, MachineIs DEF Guarded, AllPlaced, Clash, Placed
<1>7. program \in DOMAIN Programs /\ at \in [Harts -> Nat \ {0}]
  BY DEF Init
<1> QED BY <1>5, <1>6, <1>7 DEF MemoryInv, Safe

LEMMA NextSafe ==
  MemoryInv /\ [Next]_vars => MemoryInv'
<1> SUFFICES ASSUME MemoryInv, [Next]_vars PROVE MemoryInv'
  OBVIOUS
<1>1. CASE Next
  <2>1. PICK h \in Harts : Step(h)
    BY <1>1 DEF Next
  <2>2. Leads(h)
    BY <2>1, StepLeads
  <2> QED BY <2>2, BecomeSafe DEF Leads
<1>2. CASE UNCHANGED vars
  BY <1>2 DEF vars, MemoryInv, Machine
<1> QED BY <1>1, <1>2

LEMMA AlwaysSafe ==
  Spec => []MemoryInv
BY InitSafe, NextSafe, PTL DEF Spec

\* With it, what the TLBs hold is what PMP allows.
CachesInv == MemoryInv /\ \A h \in Harts : Fits(harts[h]) /\ ItlbFits(harts[h])

TendsTo(h) == \E n : Become(h, n) /\ Tends(Machine, n)

LEMMA MachineFits ==
  ASSUME CachesInv, NEW h \in Harts
  PROVE  Sound(Machine) /\ Fits(Machine.harts[h])
BY MachineIs DEF CachesInv, MemoryInv, Safe

LEMMA OperandOf ==
  ASSUME CachesInv, NEW h \in Harts, Ready(h), NEW op, NEW o \in Can(h, op)
  PROVE  WellFormed(o) /\ o.op = op
BY OperandIs DEF CachesInv, MemoryInv

LEMMA PlainAccessTendsTo ==
  ASSUME CachesInv, NEW h \in Harts, Ready(h), Load(h) \/ Store(h) \/ Fetch(h)
  PROVE  TendsTo(h)
<1>1. CASE Load(h)
  <2>1. PICK o \in Can(h, "load") : Become(h, MemRd(Machine, h, o.va, o.size))
    BY <1>1 DEF Load
  <2>2. o.va \in Nat /\ o.size \in {1, 2}
    BY OperandOf DEF WellFormed
  <2> QED BY <2>1, <2>2, MachineFits, MemRdTends DEF TendsTo
<1>2. CASE Store(h)
  <2>1. PICK o \in Can(h, "store") : Become(h, MemWr(Machine, h, o.va, o.size, o.word))
    BY <1>2 DEF Store
  <2>2. o.va \in Nat /\ o.size \in {1, 2} /\ o.word \in Words
    BY OperandOf DEF WellFormed
  <2> QED BY <2>1, <2>2, MachineFits, MemWrTends DEF TendsTo
<1>3. CASE Fetch(h)
  <2>1. PICK o \in Can(h, "fetch") : Become(h, FetchAt(Machine, h, o.va, o.wide))
    BY <1>3 DEF Fetch
  <2>2. o.va \in Nat /\ o.wide \in BOOLEAN
    BY OperandOf DEF WellFormed
  <2> QED BY <2>1, <2>2, MachineFits, FetchTends DEF TendsTo
<1> QED BY <1>1, <1>2, <1>3

LEMMA AtomicTendsTo ==
  ASSUME CachesInv, NEW h \in Harts, Ready(h), Lr(h) \/ Sc(h) \/ AmoSwap(h)
  PROVE  TendsTo(h)
<1>1. ASSUME NEW va \in Nat, NEW size \in {1, 2}
      PROVE  LET checked == AtomicDram(Machine, h, va, size, "Store")
             IN  Tends(Machine, checked.m) /\ Sound(checked.m) /\ Fits(checked.m.harts[h])
  <2> DEFINE checked == AtomicDram(Machine, h, va, size, "Store")
  <2>1. Tends(Machine, checked.m) /\ Outcome(Machine, checked, h)
    BY MachineFits, AtomicDramTends, AtomicDramIs DEF Accesses
  <2> HIDE DEF checked
  <2>2. Sound(checked.m) /\ Fits(checked.m.harts[h])
    BY <2>1, MachineFits, TendsFits DEF Outcome, Flows
  <2> QED BY <2>1, <2>2 DEF checked
<1>2. CASE Lr(h)
  <2>1. PICK o \in Can(h, "lr") :
          Become(h, LoadReserved(AtomicDram(Machine, h, o.va, o.size, "Load"), h, o.va, o.size))
    BY <1>2 DEF Lr
  <2>2. o.va \in Nat /\ o.size \in {1, 2}
    BY OperandOf DEF WellFormed
  <2>3. Tends(Machine, LoadReserved(AtomicDram(Machine, h, o.va, o.size, "Load"), h, o.va, o.size))
    BY <2>2, MachineFits, LoadReservedTends
  <2> QED BY <2>1, <2>3 DEF TendsTo
<1>3. CASE Sc(h)
  <2>1. PICK o \in Can(h, "sc") :
          Become(h, StoreConditional(AtomicDram(Machine, h, o.va, o.size, "Store"), h, o.va, o.size, o.word))
    BY <1>3 DEF Sc
  <2>2. o.va \in Nat /\ o.size \in {1, 2} /\ o.word \in Words
    BY OperandOf DEF WellFormed
  <2>3. Tends(Machine, StoreConditional(AtomicDram(Machine, h, o.va, o.size, "Store"), h, o.va, o.size, o.word))
    BY <1>1, <2>2, StoreConditionalTends
  <2> QED BY <2>1, <2>3 DEF TendsTo
<1>4. CASE AmoSwap(h)
  <2>1. PICK o \in Can(h, "amo") :
          Become(h, Amo(AtomicDram(Machine, h, o.va, o.size, "Store"), h, o.va, o.size, o.word))
    BY <1>4 DEF AmoSwap
  <2>2. o.va \in Nat /\ o.size \in {1, 2} /\ o.word \in Words
    BY OperandOf DEF WellFormed
  <2>3. Tends(Machine, Amo(AtomicDram(Machine, h, o.va, o.size, "Store"), h, o.va, o.size, o.word))
    BY <1>1, <2>2, AmoTends
  <2> QED BY <2>1, <2>3 DEF TendsTo
<1> QED BY <1>2, <1>3, <1>4

LEMMA OwnTendsTo ==
  ASSUME CachesInv, NEW h \in Harts, NEW s, Own(h, s), Kept(harts[h], s), Tame(harts[h], s)
  PROVE  TendsTo(h)
<1>1. Become(h, Put(Machine, h, s))
  BY DEF Own, Put
<1>2. s \in HartState /\ Tame(Machine.harts[h], s)
  BY MachineIs DEF Kept
<1>3. Tends(Machine, Put(Machine, h, s))
  BY <1>2, MachineFits, PutTends
<1> QED BY <1>1, <1>3 DEF TendsTo

LEMMA StepTendsTo ==
  ASSUME CachesInv, NEW h \in Harts, Step(h)
  PROVE  TendsTo(h)
<1>1. Ready(h)
  BY DEF Step
<1>2. harts[h] \in HartState /\ Flattened(harts[h])
  BY HartTyped DEF CachesInv
<1>3. CASE Load(h) \/ Store(h) \/ Fetch(h)
  BY <1>1, <1>3, PlainAccessTendsTo
<1>4. CASE Lr(h) \/ Sc(h) \/ AmoSwap(h)
  BY <1>1, <1>4, AtomicTendsTo
<1>5. CASE Sfence(h)
  BY <1>2, <1>5, SfenceKeeps, SfenceTame, OwnTendsTo DEF Sfence
<1>6. CASE Satp(h)
  <2>1. PICK o \in Can(h, "satp") : Own(h, WriteSatp(harts[h], o.root))
    BY <1>6 DEF Satp
  <2>2. o.root \in Nat \cup {None}
    BY <1>1, OperandOf DEF WellFormed
  <2> QED BY <1>2, <2>1, <2>2, SatpKeeps, SatpTame, OwnTendsTo
<1>7. CASE Mstatus(h)
  <2>1. PICK o \in Can(h, "mstatus") : Own(h, WriteMstatus(harts[h], o.s))
    BY <1>7 DEF Mstatus
  <2>2. o.s \in Status
    BY <1>1, OperandOf DEF WellFormed
  <2> QED BY <1>2, <2>1, <2>2, MstatusKeeps, MstatusTame, OwnTendsTo
<1>8. CASE PmpCfg(h)
  <2>1. PICK o \in Can(h, "pmpcfg") : Own(h, WritePmpCfg(harts[h], o.cfg))
    BY <1>8 DEF PmpCfg
  <2>2. o.cfg \in [1..PmpN -> PmpEntry]
    BY <1>1, OperandOf DEF WellFormed
  <2> QED BY <1>2, <2>1, <2>2, PmpCfgKeeps, PmpCfgTame, OwnTendsTo
<1>9. CASE PmpAddr(h)
  <2>1. PICK o \in Can(h, "pmpaddr") : Own(h, WritePmpAddr(harts[h], o.i, o.addr))
    BY <1>9 DEF PmpAddr
  <2>2. o.i \in 1..PmpN /\ o.addr \in Nat
    BY <1>1, OperandOf DEF WellFormed
  <2> QED BY <1>2, <2>1, <2>2, PmpAddrKeeps, PmpAddrTame, OwnTendsTo
<1>10. CASE Xret(h)
  <2>1. PICK o \in Can(h, "xret") : Own(h, Returned(harts[h], o.from))
    BY <1>10 DEF Xret
  <2> QED BY <1>2, <2>1, ReturnedKeeps, ReturnedTame, OwnTendsTo
<1>11. CASE Trap(h)
  BY <1>2, <1>11, TrappedKeeps, TrappedTame, OwnTendsTo DEF Trap
<1> QED BY <1>3, <1>4, <1>5, <1>6, <1>7, <1>8, <1>9, <1>10, <1>11 DEF Step

LEMMA ResetFits ==
  ASSUME NEW deleg \in BOOLEAN
  PROVE  Fits(Reset(deleg)) /\ ItlbFits(Reset(deleg))
BY ResetUpdates, PmpUpdateFits

LEMMA InitFits ==
  Init => CachesInv
<1> SUFFICES ASSUME Init PROVE CachesInv
  OBVIOUS
<1>1. PICK deleg \in Delegations : harts = [h \in Harts |-> Reset(deleg)]
  BY DEF Init
<1>2. \A h \in Harts : Fits(harts[h]) /\ ItlbFits(harts[h])
  BY <1>1, ResetFits, ShapeAssumption
<1> QED BY <1>2, InitSafe DEF CachesInv

LEMMA NextFits ==
  CachesInv /\ [Next]_vars => CachesInv'
<1> SUFFICES ASSUME CachesInv, [Next]_vars PROVE CachesInv'
  OBVIOUS
<1>1. MemoryInv'
  BY NextSafe DEF CachesInv
<1>2. CASE Next
  <2>1. PICK h \in Harts : Step(h)
    BY <1>2 DEF Next
  <2>2. PICK n : Become(h, n) /\ Tends(Machine, n)
    BY <2>1, StepTendsTo DEF TendsTo
  <2>3. harts' = n.harts
    BY <2>2 DEF Become
  <2>4. ASSUME NEW i \in Harts
        PROVE  Fits(harts'[i]) /\ ItlbFits(harts'[i])
    <3>1. Fits(harts[i]) /\ ItlbFits(harts[i]) /\ Tame(harts[i], n.harts[i])
      BY <2>2, MachineIs DEF CachesInv, Tends
    <3> QED BY <2>3, <3>1 DEF Tame
  <2> QED BY <1>1, <2>4 DEF CachesInv
<1>3. CASE UNCHANGED vars
  BY <1>1, <1>3 DEF vars, CachesInv
<1> QED BY <1>2, <1>3

LEMMA AlwaysFits ==
  Spec => []CachesInv
BY InitFits, NextFits, PTL DEF Spec

-----------------------------------------------------------------------------
(* The theorems                                                             *)

LEMMA EndsCovered ==
  ASSUME NEW r \in HartState, Flattened(r), NEW a \in {0, Top}
  PROVE  \E s \in r.segs : /\ s.lo <= a /\ a <= s.last
                           /\ \A q \in r.segs : q.lo <= a /\ a <= q.last => q = s
<1> DEFINE rules == Rules(r.cfg, r.addr)
<1>1. rules \in RuleTable /\ r.segs = Segments(rules)
  BY RulesTyped DEF HartState, Flattened
<1> HIDE DEF rules
<1>2. a \in 0 .. Top /\ a \in Nat
  BY ShapeAssumption
<1>3. PICK b \in Starts(rules) : b <= a /\ a <= LastOf(rules, b)
  BY <1>1, <1>2, InSegment
<1> DEFINE s == SegmentFrom(rules, b)
<1>4. s \in r.segs /\ s.lo <= a /\ a <= s.last
  BY <1>1, <1>3 DEF Segments, SegmentFrom, SegmentOf
<1>5. ASSUME NEW q \in r.segs, q.lo <= a, a <= q.last
      PROVE  q = s
  <2>1. PICK c \in Starts(rules) : q = SegmentFrom(rules, c)
    BY <1>1, <1>5 DEF Segments, SegmentFrom
  <2>2. c <= a /\ a <= LastOf(rules, c)
    BY <1>5, <2>1 DEF SegmentFrom, SegmentOf
  <2> QED BY <1>1, <1>2, <1>3, <2>1, <2>2, OneSegment
<1> QED BY <1>4, <1>5

\* Harts, TLBs, protection and memory keep their types; the first-level TLBs, through
\* which loads and stores go straight to memory, have pages of memory only; and the
\* search for the segment of an address finds one, and no other, from the first unit to
\* the last.
THEOREM MemoryTypes == Spec => []TypeOK
<1>1. MemoryInv => TypeOK
  <2> SUFFICES ASSUME MemoryInv PROVE TypeOK
    OBVIOUS
  <2>1. harts \in [Harts -> HartState] /\ mem \in [Units -> Words] /\ ended \in BOOLEAN
    BY DEF MemoryInv, Safe, Sound, Machine, MachineState
  <2>2. ASSUME NEW h \in Harts, NEW a \in {0, Top}
        PROVE  \E s \in harts[h].segs : /\ s.lo <= a /\ a <= s.last
                                        /\ \A r \in harts[h].segs : r.lo <= a /\ a <= r.last => r = s
    BY HartTyped, EndsCovered
  <2> QED BY <2>1, <2>2 DEF TypeOK, MemoryInv
<1> QED BY <1>1, AlwaysSafe, PTL

\* Whenever a write to a PMP register changes the protection of a hart, the segments it
\* is flattened into, and the shortcuts of M-mode, decide every access as the entries do.
THEOREM PmpDecides == Spec => PmpExact
<1>1. MemoryInv' => \A h \in Harts : Exact(harts'[h])
  <2> SUFFICES ASSUME MemoryInv', NEW h \in Harts PROVE Exact(harts'[h])
    OBVIOUS
  <2>1. harts'[h] \in HartState /\ Flattened(harts'[h])
    BY DEF MemoryInv, Safe, Sound, Machine, MachineState
  <2>2. harts'[h].cfg \in [1..PmpN -> PmpEntry] /\ harts'[h].addr \in [1..PmpN -> Nat]
    BY <2>1 DEF HartState
  <2> QED BY <2>1, <2>2, FlattenedIsExact
<1>2. MemoryInv /\ MemoryInv' /\ [Next]_vars =>
        [\A h \in Harts : Protection(harts'[h]) # Protection(harts[h]) => Exact(harts'[h])]_vars
  BY <1>1
<1> QED BY <1>2, AlwaysSafe, PTL DEF Spec, PmpExact

\* No hart has a store entry for the page of a reservation of any hart: every store into
\* it is seen to.
THEOREM ReservationsGuarded == Spec => []ReservedPagesGuarded
<1>1. MemoryInv => ReservedPagesGuarded
  BY MachineIs DEF MemoryInv, Safe, Guarded, Clash, ReservedPagesGuarded
<1> QED BY <1>1, AlwaysSafe, PTL

\* As long as a reservation is valid the other harts leave what it reserves alone,
\* whether they store, mark page-table entries, or take traps in between.
THEOREM ReservationsKept == Spec => ReservationsHold
<1> DEFINE Held == \A i \in Harts : NumHarts > 1 /\ at'[i] = at[i] /\ harts'[i].resv.valid =>
                     /\ harts'[i].resv = harts[i].resv
                     /\ \A u \in Reserves(harts[i].resv) : mem'[u] = mem[u]
<1>1. MemoryInv /\ [Next]_vars => [Held]_vars
  <2> SUFFICES ASSUME MemoryInv, Next, NEW i \in Harts, NumHarts > 1, at'[i] = at[i], harts'[i].resv.valid
               PROVE  /\ harts'[i].resv = harts[i].resv
                      /\ \A u \in Reserves(harts[i].resv) : mem'[u] = mem[u]
    OBVIOUS
  <2>1. PICK h \in Harts : Step(h)
    BY DEF Next
  <2>2. PICK n : Become(h, n) /\ Safe(n) /\ \A j \in Harts \ {h} : Holds(Machine, n, j)
    BY <2>1, StepLeads DEF Leads
  <2>3. i # h
    BY <2>2 DEF Become, MemoryInv
  <2>4. harts' = n.harts /\ mem' = n.mem
    BY <2>2 DEF Become
  <2>5. Holds(Machine, n, i)
    BY <2>2, <2>3
  <2>6. /\ harts'[i].resv = harts[i].resv
        /\ \A u \in Units : u \in Reserves(harts[i].resv) => mem'[u] = mem[u]
    BY <2>4, <2>5, MachineIs DEF Holds
  <2>7. Reserves(harts[i].resv) \subseteq Units
    <3>1. harts[i] \in HartState /\ Placed(harts[i]) /\ harts[i].resv.valid
      BY <2>6, HartTyped, MachineIs DEF MemoryInv, Safe, AllPlaced
    <3> DEFINE r == harts[i].resv
    <3>2. r.pa \in Nat /\ r.size \in {1, 2} /\ r.pa \in Units /\ r.pa + r.size - 1 \in Units
      BY <3>1, ReservationTyped DEF Placed, InDram
    <3> HIDE DEF r
    <3>3. r.pa .. (r.pa + r.size - 1) \subseteq {r.pa, r.pa + r.size - 1}
      BY <3>2
    <3> QED BY <3>2, <3>3 DEF Reserves, r
  <2> QED BY <2>6, <2>7
<1> QED BY <1>1, AlwaysSafe, PTL DEF Spec, ReservationsHold

\* An LR translates its address twice more after it has been checked; the last time
\* rv64_sys_lr_reserve asserts that it does not fault, and it does not.
THEOREM LrAsserts == Spec => LrReserves
<1>1. MemoryInv /\ [Next]_vars => [\A h \in Harts : Ready(h) /\ Lr(h) => ended' = ended]_vars
  BY LrLeads
<1> QED BY <1>1, AlwaysSafe, PTL DEF Spec, LrReserves

\* What the TLBs of a hart have of a page, PMP lets the hart do with all of it, at the
\* privilege the hart has now: no change of privilege, of protection or of the page tables
\* leaves behind an entry that says more.  Loads and stores that MPRV makes with M's
\* privilege are the exception.
THEOREM CachesAllowed == Spec => []CachesGranted
<1>1. CachesInv => CachesGranted
  <2> SUFFICES ASSUME CachesInv, NEW h \in Harts
               PROVE  LET hr == harts[h]
                      IN  /\ hr.itlb.vpn # None => Granted(hr, hr.itlb, "Fetch")
                          /\ \A e \in Entries(DTLB_N) :
                               DataGranted(hr, hr.load[e], "Load") /\ DataGranted(hr, hr.store[e], "Store")
                          /\ \A e \in Entries(L2TLB_N), acc \in {"Fetch", "Load", "Store"} :
                               hr.l2[e].tag # None /\ Need(acc) \in hr.l2[e].allow =>
                                 PmpAllows(hr, PageBytes(hr.l2[e].page), acc, "U")
    BY DEF CachesGranted
  <2> DEFINE hr == harts[h]
  <2>1. hr \in HartState /\ Flattened(hr) /\ Fits(hr) /\ ItlbFits(hr)
    BY HartTyped DEF CachesInv
  <2> HIDE DEF hr
  <2>2. ASSUME NEW e \in L1Entry, e.vpn # None
        PROVE  e.page \in DramPageSet
    BY <2>2 DEF L1Entry, NoEntry
  <2>3. hr.itlb.vpn # None => Granted(hr, hr.itlb, "Fetch")
    <3>1. hr.itlb \in L1Entry
      BY <2>1 DEF HartState
    <3>2. hr.itlb.vpn # None => PageOk(hr, hr.itlb.page, "Fetch", EffPriv(hr, "Fetch"))
      BY <2>1, EffPrivFetch DEF ItlbFits
    <3> QED BY <2>1, <2>2, <3>1, <3>2, PageOkIs DEF Granted, Accesses
  <2>4. ASSUME NEW e \in L1Entry, NEW acc \in Accesses, EntryFits(hr, e, acc)
        PROVE  DataGranted(hr, e, acc)
    BY <2>1, <2>2, <2>4, PageOkIs DEF EntryFits, DataGranted, Granted
  <2>5. ASSUME NEW e \in Entries(DTLB_N)
        PROVE  DataGranted(hr, hr.load[e], "Load") /\ DataGranted(hr, hr.store[e], "Store")
    <3>1. hr.load[e] \in L1Entry /\ hr.store[e] \in L1Entry
      BY <2>1 DEF HartState
    <3>2. EntryFits(hr, hr.load[e], "Load") /\ EntryFits(hr, hr.store[e], "Store")
      BY <2>1 DEF Fits
    <3> QED BY <2>4, <3>1, <3>2 DEF Accesses
  <2>6. ASSUME NEW e \in Entries(L2TLB_N), NEW acc \in Accesses,
               hr.l2[e].tag # None, Need(acc) \in hr.l2[e].allow
        PROVE  PmpAllows(hr, PageBytes(hr.l2[e].page), acc, "U")
    <3>1. hr.l2[e].page \in DramPageSet /\ Need(acc) \in PmpPageAllows(hr, hr.l2[e].page)
      BY <2>1, <2>6 DEF Fits, L2Fits
    <3>2. PageOk(hr, hr.l2[e].page, acc, "U")
      BY <3>1, AllowedIsOk
    <3> QED BY <2>1, <3>1, <3>2, PageOkIs
  <2> QED BY <2>3, <2>5, <2>6 DEF hr, Accesses
<1> QED BY <1>1, AlwaysFits, PTL
===============================================================================
