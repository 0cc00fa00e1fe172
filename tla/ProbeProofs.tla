---- MODULE ProbeProofs ----
(***************************************************************************)
(* What the probe scripts promise whatever happens on the host meanwhile:  *)
(* the sampler of /proc takes the lowest and the highest PIDs, and each    *)
(* process that stays is accounted for; the walk of a temporary directory  *)
(* prints each suspect that can run or leaves a mark, and leaves one for   *)
(* what it could not read.                                                 *)
(***************************************************************************)
EXTENDS ProbeScripts, SequenceLemmas, FiniteSetTheorems, FunctionTheorems, TLAPS

-----------------------------------------------------------------------------
(* Ascending *)

Climbs(s) == \A j, k \in DOMAIN s : j < k => s[j] < s[k]

\* The ends of an interval of places, and their number.
LEMMA PlacesBelowAndAbove ==
  ASSUME NEW n \in Nat, NEW k \in 1..n
  PROVE  /\ 1 \in 1..n+1 /\ n \in 0..n /\ k - 1 \in 0..n /\ 1 <= k - 1 + 1 /\ 1 <= n + 1
         /\ k + 1 \in 1..n+1 /\ k + 1 <= n + 1
         /\ (k - 1) + 1 - 1 = k - 1 /\ n + 1 - (k + 1) = n - k
OBVIOUS

\* The number of places in an interval.
LEMMA IntervalSize ==
  ASSUME NEW a \in Int, NEW b \in Int, a <= b + 1
  PROVE  IsFiniteSet(a..b) /\ Cardinality(a..b) = b + 1 - a
<1>1. (IF a > b THEN 0 ELSE b - a + 1) = b + 1 - a
  OBVIOUS
<1> QED BY <1>1, FS_Interval

\* A part of an ascending sequence has as many values as places.
LEMMA PartOfRange ==
  ASSUME NEW s \in Seq(Nat), Climbs(s), NEW a \in 1..Len(s) + 1, NEW b \in 0..Len(s), a <= b + 1
  PROVE  LET part == {s[i] : i \in a..b} IN
         IsFiniteSet(part) /\ Cardinality(part) = b + 1 - a
<1> DEFINE part == {s[i] : i \in a..b}
           f == [i \in a..b |-> s[i]]
<1>1. /\ Len(s) \in Nat /\ DOMAIN s = 1..Len(s) /\ a \in Int /\ b \in Int
      /\ \A i \in a..b : i \in 1..Len(s)
  OBVIOUS
<1>2. IsFiniteSet(a..b) /\ Cardinality(a..b) = b + 1 - a
  BY <1>1, IntervalSize
<1>3. \A i, j \in a..b : s[i] = s[j] => i = j
  <2> SUFFICES ASSUME NEW i \in a..b, NEW j \in a..b, i # j PROVE s[i] # s[j]
    OBVIOUS
  <2>1. i \in 1..Len(s) /\ j \in 1..Len(s) /\ i \in Int /\ j \in Int
    BY <1>1
  <2>2. s[i] \in Nat /\ s[j] \in Nat
    BY <1>1, <2>1
  <2>3. i < j \/ j < i
    BY <2>1
  <2>4. s[i] < s[j] \/ s[j] < s[i]
    BY <1>1, <2>1, <2>3 DEF Climbs
  <2> QED BY <2>2, <2>4
<1>4. f \in Bijection(a..b, part)
  BY <1>3 DEF Bijection, Injection, Surjection, IsInjective
<1> HIDE DEF f, part
<1>5. IsFiniteSet(part) /\ Cardinality(part) = Cardinality(a..b)
  BY <1>2, <1>4, FS_Bijection DEF ExistsBijection
<1> QED BY <1>2, <1>5 DEF part

\* The place of a value in an ascending sequence tells how many are below and above.
LEMMA RankInRange ==
  ASSUME NEW s \in Seq(Nat), Climbs(s)
  PROVE  /\ IsFiniteSet(Range(s)) /\ Cardinality(Range(s)) = Len(s)
         /\ \A k \in 1..Len(s) : /\ Cardinality({q \in Range(s) : q < s[k]}) = k - 1
                                 /\ Cardinality({q \in Range(s) : q > s[k]}) = Len(s) - k
<1>1. Len(s) \in Nat /\ DOMAIN s = 1..Len(s) /\ \A k \in 1..Len(s) : s[k] \in Nat
  OBVIOUS
<1>2. Range(s) = {s[i] : i \in 1..Len(s)}
  BY <1>1 DEF Range
<1>3. IsFiniteSet(Range(s)) /\ Cardinality(Range(s)) = Len(s)
  <2>1. /\ 1 \in 1..Len(s)+1 /\ Len(s) \in 0..Len(s) /\ 1 <= Len(s) + 1
        /\ Len(s) + 1 - 1 = Len(s)
    BY <1>1
  <2>2. /\ IsFiniteSet({s[i] : i \in 1..Len(s)})
        /\ Cardinality({s[i] : i \in 1..Len(s)}) = Len(s) + 1 - 1
    BY <2>1, PartOfRange
  <2> QED BY <1>2, <2>1, <2>2
<1>4. ASSUME NEW k \in 1..Len(s)
      PROVE  /\ Cardinality({q \in Range(s) : q < s[k]}) = k - 1
             /\ Cardinality({q \in Range(s) : q > s[k]}) = Len(s) - k
  <2>1. \A i \in 1..Len(s) : (s[i] < s[k] <=> i \in 1..k-1) /\ (s[i] > s[k] <=> i \in k+1..Len(s))
    <3> SUFFICES ASSUME NEW i \in 1..Len(s)
                 PROVE  (s[i] < s[k] <=> i \in 1..k-1) /\ (s[i] > s[k] <=> i \in k+1..Len(s))
      OBVIOUS
    <3>1. s[i] \in Nat /\ s[k] \in Nat /\ i \in Nat /\ k \in Nat
      BY <1>1
    <3>2. (i < k => s[i] < s[k]) /\ (k < i => s[k] < s[i])
      BY <1>1 DEF Climbs
    <3>3. i < k \/ i = k \/ i > k
      BY <3>1
    <3>4. (s[i] < s[k] <=> i < k) /\ (s[i] > s[k] <=> i > k)
      BY <3>1, <3>2, <3>3
    <3>5. (i < k <=> i \in 1..k-1) /\ (i > k <=> i \in k+1..Len(s))
      BY <1>1
    <3> QED BY <3>4, <3>5
  <2>2. (\A i \in 1..k-1 : i \in 1..Len(s)) /\ \A i \in k+1..Len(s) : i \in 1..Len(s)
    BY <1>1
  <2>3. {q \in Range(s) : q < s[k]} = {s[i] : i \in 1..k-1}
    BY <1>2, <2>1, <2>2
  <2>4. {q \in Range(s) : q > s[k]} = {s[i] : i \in k+1..Len(s)}
    BY <1>2, <2>1, <2>2
  <2>5. /\ 1 \in 1..Len(s)+1 /\ k - 1 \in 0..Len(s) /\ 1 <= k - 1 + 1
        /\ k + 1 \in 1..Len(s)+1 /\ Len(s) \in 0..Len(s) /\ k + 1 <= Len(s) + 1
        /\ (k - 1) + 1 - 1 = k - 1 /\ Len(s) + 1 - (k + 1) = Len(s) - k
    BY <1>1, PlacesBelowAndAbove
  <2>6. Cardinality({s[i] : i \in 1..k-1}) = k - 1
    BY <2>5, PartOfRange
  <2>7. Cardinality({s[i] : i \in k+1..Len(s)}) = Len(s) - k
    BY <2>5, PartOfRange
  <2> QED BY <2>3, <2>4, <2>6, <2>7
<1> QED BY <1>3, <1>4

\* An ascending sequence is the set of its values in ascending order ...
LEMMA AscendingRange ==
  ASSUME NEW s \in Seq(Nat), Climbs(s)
  PROVE  Ascending(Range(s)) = s
<1> DEFINE R == Range(s)
           below(p) == Cardinality({q \in R : q < p})
<1>1. DOMAIN s = 1..Len(s) /\ s = [k \in 1..Len(s) |-> s[k]] /\ Cardinality(R) = Len(s)
  BY RankInRange
<1>2. \A k \in 1..Len(s) : s[k] \in R /\ below(s[k]) = k - 1
  BY <1>1, RankInRange DEF Range
<1>3. \A p \in R : \E j \in 1..Len(s) : p = s[j]
  BY <1>1 DEF Range
<1> HIDE DEF R, below
<1>4. ASSUME NEW k \in 1..Len(s) PROVE (CHOOSE p \in R : below(p) = k - 1) = s[k]
  <2> DEFINE c == CHOOSE p \in R : below(p) = k - 1
  <2>1. c \in R /\ below(c) = k - 1
    BY <1>2
  <2> HIDE DEF c
  <2>2. PICK j \in 1..Len(s) : c = s[j]
    BY <1>3, <2>1
  <2>3. j - 1 = k - 1
    BY <1>2, <2>1, <2>2
  <2>4. j = k
    BY <2>3
  <2> QED BY <2>2, <2>4 DEF c
<1>5. Ascending(R) = [k \in 1..Len(s) |-> CHOOSE p \in R : below(p) = k - 1]
  BY <1>1 DEF Ascending, below
<1>6. Ascending(R) = [k \in 1..Len(s) |-> s[k]]
  BY <1>4, <1>5
<1> QED BY <1>1, <1>6 DEF R

\* ... and every finite set of naturals has such a sequence.
LEMMA AscendingSet ==
  ASSUME NEW S \in SUBSET Nat, IsFiniteSet(S)
  PROVE  Ascending(S) \in Seq(S) /\ Range(Ascending(S)) = S /\ Climbs(Ascending(S))
<1> DEFINE n == Cardinality(S)
           Below(p) == {q \in S : q < p}
           rank == [p \in S |-> Cardinality(Below(p)) + 1]
<1>1. n \in Nat
  BY FS_CardinalityType
<1>2. ASSUME NEW p \in S
      PROVE  IsFiniteSet(Below(p)) /\ Cardinality(Below(p)) \in 0..n-1 /\ rank[p] \in 1..n
  <2>1. Below(p) \in SUBSET (S \ {p})
    OBVIOUS
  <2>2. IsFiniteSet(S \ {p}) /\ Cardinality(S \ {p}) = n - 1
    BY FS_RemoveElement
  <2> HIDE DEF n, Below
  <2>3. IsFiniteSet(Below(p)) /\ Cardinality(Below(p)) <= n - 1
    BY <2>1, <2>2, FS_Subset
  <2>4. Cardinality(Below(p)) \in Nat
    BY <2>3, FS_CardinalityType
  <2>5. Cardinality(Below(p)) \in 0..n-1 /\ Cardinality(Below(p)) + 1 \in 1..n
    BY <1>1, <2>3, <2>4
  <2> QED BY <2>3, <2>5
<1>3. ASSUME NEW p \in S, NEW q \in S, p < q PROVE rank[p] < rank[q]
  <2>1. Below(p) \in SUBSET Below(q) /\ p \in Below(q) /\ p \notin Below(p)
    <3>1. p \in Nat /\ q \in Nat /\ ~(p < p)
      OBVIOUS
    <3>2. \A x \in S : x < p => x < q
      <4> SUFFICES ASSUME NEW x \in S, x < p PROVE x < q
        OBVIOUS
      <4>1. x \in Nat
        OBVIOUS
      <4> QED BY <1>3, <3>1, <4>1
    <3> QED BY <1>3, <3>1, <3>2
  <2>2. /\ IsFiniteSet(Below(p)) /\ Cardinality(Below(p)) \in 0..n-1
        /\ IsFiniteSet(Below(q)) /\ Cardinality(Below(q)) \in 0..n-1
    BY <1>2
  <2> HIDE DEF Below, n
  <2>3. /\ Cardinality(Below(p)) <= Cardinality(Below(q))
        /\ Cardinality(Below(p)) # Cardinality(Below(q))
    BY <2>1, <2>2, FS_Subset
  <2> QED BY <1>1, <2>2, <2>3
<1>4. rank \in Injection(S, 1..n)
  <2>1. rank \in [S -> 1..n]
    BY <1>2
  <2>2. ASSUME NEW p \in S, NEW q \in S, p # q PROVE rank[p] # rank[q]
    <3>1. p \in Nat /\ q \in Nat /\ rank[p] \in 1..n /\ rank[q] \in 1..n
      BY <1>2
    <3>2. p < q \/ q < p
      BY <2>2, <3>1
    <3>3. rank[p] < rank[q] \/ rank[q] < rank[p]
      BY <1>3, <3>2
    <3> HIDE DEF rank, n
    <3> QED BY <1>1, <3>1, <3>3
  <2> HIDE DEF rank, n
  <2> QED BY <2>1, <2>2 DEF Injection, IsInjective
<1>5. rank \in Surjection(S, 1..n)
  <2>1. IsFiniteSet(1..n) /\ Cardinality(1..n) = n
    BY <1>1, FS_Interval
  <2> HIDE DEF rank
  <2> QED BY <1>4, <2>1, FS_Injection DEF n
<1> DEFINE A == Ascending(S)
<1>6. A = [k \in 1..n |-> CHOOSE p \in S : Cardinality(Below(p)) = k - 1]
  BY DEF Ascending
<1>7. ASSUME NEW k \in 1..n PROVE A[k] \in S /\ rank[A[k]] = k
  <2>1. PICK p \in S : rank[p] = k
    <3> HIDE DEF rank, n
    <3> QED BY <1>5 DEF Surjection
  <2>2. Cardinality(Below(p)) \in 0..n-1 /\ Cardinality(Below(p)) + 1 = k
    BY <1>2, <2>1
  <2> HIDE DEF Below, n, A
  <2>3. Cardinality(Below(p)) = k - 1
    BY <1>1, <2>2
  <2>4. A[k] \in S /\ Cardinality(Below(A[k])) = k - 1
    BY <1>6, <2>3
  <2>5. rank[A[k]] = Cardinality(Below(A[k])) + 1
    BY <2>4
  <2> HIDE DEF rank
  <2> QED BY <1>1, <2>4, <2>5
<1>8. \A p \in S : rank[p] \in 1..n
  BY <1>2
<1> HIDE DEF rank, Below, A
<1>9. A \in Seq(S) /\ Len(A) = n /\ DOMAIN A = 1..n
  <2>1. A = [k \in 1..n |-> A[k]]
    BY <1>6
  <2> HIDE DEF n
  <2>2. A \in [1..n -> S]
    BY <1>7, <2>1
  <2> QED BY <1>1, <2>2
<1>10. \A p \in S : A[rank[p]] = p
  BY <1>4, <1>7, <1>8 DEF Injection, IsInjective
<1>11. Range(A) = S
  <2>1. \A k \in 1..n : A[k] \in S
    BY <1>7
  <2>2. \A p \in S : \E k \in 1..n : p = A[k]
    BY <1>8, <1>10
  <2> QED BY <1>9, <2>1, <2>2 DEF Range
<1>12. Climbs(A)
  <2> SUFFICES ASSUME NEW j \in 1..n, NEW k \in 1..n, j < k PROVE A[j] < A[k]
    BY <1>9 DEF Climbs
  <2> HIDE DEF n
  <2>1. A[j] \in S /\ A[k] \in S /\ rank[A[j]] = j /\ rank[A[k]] = k
    BY <1>7
  <2>2. A[j] \in Nat /\ A[k] \in Nat
    BY <2>1
  <2>3. j \in Nat /\ k \in Nat /\ j # k /\ ~(k < j)
    BY <1>1
  <2>4. A[j] # A[k] /\ ~(A[k] < A[j])
    BY <1>3, <2>1, <2>3
  <2> QED BY <2>2, <2>4
<1> QED BY <1>9, <1>11, <1>12 DEF A

-----------------------------------------------------------------------------
(* The ring and the sample *)

\* Different multiples of a number are at least that number apart.
LEMMA MultiplesApart ==
  ASSUME NEW m \in Nat \ {0}, NEW q \in Int, NEW r \in Int, q < r
  PROVE  m * q + m <= m * r
<1>1. m * q + m = m * (q + 1)
  OBVIOUS
<1>2. m * (q + 1) <= m * r
  <2>1. PICK d \in Nat : r = q + 1 + d
    <3>1. r - q - 1 \in Nat /\ r = q + 1 + (r - q - 1)
      OBVIOUS
    <3> QED BY <3>1
  <2>2. m * r = m * (q + 1) + m * d
    BY <2>1
  <2>3. m * d \in Nat /\ m * (q + 1) \in Int
    OBVIOUS
  <2> QED BY <2>2, <2>3
<1> QED BY <1>1, <1>2

\* Lines that fall into one place of the ring are a whole round apart.
LEMMA SamePlaceApart ==
  ASSUME NEW m \in Nat \ {0}, NEW a \in Nat, NEW b \in Nat, a < b, a % m = b % m
  PROVE  a + m <= b
<1>1. a = m * (a \div m) + (a % m) /\ b = m * (b \div m) + (b % m)
  OBVIOUS
<1>2. a \div m \in Int /\ b \div m \in Int /\ a % m \in 0..m-1
  OBVIOUS
<1> DEFINE q == a \div m
           r == b \div m
           k == a % m
<1>3. a = m * q + k /\ b = m * r + k /\ q \in Int /\ r \in Int /\ k \in Nat
  BY <1>1, <1>2
<1> HIDE DEF q, r, k
<1>4. m * q \in Int /\ m * r \in Int
  BY <1>3
<1>5. q < r
  <2>1. CASE q = r
    BY <1>3, <1>4, <2>1
  <2>2. CASE r < q
    <3>1. m * r + m <= m * q
      BY <1>3, <2>2, MultiplesApart
    <3> QED BY <1>3, <1>4, <3>1
  <2> QED BY <1>3, <2>1, <2>2
<1>6. m * q + m <= m * r
  BY <1>3, <1>5, MultiplesApart
<1> QED BY <1>3, <1>4, <1>6

\* A line that fewer than Half lines follow is still in the ring.
LEMMA RingHolds ==
  ASSUME NEW S, NEW s \in Seq(S), NEW m \in 1..Len(s), Len(s) < m + Half
  PROVE  Ring(s)[(m - 1) % Half] = s[m]
<1> DEFINE k == (m - 1) % Half
           fell == {i \in DOMAIN s : (i - 1) % Half = k}
<1>1. Half \in Nat \ {0} /\ Len(s) \in Nat /\ DOMAIN s = 1..Len(s)
  BY HalfAssumption
<1>2. k \in 0..Half-1
  <2>1. m - 1 \in Nat
    OBVIOUS
  <2> QED BY <1>1, <2>1
<1>3. m \in fell
  BY <1>1
<1>4. ASSUME NEW i \in fell PROVE i <= m
  <2>1. i \in 1..Len(s) /\ (i - 1) % Half = (m - 1) % Half
    BY <1>1
  <2>2. i - 1 \in Nat /\ m - 1 \in Nat
    BY <2>1
  <2>3. m - 1 < i - 1 => (m - 1) + Half <= i - 1
    BY <1>1, <2>1, <2>2, SamePlaceApart
  <2> HIDE DEF fell, k
  <2>4. i \in Int /\ m \in Int /\ i <= Len(s)
    BY <2>1
  <2> QED BY <1>1, <2>3, <2>4
<1>5. \A i \in fell : i \in Int
  BY <1>1
<1> HIDE DEF fell
<1>6. Max(fell) = m
  <2>1. \A y \in fell : m >= y
    BY <1>4, <1>5
  <2>2. \A x \in fell : (\A y \in fell : x >= y) => x = m
    BY <1>3, <1>4, <1>5
  <2> QED BY <1>3, <2>1, <2>2 DEF Max
<1>7. Ring(s)[k] = IF fell = {} THEN 0 ELSE s[Max(fell)]
  <2> HIDE DEF k
  <2> QED BY <1>2 DEF Ring, fell
<1> QED BY <1>3, <1>6, <1>7

\* How many lines are taken of n, and which of them is the i-th taken.
Taken(n) == IF n < 2 * Half THEN n ELSE 2 * Half
Line(n, i) == IF i <= Half THEN i ELSE i + (n - Taken(n))

\* Where the high lines stand among all, and among those that were taken.
LEMMA HighLines ==
  ASSUME NEW n \in Nat
  PROVE  LET low  == IF n < Half THEN n ELSE Half
             high == IF n < HighStart(n) THEN 0 ELSE n + 1 - HighStart(n)
         IN /\ low \in 0..n /\ low <= Half /\ high \in Nat /\ Taken(n) \in Nat
            /\ low + high = Taken(n)
            /\ \A i \in 1..low : Line(n, i) = i
            /\ \A i \in 1..high : /\ HighStart(n) + i - 1 \in 1..n
                                  /\ n < HighStart(n) + i - 1 + Half
                                  /\ Line(n, low + i) = HighStart(n) + i - 1
BY HalfAssumption DEF HighStart, Taken, Line

\* What the sampler prints: the lines are those that Line says.
LEMMA SampleLines ==
  ASSUME NEW S, NEW s \in Seq(S)
  PROVE  LET n == Len(s) IN
         /\ Sample(s) \in Seq(S) /\ Len(Sample(s)) = Taken(n)
         /\ \A i \in 1..Taken(n) : Line(n, i) \in 1..n /\ Sample(s)[i] = s[Line(n, i)]
<1> DEFINE n == Len(s)
           low == IF n < Half THEN n ELSE Half
           high == IF n < HighStart(n) THEN 0 ELSE n + 1 - HighStart(n)
           a == [i \in 1..low |-> s[i]]
           b == [i \in 1..high |-> Ring(s)[(HighStart(n) + i - 2) % Half]]
<1>1. n \in Nat /\ \A i \in 1..n : s[i] \in S
  OBVIOUS
<1>2. /\ low \in 0..n /\ low <= Half /\ high \in Nat /\ Taken(n) \in Nat
      /\ low + high = Taken(n)
      /\ \A i \in 1..low : Line(n, i) = i
      /\ \A i \in 1..high : /\ HighStart(n) + i - 1 \in 1..n
                            /\ n < HighStart(n) + i - 1 + Half
                            /\ Line(n, low + i) = HighStart(n) + i - 1
  BY <1>1, HighLines
<1>3. Sample(s) = a \o b
  BY DEF Sample
<1>4. HighStart(n) \in Int
  BY <1>1, HalfAssumption DEF HighStart
<1> HIDE DEF low, high
<1>5. ASSUME NEW i \in 1..high PROVE b[i] = s[HighStart(n) + i - 1] /\ b[i] \in S
  <2> DEFINE m == HighStart(n) + i - 1
  <2>1. m \in 1..n /\ n < m + Half /\ m - 1 = HighStart(n) + i - 2
    BY <1>2, <1>4
  <2> HIDE DEF m
  <2>2. Ring(s)[(m - 1) % Half] = s[m]
    BY <2>1, RingHolds
  <2> QED BY <1>1, <2>1, <2>2 DEF m
<1>6. a \in Seq(S) /\ Len(a) = low /\ \A i \in 1..low : a[i] = s[i]
  <2>1. \A i \in 1..low : i \in 1..n
    BY <1>1, <1>2
  <2>2. a \in [1..low -> S]
    BY <1>1, <2>1
  <2>3. low \in Nat
    BY <1>2
  <2> HIDE DEF n
  <2> QED BY <2>2, <2>3
<1>7. b \in Seq(S) /\ Len(b) = high
  <2>1. b \in [1..high -> S]
    <3> DEFINE v(i) == Ring(s)[(HighStart(n) + i - 2) % Half]
    <3>1. \A i \in 1..high : v(i) \in S
      BY <1>5
    <3> HIDE DEF v
    <3>2. [i \in 1..high |-> v(i)] \in [1..high -> S]
      BY <3>1
    <3> QED BY <3>2 DEF v
  <2> HIDE DEF n, b
  <2>2. high \in Nat
    BY <1>2
  <2> QED BY <2>1, <2>2 DEF b
<1> HIDE DEF a, b, n
<1>8. /\ Sample(s) \in Seq(S) /\ Len(Sample(s)) = Taken(n)
      /\ \A i \in 1..low : Sample(s)[i] = a[i]
      /\ \A i \in 1..high : Sample(s)[low + i] = b[i]
  <2>1. /\ a \o b \in Seq(S) /\ Len(a \o b) = Len(a) + Len(b)
        /\ \A i \in 1..Len(a) : (a \o b)[i] = a[i]
        /\ \A i \in 1..Len(b) : (a \o b)[Len(a) + i] = b[i]
    <3>1. a \in Seq(S) /\ b \in Seq(S)
      BY <1>6, <1>7
    <3> QED BY <3>1, ConcatAt
  <2>2. Len(a) = low /\ Len(b) = high
    BY <1>6, <1>7
  <2> QED BY <1>2, <1>3, <2>1, <2>2
<1>9. ASSUME NEW i \in 1..Taken(n) PROVE Line(n, i) \in 1..n /\ Sample(s)[i] = s[Line(n, i)]
  <2>1. CASE i \in 1..low
    <3>1. i \in 1..n
      BY <1>1, <1>2, <2>1
    <3> QED BY <1>2, <1>6, <1>8, <2>1, <3>1
  <2>2. CASE i \notin 1..low
    <3>1. PICK j \in 1..high : i = low + j
      <4>1. i - low \in 1..high /\ i = low + (i - low)
        BY <1>2, <2>2
      <4> QED BY <4>1
    <3> QED BY <1>2, <1>5, <1>8, <3>1
  <2> QED BY <2>1, <2>2
<1> QED BY <1>8, <1>9 DEF n

\* A line that is taken, and one that is not: which lines are taken.
LEMMA LinesTaken ==
  ASSUME NEW n \in Nat
  PROVE  /\ Taken(n) \in Nat
         /\ \A i, j \in 1..Taken(n) : i < j => Line(n, i) < Line(n, j)
         /\ \A i \in 1..Taken(n) : Line(n, i) - 1 < Half \/ n - Line(n, i) < Half
         /\ \A k \in 1..n : k - 1 < Half \/ n - k < Half => \E i \in 1..Taken(n) : Line(n, i) = k
<1>1. Half \in Nat \ {0}
  BY HalfAssumption
<1>2. ASSUME NEW k \in 1..n, k - 1 < Half \/ n - k < Half
      PROVE  \E i \in 1..Taken(n) : Line(n, i) = k
  <2>1. CASE k <= Half
    <3>1. k \in 1..Taken(n) /\ Line(n, k) = k
      BY <1>1, <2>1 DEF Taken, Line
    <3> QED BY <3>1
  <2>2. CASE k > Half
    <3> DEFINE i == k - (n - Taken(n))
    <3>1. i \in 1..Taken(n) /\ Line(n, i) = k
      BY <1>1, <1>2, <2>2 DEF Taken, Line
    <3> QED BY <3>1
  <2> QED BY <1>1, <2>1, <2>2
<1>3. /\ Taken(n) \in Nat
      /\ \A i, j \in 1..Taken(n) : i < j => Line(n, i) < Line(n, j)
      /\ \A i \in 1..Taken(n) : Line(n, i) - 1 < Half \/ n - Line(n, i) < Half
  BY <1>1 DEF Taken, Line
<1> QED BY <1>2, <1>3

\* Of an ascending sequence the sample is what fewer than Half are below or above, in
\* ascending order.
LEMMA SampleOfAscending ==
  ASSUME NEW s \in Seq(Nat), Climbs(s)
  PROVE  /\ Climbs(Sample(s)) /\ Sample(s) \in Seq(Nat)
         /\ Range(Sample(s)) = {p \in Range(s) :
                                  \/ Cardinality({q \in Range(s) : q < p}) < Half
                                  \/ Cardinality({q \in Range(s) : q > p}) < Half}
<1> DEFINE n == Len(s)
           Below(p) == Cardinality({q \in Range(s) : q < p})
           Above(p) == Cardinality({q \in Range(s) : q > p})
<1>1. n \in Nat /\ DOMAIN s = 1..n
  OBVIOUS
<1>2. /\ Sample(s) \in Seq(Nat) /\ Len(Sample(s)) = Taken(n)
      /\ \A i \in 1..Taken(n) : Line(n, i) \in 1..n /\ Sample(s)[i] = s[Line(n, i)]
  BY SampleLines
<1>3. /\ Taken(n) \in Nat
      /\ \A i, j \in 1..Taken(n) : i < j => Line(n, i) < Line(n, j)
      /\ \A i \in 1..Taken(n) : Line(n, i) - 1 < Half \/ n - Line(n, i) < Half
      /\ \A k \in 1..n : k - 1 < Half \/ n - k < Half => \E i \in 1..Taken(n) : Line(n, i) = k
  BY <1>1, LinesTaken
<1>4. \A k \in 1..n : Below(s[k]) = k - 1 /\ Above(s[k]) = n - k
  BY RankInRange
<1> HIDE DEF n, Below, Above
<1>5. DOMAIN Sample(s) = 1..Taken(n)
  BY <1>2
<1>6. Climbs(Sample(s))
  BY <1>1, <1>2, <1>3, <1>5 DEF Climbs
<1>7. Range(Sample(s)) = {p \in Range(s) : Below(p) < Half \/ Above(p) < Half}
  <2>1. ASSUME NEW i \in 1..Taken(n)
        PROVE  /\ Sample(s)[i] \in Range(s)
               /\ Below(Sample(s)[i]) < Half \/ Above(Sample(s)[i]) < Half
    <3> DEFINE k == Line(n, i)
    <3>1. k \in 1..n /\ Sample(s)[i] = s[k] /\ (k - 1 < Half \/ n - k < Half)
      BY <1>2, <1>3
    <3> HIDE DEF k
    <3> QED BY <1>1, <1>4, <3>1 DEF Range
  <2>2. ASSUME NEW p \in Range(s), Below(p) < Half \/ Above(p) < Half
        PROVE  \E i \in 1..Taken(n) : p = Sample(s)[i]
    <3>1. PICK k \in 1..n : p = s[k]
      BY <1>1 DEF Range
    <3>2. k - 1 < Half \/ n - k < Half
      BY <1>4, <2>2, <3>1
    <3>3. PICK i \in 1..Taken(n) : Line(n, i) = k
      BY <1>3, <3>2
    <3> QED BY <1>2, <3>1, <3>3
  <2>3. Range(Sample(s)) = {Sample(s)[i] : i \in 1..Taken(n)}
    BY <1>5 DEF Range
  <2> QED BY <2>1, <2>2, <2>3
<1> QED BY <1>2, <1>6, <1>7 DEF Below, Above

\* What is left of an ascending sequence after its first value.
LEMMA HeadAndTail ==
  ASSUME NEW S \in SUBSET Nat, NEW s \in Seq(S), s # <<>>, Climbs(s)
  PROVE  /\ Head(s) \in S /\ Tail(s) \in Seq(S) /\ Climbs(Tail(s))
         /\ Range(s) = {Head(s)} \cup Range(Tail(s))
         /\ \A q \in Range(Tail(s)) : Head(s) < q
<1>1. /\ Len(s) \in Nat \ {0} /\ DOMAIN s = 1..Len(s) /\ Head(s) = s[1] /\ Head(s) \in S
      /\ Tail(s) \in Seq(S) /\ Len(Tail(s)) = Len(s) - 1 /\ DOMAIN Tail(s) = 1..Len(Tail(s))
      /\ \A k \in 1..Len(Tail(s)) : Tail(s)[k] = s[k + 1]
  OBVIOUS
<1> DEFINE n == Len(s)
           t == Tail(s)
<1>2. n \in Nat \ {0} /\ DOMAIN s = 1..n /\ DOMAIN t = 1..n-1 /\ \A k \in 1..n-1 : t[k] = s[k + 1]
  BY <1>1
<1> HIDE DEF n, t
<1>3. (\A k \in 1..n-1 : k + 1 \in 1..n /\ 1 < k + 1) /\ 1 \in 1..n
  BY <1>2
<1>4. \A k \in 1..n : k = 1 \/ \E j \in 1..n-1 : k = j + 1
  <2> SUFFICES ASSUME NEW k \in 1..n, k # 1 PROVE \E j \in 1..n-1 : k = j + 1
    OBVIOUS
  <2>1. k - 1 \in 1..n-1 /\ k = (k - 1) + 1
    BY <1>2
  <2> QED BY <2>1
<1>5. Climbs(t)
  <2> SUFFICES ASSUME NEW j \in 1..n-1, NEW k \in 1..n-1, j < k PROVE t[j] < t[k]
    BY <1>2 DEF Climbs
  <2>1. j + 1 < k + 1 /\ j + 1 \in 1..n /\ k + 1 \in 1..n
    BY <1>2, <1>3
  <2> QED BY <1>2, <2>1 DEF Climbs
<1>6. Range(s) = {s[1]} \cup Range(t)
  <2>1. Range(s) = {s[k] : k \in 1..n} /\ Range(t) = {s[k + 1] : k \in 1..n-1}
    BY <1>2 DEF Range
  <2>2. {s[k] : k \in 1..n} \subseteq {s[1]} \cup {s[k + 1] : k \in 1..n-1}
    BY <1>4
  <2>3. {s[1]} \cup {s[k + 1] : k \in 1..n-1} \subseteq {s[k] : k \in 1..n}
    BY <1>3
  <2> QED BY <2>1, <2>2, <2>3
<1>7. \A q \in Range(t) : s[1] < q
  BY <1>2, <1>3 DEF Range, Climbs
<1> QED BY <1>1, <1>5, <1>6, <1>7 DEF t

\* A value above all others may be appended.
LEMMA AppendAbove ==
  ASSUME NEW S \in SUBSET Nat, NEW s \in Seq(S), Climbs(s), NEW p \in S,
         \A q \in Range(s) : q < p
  PROVE  /\ Append(s, p) \in Seq(S) /\ Climbs(Append(s, p))
         /\ Range(Append(s, p)) = Range(s) \cup {p}
<1> DEFINE n == Len(s)
           t == Append(s, p)
<1>1. /\ t \in Seq(S) /\ n \in Nat /\ DOMAIN s = 1..n /\ DOMAIN t = 1..n+1 /\ t[n + 1] = p
      /\ \A k \in 1..n : t[k] = s[k]
  OBVIOUS
<1> HIDE DEF n, t
<1>2. \A k \in 1..n+1 : k = n + 1 \/ k \in 1..n
  BY <1>1
<1>3. (\A k \in 1..n : k \in 1..n+1) /\ n + 1 \in 1..n+1
  BY <1>1
<1>4. Climbs(t)
  <2> SUFFICES ASSUME NEW j \in 1..n+1, NEW k \in 1..n+1, j < k PROVE t[j] < t[k]
    BY <1>1 DEF Climbs
  <2>1. j \in 1..n
    BY <1>1
  <2>2. t[j] = s[j] /\ s[j] \in Range(s)
    BY <1>1, <2>1 DEF Range
  <2>3. CASE k = n + 1
    BY <1>1, <2>2, <2>3
  <2>4. CASE k \in 1..n
    BY <1>1, <2>1, <2>2, <2>4 DEF Climbs
  <2> QED BY <1>2, <2>3, <2>4
<1>5. Range(t) = Range(s) \cup {p}
  BY <1>1, <1>2, <1>3 DEF Range
<1> QED BY <1>1, <1>4, <1>5 DEF t

\* Nothing stands in the empty sequence.
LEMMA EmptySequence == Range(<<>>) = {} /\ Climbs(<<>>) /\ \A S : <<>> \in Seq(S)
<1>1. DOMAIN <<>> = {}
  OBVIOUS
<1>2. \A S : <<>> \in Seq(S)
  OBVIOUS
<1> QED BY <1>1, <1>2 DEF Range, Climbs

\* PIDs are finitely many naturals.
LEMMA PidsType == Pids \in SUBSET Nat /\ IsFiniteSet(Pids)
<1>1. Len(Lives) \in Nat /\ DOMAIN Lives = 1..Len(Lives)
  BY LivesAssumption
<1>2. IsFiniteSet(1..Len(Lives))
  BY <1>1, FS_Interval
<1> QED BY <1>1, <1>2 DEF Pids

\* A sequence over a set is one over any larger set.
LEMMA WiderSequence ==
  ASSUME NEW T, NEW S \in SUBSET T, NEW s \in Seq(S)
  PROVE  s \in Seq(T)
<1>1. Len(s) \in Nat /\ s \in [1..Len(s) -> S]
  OBVIOUS
<1>2. s \in [1..Len(s) -> T]
  BY <1>1
<1> QED BY <1>1, <1>2

\* The sample is part of what passed, and all of it unless that is more than two halves.
LEMMA SampleTaken ==
  ASSUME NEW S \in SUBSET Nat, NEW s \in Seq(S), Climbs(s)
  PROVE  /\ Sample(s) \in Seq(S) /\ Climbs(Sample(s)) /\ Range(Sample(s)) \subseteq Range(s)
         /\ Len(s) > 2 * Half \/ Range(s) \subseteq Range(Sample(s))
<1> DEFINE n == Len(s)
<1>1. n \in Nat /\ DOMAIN s = 1..n /\ s \in Seq(Nat) /\ Half \in Nat \ {0}
  <2>1. s \in Seq(Nat)
    BY WiderSequence
  <2>2. n \in Nat /\ DOMAIN s = 1..n
    OBVIOUS
  <2> QED BY <2>1, <2>2, HalfAssumption
<1>2. /\ Sample(s) \in Seq(S) /\ Len(Sample(s)) = Taken(n)
      /\ \A i \in 1..Taken(n) : Line(n, i) \in 1..n /\ Sample(s)[i] = s[Line(n, i)]
  BY SampleLines
<1>3. Climbs(Sample(s))
  BY <1>1, SampleOfAscending
<1> HIDE DEF n
<1>4. DOMAIN Sample(s) = 1..Taken(n)
  BY <1>2
<1>5. Range(Sample(s)) \subseteq Range(s)
  BY <1>1, <1>2, <1>4 DEF Range
<1>6. ASSUME ~(n > 2 * Half) PROVE Range(s) \subseteq Range(Sample(s))
  <2>1. Taken(n) = n /\ \A i \in 1..n : Line(n, i) = i
    BY <1>1, <1>6 DEF Taken, Line
  <2> QED BY <1>1, <1>2, <1>4, <2>1 DEF Range
<1> QED BY <1>2, <1>3, <1>5, <1>6 DEF n

-----------------------------------------------------------------------------
(* EveryProcessIsAccountedFor *)

SampleTypes ==
  /\ life \in [Pids -> Life] /\ steady \in SUBSET Pids
  /\ file \in {"exe", "status", "ns", "cgroup"}
  /\ phase \in {"list", "stat", "inspect", "recheck", "second", "done"}
  /\ todo \in Seq(Pids) /\ kept \in Seq(Pids) /\ recorded \in Seq(Pids)
  /\ skipped \in SUBSET Pids
  /\ Climbs(todo) /\ Climbs(kept) /\ Climbs(recorded)

AllBelow(S, T) == \A p \in S, q \in T : p < q

\* Up to the sample: every user process that has stayed has passed or is still to be
\* looked at, and nothing else that has stayed has passed.
Listed ==
  /\ phase = "list" => kept = <<>> /\ todo = <<>>
  /\ phase \in {"list", "stat"} => recorded = <<>> /\ skipped = {}
  /\ phase = "stat" =>
       /\ AllBelow(Range(kept), Range(todo))
       /\ \A p \in steady : life[p] \in UserProcess => p \in Range(kept) \cup Range(todo)
  /\ \A p \in Range(kept) \cap steady : life[p] \in UserProcess

\* After it: a process that has stayed is still to be inspected, or has its line, or has
\* been counted, or may not have been in the sample.
Covered(p) ==
  \/ p \in Range(todo) \cup Range(recorded)
  \/ ~MayRead(p) /\ p \in skipped
  \/ Len(kept) > 2 * Half /\ p \notin skipped

Inspected ==
  phase \in {"inspect", "recheck", "second", "done"} =>
    /\ AllBelow(Range(recorded), Range(todo))
    /\ Range(todo) \cup Range(recorded) \cup skipped \subseteq Range(kept)
    /\ \A p \in steady : life[p] \in UserProcess => Covered(p)
    /\ \A p \in steady \cap skipped : life[p] \in {"private", "hidden"}

\* What the loop has found out about a PID holds while the process stays.
HalfInspected ==
  /\ phase \in {"recheck", "second"} => todo # <<>>
  /\ phase = "recheck" /\ Head(todo) \in steady => ~MayRead(Head(todo))
  /\ phase = "second" => file = "status" /\ (Head(todo) \in steady => MayRead(Head(todo)))

Concluded ==
  /\ phase # "done" => markers = {}
  /\ phase = "done" =>
       todo = <<>> /\ markers = (IF Len(kept) > 2 * Half THEN {"TRUNCATED"} ELSE {})
                                  \cup (IF skipped # {} THEN {"PARTIAL"} ELSE {})

SampleInv == SampleTypes /\ Listed /\ Inspected /\ HalfInspected /\ Concluded

\* The invariant holds when the probe starts.
LEMMA SampleInvInit == SampleInit => SampleInv
<1> SUFFICES ASSUME SampleInit PROVE SampleInv
  OBVIOUS
<1>1. /\ phase = "list" /\ todo = <<>> /\ kept = <<>> /\ recorded = <<>> /\ skipped = {}
      /\ markers = {} /\ life \in [Pids -> Life] /\ steady = Pids
      /\ file \in {"exe", "status", "ns", "cgroup"}
  BY DEF SampleInit
<1>2. SampleTypes
  BY <1>1, EmptySequence DEF SampleTypes
<1>3. Listed
  BY <1>1, EmptySequence DEF Listed
<1>4. Inspected /\ HalfInspected /\ Concluded
  BY <1>1 DEF Inspected, HalfInspected, Concluded
<1> QED BY <1>2, <1>3, <1>4 DEF SampleInv

\* The PIDs that exist are listed in ascending order.
LEMMA ListKeeps == SampleInv /\ List => SampleInv'
<1> SUFFICES ASSUME SampleInv, List PROVE SampleInv'
  OBVIOUS
<1> DEFINE E == {p \in Pids : Exists(p)}
<1>1. /\ phase = "list" /\ phase' = "stat" /\ todo' = Ascending(E)
      /\ life' = life /\ steady' = steady /\ file' = file /\ kept' = kept
      /\ recorded' = recorded /\ skipped' = skipped /\ markers' = markers
  BY DEF List, hostVars
<1>2. kept = <<>> /\ recorded = <<>> /\ skipped = {} /\ markers = {}
  BY <1>1 DEF SampleInv, Listed, Concluded
<1>3. todo' \in Seq(E) /\ Range(todo') = E /\ Climbs(todo')
  <2>1. E \in SUBSET Nat /\ IsFiniteSet(E)
    BY PidsType, FS_Subset
  <2> HIDE DEF E
  <2> QED BY <1>1, <2>1, AscendingSet
<1>4. SampleTypes'
  <2>1. todo' \in Seq(Pids)
    BY <1>3
  <2> QED BY <1>1, <1>3, <2>1 DEF SampleTypes, SampleInv
<1>5. Listed'
  <2>1. AllBelow(Range(kept'), Range(todo'))
    BY <1>1, <1>2, EmptySequence DEF AllBelow
  <2>2. \A p \in steady : life[p] \in UserProcess => p \in E
    BY DEF Exists, UserProcess, SampleInv, SampleTypes
  <2>3. Range(kept') = {}
    BY <1>1, <1>2, EmptySequence
  <2> QED BY <1>1, <1>2, <1>3, <2>1, <2>2, <2>3 DEF Listed
<1>6. Inspected' /\ HalfInspected' /\ Concluded'
  BY <1>1, <1>2 DEF Inspected, HalfInspected, Concluded
<1> QED BY <1>4, <1>5, <1>6 DEF SampleInv

\* What has stayed a user process passes.
LEMMA ReadStatKeeps == SampleInv /\ ReadStat => SampleInv'
<1> SUFFICES ASSUME SampleInv, ReadStat PROVE SampleInv'
  OBVIOUS
<1> DEFINE p == Head(todo)
<1>1. /\ phase = "stat" /\ phase' = "stat" /\ todo # <<>> /\ todo' = Tail(todo)
      /\ kept' = IF life[p] \in UserProcess THEN Append(kept, p) ELSE kept
      /\ life' = life /\ steady' = steady /\ file' = file
      /\ recorded' = recorded /\ skipped' = skipped /\ markers' = markers
  BY DEF ReadStat, hostVars
<1>2. /\ recorded = <<>> /\ skipped = {} /\ markers = {}
      /\ AllBelow(Range(kept), Range(todo))
      /\ \A q \in steady : life[q] \in UserProcess => q \in Range(kept) \cup Range(todo)
      /\ \A q \in Range(kept) \cap steady : life[q] \in UserProcess
  BY <1>1 DEF SampleInv, Listed, Concluded
<1>3. SampleTypes
  BY DEF SampleInv
<1>4. /\ p \in Pids /\ todo' \in Seq(Pids) /\ Climbs(todo')
      /\ Range(todo) = {p} \cup Range(todo') /\ \A q \in Range(todo') : p < q
  BY <1>1, <1>3, PidsType, HeadAndTail DEF SampleTypes
<1> HIDE DEF p
<1>5. /\ kept' \in Seq(Pids) /\ Climbs(kept')
      /\ Range(kept') = Range(kept) \cup {q \in {p} : life[q] \in UserProcess}
  <2>1. CASE life[p] \in UserProcess
    <3>1. \A q \in Range(kept) : q < p
      BY <1>2, <1>4 DEF AllBelow
    <3>2. /\ Append(kept, p) \in Seq(Pids) /\ Climbs(Append(kept, p))
          /\ Range(Append(kept, p)) = Range(kept) \cup {p}
      BY <1>3, <1>4, <3>1, PidsType, AppendAbove DEF SampleTypes
    <3> QED BY <1>1, <2>1, <3>2
  <2>2. CASE life[p] \notin UserProcess
    BY <1>1, <1>3, <2>2 DEF SampleTypes
  <2> QED BY <2>1, <2>2
<1>6. SampleTypes'
  BY <1>1, <1>3, <1>4, <1>5 DEF SampleTypes
<1>7. Listed'
  <2>1. AllBelow(Range(kept'), Range(todo'))
    BY <1>2, <1>4, <1>5 DEF AllBelow
  <2>2. \A q \in steady : life[q] \in UserProcess => q \in Range(kept') \cup Range(todo')
    BY <1>2, <1>4, <1>5
  <2>3. \A q \in Range(kept') \cap steady : life[q] \in UserProcess
    BY <1>2, <1>5
  <2> QED BY <1>1, <1>2, <2>1, <2>2, <2>3 DEF Listed
<1>8. Inspected' /\ HalfInspected' /\ Concluded'
  BY <1>1, <1>2 DEF Inspected, HalfInspected, Concluded
<1> QED BY <1>6, <1>7, <1>8 DEF SampleInv

\* The sample leaves nothing out, or there are more than two halves.
LEMMA TakeSampleKeeps == SampleInv /\ TakeSample => SampleInv'
<1> SUFFICES ASSUME SampleInv, TakeSample PROVE SampleInv'
  OBVIOUS
<1>1. /\ phase = "stat" /\ phase' = "inspect" /\ todo = <<>> /\ todo' = Sample(kept)
      /\ life' = life /\ steady' = steady /\ file' = file /\ kept' = kept
      /\ recorded' = recorded /\ skipped' = skipped /\ markers' = markers
  BY DEF TakeSample, hostVars
<1>2. /\ recorded = <<>> /\ skipped = {} /\ markers = {}
      /\ \A q \in steady : life[q] \in UserProcess => q \in Range(kept) \cup Range(todo)
      /\ \A q \in Range(kept) \cap steady : life[q] \in UserProcess
  BY <1>1 DEF SampleInv, Listed, Concluded
<1>3. SampleTypes
  BY DEF SampleInv
<1>4. /\ todo' \in Seq(Pids) /\ Climbs(todo') /\ Range(todo') \subseteq Range(kept)
      /\ Len(kept) > 2 * Half \/ Range(kept) \subseteq Range(todo')
  BY <1>1, <1>3, PidsType, SampleTaken DEF SampleTypes
<1>5. Range(recorded) = {} /\ Range(todo) = {}
  BY <1>1, <1>2, EmptySequence
<1>6. SampleTypes'
  BY <1>1, <1>3, <1>4 DEF SampleTypes
<1>7. Listed'
  BY <1>1, <1>2 DEF Listed
<1>8. Inspected'
  <2>1. AllBelow(Range(recorded'), Range(todo'))
    BY <1>1, <1>5 DEF AllBelow
  <2>2. Range(todo') \cup Range(recorded') \cup skipped' \subseteq Range(kept')
    BY <1>1, <1>2, <1>4, <1>5
  <2>3. ASSUME NEW q \in steady, life[q] \in UserProcess PROVE Covered(q)'
    <3>1. q \in Range(kept) /\ q \notin skipped'
      BY <1>1, <1>2, <1>5, <2>3
    <3> QED BY <1>1, <1>4, <3>1 DEF Covered
  <2> QED BY <1>1, <1>2, <2>1, <2>2, <2>3 DEF Inspected
<1>9. HalfInspected' /\ Concluded'
  BY <1>1, <1>2 DEF HalfInspected, Concluded
<1> QED BY <1>6, <1>7, <1>8, <1>9 DEF SampleInv

\* How the loop goes on from the next PID, p: what has been recorded is below it, what is
\* left to do above.
AtNextPid(p) ==
  /\ p \in Range(kept) /\ p \in Pids /\ p \notin Range(recorded)
  /\ todo' \in Seq(Pids) /\ Climbs(todo') /\ Range(todo) = {p} \cup Range(todo')
  /\ Append(recorded, p) \in Seq(Pids) /\ Climbs(Append(recorded, p))
  /\ Range(Append(recorded, p)) = Range(recorded) \cup {p}
  /\ AllBelow(Range(recorded) \cup {p}, Range(todo'))

\* The next PID is that of the head of what is left to do.
LEMMA NextPidIs ==
  ASSUME SampleInv, phase \in {"inspect", "recheck", "second"}, todo # <<>>, todo' = Tail(todo)
  PROVE  AtNextPid(Head(todo))
<1> DEFINE p == Head(todo)
<1>1. SampleTypes
  BY DEF SampleInv
<1>2. /\ AllBelow(Range(recorded), Range(todo)) /\ Range(todo) \subseteq Range(kept)
  BY DEF SampleInv, Inspected
<1>3. /\ p \in Pids /\ todo' \in Seq(Pids) /\ Climbs(todo')
      /\ Range(todo) = {p} \cup Range(todo') /\ \A q \in Range(todo') : p < q
  BY <1>1, PidsType, HeadAndTail DEF SampleTypes
<1> HIDE DEF p
<1>4. \A q \in Range(recorded) : q < p
  BY <1>2, <1>3 DEF AllBelow
<1>5. /\ Append(recorded, p) \in Seq(Pids) /\ Climbs(Append(recorded, p))
      /\ Range(Append(recorded, p)) = Range(recorded) \cup {p}
  BY <1>1, <1>3, <1>4, PidsType, AppendAbove DEF SampleTypes
<1>6. p \notin Range(recorded)
  <2>1. p \in Nat /\ ~(p < p)
    BY <1>3, PidsType
  <2> QED BY <1>4, <2>1
<1>7. AllBelow(Range(recorded) \cup {p}, Range(todo'))
  BY <1>2, <1>3 DEF AllBelow
<1>8. AtNextPid(p)
  BY <1>2, <1>3, <1>5, <1>6, <1>7 DEF AtNextPid
<1> QED BY <1>8 DEF p

\* A PID gets its line, or the loop remembers what it has found out about it.
LEMMA InspectKeeps == SampleInv /\ Inspect => SampleInv'
<1> SUFFICES ASSUME SampleInv, Inspect PROVE SampleInv'
  OBVIOUS
<1> DEFINE p == Head(todo)
<1>1. /\ phase = "inspect" /\ todo # <<>>
      /\ life' = life /\ steady' = steady /\ file' = file /\ kept' = kept
      /\ skipped' = skipped /\ markers' = markers
  BY DEF Inspect, hostVars
<1>2. /\ markers = {} /\ AllBelow(Range(recorded), Range(todo))
      /\ Range(todo) \cup Range(recorded) \cup skipped \subseteq Range(kept)
      /\ \A q \in steady : life[q] \in UserProcess => Covered(q)
      /\ \A q \in steady \cap skipped : life[q] \in {"private", "hidden"}
      /\ \A q \in Range(kept) \cap steady : life[q] \in UserProcess
  BY <1>1 DEF SampleInv, Inspected, Concluded, Listed
<1>3. SampleTypes
  BY DEF SampleInv
<1>4. Listed' /\ Concluded'
  <2>1. phase' \in {"inspect", "second", "recheck"}
    BY DEF Inspect, NextPid
  <2> QED BY <1>1, <1>2, <2>1 DEF Listed, Concluded
<1>5. \A q : MayRead(q)' <=> MayRead(q)
  BY <1>1 DEF MayRead
<1>6. CASE MayRead(p) /\ file # "status"
  <2>1. /\ todo' = Tail(todo) /\ phase' = "inspect" /\ recorded' = Append(recorded, p)
    BY <1>6 DEF Inspect, NextPid
  <2>2. AtNextPid(p)
    BY <1>1, <2>1, NextPidIs
  <2> HIDE DEF p
  <2>3. SampleTypes'
    BY <1>1, <1>3, <2>1, <2>2 DEF SampleTypes, AtNextPid
  <2>4. Range(recorded') = Range(recorded) \cup {p} /\ Range(todo) = {p} \cup Range(todo')
    BY <2>1, <2>2 DEF AtNextPid
  <2>5. Inspected'
    <3>1. AllBelow(Range(recorded'), Range(todo'))
      BY <2>2, <2>4 DEF AtNextPid
    <3>2. Range(todo') \cup Range(recorded') \cup skipped' \subseteq Range(kept')
      BY <1>1, <1>2, <2>2, <2>4 DEF AtNextPid
    <3>3. \A q \in steady : life[q] \in UserProcess => Covered(q)'
      BY <1>1, <1>2, <1>5, <2>4 DEF Covered
    <3> QED BY <1>1, <1>2, <3>1, <3>2, <3>3 DEF Inspected
  <2>6. HalfInspected'
    BY <2>1 DEF HalfInspected
  <2> QED BY <1>4, <2>3, <2>5, <2>6 DEF SampleInv
<1>7. CASE ~(MayRead(p) /\ file # "status")
  <2>1. /\ todo' = todo /\ recorded' = recorded
        /\ phase' = IF MayRead(p) THEN "second" ELSE "recheck"
    BY <1>7 DEF Inspect
  <2>2. SampleTypes'
    BY <1>1, <1>3, <2>1 DEF SampleTypes
  <2>3. Inspected'
    <3>1. \A q \in steady : life[q] \in UserProcess => Covered(q)'
      BY <1>1, <1>2, <1>5, <2>1 DEF Covered
    <3> QED BY <1>1, <1>2, <2>1, <3>1 DEF Inspected
  <2>4. HalfInspected'
    <3>1. Head(todo') = p /\ todo' # <<>>
      BY <1>1, <2>1
    <3>2. CASE MayRead(p)
      <4>1. phase' = "second" /\ file' = "status" /\ MayRead(Head(todo))'
        BY <1>1, <1>7, <2>1, <3>2 DEF MayRead
      <4> QED BY <3>1, <4>1 DEF HalfInspected
    <3>3. CASE ~MayRead(p)
      <4>1. phase' = "recheck" /\ ~MayRead(Head(todo))'
        BY <1>1, <2>1, <3>3 DEF MayRead
      <4> QED BY <3>1, <4>1 DEF HalfInspected
    <3> QED BY <3>2, <3>3
  <2> QED BY <1>4, <2>2, <2>3, <2>4 DEF SampleInv
<1> QED BY <1>6, <1>7

\* A PID that could not be read is counted if a process still has it.
LEMMA RecheckKeeps == SampleInv /\ Recheck => SampleInv'
<1> SUFFICES ASSUME SampleInv, Recheck PROVE SampleInv'
  OBVIOUS
<1> DEFINE p == Head(todo)
<1>1. /\ phase = "recheck" /\ phase' = "inspect" /\ todo' = Tail(todo)
      /\ skipped' = skipped \cup {q \in {p} : Exists(q)}
      /\ life' = life /\ steady' = steady /\ file' = file /\ kept' = kept
      /\ recorded' = recorded /\ markers' = markers
  BY DEF Recheck, hostVars, NextPid
<1>2. /\ markers = {} /\ AllBelow(Range(recorded), Range(todo))
      /\ Range(todo) \cup Range(recorded) \cup skipped \subseteq Range(kept)
      /\ \A q \in steady : life[q] \in UserProcess => Covered(q)
      /\ \A q \in steady \cap skipped : life[q] \in {"private", "hidden"}
      /\ \A q \in Range(kept) \cap steady : life[q] \in UserProcess
      /\ todo # <<>> /\ (p \in steady => ~MayRead(p))
  BY <1>1 DEF SampleInv, Inspected, Concluded, Listed, HalfInspected
<1>3. SampleTypes
  BY DEF SampleInv
<1>4. AtNextPid(p)
  BY <1>1, <1>2, NextPidIs
<1> HIDE DEF p
<1>5. \A q : MayRead(q)' <=> MayRead(q)
  BY <1>1 DEF MayRead
<1>6. Range(todo) = {p} \cup Range(todo') /\ p \in Range(kept) /\ p \in Pids
  BY <1>4 DEF AtNextPid
<1>7. SampleTypes'
  BY <1>1, <1>3, <1>4, <1>6 DEF SampleTypes, AtNextPid
<1>8. Listed' /\ Concluded' /\ HalfInspected'
  BY <1>1, <1>2 DEF Listed, Concluded, HalfInspected
<1>9. Inspected'
  <2>1. AllBelow(Range(recorded'), Range(todo'))
    BY <1>1, <1>2, <1>6 DEF AllBelow
  <2>2. Range(todo') \cup Range(recorded') \cup skipped' \subseteq Range(kept')
    BY <1>1, <1>2, <1>6
  <2>3. ASSUME NEW q \in steady, life[q] \in UserProcess PROVE Covered(q)'
    <3>1. CASE q = p
      <4>1. q \in skipped' /\ ~MayRead(q)'
        BY <1>1, <1>2, <1>5, <2>3, <3>1 DEF Exists, UserProcess
      <4> QED BY <4>1 DEF Covered
    <3>2. CASE q # p
      <4>1. q \in skipped' <=> q \in skipped
        BY <1>1, <3>2
      <4> QED BY <1>1, <1>2, <1>5, <1>6, <2>3, <3>2, <4>1 DEF Covered
    <3> QED BY <3>1, <3>2
  <2>4. ASSUME NEW q \in steady \cap skipped' PROVE life[q] \in {"private", "hidden"}
    <3>1. CASE q \in skipped
      BY <1>2, <2>4, <3>1
    <3>2. CASE q = p
      <4>1. life[q] \in UserProcess /\ ~MayRead(q)
        BY <1>2, <1>6, <2>4, <3>2
      <4> QED BY <4>1 DEF MayRead, UserProcess
    <3> QED BY <1>1, <2>4, <3>1, <3>2
  <2> QED BY <1>1, <2>1, <2>2, <2>3, <2>4 DEF Inspected
<1> QED BY <1>7, <1>8, <1>9 DEF SampleInv

\* A PID gets its line after its second file, and is counted only if it has changed.
LEMMA SecondKeeps == SampleInv /\ Second => SampleInv'
<1> SUFFICES ASSUME SampleInv, Second PROVE SampleInv'
  OBVIOUS
<1> DEFINE p == Head(todo)
<1>1. /\ phase = "second" /\ phase' = "inspect" /\ todo' = Tail(todo)
      /\ skipped' = skipped \cup {q \in {p} : ~MayRead(q)} /\ recorded' = Append(recorded, p)
      /\ life' = life /\ steady' = steady /\ file' = file /\ kept' = kept /\ markers' = markers
  BY DEF Second, hostVars, NextPid
<1>2. /\ markers = {} /\ AllBelow(Range(recorded), Range(todo))
      /\ Range(todo) \cup Range(recorded) \cup skipped \subseteq Range(kept)
      /\ \A q \in steady : life[q] \in UserProcess => Covered(q)
      /\ \A q \in steady \cap skipped : life[q] \in {"private", "hidden"}
      /\ \A q \in Range(kept) \cap steady : life[q] \in UserProcess
      /\ todo # <<>> /\ (p \in steady => MayRead(p))
  BY <1>1 DEF SampleInv, Inspected, Concluded, Listed, HalfInspected
<1>3. SampleTypes
  BY DEF SampleInv
<1>4. AtNextPid(p)
  BY <1>1, <1>2, NextPidIs
<1> HIDE DEF p
<1>5. \A q : MayRead(q)' <=> MayRead(q)
  BY <1>1 DEF MayRead
<1>6. /\ Range(todo) = {p} \cup Range(todo') /\ p \in Range(kept) /\ p \in Pids
      /\ Range(recorded') = Range(recorded) \cup {p}
  BY <1>1, <1>4 DEF AtNextPid
<1>7. SampleTypes'
  BY <1>1, <1>3, <1>4, <1>6 DEF SampleTypes, AtNextPid
<1>8. Listed' /\ Concluded' /\ HalfInspected'
  BY <1>1, <1>2 DEF Listed, Concluded, HalfInspected
<1>9. Inspected'
  <2>1. AllBelow(Range(recorded'), Range(todo'))
    BY <1>4, <1>6 DEF AtNextPid
  <2>2. Range(todo') \cup Range(recorded') \cup skipped' \subseteq Range(kept')
    BY <1>1, <1>2, <1>6
  <2>3. ASSUME NEW q \in steady, life[q] \in UserProcess PROVE Covered(q)'
    <3>1. CASE q = p
      BY <1>6, <3>1 DEF Covered
    <3>2. CASE q # p
      <4>1. q \in skipped' <=> q \in skipped
        BY <1>1, <3>2
      <4> QED BY <1>1, <1>2, <1>5, <1>6, <2>3, <3>2, <4>1 DEF Covered
    <3> QED BY <3>1, <3>2
  <2>4. ASSUME NEW q \in steady \cap skipped' PROVE life[q] \in {"private", "hidden"}
    BY <1>1, <1>2, <2>4
  <2> QED BY <1>1, <2>1, <2>2, <2>3, <2>4 DEF Inspected
<1> QED BY <1>7, <1>8, <1>9 DEF SampleInv

\* The end of the sample.
LEMMA FinishKeeps == SampleInv /\ Finish => SampleInv'
<1> SUFFICES ASSUME SampleInv, Finish PROVE SampleInv'
  OBVIOUS
<1>1. /\ phase = "inspect" /\ phase' = "done" /\ todo = <<>>
      /\ markers' = (IF Len(kept) > 2 * Half THEN {"TRUNCATED"} ELSE {})
                      \cup (IF skipped # {} THEN {"PARTIAL"} ELSE {})
      /\ life' = life /\ steady' = steady /\ file' = file /\ kept' = kept /\ todo' = todo
      /\ recorded' = recorded /\ skipped' = skipped
  BY DEF Finish, hostVars
<1>2. SampleTypes'
  BY <1>1 DEF SampleInv, SampleTypes
<1>3. Listed' /\ HalfInspected' /\ Concluded'
  BY <1>1 DEF SampleInv, Listed, HalfInspected, Concluded
<1>4. Inspected'
  <2>1. \A q : Covered(q)' <=> Covered(q)
    BY <1>1 DEF Covered, MayRead
  <2> QED BY <1>1, <2>1 DEF SampleInv, Inspected
<1> QED BY <1>2, <1>3, <1>4 DEF SampleInv

\* Whatever happens to a process, it happens to one that has not stayed.
LEMMA BecomeKeeps ==
  ASSUME SampleInv, NEW p \in Pids, NEW kind \in Life, Become(p, kind)
  PROVE  SampleInv'
<1>1. /\ life' = [life EXCEPT ![p] = kind] /\ steady' = steady \ {p} /\ phase # "done"
      /\ phase' = phase /\ todo' = todo /\ file' = file /\ kept' = kept
      /\ recorded' = recorded /\ skipped' = skipped /\ markers' = markers
  BY DEF Become
<1>2. SampleTypes
  BY DEF SampleInv
<1>3. /\ \A q \in steady' : q \in steady /\ q \in Pids /\ life'[q] = life[q]
      /\ life' \in [Pids -> Life]
  BY <1>1, <1>2 DEF SampleTypes
<1>4. SampleTypes'
  BY <1>1, <1>2, <1>3 DEF SampleTypes
<1>5. \A q \in steady' : (MayRead(q)' <=> MayRead(q)) /\ (Covered(q)' <=> Covered(q))
  BY <1>1, <1>3 DEF MayRead, Covered
<1>6. Listed'
  BY <1>1, <1>3 DEF SampleInv, Listed
<1>7. Inspected'
  BY <1>1, <1>3, <1>5 DEF SampleInv, Inspected
<1>8. HalfInspected' /\ Concluded'
  BY <1>1, <1>3, <1>5 DEF SampleInv, HalfInspected, Concluded
<1> QED BY <1>4, <1>6, <1>7, <1>8 DEF SampleInv

\* Every step of the sampler, of the loop and of the host preserves the invariant.
LEMMA SampleInvNext == SampleInv /\ SampleNext => SampleInv'
<1> SUFFICES ASSUME SampleInv, SampleNext PROVE SampleInv'
  OBVIOUS
<1>1. ASSUME NEW p \in Pids, Exits(p) \/ IsReaped(p) \/ Starts(p) PROVE SampleInv'
  <2>1. PICK kind \in Life : Become(p, kind)
    <3>1. {"zombie", "absent", "live", "private"} \subseteq Life
      BY DEF Life, UserProcess
    <3> QED BY <1>1, <3>1 DEF Exits, IsReaped, Starts
  <2> QED BY <2>1, BecomeKeeps
<1> QED BY <1>1, ListKeeps, ReadStatKeeps, TakeSampleKeeps, InspectKeeps, RecheckKeeps,
           SecondKeeps, FinishKeeps DEF SampleNext

-----------------------------------------------------------------------------
(* Paths *)

\* A prefix, place by place.
LEMMA PrefixPlaces ==
  ASSUME NEW p \in Path, NEW q \in Path
  PROVE  /\ Len(p) \in Nat /\ Len(q) \in Nat
         /\ Prefix(p, q) <=> Len(p) <= Len(q) /\ \A i \in 1..Len(p) : p[i] = q[i]
<1>1. Len(p) \in Nat /\ Len(q) \in Nat /\ p = [i \in 1..Len(p) |-> p[i]]
  BY DEF Path
<1>2. ASSUME Len(p) <= Len(q)
      PROVE  SubSeq(q, 1, Len(p)) = [i \in 1..Len(p) |-> q[i]]
  <2>1. 1 \in 1..Len(q)+1 /\ Len(p) \in 0..Len(q)
    BY <1>1, <1>2
  <2> QED BY <1>1, <2>1 DEF Path
<1>3. ASSUME Len(p) <= Len(q)
      PROVE  SubSeq(q, 1, Len(p)) = p <=> \A i \in 1..Len(p) : p[i] = q[i]
  BY <1>1, <1>2, <1>3
<1> QED BY <1>1, <1>3 DEF Prefix

\* Prefixes of one path are ordered by their lengths.
LEMMA PrefixOrder ==
  ASSUME NEW p \in Path, NEW q \in Path, NEW r \in Path
  PROVE  /\ Prefix(p, p)
         /\ Prefix(p, q) /\ Prefix(q, r) => Prefix(p, r)
         /\ Prefix(p, r) /\ Prefix(q, r) /\ Len(p) <= Len(q) => Prefix(p, q)
         /\ Prefix(p, q) /\ Len(p) = Len(q) => p = q
<1>1. /\ Len(p) \in Nat /\ Len(q) \in Nat /\ Len(r) \in Nat
      /\ p = [i \in 1..Len(p) |-> p[i]] /\ q = [i \in 1..Len(q) |-> q[i]]
  BY DEF Path
<1>2. /\ Prefix(p, p) <=> Len(p) <= Len(p) /\ \A i \in 1..Len(p) : p[i] = p[i]
      /\ Prefix(p, q) <=> Len(p) <= Len(q) /\ \A i \in 1..Len(p) : p[i] = q[i]
      /\ Prefix(q, r) <=> Len(q) <= Len(r) /\ \A i \in 1..Len(q) : q[i] = r[i]
      /\ Prefix(p, r) <=> Len(p) <= Len(r) /\ \A i \in 1..Len(p) : p[i] = r[i]
  BY PrefixPlaces
<1>3. Len(p) <= Len(q) => \A i \in 1..Len(p) : i \in 1..Len(q)
  BY <1>1
<1>4. Prefix(p, p)
  BY <1>1, <1>2
<1>5. Prefix(p, q) /\ Prefix(q, r) => Prefix(p, r)
  BY <1>1, <1>2, <1>3
<1>6. Prefix(p, r) /\ Prefix(q, r) /\ Len(p) <= Len(q) => Prefix(p, q)
  BY <1>1, <1>2, <1>3
<1>7. Prefix(p, q) /\ Len(p) = Len(q) => p = q
  <2> SUFFICES ASSUME Prefix(p, q), Len(p) = Len(q) PROVE p = q
    OBVIOUS
  <2>1. \A i \in 1..Len(p) : p[i] = q[i]
    BY <1>2
  <2> QED BY <1>1, <2>1
<1> QED BY <1>4, <1>5, <1>6, <1>7

\* The start of a path up to a place.
LEMMA CutPath ==
  ASSUME NEW p \in Path, NEW k \in 0..Len(p)
  PROVE  LET c == SubSeq(p, 1, k) IN
         /\ c \in Path /\ Len(c) = k /\ Prefix(c, p) /\ (k = 0 => c = <<>>) /\ (k = Len(p) => c = p)
         /\ \A d \in Path : Prefix(d, p) /\ Len(d) <= k => Prefix(d, c)
         /\ \A d \in Path : Prefix(d, p) /\ Len(d) = k => d = c
<1> DEFINE c == SubSeq(p, 1, k)
<1>1. Len(p) \in Nat /\ k \in Nat /\ k <= Len(p)
  BY DEF Path
<1>2. c = [i \in 1..k |-> p[i]] /\ c \in Path /\ Len(c) = k
  <2>1. 1 \in 1..Len(p)+1 /\ k \in 0..Len(p)
    BY <1>1
  <2>2. c = [i \in 1..k |-> p[i]]
    BY <1>1, <2>1 DEF Path
  <2>3. [i \in 1..k |-> p[i]] \in [1..k -> STRING]
    BY <1>1 DEF Path
  <2>4. [i \in 1..k |-> p[i]] \in Seq(STRING) /\ Len([i \in 1..k |-> p[i]]) = k
    BY <1>1, <2>3
  <2> QED BY <2>2, <2>4 DEF Path
<1> HIDE DEF c
<1>3. Prefix(c, p)
  BY <1>1, <1>2, PrefixPlaces
<1>4. \A d \in Path : Prefix(d, p) /\ Len(d) <= k => Prefix(d, c)
  BY <1>2, <1>3, PrefixOrder
<1>5. \A d \in Path : Prefix(d, p) /\ Len(d) = k => d = c
  <2>1. \A d \in Path : Len(d) = k => Len(d) <= k
    BY <1>1
  <2> QED BY <1>2, <1>4, <2>1, PrefixOrder
<1>6. k = Len(p) => c = p
  BY <1>5, PrefixOrder
<1>7. k = 0 => c = <<>>
  BY <1>2 DEF Path
<1> QED BY <1>2, <1>3, <1>4, <1>5, <1>6, <1>7 DEF c

\* The empty path leads to every other.
LEMMA EmptyPrefix == ASSUME NEW p \in Path PROVE <<>> \in Path /\ Len(<<>>) = 0 /\ Prefix(<<>>, p)
<1>1. <<>> \in Path /\ Len(<<>>) = 0
  BY DEF Path
<1>2. Len(p) \in Nat
  BY DEF Path
<1> QED BY <1>1, <1>2, PrefixPlaces

-----------------------------------------------------------------------------
(* The row that covers a path *)

\* The point of a row is a path.
LEMMA PointType ==
  ASSUME NEW rows \in Seq(MountRow), NEW k \in 1..Len(rows)
  PROVE  rows[k] \in MountRow /\ rows[k].point \in Path /\ Len(rows[k].point) \in Nat
<1>1. rows[k] \in MountRow
  OBVIOUS
<1>2. rows[k].point \in Path
  BY <1>1 DEF MountRow
<1> QED BY <1>1, <1>2 DEF Path

\* There is one such row at most ...
LEMMA CoverUnique ==
  ASSUME NEW rows \in Seq(MountRow), NEW n \in 0..Len(rows), NEW path \in Path,
         NEW l, NEW m, Covers(rows, n, l, path), Covers(rows, n, m, path)
  PROVE  l = m
<1>1. l \in 1..n /\ m \in 1..n /\ n \in Nat /\ l \in 1..Len(rows) /\ m \in 1..Len(rows)
  BY DEF Covers
<1>2. Len(rows[l].point) \in Nat /\ Len(rows[m].point) \in Nat
  BY <1>1, PointType
<1>3. /\ \/ Len(rows[l].point) < Len(rows[m].point)
         \/ Len(rows[l].point) = Len(rows[m].point) /\ l <= m
      /\ \/ Len(rows[m].point) < Len(rows[l].point)
         \/ Len(rows[m].point) = Len(rows[l].point) /\ m <= l
  BY <1>1 DEF Covers
<1> QED BY <1>1, <1>2, <1>3

\* ... and, as the first row is on the way to every path, one at least.
LEMMA CoverExists ==
  ASSUME NEW rows \in Seq(MountRow), rows # <<>>, rows[1].point = <<>>,
         NEW n \in 1..Len(rows), NEW path \in Path
  PROVE  \E m \in 1..n : Covers(rows, n, m, path)
<1> DEFINE H == {i \in 0..n : i = 0 \/ \E m \in 1..i : Covers(rows, i, m, path)}
<1>1. n \in Nat /\ n <= Len(rows) /\ Len(rows) \in Nat /\ n >= 1
  OBVIOUS
<1>2. \A i \in 1..n : /\ i \in 1..Len(rows) /\ rows[i].point \in Path
                       /\ Len(rows[i].point) \in Nat
  <2>1. \A i \in 1..n : i \in 1..Len(rows)
    BY <1>1
  <2> QED BY <2>1, PointType
<1>3. 0 \in H
  BY <1>1
<1>4. ASSUME NEW i \in 1..n, i - 1 \in H PROVE i \in H
  <2>1. CASE i = 1
    <3>1. Prefix(rows[1].point, path)
      BY EmptyPrefix
    <3>2. Covers(rows, 1, 1, path)
      BY <1>1, <1>2, <3>1 DEF Covers
    <3> QED BY <2>1, <3>2
  <2>2. CASE i # 1
    <3>1. i - 1 \in 1..n /\ i \in Nat
      BY <1>1, <2>2
    <3>2. PICK m \in 1..i-1 : Covers(rows, i - 1, m, path)
      BY <1>4, <3>1
    <3>3. m \in 1..n /\ m \in 1..i /\ \A k \in 1..i : k = i \/ k \in 1..i-1
      BY <1>1, <3>1
    <3>4. CASE Prefix(rows[i].point, path) /\ Len(rows[i].point) >= Len(rows[m].point)
      <4>1. \A k \in 1..i-1 : Prefix(rows[k].point, path) =>
              Len(rows[k].point) < Len(rows[i].point)
                \/ (Len(rows[k].point) = Len(rows[i].point) /\ k <= i)
        <5> SUFFICES ASSUME NEW k \in 1..i-1, Prefix(rows[k].point, path)
                     PROVE  \/ Len(rows[k].point) < Len(rows[i].point)
                            \/ Len(rows[k].point) = Len(rows[i].point) /\ k <= i
          OBVIOUS
        <5>1. \/ Len(rows[k].point) < Len(rows[m].point)
              \/ Len(rows[k].point) = Len(rows[m].point) /\ k <= m
          BY <3>2 DEF Covers
        <5>2. k \in 1..n /\ k <= i
          BY <1>1, <3>1
        <5>3. Len(rows[k].point) \in Nat /\ Len(rows[m].point) \in Nat /\ Len(rows[i].point) \in Nat
          BY <1>2, <3>3, <5>2
        <5> QED BY <3>4, <5>1, <5>2, <5>3
      <4>2. i \in 1..i /\ i <= i
        BY <3>1
      <4>3. Covers(rows, i, i, path)
        BY <3>3, <3>4, <4>1, <4>2 DEF Covers
      <4> QED BY <4>2, <4>3
    <3>5. CASE ~(Prefix(rows[i].point, path) /\ Len(rows[i].point) >= Len(rows[m].point))
      <4>1. Prefix(rows[i].point, path) => Len(rows[i].point) < Len(rows[m].point)
        BY <1>2, <3>3, <3>5
      <4>2. Covers(rows, i, m, path)
        BY <3>2, <3>3, <4>1 DEF Covers
      <4> QED BY <3>3, <4>2
    <3> QED BY <3>4, <3>5
  <2> QED BY <2>1, <2>2
<1>5. H \in SUBSET (0..n)
  OBVIOUS
<1> HIDE DEF H
<1>6. H = 0..n
  BY <1>1, <1>3, <1>4, <1>5, SetInduction
<1>7. n \in H /\ n # 0
  BY <1>1, <1>6
<1> QED BY <1>7 DEF H

\* The lookup of the script finds it.
LEMMA OptionsCover ==
  ASSUME MountInfo(table), NEW path \in Path
  PROVE  Covers(table, Len(table), OptionsOf(path), path)
<1>1. table \in Seq(MountRow) /\ table # <<>> /\ table[1].point = <<>>
  BY DEF MountInfo
<1>2. Len(table) \in 1..Len(table) /\ DOMAIN table = 1..Len(table)
  BY <1>1
<1>3. PICK m \in 1..Len(table) : Covers(table, Len(table), m, path)
  BY <1>1, <1>2, CoverExists
<1>4. /\ m \in {n \in DOMAIN table : Prefix(table[n].point, path)}
      /\ \A n \in DOMAIN table : Prefix(table[n].point, path) =>
           \/ Len(table[n].point) < Len(table[m].point)
           \/ Len(table[n].point) = Len(table[m].point) /\ n <= m
  BY <1>2, <1>3 DEF Covers
<1>5. /\ OptionsOf(path) \in {n \in DOMAIN table : Prefix(table[n].point, path)}
      /\ \A n \in DOMAIN table : Prefix(table[n].point, path) =>
           \/ Len(table[n].point) < Len(table[OptionsOf(path)].point)
           \/ Len(table[n].point) = Len(table[OptionsOf(path)].point) /\ n <= OptionsOf(path)
  BY <1>4 DEF OptionsOf
<1> QED BY <1>2, <1>5 DEF Covers

-----------------------------------------------------------------------------
(* The walk of the kernel ends on that row *)

\* The rows mounted on r at point, and what the walk may stand on before it comes to
\* point: a row of that point, or the one that covers the way to it.
Above(r, point) == {n \in DOMAIN table : table[n].on = r /\ table[n].point = point}
Below(r, point) ==
  /\ r \in 1..Len(table) /\ Prefix(table[r].point, point)
  /\ table[r].point # point =>
       \A n \in 1..Len(table) : Prefix(table[n].point, point) /\ table[n].point # point =>
         \/ Len(table[n].point) < Len(table[r].point)
         \/ Len(table[n].point) = Len(table[r].point) /\ n <= r

\* What MountInfo says of two rows.
LEMMA RowsOf ==
  ASSUME MountInfo(table)
  PROVE  /\ table \in Seq(MountRow) /\ table # <<>> /\ table[1].point = <<>> /\ table[1].on = 0
         /\ Len(table) \in Nat \ {0} /\ DOMAIN table = 1..Len(table)
         /\ \A n \in 2..Len(table) : Covers(table, n - 1, table[n].on, table[n].point)
         /\ \A k, n \in 1..Len(table) :
              k < n /\ Prefix(table[n].point, table[k].point) => table[n].point = table[k].point
         /\ \A n \in 1..Len(table) : table[n].point \notin Suspects
         /\ \A n \in 1..Len(table) : table[n].point \in Path /\ Len(table[n].point) \in Nat
<1>1. table \in Seq(MountRow) /\ table # <<>>
  BY DEF MountInfo
<1>2. Len(table) \in Nat \ {0} /\ DOMAIN table = 1..Len(table)
  BY <1>1
<1>3. \A n \in 1..Len(table) : table[n].point \in Path /\ Len(table[n].point) \in Nat
  BY <1>1, PointType
<1> QED BY <1>1, <1>2, <1>3 DEF MountInfo

\* A row is mounted on an earlier one; so the walk goes up.
LEMMA AboveIsLater ==
  ASSUME MountInfo(table), NEW r \in 1..Len(table), NEW point \in Path, NEW n \in Above(r, point)
  PROVE  n \in 1..Len(table) /\ r < n /\ Below(n, point)
<1>1. /\ DOMAIN table = 1..Len(table) /\ table[1].on = 0 /\ Len(table) \in Nat
      /\ \A k \in 2..Len(table) : Covers(table, k - 1, table[k].on, table[k].point)
  BY RowsOf
<1>2. n \in 1..Len(table) /\ table[n].on = r /\ table[n].point = point
  BY <1>1 DEF Above
<1>3. n \in 2..Len(table)
  <2>1. n # 1
    BY <1>1, <1>2
  <2> QED BY <1>1, <1>2, <2>1
<1>4. r \in 1..n-1
  BY <1>1, <1>2, <1>3 DEF Covers
<1>5. r < n
  BY <1>1, <1>3, <1>4
<1> QED BY <1>2, <1>5, PrefixOrder DEF Below

\* It goes on until it stands on the row that covers the point.
LEMMA AboveUntilCover ==
  ASSUME MountInfo(table), NEW point \in Path, NEW r, Below(r, point),
         NEW t, Covers(table, Len(table), t, point)
  PROVE  IF r = t THEN Above(r, point) = {} ELSE Above(r, point) # {}
<1>1. /\ table \in Seq(MountRow) /\ DOMAIN table = 1..Len(table) /\ Len(table) \in Nat \ {0}
      /\ \A n \in 2..Len(table) : Covers(table, n - 1, table[n].on, table[n].point)
      /\ \A k, n \in 1..Len(table) :
           k < n /\ Prefix(table[n].point, table[k].point) => table[n].point = table[k].point
      /\ \A n \in 1..Len(table) : table[n].point \in Path /\ Len(table[n].point) \in Nat
  BY RowsOf
<1>2. /\ r \in 1..Len(table) /\ Prefix(table[r].point, point)
      /\ table[r].point # point =>
           \A n \in 1..Len(table) : Prefix(table[n].point, point) /\ table[n].point # point =>
             \/ Len(table[n].point) < Len(table[r].point)
             \/ Len(table[n].point) = Len(table[r].point) /\ n <= r
  BY DEF Below
<1>3. /\ t \in 1..Len(table) /\ Prefix(table[t].point, point)
      /\ \A k \in 1..Len(table) : Prefix(table[k].point, point) =>
           \/ Len(table[k].point) < Len(table[t].point)
           \/ Len(table[k].point) = Len(table[t].point) /\ k <= t
  BY DEF Covers
<1>4. /\ Len(point) \in Nat
      /\ \A n \in 1..Len(table) : Prefix(table[n].point, point) =>
           /\ Len(table[n].point) <= Len(point)
           /\ Len(table[n].point) = Len(point) => table[n].point = point
  <2>1. Len(point) \in Nat
    BY DEF Path
  <2> QED BY <1>1, <2>1, PrefixOrder, PrefixPlaces
<1>5. ASSUME r = t PROVE Above(r, point) = {}
  <2> SUFFICES ASSUME NEW n \in Above(r, point) PROVE FALSE
    OBVIOUS
  <2>1. n \in 1..Len(table) /\ t < n /\ table[n].point = point
    BY <1>2, <1>5, AboveIsLater DEF Above
  <2>2. Prefix(table[n].point, point)
    BY <2>1, PrefixOrder
  <2>3. Len(table[n].point) = Len(point) /\ Len(table[t].point) <= Len(point)
    BY <1>3, <1>4, <2>1
  <2>4. n \in Int /\ t \in Int /\ Len(table[t].point) \in Nat
    BY <1>1, <1>3, <2>1
  <2> QED BY <1>3, <1>4, <2>1, <2>2, <2>3, <2>4
<1>6. ASSUME r # t PROVE Above(r, point) # {}
  <2>1. table[t].point = point /\ r < t
    <3>1. r \in Int /\ t \in Int /\ Len(table[r].point) \in Nat /\ Len(table[t].point) \in Nat
      BY <1>1, <1>2, <1>3
    <3>2. \/ Len(table[r].point) < Len(table[t].point)
          \/ Len(table[r].point) = Len(table[t].point) /\ r <= t
      BY <1>2, <1>3
    <3>3. CASE table[r].point = point
      <4>1. Len(table[t].point) = Len(point) /\ r <= t
        BY <1>3, <1>4, <3>1, <3>2, <3>3
      <4> QED BY <1>3, <1>4, <1>6, <3>1, <4>1
    <3>4. CASE table[r].point # point
      <4>1. table[t].point = point
        <5> SUFFICES ASSUME table[t].point # point PROVE FALSE
          OBVIOUS
        <5>1. \/ Len(table[t].point) < Len(table[r].point)
              \/ Len(table[t].point) = Len(table[r].point) /\ t <= r
          BY <1>2, <1>3, <3>4
        <5> QED BY <1>6, <3>1, <3>2, <5>1
      <4>2. ~(t < r)
        BY <1>1, <1>2, <1>3, <3>4, <4>1
      <4> QED BY <1>6, <3>1, <4>1, <4>2
    <3> QED BY <3>3, <3>4
  <2> DEFINE Q == {n \in 1..Len(table) : table[n].point = point /\ r < n}
  <2>2. Q \in SUBSET Nat /\ t \in Q
    BY <1>1, <1>3, <2>1
  <2>3. PICK n \in Q : \A k \in Q : n <= k
    BY <2>2, LeastNatural
  <2>4. n \in 2..Len(table) /\ n \in 1..Len(table) /\ table[n].point = point /\ r \in 1..n-1
    BY <1>1, <1>2, <2>3
  <2>5. \A k \in 1..n-1 : k \in 1..Len(table) /\ (table[k].point = point => k <= r)
    <3> SUFFICES ASSUME NEW k \in 1..n-1
                 PROVE  k \in 1..Len(table) /\ (table[k].point = point => k <= r)
      OBVIOUS
    <3>1. k \in 1..Len(table) /\ ~(n <= k) /\ k \in Int /\ r \in Int
      BY <1>1, <2>4
    <3> QED BY <2>3, <3>1
  <2> HIDE DEF Q
  <2>6. Covers(table, n - 1, r, point)
    <3> SUFFICES ASSUME NEW k \in 1..n-1, Prefix(table[k].point, point)
                 PROVE  \/ Len(table[k].point) < Len(table[r].point)
                        \/ Len(table[k].point) = Len(table[r].point) /\ k <= r
      BY <1>2, <2>4 DEF Covers
    <3>1. k \in 1..Len(table) /\ k \in Int /\ r \in Int
      BY <1>1, <1>2, <2>5
    <3>2. CASE table[r].point = point
      <4>1. Len(table[k].point) <= Len(point) /\ Len(table[k].point) \in Nat
        BY <1>1, <1>4, <3>1
      <4>2. Len(table[k].point) = Len(point) => k <= r
        BY <1>4, <2>5, <3>1
      <4> QED BY <1>4, <3>2, <4>1, <4>2
    <3>3. CASE table[r].point # point
      <4>1. table[k].point # point
        <5> SUFFICES ASSUME table[k].point = point PROVE FALSE
          OBVIOUS
        <5>1. k < r
          BY <2>5, <3>1, <3>3
        <5> QED BY <1>1, <1>2, <3>1, <3>3, <5>1
      <4> QED BY <1>2, <3>1, <3>3, <4>1
    <3> QED BY <3>2, <3>3
  <2>7. table[n].on = r
    <3>1. Covers(table, n - 1, table[n].on, point)
      BY <1>1, <2>4
    <3>2. n - 1 \in 0..Len(table)
      BY <1>1, <2>4
    <3> QED BY <1>1, <2>6, <3>1, <3>2, CoverUnique
  <2> QED BY <1>1, <2>4, <2>7 DEF Above
<1> QED BY <1>5, <1>6

\* One step up from r, where f says how the walk goes on from the rows above.
StepUp(f, r, point) == IF Above(r, point) = {} THEN r ELSE f[CHOOSE n \in Above(r, point) : TRUE]

\* The recursive function in Onto exists, as rows are above earlier ones, and stays
\* within the table.
LEMMA OntoExists ==
  ASSUME MountInfo(table), NEW point \in Path
  PROVE  \E f \in [1..Len(table) -> 1..Len(table)] :
           f = [r \in 1..Len(table) |-> StepUp(f, r, point)]
<1> DEFINE N == Len(table)
           Up(f, d) == /\ f \in [N-d+1..N -> 1..N]
                       /\ \A r \in N-d+1..N : f[r] = StepUp(f, r, point)
           H == {d \in 0..N : \E f : Up(f, d)}
<1>1. N \in Nat \ {0}
  BY RowsOf
<1>2. ASSUME NEW r \in 1..N, Above(r, point) # {}
      PROVE  (CHOOSE n \in Above(r, point) : TRUE) \in r+1..N
  <2> DEFINE c == CHOOSE n \in Above(r, point) : TRUE
  <2>1. c \in Above(r, point)
    BY <1>2
  <2> HIDE DEF c
  <2>2. c \in 1..N /\ r < c
    BY <2>1, AboveIsLater
  <2>3. c \in r+1..N
    BY <1>1, <2>2
  <2> QED BY <2>3 DEF c
<1> HIDE DEF N
<1>3. 0 \in H
  <2> DEFINE f == [r \in N-0+1..N |-> 1]
  <2>1. N-0+1..N = {}
    BY <1>1
  <2>2. Up(f, 0)
    BY <2>1
  <2>3. 0 \in 0..N
    BY <1>1
  <2> HIDE DEF Up, f
  <2> QED BY <2>2, <2>3
<1>4. ASSUME NEW d \in 1..N, d - 1 \in H PROVE d \in H
  <2>1. PICK f : Up(f, d - 1)
    BY <1>4
  <2> DEFINE k == N - d + 1
             g == [r \in k..N |-> IF r = k THEN StepUp(f, k, point) ELSE f[r]]
  <2>2. k \in 1..N /\ k \in Nat /\ N - (d - 1) + 1 = k + 1 /\ \A r \in k..N : r = k \/ r \in k+1..N
    BY <1>1
  <2>3. /\ f \in [k+1..N -> 1..N]
        /\ \A r \in k+1..N : f[r] = StepUp(f, r, point)
    BY <2>1, <2>2
  <2> HIDE DEF k
  <2>4. \A r \in k+1..N : r \in k..N /\ r # k /\ r \in 1..N
    BY <1>1, <2>2
  <2>5. /\ g[k] = StepUp(f, k, point)
        /\ \A r \in k+1..N : g[r] = f[r]
    BY <2>2, <2>4
  <2>6. StepUp(f, k, point) \in 1..N
    <3>1. Above(k, point) # {} => (CHOOSE n \in Above(k, point) : TRUE) \in k+1..N
      BY <1>2, <2>2
    <3> QED BY <2>2, <2>3, <3>1 DEF StepUp
  <2>7. g \in [k..N -> 1..N]
    BY <2>2, <2>3, <2>6
  <2>8. \A r \in k..N : StepUp(g, r, point) = StepUp(f, r, point)
    <3> SUFFICES ASSUME NEW r \in k..N PROVE StepUp(g, r, point) = StepUp(f, r, point)
      OBVIOUS
    <3>1. CASE Above(r, point) = {}
      BY <3>1 DEF StepUp
    <3>2. CASE Above(r, point) # {}
      <4> DEFINE c == CHOOSE n \in Above(r, point) : TRUE
      <4>1. r \in 1..N
        BY <2>2, <2>4
      <4>2. c \in r+1..N
        BY <1>2, <3>2, <4>1
      <4>3. StepUp(g, r, point) = g[c] /\ StepUp(f, r, point) = f[c]
        BY <3>2 DEF StepUp
      <4> HIDE DEF c, g
      <4>4. c \in k+1..N
        BY <1>1, <2>2, <4>2
      <4> QED BY <2>5, <4>3, <4>4
    <3> QED BY <3>1, <3>2
  <2> HIDE DEF g
  <2>9. \A r \in k..N : g[r] = StepUp(g, r, point)
    BY <2>2, <2>3, <2>5, <2>8
  <2>10. Up(g, d)
    BY <2>7, <2>9 DEF k
  <2> HIDE DEF Up
  <2>11. d \in 0..N
    BY <1>1
  <2> QED BY <2>10, <2>11
<1>5. H = 0..N
  <2>1. H \in SUBSET (0..N) /\ N \in Nat
    BY <1>1
  <2> HIDE DEF H
  <2> QED BY <1>3, <1>4, <2>1, SetInduction
<1>6. PICK f : Up(f, N)
  <2>1. N \in H
    <3> HIDE DEF H
    <3> QED BY <1>1, <1>5
  <2> QED BY <2>1
<1>7. f \in [1..N -> 1..N] /\ \A r \in 1..N : f[r] = StepUp(f, r, point)
  <2>1. N - N + 1 = 1
    BY <1>1
  <2> QED BY <1>6, <2>1
<1>8. f = [r \in 1..N |-> StepUp(f, r, point)]
  <2>1. f = [r \in 1..N |-> f[r]]
    BY <1>7
  <2> QED BY <1>7, <2>1
<1> QED BY <1>7, <1>8 DEF N

\* Onto follows it.
LEMMA OntoFunction ==
  ASSUME MountInfo(table), NEW point \in Path
  PROVE  \E f : /\ \A r \in 1..Len(table) : f[r] = StepUp(f, r, point)
                /\ \A r \in 1..Len(table) : f[r] \in 1..Len(table)
                /\ \A row : Onto(row, point) = f[row]
<1> DEFINE on == CHOOSE f : f = [r \in 1..Len(table) |-> StepUp(f, r, point)]
<1>1. on = [r \in 1..Len(table) |-> StepUp(on, r, point)]
  BY OntoExists
<1>2. \A row : Onto(row, point) = on[row]
  BY DEF Onto, StepUp, Above
<1> HIDE DEF on
<1>3. \A r \in 1..Len(table) : on[r] = StepUp(on, r, point)
  BY <1>1
<1> DEFINE Wrong == {r \in 1..Len(table) : on[r] \notin 1..Len(table)}
           T == {Len(table) - r : r \in Wrong}
<1>4. Wrong = {}
  <2> SUFFICES ASSUME Wrong # {} PROVE FALSE
    OBVIOUS
  <2>1. Len(table) \in Nat /\ \A r \in Wrong : r \in 1..Len(table) /\ Len(table) - r \in Nat
    BY RowsOf
  <2>2. T \in SUBSET Nat /\ T # {}
    BY <2>1
  <2>3. PICK d \in T : \A k \in T : d <= k
    BY <2>2, LeastNatural
  <2>4. PICK r \in Wrong : d = Len(table) - r
    BY <2>3
  <2>5. r \in 1..Len(table) /\ on[r] \notin 1..Len(table)
    OBVIOUS
  <2>6. Above(r, point) # {}
    BY <1>3, <2>5 DEF StepUp
  <2> DEFINE c == CHOOSE n \in Above(r, point) : TRUE
  <2>7. c \in Above(r, point) /\ on[r] = on[c]
    BY <1>3, <2>5, <2>6 DEF StepUp
  <2> HIDE DEF c
  <2>8. c \in 1..Len(table) /\ r < c
    BY <2>5, <2>7, AboveIsLater
  <2>9. c \in Wrong
    BY <2>5, <2>7, <2>8
  <2> HIDE DEF Wrong
  <2>10. d <= Len(table) - c
    BY <2>3, <2>9
  <2> QED BY <2>1, <2>4, <2>5, <2>8, <2>10
<1>5. \A r \in 1..Len(table) : on[r] \in 1..Len(table)
  BY <1>4
<1> QED BY <1>2, <1>3, <1>5

\* From what the walk may stand on before it comes to point it goes to the row that
\* covers it.
LEMMA OntoCover ==
  ASSUME MountInfo(table), NEW point \in Path, NEW r, Below(r, point)
  PROVE  Covers(table, Len(table), Onto(r, point), point)
<1>1. PICK on : /\ \A k \in 1..Len(table) : on[k] = StepUp(on, k, point)
                /\ \A row : Onto(row, point) = on[row]
  BY OntoFunction
<1>2. /\ Len(table) \in Nat \ {0} /\ Len(table) \in 1..Len(table)
      /\ table \in Seq(MountRow) /\ table # <<>> /\ table[1].point = <<>>
  BY RowsOf
<1>3. PICK t \in 1..Len(table) : Covers(table, Len(table), t, point)
  BY <1>2, CoverExists
<1> DEFINE Wrong == {k \in 1..Len(table) : Below(k, point) /\ on[k] # t}
           T == {Len(table) - k : k \in Wrong}
<1>4. Wrong = {}
  <2> SUFFICES ASSUME Wrong # {} PROVE FALSE
    OBVIOUS
  <2>1. \A k \in Wrong : k \in 1..Len(table) /\ Len(table) - k \in Nat
    BY <1>2
  <2>2. T \in SUBSET Nat /\ T # {}
    BY <2>1
  <2>3. PICK d \in T : \A k \in T : d <= k
    BY <2>2, LeastNatural
  <2>4. PICK k \in Wrong : d = Len(table) - k
    BY <2>3
  <2>5. k \in 1..Len(table) /\ Below(k, point) /\ on[k] # t
    OBVIOUS
  <2>6. k # t
    <3> SUFFICES ASSUME k = t PROVE FALSE
      OBVIOUS
    <3>1. Above(k, point) = {}
      BY <1>3, <2>5, AboveUntilCover
    <3> QED BY <1>1, <2>5, <3>1 DEF StepUp
  <2>7. Above(k, point) # {}
    BY <1>3, <2>5, <2>6, AboveUntilCover
  <2> DEFINE c == CHOOSE n \in Above(k, point) : TRUE
  <2>8. c \in Above(k, point) /\ on[k] = on[c]
    BY <1>1, <2>5, <2>7 DEF StepUp
  <2> HIDE DEF c
  <2>9. c \in 1..Len(table) /\ k < c /\ Below(c, point)
    BY <2>5, <2>8, AboveIsLater
  <2>10. c \in Wrong
    BY <2>5, <2>8, <2>9
  <2> HIDE DEF Wrong
  <2>11. d <= Len(table) - c
    BY <2>3, <2>10
  <2> QED BY <1>2, <2>4, <2>5, <2>9, <2>11
<1>5. Onto(r, point) = t
  BY <1>1, <1>4 DEF Below
<1> QED BY <1>3, <1>5

\* The rows the kernel reaches on the way, one for each name of the path.
LEMMA ReachedSteps ==
  ASSUME MountInfo(table), NEW path \in Path
  PROVE  \E at : /\ at[0] = Onto(1, <<>>)
                 /\ \A k \in 1..Len(path) : at[k] = Onto(at[k - 1], SubSeq(path, 1, k))
                 /\ Reached(path) = at[Len(path)]
<1> DEFINE n == Len(path)
           V == 1..Len(table)
           base == Onto(1, <<>>)
           G == [v \in V \X (1..n) |-> Onto(v[1], SubSeq(path, 1, v[2]))]
           index == [i \in DOMAIN path |-> i]
           Iter(f) == f = [x \in SUBSET DOMAIN index |->
                             IF x = {} THEN base
                             ELSE Onto(f[x \ {Max(x)}], SubSeq(path, 1, index[Max(x)]))]
           iter == CHOOSE f : Iter(f)
<1>1. n \in Nat /\ DOMAIN path = 1..n /\ DOMAIN index = 1..n /\ \A k \in 1..n : index[k] = k
  BY DEF Path
<1>2. \A v \in V, point \in Path : Onto(v, point) \in V
  BY OntoFunction
<1>3. base \in V /\ G \in [V \X (1..n) -> V]
  <2>1. 1 \in V /\ <<>> \in Path
    BY RowsOf, EmptyPrefix
  <2>2. \A k \in 1..n : SubSeq(path, 1, k) \in Path
    <3> SUFFICES ASSUME NEW k \in 1..n PROVE SubSeq(path, 1, k) \in Path
      OBVIOUS
    <3>1. k \in 0..Len(path)
      BY <1>1
    <3> QED BY <3>1, CutPath
  <2> HIDE DEF V, base
  <2>3. \A v \in V \X (1..n) : Onto(v[1], SubSeq(path, 1, v[2])) \in V
    BY <1>2, <2>2
  <2> QED BY <1>2, <2>1, <2>3 DEF base
<1>4. \A v \in V, k \in 1..n : G[v, k] = Onto(v, SubSeq(path, 1, k))
  OBVIOUS
<1> HIDE DEF V, G, base
<1>5. PICK f \in [SUBSET (1..n) -> V] : Folding(f, n, base, G)
  <2>1. n \in Nat /\ base \in V /\ G \in [V \X (1..n) -> V]
    BY <1>1, <1>3
  <2> HIDE DEF n
  <2> QED BY <2>1, FoldExists
<1>6. Iter(f)
  <2>1. ASSUME NEW x \in SUBSET (1..n)
        PROVE  (IF x = {} THEN base ELSE G[f[x \ {Max(x)}], Max(x)])
             = (IF x = {} THEN base ELSE Onto(f[x \ {Max(x)}], SubSeq(path, 1, index[Max(x)])))
    <3>1. CASE x = {}
      BY <3>1
    <3>2. CASE x # {}
      <4>1. Max(x) \in 1..n
        BY <1>1, <3>2, MaxPlace
      <4>2. x \ {Max(x)} \in SUBSET (1..n)
        OBVIOUS
      <4>3. f[x \ {Max(x)}] \in V
        BY <4>2
      <4> HIDE DEF index, n
      <4>4. G[f[x \ {Max(x)}], Max(x)] = Onto(f[x \ {Max(x)}], SubSeq(path, 1, Max(x)))
        BY <1>4, <4>1, <4>3
      <4> QED BY <1>1, <3>2, <4>1, <4>4
    <3> QED BY <3>1, <3>2
  <2>2. f = [x \in SUBSET (1..n) |-> f[x]]
    BY <1>5
  <2> HIDE DEF index, n
  <2> QED BY <1>1, <1>5, <2>1, <2>2 DEF Folding
<1>7. Iter(iter)
  <2> HIDE DEF Iter
  <2> QED BY <1>6
<1>8. Reached(path) = iter[DOMAIN index]
  BY DEF Reached, FoldLeftDomain, FoldLeft, MapThenFoldSet, base
<1> HIDE DEF iter, index, n
<1>9. /\ iter[{}] = base
      /\ \A x \in SUBSET (1..n) : x # {} =>
           iter[x] = Onto(iter[x \ {Max(x)}], SubSeq(path, 1, index[Max(x)]))
  BY <1>1, <1>7
<1> DEFINE at == [k \in 0..n |-> iter[1..k]]
<1>10. at[0] = Onto(1, <<>>)
  <2>1. 1..0 = {} /\ 0 \in 0..n
    BY <1>1
  <2> QED BY <1>9, <2>1 DEF base
<1>11. ASSUME NEW k \in 1..n PROVE at[k] = Onto(at[k - 1], SubSeq(path, 1, k))
  <2>1. k \in 0..n /\ k - 1 \in 0..n /\ 1..k \in SUBSET (1..n) /\ k \in Nat \ {0}
    BY <1>1
  <2>2. 1..k # {} /\ Max(1..k) = k /\ (1..k) \ {k} = 1..k-1
    BY <2>1, LastPlace
  <2>3. iter[1..k] = Onto(iter[1..k-1], SubSeq(path, 1, k))
    BY <1>1, <1>9, <2>1, <2>2
  <2> QED BY <2>1, <2>3
<1>12. Reached(path) = at[n]
  BY <1>1, <1>8
<1> QED BY <1>10, <1>11, <1>12 DEF n

\* That row is the one the script looks up.
LEMMA ReachedIsOptions ==
  ASSUME MountInfo(table), NEW path \in Path
  PROVE  Covers(table, Len(table), Reached(path), path) /\ Reached(path) = OptionsOf(path)
<1> DEFINE N == Len(table)
<1>1. PICK at : /\ at[0] = Onto(1, <<>>)
                /\ \A k \in 1..Len(path) : at[k] = Onto(at[k - 1], SubSeq(path, 1, k))
                /\ Reached(path) = at[Len(path)]
  BY ReachedSteps
<1>2. /\ N \in Nat \ {0} /\ table \in Seq(MountRow) /\ table[1].point = <<>>
      /\ \A n \in 1..N : table[n].point \in Path /\ Len(table[n].point) \in Nat
  BY RowsOf
<1>3. Len(path) \in Nat /\ \A k \in 0..Len(path) : SubSeq(path, 1, k) \in Path
  BY CutPath DEF Path
<1> DEFINE H == {k \in 0..Len(path) : Covers(table, N, at[k], SubSeq(path, 1, k))}
<1>4. 0 \in H
  <2>1. SubSeq(path, 1, 0) = <<>> /\ <<>> \in Path /\ Prefix(<<>>, <<>>)
    BY <1>3, CutPath, EmptyPrefix
  <2>2. Below(1, <<>>)
    BY <1>2, <2>1 DEF Below
  <2>3. Covers(table, N, Onto(1, <<>>), <<>>)
    BY <2>1, <2>2, OntoCover
  <2>4. 0 \in 0..Len(path)
    BY <1>3
  <2> QED BY <1>1, <2>1, <2>3, <2>4
<1>5. ASSUME NEW k \in 1..Len(path), k - 1 \in H PROVE k \in H
  <2> DEFINE c == SubSeq(path, 1, k)
             b == SubSeq(path, 1, k - 1)
             r == at[k - 1]
  <2>1. k \in 0..Len(path) /\ k - 1 \in 0..Len(path) /\ k \in Nat
    BY <1>3
  <2>2. /\ c \in Path /\ Len(c) = k /\ Prefix(c, path)
        /\ b \in Path /\ Len(b) = k - 1 /\ Prefix(b, path)
        /\ \A d \in Path : Prefix(d, path) /\ Len(d) <= k - 1 => Prefix(d, b)
    BY <2>1, CutPath
  <2>3. Covers(table, N, r, b)
    BY <1>5
  <2> HIDE DEF c, b, r, N
  <2>4. Prefix(b, c)
    BY <2>1, <2>2, PrefixOrder
  <2>5. r \in 1..N /\ Prefix(table[r].point, c)
    BY <1>2, <2>2, <2>3, <2>4, PrefixOrder DEF Covers
  <2>6. ASSUME NEW n \in 1..N, Prefix(table[n].point, c), table[n].point # c
        PROVE  \/ Len(table[n].point) < Len(table[r].point)
               \/ Len(table[n].point) = Len(table[r].point) /\ n <= r
    <3>1. table[n].point \in Path /\ Len(table[n].point) \in Nat
      BY <1>2
    <3>2. Len(table[n].point) <= Len(c) /\ Len(table[n].point) # Len(c)
      BY <2>2, <2>6, <3>1, PrefixOrder, PrefixPlaces
    <3>3. Len(table[n].point) <= k - 1
      BY <2>1, <2>2, <3>1, <3>2
    <3>4. Prefix(table[n].point, path)
      BY <2>2, <2>6, <3>1, PrefixOrder
    <3>5. Prefix(table[n].point, b)
      BY <2>2, <3>1, <3>3, <3>4
    <3> QED BY <2>3, <3>5 DEF Covers
  <2>7. Below(r, c)
    BY <2>5, <2>6 DEF Below, N
  <2>8. Covers(table, N, Onto(r, c), c)
    BY <2>2, <2>7, OntoCover DEF N
  <2>9. at[k] = Onto(r, c)
    BY <1>1 DEF r, c
  <2> QED BY <2>1, <2>8, <2>9 DEF c
<1>6. H \in SUBSET (0..Len(path))
  OBVIOUS
<1>7. Len(path) \in H
  <2> HIDE DEF H
  <2>1. H = 0..Len(path)
    BY <1>3, <1>4, <1>5, <1>6, SetInduction
  <2> QED BY <1>3, <2>1
<1>8. SubSeq(path, 1, Len(path)) = path
  BY <1>3, CutPath
<1>9. Covers(table, N, Reached(path), path)
  BY <1>1, <1>7, <1>8
<1>10. Covers(table, N, OptionsOf(path), path)
  BY OptionsCover
<1>11. N \in 0..Len(table)
  BY <1>2
<1> QED BY <1>2, <1>9, <1>10, <1>11, CoverUnique

-----------------------------------------------------------------------------
(* SuspectIsReported and UnreadableIsPartial *)

\* The places of Entries that find has passed.
Seen == {k \in DOMAIN Entries : k < position}

WalkTypes ==
  /\ MountInfo(table) /\ moved \in SUBSET Path
  /\ walk \in {"start", "find", "explain", "done"} /\ position \in 1..Len(Entries)+1
  /\ pruned \in SUBSET {Entries[k].path : k \in {j \in Seen : Entries[j].is # "suspect"}}

\* What is handed to the shell is of the directory's file system, and what is printed can
\* run as well.
OnlyInside ==
  \A p \in Suspects : Settled(p) =>
    /\ p \in batch => ~Outside(p)
    /\ p \in reported => ~Outside(p) /\ table[Reached(p)].runs

\* A suspect that find has passed is not lost without a trace.
NoneLost ==
  \A k \in Seen :
    LET p == Entries[k].path IN
      Entries[k].is = "suspect" /\ Settled(p) /\ table[Reached(p)].runs
      => p \in batch \/ p \in reported \/ <<>> \in complaints \/ \E d \in pruned : Prefix(d, p)

\* A directory that was not entered is on another device or complained of, ...
Pruned == \A d \in pruned : Settled(d) => Foreign(d) \/ d \in complaints
\* ... and one on another device was not entered, or is in one that was not.
NotEntered ==
  \A k \in Seen :
    LET p == Entries[k].path IN
      Entries[k].is # "suspect" /\ Settled(p) /\ Foreign(p) => \E d \in pruned : Prefix(d, p)

\* What find could not read, where it came, it has complained of.
Complained ==
  \A k \in Seen :
    LET e == Entries[k] IN
      Settled(e.path) /\ (\A d \in pruned : ~Prefix(d, e.path) \/ d = e.path) =>
        /\ Refused(e) => e.path \in complaints
        /\ e.is = "broken" => <<>> \in complaints

\* Without a mark the walk came to its end and every complaint was excused.
Unmarked ==
  /\ walk = "explain" => Seen = DOMAIN Entries /\ batch = {}
  /\ walk = "done" /\ ~partial =>
       /\ Seen = DOMAIN Entries /\ batch = {}
       /\ \A p \in complaints : p # <<>> /\ Excused(p)

WalkInv ==
  WalkTypes /\ OnlyInside /\ NoneLost /\ Pruned /\ NotEntered /\ Complained /\ Unmarked
-----------------------------------------------------------------------------
(* What mounts that come and go elsewhere leave alone *)

\* What the assumptions say of the entries.
LEMMA EntryFacts ==
  /\ Root \in Path /\ DOMAIN Entries = 1..Len(Entries) /\ Len(Entries) \in Nat
  /\ \A k \in 1..Len(Entries) :
       LET p == Entries[k].path IN
       /\ p \in Path /\ Prefix(Root, p) /\ p # Root /\ Len(p) \in Nat /\ Len(Root) < Len(p)
       /\ \A j \in 1..Len(Entries) : Entries[j].path = p => j = k
       /\ Entries[k].is = "suspect" => p \in Suspects
  /\ \A p \in Suspects : \E k \in 1..Len(Entries) : p = Entries[k].path /\ Entries[k].is = "suspect"
<1>1. Root \in Path /\ DOMAIN Entries = 1..Len(Entries) /\ Len(Entries) \in Nat
  BY EntriesAssumption
<1>2. ASSUME NEW k \in 1..Len(Entries)
      PROVE  LET p == Entries[k].path IN
             /\ p \in Path /\ Prefix(Root, p) /\ p # Root /\ Len(p) \in Nat /\ Len(Root) < Len(p)
             /\ \A j \in 1..Len(Entries) : Entries[j].path = p => j = k
             /\ Entries[k].is = "suspect" => p \in Suspects
  <2> DEFINE p == Entries[k].path
  <2>1. p \in Path
    <3> DEFINE Entry == [path : Path, is : Kind]
    <3>1. Entries \in Seq(Entry)
      BY EntriesAssumption
    <3>2. \A e \in Entry : e.path \in Path
      OBVIOUS
    <3> HIDE DEF Entry
    <3>3. Entries[k] \in Entry
      BY <3>1
    <3> QED BY <3>2, <3>3
  <2>2. Prefix(Root, p) /\ p # Root /\ \A j \in 1..Len(Entries) : Entries[j].path = p => j = k
    BY <1>1, EntriesAssumption
  <2>3. Entries[k].is = "suspect" => p \in Suspects
    BY <1>1 DEF Suspects
  <2> HIDE DEF p
  <2>4. Len(p) \in Nat /\ Len(Root) \in Nat /\ Len(Root) <= Len(p) /\ Len(Root) # Len(p)
    BY <1>1, <2>1, <2>2, PrefixPlaces, PrefixOrder
  <2>5. Len(Root) < Len(p)
    BY <2>4
  <2> QED BY <2>1, <2>2, <2>3, <2>4, <2>5 DEF p
<1>3. \A p \in Suspects :
        \E k \in 1..Len(Entries) : p = Entries[k].path /\ Entries[k].is = "suspect"
  BY <1>1 DEF Suspects
<1> QED BY <1>1, <1>2, <1>3

\* The row that is reached, in a state and in the next.
LEMMA ReachedCovers ==
  ASSUME NEW path \in Path
  PROVE  /\ MountInfo(table) => Covers(table, Len(table), Reached(path), path)
         /\ (MountInfo(table) => Covers(table, Len(table), Reached(path), path))'
<1>1. MountInfo(table) => Covers(table, Len(table), Reached(path), path)
  BY ReachedIsOptions
<1>2. (MountInfo(table) => Covers(table, Len(table), Reached(path), path))'
  BY <1>1, PTL
<1> QED BY <1>1, <1>2

\* A change of the mounts leaves the table one of mounts ...
LEMMA MountKeepsInfo ==
  ASSUME MountInfo(table), NEW m \in Mountable, Mount(m)
  PROVE  /\ MountInfo(table') /\ Len(table') = Len(table) + 1
         /\ m.point \in Path /\ table'[Len(table')].point = m.point
         /\ \A n \in 1..Len(table) : table'[n] = table[n]
<1> DEFINE N == Len(table)
           row == [point |-> m.point, device |-> m.device, runs |-> m.runs,
                   refuses |-> m.refuses, on |-> Reached(m.point)]
<1>1. /\ table \in Seq(MountRow) /\ table # <<>> /\ table[1].point = <<>> /\ table[1].on = 0
      /\ N \in Nat \ {0} /\ DOMAIN table = 1..N
      /\ \A n \in 2..N : Covers(table, n - 1, table[n].on, table[n].point)
      /\ \A k, n \in 1..N :
           k < n /\ Prefix(table[n].point, table[k].point) => table[n].point = table[k].point
      /\ \A n \in 1..N : table[n].point \notin Suspects
      /\ \A n \in 1..N : table[n].point \in Path
  BY RowsOf
<1>2. m \in Mounted /\ m.point \notin Suspects
  BY MountableAssumption
<1>3. m.point \in Path /\ m.device \in Nat /\ m.runs \in BOOLEAN /\ m.refuses \in BOOLEAN
  BY <1>2 DEF Mounted
<1>4. Covers(table, N, Reached(m.point), m.point)
  BY <1>3, ReachedIsOptions
<1>5. Reached(m.point) \in Nat
  BY <1>1, <1>4 DEF Covers
<1>6. row \in MountRow /\ row.point = m.point /\ row.on = Reached(m.point)
  BY <1>3, <1>5 DEF MountRow
<1>7. /\ table' = Append(table, row)
      /\ \A n \in 1..N : Prefix(m.point, table[n].point) => table[n].point = m.point
  BY <1>1 DEF Mount
<1> HIDE DEF row, N
<1>8. /\ table' \in Seq(MountRow) /\ Len(table') = N + 1 /\ table'[N + 1] = row
      /\ \A n \in 1..N : table'[n] = table[n]
  BY <1>1, <1>6, <1>7 DEF N
<1>9. table' # <<>> /\ table'[1].point = <<>> /\ table'[1].on = 0 /\ DOMAIN table' = 1..N+1
  <2>1. 1 \in 1..N /\ Len(table') # 0
    BY <1>1, <1>8
  <2> QED BY <1>1, <1>8, <2>1
<1>10. \A n \in 1..N+1 : n = N + 1 \/ n \in 1..N
  BY <1>1
<1>11. ASSUME NEW n \in 2..N+1
       PROVE  Covers(table', n - 1, table'[n].on, table'[n].point)
  <2>1. \A k \in 1..n-1 : k \in 1..N
    BY <1>1
  <2>2. CASE n = N + 1
    <3>1. n - 1 = N
      BY <1>1, <2>2
    <3>2. Covers(table, n - 1, table'[n].on, table'[n].point)
      BY <1>4, <1>6, <1>8, <2>2, <3>1
    <3> QED BY <1>8, <2>1, <3>2 DEF Covers
  <2>3. CASE n # N + 1
    <3>1. n \in 2..N /\ n \in 1..N
      BY <1>1, <2>3
    <3>2. Covers(table, n - 1, table'[n].on, table'[n].point)
      BY <1>1, <1>8, <3>1
    <3> QED BY <1>8, <2>1, <3>2 DEF Covers
  <2> QED BY <2>2, <2>3
<1>12. ASSUME NEW k \in 1..N+1, NEW n \in 1..N+1, k < n, Prefix(table'[n].point, table'[k].point)
       PROVE  table'[n].point = table'[k].point
  <2>1. k \in 1..N
    BY <1>1, <1>12
  <2>2. CASE n = N + 1
    BY <1>6, <1>7, <1>8, <1>12, <2>1, <2>2
  <2>3. CASE n # N + 1
    BY <1>1, <1>8, <1>10, <1>12, <2>1, <2>3
  <2> QED BY <2>2, <2>3
<1>13. \A n \in 1..N+1 : table'[n].point \notin Suspects
  BY <1>1, <1>2, <1>6, <1>8, <1>10
<1>14. MountInfo(table')
  BY <1>8, <1>9, <1>11, <1>12, <1>13 DEF MountInfo
<1> QED BY <1>3, <1>6, <1>8, <1>14 DEF N

\* ... whether one is mounted or the last is taken away, ...
LEMMA UnmountKeepsInfo ==
  ASSUME MountInfo(table), Unmount
  PROVE  /\ MountInfo(table') /\ Len(table) = Len(table') + 1
         /\ table[Len(table)].point \in Path
         /\ \A n \in 1..Len(table') : table'[n] = table[n]
<1> DEFINE N == Len(table)
<1>1. /\ table \in Seq(MountRow) /\ table # <<>> /\ table[1].point = <<>> /\ table[1].on = 0
      /\ N \in Nat \ {0} /\ DOMAIN table = 1..N
      /\ \A n \in 2..N : Covers(table, n - 1, table[n].on, table[n].point)
      /\ \A k, n \in 1..N :
           k < n /\ Prefix(table[n].point, table[k].point) => table[n].point = table[k].point
      /\ \A n \in 1..N : table[n].point \notin Suspects
      /\ \A n \in 1..N : table[n].point \in Path
  BY RowsOf
<1>2. N > 1 /\ table' = SubSeq(table, 1, N - 1)
  BY DEF Unmount, Front
<1> HIDE DEF N
<1>3. /\ table' \in Seq(MountRow) /\ Len(table') = N - 1 /\ DOMAIN table' = 1..N-1
      /\ \A n \in 1..N-1 : table'[n] = table[n]
  BY <1>1, <1>2 DEF N
<1>4. 1 \in 1..N-1 /\ Len(table') # 0 /\ \A n \in 1..N-1 : n \in 1..N
  BY <1>1, <1>2, <1>3
<1>5. table' # <<>> /\ table'[1].point = <<>> /\ table'[1].on = 0
  BY <1>1, <1>3, <1>4
<1>6. ASSUME NEW n \in 2..N-1
      PROVE  Covers(table', n - 1, table'[n].on, table'[n].point)
  <2>1. n \in 2..N /\ n \in 1..N-1 /\ \A k \in 1..n-1 : k \in 1..N-1
    BY <1>1
  <2>2. Covers(table, n - 1, table'[n].on, table'[n].point)
    BY <1>1, <1>3, <2>1
  <2> QED BY <1>3, <2>1, <2>2 DEF Covers
<1>7. \A k, n \in 1..N-1 :
        k < n /\ Prefix(table'[n].point, table'[k].point) => table'[n].point = table'[k].point
  BY <1>1, <1>3, <1>4
<1>8. \A n \in 1..N-1 : table'[n].point \notin Suspects
  BY <1>1, <1>3, <1>4
<1>9. MountInfo(table')
  BY <1>3, <1>5, <1>6, <1>7, <1>8 DEF MountInfo
<1>10. N = Len(table') + 1 /\ N \in 1..N
  BY <1>1, <1>3
<1> QED BY <1>1, <1>3, <1>9, <1>10 DEF N

\* ... and what is not below the change as it was.
LEMMA MovesElsewhere ==
  ASSUME MountInfo(table), moved \in SUBSET Path,
         Unmount \/ \E m \in Mountable : Mount(m)
  PROVE  /\ MountInfo(table') /\ moved' \in SUBSET Path
         /\ \A path \in Path : Settled(path)' =>
              Settled(path) /\ Reached(path)' = Reached(path)
                /\ table'[Reached(path)'] = table[Reached(path)]
<1> DEFINE N == Len(table)
           M == Len(table')
<1>1. PICK point \in Path :
        /\ MountInfo(table') /\ moved' = moved \cup {point}
        /\ \/ /\ M = N + 1 /\ table'[M].point = point
              /\ \A n \in 1..N : table'[n] = table[n]
           \/ /\ N = M + 1 /\ table[N].point = point
              /\ \A n \in 1..M : table'[n] = table[n]
  <2>1. CASE Unmount
    <3>1. Last(table) = table[N]
      BY DEF Last
    <3>2. moved' = moved \cup {table[N].point}
      BY <2>1, <3>1 DEF Unmount, Change
    <3> QED BY <2>1, <3>2, UnmountKeepsInfo
  <2>2. ASSUME NEW m \in Mountable, Mount(m)
        PROVE  \E point \in Path :
                 /\ MountInfo(table') /\ moved' = moved \cup {point}
                 /\ M = N + 1 /\ table'[M].point = point
                 /\ \A n \in 1..N : table'[n] = table[n]
    <3>1. moved' = moved \cup {m.point}
      BY <2>2 DEF Mount, Change
    <3> QED BY <2>2, <3>1, MountKeepsInfo
  <2> QED BY <2>1, <2>2
<1>2. /\ N \in Nat \ {0} /\ table \in Seq(MountRow)
      /\ M \in Nat \ {0} /\ table' \in Seq(MountRow)
  <2>1. table' \in Seq(MountRow) /\ table' # <<>>
    BY <1>1 DEF MountInfo
  <2> QED BY <2>1, RowsOf
<1>3. ASSUME NEW path \in Path, Settled(path)'
      PROVE  Settled(path) /\ Reached(path)' = Reached(path)
                /\ table'[Reached(path)'] = table[Reached(path)]
  <2>1. Settled(path) /\ ~Prefix(point, path)
    BY <1>1, <1>3 DEF Settled
  <2> DEFINE r == Reached(path)
             s == Reached(path)'
  <2>2. Covers(table, N, r, path) /\ Covers(table', M, s, path)
    BY <1>1, ReachedCovers
  <2> HIDE DEF r, s, N, M
  <2>3. r \in 1..N /\ s \in 1..M /\ Prefix(table[r].point, path) /\ Prefix(table'[s].point, path)
    BY <2>2 DEF Covers
  <2>4. ASSUME /\ M = N + 1 /\ table'[M].point = point
               /\ \A n \in 1..N : table'[n] = table[n]
        PROVE  s = r /\ table'[s] = table[r]
    <3>1. s # M
      BY <2>1, <2>3, <2>4
    <3>2. s \in 1..N /\ \A n \in 1..N : n \in 1..M
      BY <1>2, <2>3, <2>4, <3>1
    <3>3. Covers(table, N, s, path)
      BY <2>2, <2>4, <3>2 DEF Covers
    <3>4. N \in 0..Len(table)
      BY <1>2 DEF N
    <3>5. s = r
      BY <1>2, <2>2, <3>3, <3>4, CoverUnique
    <3> QED BY <2>4, <3>2, <3>5
  <2>5. ASSUME /\ N = M + 1 /\ table[N].point = point
               /\ \A n \in 1..M : table'[n] = table[n]
        PROVE  s = r /\ table'[s] = table[r]
    <3>1. r # N
      BY <2>1, <2>3, <2>5
    <3>2. r \in 1..M /\ \A n \in 1..M : n \in 1..N
      BY <1>2, <2>3, <2>5, <3>1
    <3>3. Covers(table', M, r, path)
      BY <2>2, <2>5, <3>2 DEF Covers
    <3>4. M \in 0..Len(table')
      BY <1>2 DEF M
    <3>5. s = r
      BY <1>2, <2>2, <3>3, <3>4, CoverUnique
    <3> QED BY <2>5, <3>2, <3>5
  <2>6. s = r /\ table'[s] = table[r]
    BY <1>1, <2>4, <2>5 DEF N, M
  <2> QED BY <2>1, <2>6 DEF r, s
<1> QED BY <1>1, <1>3

\* A path on the way to a settled one is settled.
LEMMA SettledPrefix ==
  ASSUME moved \in SUBSET Path, NEW p \in Path, NEW q \in Path, Prefix(q, p), Settled(p)
  PROVE  Settled(q)
BY PrefixOrder DEF Settled

\* So is the start of one, which find has to pass as well.
LEMMA StartOf ==
  ASSUME NEW p \in Path, Root \in Path, Prefix(Root, p), NEW k \in Len(Root)..Len(p)
  PROVE  LET q == SubSeq(p, 1, k) IN
         q \in Path /\ Len(q) = k /\ Prefix(Root, q) /\ Prefix(q, p) /\ (k = Len(p) => q = p)
           /\ (k = Len(Root) => q = Root)
<1>1. Len(Root) \in Nat /\ Len(p) \in Nat
  BY DEF Path
<1>2. k \in 0..Len(p) /\ Len(Root) <= k
  BY <1>1
<1> QED BY <1>1, <1>2, CutPath

\* What no mount has come to or gone from on the way to p.
LEMMA Stays ==
  ASSUME MountInfo(table), moved \in SUBSET Path,
         UNCHANGED <<table, moved>> \/ Unmount \/ \E m \in Mountable : Mount(m),
         NEW p \in Path, Prefix(Root, p), Settled(p)'
  PROVE  /\ MountInfo(table') /\ moved' \in SUBSET Path /\ Settled(p)
         /\ Reached(p)' = Reached(p) /\ table'[Reached(p)'] = table[Reached(p)]
         /\ Foreign(p)' <=> Foreign(p)
         /\ Outside(p)' <=> Outside(p)
         /\ \A k \in 1..Len(Entries) :
              Entries[k].path = p => (Refused(Entries[k])' <=> Refused(Entries[k]))
<1>1. /\ MountInfo(table') /\ moved' \in SUBSET Path
      /\ \A path \in Path : Settled(path)' =>
           Settled(path) /\ Reached(path)' = Reached(path)
             /\ table'[Reached(path)'] = table[Reached(path)]
  <2>1. CASE Unmount \/ \E m \in Mountable : Mount(m)
    BY <2>1, MovesElsewhere
  <2>2. CASE UNCHANGED <<table, moved>>
    <3>1. \A path \in Path : Reached(path)' = Reached(path)
      <4> SUFFICES ASSUME NEW path \in Path PROVE Reached(path)' = Reached(path)
        OBVIOUS
      <4>1. /\ Covers(table, Len(table), Reached(path), path)
            /\ Covers(table', Len(table'), Reached(path)', path)
        BY <2>2, ReachedCovers
      <4>2. Covers(table, Len(table), Reached(path)', path)
        BY <2>2, <4>1
      <4>3. table \in Seq(MountRow) /\ Len(table) \in 0..Len(table)
        BY RowsOf
      <4> QED BY <4>1, <4>2, <4>3, CoverUnique
    <3> QED BY <2>2, <3>1 DEF Settled
  <2> QED BY <2>1, <2>2
<1>2. Root \in Path
  BY EntryFacts
<1>3. \A q \in Path : Prefix(q, p) => Settled(q)'
  BY <1>1, PrefixOrder DEF Settled
<1>4. Settled(p) /\ Reached(p)' = Reached(p) /\ table'[Reached(p)'] = table[Reached(p)]
  BY <1>1
<1>5. \A q \in Path : Prefix(q, p) => (Foreign(q)' <=> Foreign(q))
  BY <1>1, <1>2, <1>3 DEF Foreign
<1>6. Foreign(p)' <=> Foreign(p)
  BY <1>5, PrefixOrder
<1>7. Outside(p)' <=> Outside(p)
  <2>1. \A k \in (Len(Root) + 1)..Len(p) :
          Foreign(SubSeq(p, 1, k))' <=> Foreign(SubSeq(p, 1, k))
    <3> SUFFICES ASSUME NEW k \in (Len(Root) + 1)..Len(p)
                 PROVE  Foreign(SubSeq(p, 1, k))' <=> Foreign(SubSeq(p, 1, k))
      OBVIOUS
    <3>1. k \in Len(Root)..Len(p)
      <4>1. Len(Root) \in Nat /\ Len(p) \in Nat
        BY <1>2 DEF Path
      <4> QED BY <4>1
    <3> QED BY <1>2, <1>5, <3>1, StartOf
  <2> QED BY <2>1 DEF Outside
<1>8. \A k \in 1..Len(Entries) :
        Entries[k].path = p => (Refused(Entries[k])' <=> Refused(Entries[k]))
  BY <1>4 DEF Refused
<1> QED BY <1>1, <1>4, <1>6, <1>7, <1>8

\* A settled suspect find comes to, and is not kept from, is inside: it is on no mount of
\* its own, and find has passed the directories on the way to it.
LEMMA PassedInside ==
  ASSUME WalkInv, position \in 1..Len(Entries), Entries[position].is = "suspect",
         Settled(Entries[position].path),
         \A d \in pruned : ~Prefix(d, Entries[position].path)
  PROVE  ~Outside(Entries[position].path)
<1> DEFINE p == Entries[position].path
<1>1. /\ p \in Path /\ Prefix(Root, p) /\ Len(p) \in Nat /\ Len(Root) < Len(p) /\ p \in Suspects
      /\ Root \in Path /\ Len(Root) \in Nat /\ position \in Nat
  <2>1. Root \in Path
    BY EntryFacts
  <2>2. Len(Root) \in Nat /\ position \in Nat
    BY <2>1 DEF Path
  <2> QED BY <2>1, <2>2, EntryFacts
<1>2. MountInfo(table) /\ moved \in SUBSET Path
  BY DEF WalkInv, WalkTypes
<1>3. ASSUME NEW n \in (Len(Root) + 1)..(Len(p) - 1) PROVE ~Foreign(SubSeq(p, 1, n))
  <2> DEFINE q == SubSeq(p, 1, n)
  <2>1. n \in Len(Root)..Len(p)
    BY <1>1
  <2>2. q \in Path /\ Prefix(q, p)
    BY <1>1, <2>1, StartOf
  <2>3. PICK j \in 1..(position - 1) : Entries[j].path = q /\ Entries[j].is # "suspect"
    <3>1. position \in DOMAIN Entries
      BY EntryFacts
    <3> QED BY <3>1, EntriesAssumption
  <2>4. j \in Seen
    <3>1. DOMAIN Entries = 1..Len(Entries) /\ Len(Entries) \in Nat
      BY EntryFacts
    <3> QED BY <1>1, <3>1 DEF Seen
  <2>5. Settled(q)
    BY <1>1, <1>2, <2>2, SettledPrefix
  <2> HIDE DEF p, q
  <2> SUFFICES ASSUME Foreign(q) PROVE FALSE
    BY DEF q
  <2>6. PICK d \in pruned : Prefix(d, q)
    BY <2>3, <2>4, <2>5 DEF WalkInv, NotEntered
  <2>7. d \in Path
    BY EntryFacts DEF WalkInv, WalkTypes, Seen
  <2>8. Prefix(d, p)
    BY <1>1, <2>2, <2>6, <2>7, PrefixOrder
  <2> QED BY <2>6, <2>8 DEF p
<1>4. ~Foreign(p)
  <2> DEFINE n == Len(p) - 1
             q == SubSeq(p, 1, n)
  <2>1. n \in Len(Root)..Len(p) /\ n \in 0..Len(p) /\ n + 1 = Len(p)
    BY <1>1
  <2>2. /\ q \in Path /\ Prefix(q, p) /\ Len(q) = n /\ (n = Len(Root) => q = Root)
        /\ \A d \in Path : Prefix(d, p) /\ Len(d) <= n => Prefix(d, q)
    <3>1. q \in Path /\ Prefix(q, p) /\ Len(q) = n /\ (n = Len(Root) => q = Root)
      BY <1>1, <2>1, StartOf
    <3> HIDE DEF p, n
    <3>2. \A d \in Path : Prefix(d, p) /\ Len(d) <= n => Prefix(d, q)
      BY <1>1, <2>1, CutPath
    <3> QED BY <3>1, <3>2
  <2>3. ~Foreign(q)
    <3>1. n = Len(Root) \/ n \in (Len(Root) + 1)..(Len(p) - 1)
      BY <1>1, <2>1
    <3> QED BY <1>3, <2>2, <3>1 DEF Foreign
  <2> HIDE DEF p, q, n
  <2>4. Covers(table, Len(table), Reached(p), p) /\ Covers(table, Len(table), Reached(q), q)
    BY <1>1, <1>2, <2>2, ReachedCovers
  <2>5. ASSUME NEW k \in 1..Len(table), Prefix(table[k].point, p) PROVE Prefix(table[k].point, q)
    <3>1. table[k].point \in Path /\ Len(table[k].point) \in Nat /\ table[k].point # p
      BY <1>1, <1>2, RowsOf
    <3>2. Len(table[k].point) <= Len(p) /\ Len(table[k].point) # Len(p)
      BY <1>1, <2>5, <3>1, PrefixPlaces, PrefixOrder
    <3>3. Len(table[k].point) <= n
      BY <1>1, <2>1, <3>1, <3>2
    <3> QED BY <2>2, <2>5, <3>1, <3>3
  <2>6. ASSUME NEW k \in 1..Len(table), Prefix(table[k].point, q) PROVE Prefix(table[k].point, p)
    <3>1. table[k].point \in Path
      BY <1>2, RowsOf
    <3> QED BY <1>1, <2>2, <2>6, <3>1, PrefixOrder
  <2>7. Covers(table, Len(table), Reached(p), q)
    BY <2>4, <2>5, <2>6 DEF Covers
  <2>8. table \in Seq(MountRow) /\ Len(table) \in 0..Len(table)
    BY <1>2, RowsOf
  <2>9. Reached(p) = Reached(q)
    BY <2>2, <2>4, <2>7, <2>8, CoverUnique
  <2> QED BY <2>3, <2>9 DEF Foreign
<1>5. \A n \in (Len(Root) + 1)..Len(p) : n = Len(p) \/ n \in (Len(Root) + 1)..(Len(p) - 1)
  BY <1>1
<1>6. SubSeq(p, 1, Len(p)) = p
  <2>1. Len(p) \in Len(Root)..Len(p)
    BY <1>1
  <2> QED BY <1>1, <2>1, StartOf
<1> QED BY <1>3, <1>4, <1>5, <1>6 DEF Outside

\* At first there is nothing to be said of the walk but that the mounts are such.
LEMMA WalkInvInit == WalkInit => WalkInv
<1> SUFFICES ASSUME WalkInit PROVE WalkInv
  OBVIOUS
<1>1. Len(Entries) \in Nat
  BY EntryFacts
<1>2. Seen = {}
  BY <1>1, EntryFacts DEF WalkInit, Seen
<1>3. WalkTypes
  <2>1. MountInfo(table)
    BY TablesAssumption DEF WalkInit
  <2> QED BY <1>1, <2>1 DEF WalkInit, WalkTypes
<1> QED BY <1>2, <1>3 DEF WalkInit, WalkInv, OnlyInside, NoneLost, Pruned, NotEntered,
                         Complained, Unmarked

\* Mounts come and go elsewhere, and not when the walk is over.
LEMMA MountsKeep ==
  ASSUME WalkInv, Unmount \/ \E m \in Mountable : Mount(m)
  PROVE  WalkInv'
<1>1. /\ UNCHANGED <<walk, position, pruned, batch, reported, complaints, partial>>
      /\ walk # "done"
  BY DEF Unmount, Mount, Change
<1>2. MountInfo(table) /\ moved \in SUBSET Path
  BY DEF WalkInv, WalkTypes
<1>3. /\ MountInfo(table') /\ moved' \in SUBSET Path
      /\ \A p \in Path : Settled(p)' =>
           Settled(p) /\ table'[Reached(p)'] = table[Reached(p)]
  BY <1>2, MovesElsewhere
<1>4. /\ Root \in Path /\ Len(Entries) \in Nat
      /\ \A k \in 1..Len(Entries) : Entries[k].path \in Path /\ Prefix(Root, Entries[k].path)
      /\ \A p \in Suspects : p \in Path /\ Prefix(Root, p)
      /\ Seen \in SUBSET (1..Len(Entries)) /\ Seen' = Seen
      /\ \A d \in pruned : \E k \in 1..Len(Entries) : d = Entries[k].path
  <2>1. Seen \in SUBSET (1..Len(Entries)) /\ Seen' = Seen
    BY <1>1, EntryFacts DEF Seen
  <2>2. \A d \in pruned : \E k \in 1..Len(Entries) : d = Entries[k].path
    BY <2>1 DEF WalkInv, WalkTypes
  <2> QED BY <2>1, <2>2, EntryFacts
<1>5. \A p \in Path : Prefix(Root, p) /\ Settled(p)' =>
        /\ Settled(p) /\ table'[Reached(p)'] = table[Reached(p)]
        /\ Foreign(p)' <=> Foreign(p)
        /\ Outside(p)' <=> Outside(p)
        /\ \A k \in 1..Len(Entries) :
             Entries[k].path = p => (Refused(Entries[k])' <=> Refused(Entries[k]))
  BY <1>2, Stays
<1>6. WalkTypes'
  BY <1>1, <1>3, <1>4 DEF WalkInv, WalkTypes
<1>7. OnlyInside'
  BY <1>1, <1>4, <1>5 DEF WalkInv, OnlyInside
<1>8. NoneLost'
  BY <1>1, <1>4, <1>5 DEF WalkInv, NoneLost
<1>9. Pruned'
  BY <1>1, <1>4, <1>5 DEF WalkInv, Pruned
<1>10. NotEntered'
  BY <1>1, <1>4, <1>5 DEF WalkInv, NotEntered
<1>11. Complained'
  BY <1>1, <1>4, <1>5 DEF WalkInv, Complained
<1>12. Unmarked'
  BY <1>1, <1>4 DEF WalkInv, Unmarked
<1> QED BY <1>6, <1>7, <1>8, <1>9, <1>10, <1>11, <1>12 DEF WalkInv

\* When no mount moves, all that is said of the mounts stays.
LEMMA NoMounts ==
  ASSUME WalkInv, UNCHANGED mountVars
  PROVE  /\ MountInfo(table') /\ moved' \in SUBSET Path
         /\ \A p \in Path : Settled(p)' <=> Settled(p)
         /\ \A p \in Path : Prefix(Root, p) /\ Settled(p) =>
              /\ table'[Reached(p)'] = table[Reached(p)]
              /\ Foreign(p)' <=> Foreign(p)
              /\ Outside(p)' <=> Outside(p)
              /\ \A k \in 1..Len(Entries) :
                   Entries[k].path = p => (Refused(Entries[k])' <=> Refused(Entries[k]))
<1>1. UNCHANGED <<table, moved>> /\ MountInfo(table) /\ moved \in SUBSET Path
  BY DEF mountVars, WalkInv, WalkTypes
<1>2. \A p \in Path : Settled(p)' <=> Settled(p)
  BY <1>1 DEF Settled
<1> QED BY <1>1, <1>2, Stays

\* Where the entries come from.
LEMMA SeenEntries ==
  ASSUME WalkInv
  PROVE  /\ Root \in Path /\ Len(Entries) \in Nat /\ Seen \in SUBSET (1..Len(Entries))
         /\ \A k \in 1..Len(Entries) : Entries[k].path \in Path /\ Prefix(Root, Entries[k].path)
         /\ \A p \in Suspects : p \in Path /\ Prefix(Root, p)
         /\ \A d \in pruned : \E k \in Seen : d = Entries[k].path /\ Entries[k].is # "suspect"
<1>1. Seen \in SUBSET (1..Len(Entries))
  BY EntryFacts DEF Seen
<1>2. \A d \in pruned : \E k \in Seen : d = Entries[k].path /\ Entries[k].is # "suspect"
  BY DEF WalkInv, WalkTypes
<1> QED BY <1>1, <1>2, EntryFacts

\* What is said of the directories find has not entered stays while there are no others.
LEMMA PrunedStays ==
  ASSUME WalkInv, UNCHANGED <<mountVars, pruned>>, complaints \subseteq complaints'
  PROVE  Pruned'
<1>1. \A d \in pruned : d \in Path /\ Prefix(Root, d)
  BY SeenEntries
<1>2. UNCHANGED mountVars
  OBVIOUS
<1>3. \A d \in pruned : /\ Settled(d)' <=> Settled(d)
                        /\ Settled(d) => (Foreign(d)' <=> Foreign(d))
  BY <1>1, <1>2, NoMounts
<1> QED BY <1>3 DEF WalkInv, Pruned

\* What find passes is handed to the shell, kept or complained of.
LEMMA VisitKeeps ==
  ASSUME WalkInv, Visit
  PROVE  WalkInv'
<1> DEFINE e == Entries[position]
           out == \E d \in pruned : Prefix(d, e.path)
<1>1. /\ UNCHANGED mountVars /\ walk = "find" /\ UNCHANGED <<walk, reported, partial>>
      /\ position' = position + 1 /\ position <= Len(Entries)
      /\ batch' = batch \cup {p \in {e.path} : ~out /\ e.is = "suspect"}
      /\ pruned' = pruned \cup {p \in {e.path} : ~out /\ e.is # "suspect"
                                                     /\ (Refused(e) \/ Foreign(p))}
      /\ complaints' = complaints \cup {p \in {e.path} : ~out /\ Refused(e)}
                         \cup {p \in {<<>>} : ~out /\ e.is = "broken"}
  BY DEF Visit
<1>2. /\ Root \in Path /\ Len(Entries) \in Nat /\ Seen \in SUBSET (1..Len(Entries))
      /\ \A k \in 1..Len(Entries) : Entries[k].path \in Path /\ Prefix(Root, Entries[k].path)
      /\ \A p \in Suspects : p \in Path /\ Prefix(Root, p)
      /\ \A d \in pruned : \E k \in Seen : d = Entries[k].path /\ Entries[k].is # "suspect"
  BY SeenEntries
<1>3. /\ position \in 1..Len(Entries) /\ position \in Nat /\ position' \in 1..Len(Entries)+1
      /\ Seen' = Seen \cup {position} /\ position \notin Seen
  <2>1. position \in 1..Len(Entries)+1
    BY DEF WalkInv, WalkTypes
  <2>2. position \in 1..Len(Entries) /\ position \in Nat /\ position' \in 1..Len(Entries)+1
    BY <1>1, <1>2, <2>1
  <2>3. DOMAIN Entries = 1..Len(Entries)
    BY EntryFacts
  <2>4. \A k \in 1..Len(Entries) : k < position + 1 <=> k < position \/ k = position
    BY <1>2, <2>2
  <2>5. Seen' = Seen \cup {position} /\ position \notin Seen
    BY <1>1, <2>2, <2>3, <2>4 DEF Seen
  <2> QED BY <2>2, <2>5
<1>4. /\ e.path \in Path /\ Prefix(Root, e.path) /\ Prefix(e.path, e.path)
      /\ e.is = "suspect" => e.path \in Suspects
      /\ \A j \in 1..Len(Entries) : Entries[j].path = e.path => j = position
  BY <1>2, <1>3, EntryFacts, PrefixOrder
<1>5. /\ MountInfo(table') /\ moved' \in SUBSET Path
      /\ \A p \in Path : Settled(p)' <=> Settled(p)
      /\ \A p \in Path : Prefix(Root, p) /\ Settled(p) =>
           /\ table'[Reached(p)'] = table[Reached(p)]
           /\ Foreign(p)' <=> Foreign(p)
           /\ Outside(p)' <=> Outside(p)
           /\ \A k \in 1..Len(Entries) :
                Entries[k].path = p => (Refused(Entries[k])' <=> Refused(Entries[k]))
  BY <1>1, NoMounts
<1>6. /\ out => pruned' = pruned /\ batch' = batch /\ complaints' = complaints
      /\ ~out => /\ (e.is = "suspect" => batch' = batch \cup {e.path} /\ pruned' = pruned)
                 /\ (e.is # "suspect" => batch' = batch)
                 /\ (e.is # "suspect" /\ (Refused(e) \/ Foreign(e.path))
                       => pruned' = pruned \cup {e.path})
                 /\ (e.is # "suspect" /\ ~(Refused(e) \/ Foreign(e.path)) => pruned' = pruned)
                 /\ (Refused(e) => e.path \in complaints')
                 /\ (e.is = "broken" => <<>> \in complaints')
      /\ pruned \subseteq pruned' /\ batch \subseteq batch' /\ complaints \subseteq complaints'
  <2> HIDE DEF e, out
  <2> QED BY <1>1
<1>7. e.is # "suspect" => ~out \/ \E d \in pruned : Prefix(d, e.path) /\ d # e.path
  <2>1. \A d \in pruned : d # e.path
    BY <1>2, <1>3, <1>4
  <2> QED BY <2>1
<1>8. e.is = "suspect" /\ ~out /\ Settled(e.path) => ~Outside(e.path)
  BY <1>3, PassedInside
<1> HIDE DEF out, e
<1>9. WalkTypes'
  <2>1. pruned' \in SUBSET {Entries[k].path : k \in {j \in Seen' : Entries[j].is # "suspect"}}
    <3>1. pruned' = pruned \/ (pruned' = pruned \cup {e.path} /\ e.is # "suspect")
      BY <1>6
    <3>2. pruned \in SUBSET {Entries[k].path : k \in {j \in Seen : Entries[j].is # "suspect"}}
      BY DEF WalkInv, WalkTypes
    <3> QED BY <1>3, <3>1, <3>2 DEF e
  <2> QED BY <1>1, <1>3, <1>5, <2>1 DEF WalkInv, WalkTypes
<1>10. OnlyInside'
  <2> SUFFICES ASSUME NEW p \in Suspects, Settled(p)
               PROVE  /\ p \in batch' => ~Outside(p)
                      /\ p \in reported => ~Outside(p) /\ table[Reached(p)].runs
    BY <1>1, <1>2, <1>5 DEF OnlyInside
  <2>1. /\ p \in batch => ~Outside(p)
        /\ p \in reported => ~Outside(p) /\ table[Reached(p)].runs
    BY DEF WalkInv, OnlyInside
  <2>2. p \in batch' => p \in batch \/ (p = e.path /\ ~out /\ e.is = "suspect")
    BY <1>6
  <2> QED BY <1>8, <2>1, <2>2
<1>11. NoneLost'
  <2> SUFFICES ASSUME NEW k \in Seen', Entries[k].is = "suspect", Settled(Entries[k].path),
                      table[Reached(Entries[k].path)].runs
               PROVE  \/ Entries[k].path \in batch' \/ Entries[k].path \in reported
                      \/ <<>> \in complaints' \/ \E d \in pruned' : Prefix(d, Entries[k].path)
    BY <1>1, <1>2, <1>3, <1>5 DEF NoneLost
  <2>1. CASE k \in Seen
    BY <1>6, <2>1 DEF WalkInv, NoneLost
  <2>2. CASE k = position
    BY <1>6, <2>2 DEF e, out
  <2> QED BY <1>3, <2>1, <2>2
<1>12. Pruned'
  <2>1. \A d \in pruned' : d \in Path /\ Prefix(Root, d)
    <3>1. \A d \in pruned : d \in Path /\ Prefix(Root, d)
      BY <1>2
    <3> QED BY <1>4, <1>6, <3>1
  <2> SUFFICES ASSUME NEW d \in pruned', Settled(d) PROVE Foreign(d) \/ d \in complaints'
    BY <1>5, <2>1 DEF Pruned
  <2>2. CASE d \in pruned
    BY <1>6, <2>2 DEF WalkInv, Pruned
  <2>3. CASE d \notin pruned
    BY <1>6, <2>3
  <2> QED BY <2>2, <2>3
<1>13. NotEntered'
  <2> SUFFICES ASSUME NEW k \in Seen', Entries[k].is # "suspect", Settled(Entries[k].path),
                      Foreign(Entries[k].path)
               PROVE  \E d \in pruned' : Prefix(d, Entries[k].path)
    BY <1>2, <1>3, <1>5 DEF NotEntered
  <2>1. CASE k \in Seen
    BY <1>6, <2>1 DEF WalkInv, NotEntered
  <2>2. CASE k = position
    <3>1. CASE out
      BY <1>6, <2>2, <3>1 DEF e, out
    <3>2. CASE ~out
      <4>1. e.path \in pruned'
        BY <1>6, <2>2, <3>2 DEF e
      <4> QED BY <1>4, <2>2, <4>1 DEF e
    <3> QED BY <3>1, <3>2
  <2> QED BY <1>3, <2>1, <2>2
<1>14. Complained'
  <2> SUFFICES ASSUME NEW k \in Seen', Settled(Entries[k].path),
                      \A d \in pruned' : ~Prefix(d, Entries[k].path) \/ d = Entries[k].path
               PROVE  /\ Refused(Entries[k]) => Entries[k].path \in complaints'
                      /\ Entries[k].is = "broken" => <<>> \in complaints'
    BY <1>2, <1>3, <1>5 DEF Complained
  <2>1. CASE k \in Seen
    BY <1>6, <2>1 DEF WalkInv, Complained
  <2>2. CASE k = position
    <3>1. ~out
      <4>1. \A d \in pruned : d # e.path
        BY <1>2, <1>3, <1>4
      <4> QED BY <1>6, <2>2, <4>1 DEF e, out
    <3> QED BY <1>6, <2>2, <3>1 DEF e
  <2> QED BY <1>3, <2>1, <2>2
<1>15. Unmarked'
  BY <1>1 DEF Unmarked
<1> QED BY <1>9, <1>10, <1>11, <1>12, <1>13, <1>14, <1>15 DEF WalkInv

\* What the shell has looked up is printed if it can run, or the shell complains.
LEMMA LookUpKeeps ==
  ASSUME WalkInv, LookUp
  PROVE  WalkInv'
<1>1. PICK p \in batch :
        /\ walk = "find" /\ batch' = batch \ {p}
        /\ \/ /\ reported' = reported \cup {q \in {p} : table[OptionsOf(q)].runs}
              /\ UNCHANGED complaints
           \/ complaints' = complaints \cup {<<>>} /\ UNCHANGED reported
        /\ UNCHANGED <<mountVars, walk, position, pruned, partial>>
  BY DEF LookUp
<1>2. /\ Seen \in SUBSET (1..Len(Entries)) /\ Seen' = Seen
      /\ \A k \in 1..Len(Entries) : Entries[k].path \in Path /\ Prefix(Root, Entries[k].path)
      /\ \A q \in Suspects : q \in Path /\ Prefix(Root, q)
      /\ \A d \in pruned : \E k \in Seen : d = Entries[k].path /\ Entries[k].is # "suspect"
  BY <1>1, SeenEntries DEF Seen
<1>3. /\ MountInfo(table') /\ moved' \in SUBSET Path
      /\ \A q \in Path : Settled(q)' <=> Settled(q)
      /\ \A q \in Path : Prefix(Root, q) /\ Settled(q) =>
           /\ table'[Reached(q)'] = table[Reached(q)]
           /\ Foreign(q)' <=> Foreign(q)
           /\ Outside(q)' <=> Outside(q)
           /\ \A k \in 1..Len(Entries) :
                Entries[k].path = q => (Refused(Entries[k])' <=> Refused(Entries[k]))
  BY <1>1, NoMounts
<1>4. \A q \in Path : OptionsOf(q) = Reached(q)
  BY ReachedIsOptions DEF WalkInv, WalkTypes
<1>5. complaints \subseteq complaints' /\ reported \subseteq reported'
  BY <1>1
<1>6. p \in Path => \/ <<>> \in complaints'
                    \/ (table[Reached(p)].runs => p \in reported')
  BY <1>1, <1>4
<1>7. \A q \in reported' : q \in reported \/ (q = p /\ (p \in Path => table[Reached(p)].runs))
  BY <1>1, <1>4
<1>8. WalkTypes'
  BY <1>1, <1>2, <1>3 DEF WalkInv, WalkTypes
<1>9. OnlyInside'
  <2> SUFFICES ASSUME NEW q \in Suspects, Settled(q)
               PROVE  /\ q \in batch' => ~Outside(q)
                      /\ q \in reported' => ~Outside(q) /\ table[Reached(q)].runs
    BY <1>2, <1>3 DEF OnlyInside
  <2>1. /\ q \in batch => ~Outside(q)
        /\ q \in reported => ~Outside(q) /\ table[Reached(q)].runs
    BY DEF WalkInv, OnlyInside
  <2> QED BY <1>1, <1>2, <1>7, <2>1
<1>10. NoneLost'
  <2> SUFFICES ASSUME NEW k \in Seen, Entries[k].is = "suspect", Settled(Entries[k].path),
                      table[Reached(Entries[k].path)].runs
               PROVE  \/ Entries[k].path \in batch' \/ Entries[k].path \in reported'
                      \/ <<>> \in complaints' \/ \E d \in pruned : Prefix(d, Entries[k].path)
    BY <1>1, <1>2, <1>3 DEF NoneLost
  <2>1. \/ Entries[k].path \in batch \/ Entries[k].path \in reported
        \/ <<>> \in complaints \/ \E d \in pruned : Prefix(d, Entries[k].path)
    BY DEF WalkInv, NoneLost
  <2> QED BY <1>1, <1>2, <1>5, <1>6, <2>1
<1>11. Pruned'
  BY <1>1, <1>5, PrunedStays
<1>12. NotEntered'
  BY <1>1, <1>2, <1>3 DEF WalkInv, NotEntered
<1>13. Complained'
  BY <1>1, <1>2, <1>3, <1>5 DEF WalkInv, Complained
<1>14. Unmarked'
  BY <1>1 DEF Unmarked
<1> QED BY <1>8, <1>9, <1>10, <1>11, <1>12, <1>13, <1>14 DEF WalkInv

\* The start and the end of the walk: what it has passed stays.
LEMMA StartAndEndKeep ==
  ASSUME WalkInv, Start \/ FindEnds \/ Explain
  PROVE  WalkInv'
<1>1. UNCHANGED <<mountVars, position, pruned, batch, reported, complaints>>
  BY DEF Start, FindEnds, Explain
<1>2. /\ Seen \in SUBSET (1..Len(Entries)) /\ Seen' = Seen
      /\ \A k \in 1..Len(Entries) : Entries[k].path \in Path /\ Prefix(Root, Entries[k].path)
      /\ \A q \in Suspects : q \in Path /\ Prefix(Root, q)
      /\ \A d \in pruned : \E k \in Seen : d = Entries[k].path /\ Entries[k].is # "suspect"
  BY <1>1, SeenEntries DEF Seen
<1>3. /\ MountInfo(table') /\ moved' \in SUBSET Path
      /\ \A q \in Path : Settled(q)' <=> Settled(q)
      /\ \A q \in Path : Prefix(Root, q) /\ Settled(q) =>
           /\ table'[Reached(q)'] = table[Reached(q)]
           /\ Foreign(q)' <=> Foreign(q)
           /\ Outside(q)' <=> Outside(q)
           /\ \A k \in 1..Len(Entries) :
                Entries[k].path = q => (Refused(Entries[k])' <=> Refused(Entries[k]))
  BY <1>1, NoMounts
<1>4. WalkTypes'
  <2>1. walk' \in {"start", "find", "explain", "done"}
    BY DEF Start, FindEnds, Explain
  <2> QED BY <1>1, <1>2, <1>3, <2>1 DEF WalkInv, WalkTypes
<1>5. OnlyInside'
  BY <1>1, <1>2, <1>3 DEF WalkInv, OnlyInside
<1>6. NoneLost'
  BY <1>1, <1>2, <1>3 DEF WalkInv, NoneLost
<1>7. Pruned'
  BY <1>1, PrunedStays
<1>8. NotEntered'
  BY <1>1, <1>2, <1>3 DEF WalkInv, NotEntered
<1>9. Complained'
  BY <1>1, <1>2, <1>3 DEF WalkInv, Complained
<1>10. Unmarked'
  <2>1. CASE Start
    BY <2>1 DEF Start, Unmarked
  <2>2. CASE FindEnds
    <3>1. walk' = "explain" /\ position > Len(Entries) /\ batch = {}
      BY <2>2 DEF FindEnds
    <3>2. position \in Nat /\ Len(Entries) \in Nat /\ DOMAIN Entries = 1..Len(Entries)
      BY EntryFacts DEF WalkInv, WalkTypes
    <3>3. Seen = DOMAIN Entries
      BY <3>1, <3>2 DEF Seen
    <3> QED BY <1>1, <1>2, <3>1, <3>3 DEF Unmarked
  <2>3. CASE Explain
    <3>1. Seen = DOMAIN Entries /\ batch = {} /\ walk' = "done"
      BY <2>3 DEF Explain, WalkInv, Unmarked
    <3>2. ~partial' => \A q \in complaints : q # <<>> /\ Excused(q)
      BY <2>3 DEF Explain
    <3>3. \A q : Excused(q)' <=> Excused(q)
      <4>1. OptionsOf(Root)' = OptionsOf(Root)
        BY <1>1 DEF mountVars, OptionsOf
      <4> QED BY <1>1, <4>1 DEF mountVars, Excused
    <3> QED BY <1>1, <1>2, <3>1, <3>2, <3>3 DEF Unmarked
  <2> QED BY <2>1, <2>2, <2>3
<1> QED BY <1>4, <1>5, <1>6, <1>7, <1>8, <1>9, <1>10 DEF WalkInv

\* And where nothing happens nothing changes.
LEMMA StandsStill ==
  ASSUME WalkInv,
         UNCHANGED <<mountVars, walk, position, pruned, batch, reported, complaints, partial>>
  PROVE  WalkInv'
<1>1. /\ UNCHANGED <<mountVars, position, pruned, batch, reported, complaints, partial>>
      /\ walk' = walk /\ mountVars' = mountVars
  OBVIOUS
<1>2. /\ Seen \in SUBSET (1..Len(Entries)) /\ Seen' = Seen
      /\ \A k \in 1..Len(Entries) : Entries[k].path \in Path /\ Prefix(Root, Entries[k].path)
      /\ \A q \in Suspects : q \in Path /\ Prefix(Root, q)
      /\ \A d \in pruned : \E k \in Seen : d = Entries[k].path /\ Entries[k].is # "suspect"
  BY <1>1, SeenEntries DEF Seen
<1>3. /\ MountInfo(table') /\ moved' \in SUBSET Path
      /\ \A q \in Path : Settled(q)' <=> Settled(q)
      /\ \A q \in Path : Prefix(Root, q) /\ Settled(q) =>
           /\ table'[Reached(q)'] = table[Reached(q)]
           /\ Foreign(q)' <=> Foreign(q)
           /\ Outside(q)' <=> Outside(q)
           /\ \A k \in 1..Len(Entries) :
                Entries[k].path = q => (Refused(Entries[k])' <=> Refused(Entries[k]))
  BY <1>1, NoMounts
<1>4. WalkTypes'
  BY <1>1, <1>2, <1>3 DEF WalkInv, WalkTypes
<1>5. OnlyInside'
  BY <1>1, <1>2, <1>3 DEF WalkInv, OnlyInside
<1>6. NoneLost'
  BY <1>1, <1>2, <1>3 DEF WalkInv, NoneLost
<1>7. Pruned'
  BY <1>1, PrunedStays
<1>8. NotEntered'
  BY <1>1, <1>2, <1>3 DEF WalkInv, NotEntered
<1>9. Complained'
  BY <1>1, <1>2, <1>3 DEF WalkInv, Complained
<1>10. Unmarked'
  <2>1. \A q : Excused(q)' <=> Excused(q)
    BY <1>1 DEF mountVars, Excused, OptionsOf
  <2> QED BY <1>1, <1>2, <2>1 DEF WalkInv, Unmarked
<1> QED BY <1>4, <1>5, <1>6, <1>7, <1>8, <1>9, <1>10 DEF WalkInv

\* Every step of the walk and every mount preserves the invariant.
LEMMA WalkInvNext == WalkInv /\ WalkNext => WalkInv'
BY StartAndEndKeep, VisitKeeps, LookUpKeeps, MountsKeep DEF WalkNext

-----------------------------------------------------------------------------
(* The two promises of the walk *)

\* What is excused is on another device, if the table is one of mounts.
LEMMA ExcusedIsForeign ==
  ASSUME MountInfo(table), NEW d \in Path, Excused(d)
  PROVE  Foreign(d)
<1>1. PICK n \in {k \in DOMAIN table : table[k].point = d} :
        /\ \A k \in {j \in DOMAIN table : table[j].point = d} : k <= n
        /\ table[n].device # table[OptionsOf(Root)].device
  BY DEF Excused
<1>2. /\ table \in Seq(MountRow) /\ DOMAIN table = 1..Len(table) /\ Len(table) \in Nat
      /\ \A k \in 1..Len(table) : table[k].point \in Path /\ Len(table[k].point) \in Nat
  BY RowsOf
<1>3. n \in 1..Len(table) /\ table[n].point = d /\ Len(d) \in Nat
  BY <1>1, <1>2
<1>4. ASSUME NEW k \in 1..Len(table), Prefix(table[k].point, d)
      PROVE  \/ Len(table[k].point) < Len(d)
             \/ Len(table[k].point) = Len(d) /\ k <= n
  <2>1. Len(table[k].point) <= Len(d)
    BY <1>2, <1>4, PrefixPlaces
  <2>2. Len(table[k].point) = Len(d) => table[k].point = d
    BY <1>2, <1>4, PrefixOrder
  <2> QED BY <1>1, <1>2, <1>3, <2>1, <2>2
<1>5. Covers(table, Len(table), n, d)
  BY <1>3, <1>4, PrefixOrder DEF Covers
<1>6. Covers(table, Len(table), Reached(d), d) /\ Reached(Root) = OptionsOf(Root)
  BY EntryFacts, ReachedIsOptions
<1>7. Len(table) \in 0..Len(table)
  BY <1>2
<1>8. Reached(d) = n
  BY <1>2, <1>5, <1>6, <1>7, CoverUnique
<1> QED BY <1>1, <1>6, <1>8 DEF Foreign

\* A directory on another device on the way to p puts p outside.
LEMMA ForeignIsOutside ==
  ASSUME NEW p \in Path, NEW d \in Path, Prefix(d, p), Prefix(Root, d), d # Root, Foreign(d)
  PROVE  Outside(p)
<1>1. Root \in Path
  BY EntryFacts
<1>2. /\ Len(Root) \in Nat /\ Len(d) \in Nat /\ Len(p) \in Nat
      /\ Len(Root) <= Len(d) /\ Len(d) <= Len(p) /\ Len(Root) # Len(d)
  BY <1>1, PrefixPlaces, PrefixOrder
<1>3. Len(d) \in (Len(Root) + 1)..Len(p) /\ Len(d) \in 0..Len(p)
  BY <1>2
<1>4. SubSeq(p, 1, Len(d)) = d
  BY DEF Prefix
<1> QED BY <1>3, <1>4 DEF Outside

\* A settled suspect that can run and was not printed is in a directory that was not
\* entered, and the complaint of it is not excused.
LEMMA WalkIsReported == WalkInv => SuspectIsReported
<1> SUFFICES ASSUME WalkInv, walk = "done", NEW p \in Suspects, Settled(p)
             PROVE  /\ table[Reached(p)].runs /\ ~Outside(p) => p \in reported \/ partial
                    /\ p \in reported => table[Reached(p)].runs /\ ~Outside(p)
  BY DEF SuspectIsReported
<1>1. MountInfo(table) /\ moved \in SUBSET Path
  BY DEF WalkInv, WalkTypes
<1>2. PICK k \in DOMAIN Entries : p = Entries[k].path /\ Entries[k].is = "suspect"
  BY EntryFacts
<1>3. p \in Path /\ Root \in Path
  BY <1>2, EntryFacts
<1>4. ASSUME table[Reached(p)].runs, ~Outside(p), p \notin reported, ~partial
      PROVE  FALSE
  <2>1. Seen = DOMAIN Entries /\ batch = {} /\ \A q \in complaints : q # <<>> /\ Excused(q)
    BY <1>4 DEF WalkInv, Unmarked
  <2>2. PICK d \in pruned : Prefix(d, p)
    BY <1>2, <1>4, <2>1 DEF WalkInv, NoneLost
  <2>3. d \in Path /\ Prefix(Root, d) /\ d # Root
    <3>1. PICK j \in Seen : d = Entries[j].path
      BY SeenEntries
    <3> QED BY <2>1, <3>1, EntryFacts
  <2>4. Settled(d)
    BY <1>1, <1>3, <2>2, <2>3, SettledPrefix
  <2>5. Foreign(d)
    <3>1. Foreign(d) \/ d \in complaints
      BY <2>4 DEF WalkInv, Pruned
    <3> QED BY <1>1, <2>1, <2>3, <3>1, ExcusedIsForeign
  <2> QED BY <1>3, <1>4, <2>2, <2>3, <2>5, ForeignIsOutside
<1> QED BY <1>4 DEF WalkInv, OnlyInside

\* A settled entry that was refused was complained of, and that is not excused.
LEMMA WalkIsPartial == WalkInv => UnreadableIsPartial
<1> SUFFICES ASSUME WalkInv, walk = "done", NEW k \in DOMAIN Entries, ~partial,
                    Settled(Entries[k].path), ~Outside(Entries[k].path),
                    Refused(Entries[k]) \/ Entries[k].is = "broken",
                    \A d \in pruned : ~Prefix(d, Entries[k].path) \/ d = Entries[k].path
             PROVE  FALSE
  BY DEF UnreadableIsPartial
<1> DEFINE e == Entries[k]
<1>1. Seen = DOMAIN Entries /\ \A q \in complaints : q # <<>> /\ Excused(q)
  BY DEF WalkInv, Unmarked
<1>2. e.path \in complaints
  BY <1>1 DEF WalkInv, Complained
<1>3. e.path \in Path /\ Prefix(Root, e.path) /\ e.path # Root
  BY EntryFacts
<1>4. Foreign(e.path)
  BY <1>1, <1>2, <1>3, ExcusedIsForeign DEF WalkInv, WalkTypes
<1> QED BY <1>3, <1>4, ForeignIsOutside, PrefixOrder

-----------------------------------------------------------------------------
(* The invariant of both scripts *)

IInv == /\ script \in {"sample", "walk"}
        /\ script = "walk" => phase = "idle" /\ WalkInv
        /\ script = "sample" => walk = "idle" /\ SampleInv

\* It holds of each script while the other stands still.
LEMMA ScriptInvariant == Spec => []IInv
<1>1. Init => IInv
  BY SampleInvInit, WalkInvInit DEF Init, IInv, NoSample, NoWalk
<1>2. IInv /\ [Next]_vars => IInv'
  <2> SUFFICES ASSUME IInv, [Next]_vars PROVE IInv'
    OBVIOUS
  <2>1. CASE script = "sample" /\ SampleNext /\ UNCHANGED <<script, walkVars>>
    BY <2>1, SampleInvNext DEF IInv, walkVars
  <2>2. CASE script = "walk" /\ WalkNext /\ UNCHANGED <<script, sampleVars>>
    BY <2>2, WalkInvNext DEF IInv, sampleVars
  <2>3. CASE UNCHANGED vars
    <3>1. UNCHANGED <<script, life, changes, steady, file, phase, todo, kept, recorded, skipped,
                      markers>>
      BY <2>3 DEF vars, sampleVars
    <3>2. UNCHANGED <<mountVars, walk, position, pruned, batch, reported, complaints, partial>>
      BY <2>3 DEF vars, walkVars, mountVars
    <3>3. SampleInv => SampleInv'
      BY <3>1 DEF SampleInv, SampleTypes, Listed, Inspected, HalfInspected, Concluded, Covered,
                  MayRead
    <3>4. WalkInv => WalkInv'
      BY <3>2, StandsStill
    <3> QED BY <3>1, <3>2, <3>3, <3>4 DEF IInv
  <2> QED BY <2>1, <2>2, <2>3 DEF Next
<1> QED BY <1>1, <1>2, PTL DEF Spec

\* A user process that was there all the time has its line or the output admits that it
\* may not have; what is not one has none; and nothing is marked without a reason: for
\* any number of processes, any size of the sample and any changes of the host.
THEOREM EveryProcessAccounted == Spec => []EveryProcessIsAccountedFor
<1>1. IInv => EveryProcessIsAccountedFor
  <2> SUFFICES ASSUME IInv, phase = "done" PROVE
                 /\ \A p \in steady : life[p] \in UserProcess =>
                      \/ p \in Range(recorded)
                      \/ ~MayRead(p) /\ p \in skipped /\ "PARTIAL" \in markers
                      \/ "TRUNCATED" \in markers /\ p \notin skipped
                 /\ \A p \in steady : life[p] \in {"kernel", "zombie"} =>
                      p \notin Range(recorded) \cup skipped
                 /\ steady = Pids /\ "PARTIAL" \in markers =>
                      \E p \in Pids : life[p] \in {"private", "hidden"}
                 /\ IsInjective(recorded)
    BY DEF EveryProcessIsAccountedFor
  <2>1. SampleInv
    BY DEF IInv
  <2>2. /\ Range(recorded) \cup skipped \subseteq Range(kept)
        /\ \A q \in steady : life[q] \in UserProcess => Covered(q)
        /\ \A q \in steady \cap skipped : life[q] \in {"private", "hidden"}
        /\ \A q \in Range(kept) \cap steady : life[q] \in UserProcess
        /\ todo = <<>> /\ skipped \in SUBSET Pids
        /\ markers = (IF Len(kept) > 2 * Half THEN {"TRUNCATED"} ELSE {})
                       \cup (IF skipped # {} THEN {"PARTIAL"} ELSE {})
    BY <2>1 DEF SampleInv, Inspected, Listed, Concluded, SampleTypes
  <2>3. Range(todo) = {}
    BY <2>2, EmptySequence
  <2>4. /\ "TRUNCATED" \in markers <=> Len(kept) > 2 * Half
        /\ "PARTIAL" \in markers <=> skipped # {}
    BY <2>2
  <2>5. \A p \in steady : life[p] \in UserProcess =>
          \/ p \in Range(recorded)
          \/ ~MayRead(p) /\ p \in skipped /\ "PARTIAL" \in markers
          \/ "TRUNCATED" \in markers /\ p \notin skipped
    BY <2>2, <2>3, <2>4 DEF Covered
  <2>6. \A p \in steady : life[p] \in {"kernel", "zombie"} => p \notin Range(recorded) \cup skipped
    BY <2>2 DEF UserProcess
  <2>7. IsInjective(recorded)
    <3>1. recorded \in Seq(Pids) /\ Climbs(recorded)
      BY <2>1 DEF SampleInv, SampleTypes
    <3>2. DOMAIN recorded = 1..Len(recorded) /\ \A k \in DOMAIN recorded : recorded[k] \in Pids
      BY <3>1
    <3> SUFFICES ASSUME NEW j \in DOMAIN recorded, NEW k \in DOMAIN recorded, j # k
                 PROVE  recorded[j] # recorded[k]
      BY DEF IsInjective
    <3>3. recorded[j] \in Nat /\ recorded[k] \in Nat
      BY <3>2, PidsType
    <3>4. j < k \/ k < j
      BY <3>2
    <3>5. recorded[j] < recorded[k] \/ recorded[k] < recorded[j]
      BY <3>1, <3>4 DEF Climbs
    <3> QED BY <3>3, <3>5
  <2> QED BY <2>2, <2>4, <2>5, <2>6, <2>7
<1> QED BY <1>1, ScriptInvariant, PTL

\* The sample of the PIDs that passed is the Half lowest and the Half highest of them,
\* each once and in order, for any number of processes and any size of the ring.
THEOREM SampleLowHigh == Spec => SampleIsLowHigh
<1> DEFINE LowHigh == {p \in Range(kept) : \/ Cardinality({q \in Range(kept) : q < p}) < Half
                                           \/ Cardinality({q \in Range(kept) : q > p}) < Half}
<1>1. IInv /\ [Next]_vars =>
        [phase = "stat" /\ phase' = "inspect" =>
           todo' = Ascending({p \in Range(kept) :
                                \/ Cardinality({q \in Range(kept) : q < p}) < Half
                                \/ Cardinality({q \in Range(kept) : q > p}) < Half})
        ]_<<phase, todo, kept>>
  <2> SUFFICES ASSUME IInv, [Next]_vars, phase = "stat", phase' = "inspect"
               PROVE  todo' = Ascending(LowHigh)
    OBVIOUS
  <2>1. SampleInv /\ todo' = Sample(kept)
    <3>1. script = "sample" /\ SampleNext
      BY DEF IInv, Next, vars, sampleVars
    <3>2. TakeSample
      BY <3>1 DEF SampleNext, List, ReadStat, Inspect, Recheck, Second, Finish, Exits, IsReaped,
                  Starts, Become, NextPid
    <3> QED BY <3>1, <3>2 DEF IInv, TakeSample
  <2>2. kept \in Seq(Nat) /\ Climbs(kept)
    BY <2>1, PidsType, WiderSequence DEF SampleInv, SampleTypes
  <2>3. Climbs(Sample(kept)) /\ Sample(kept) \in Seq(Nat) /\ Range(Sample(kept)) = LowHigh
    BY <2>2, SampleOfAscending
  <2> HIDE DEF LowHigh
  <2>4. Ascending(Range(Sample(kept))) = Sample(kept)
    BY <2>3, AscendingRange
  <2> QED BY <2>1, <2>3, <2>4
<1> QED BY <1>1, ScriptInvariant, PTL DEF Spec, SampleIsLowHigh

\* Whatever is mounted elsewhere meanwhile, a suspect on a mount that lets it run is
\* printed or the output is marked partial, and one on a mount that does not, or of
\* another file system, is not printed: for any tree, any mounts and any of their changes.
THEOREM EverySuspectReported == Spec => []SuspectIsReported
<1>1. IInv => SuspectIsReported
  <2>1. walk = "idle" => SuspectIsReported
    BY DEF SuspectIsReported
  <2> QED BY <2>1, WalkIsReported DEF IInv
<1> QED BY <1>1, ScriptInvariant, PTL

\* What find came to and could not read, and is no mount of another device, leaves the mark.
THEOREM EveryRefusalMarked == Spec => []UnreadableIsPartial
<1>1. IInv => UnreadableIsPartial
  <2>1. walk = "idle" => UnreadableIsPartial
    BY DEF UnreadableIsPartial
  <2> QED BY <2>1, WalkIsPartial DEF IInv
<1> QED BY <1>1, ScriptInvariant, PTL
====
