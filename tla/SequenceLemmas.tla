---- MODULE SequenceLemmas ----
(***************************************************************************)
(* What the recursive operators of the community modules compute, for      *)
(* every argument: FlattenSeq, FoldLeft, and the order of a sorted         *)
(* sequence. Induction is done with sets: if a set of naturals for which a *)
(* statement fails had a member it would have a least one.                 *)
(***************************************************************************)
EXTENDS Integers, SequencesExt, FiniteSetTheorems, FunctionTheorems, WellFoundedInduction,
        NaturalsInduction, TLAPS

\* Every set of naturals that is not empty has a least member.
LEMMA LeastNatural ==
  ASSUME NEW T \in SUBSET Nat, T # {}
  PROVE  \E m \in T : \A k \in T : m <= k
<1> DEFINE R == OpToRel(<, Nat)
<1>1. IsWellFoundedOn(R, Nat)
  BY NatLessThanWellFounded
<1>2. R = {ss \in Nat \X Nat : ss[1] < ss[2]}
  BY DEF OpToRel
<1> HIDE DEF R
<1>3. PICK x \in T : \A y \in T : ~(<<y, x>> \in R)
  BY <1>1, WFMin
<1>4. ASSUME NEW k \in T PROVE x <= k
  <2>1. k < x => <<k, x>> \in R
     BY <1>2
  <2>2. k \in Nat /\ x \in Nat
    OBVIOUS
  <2> QED BY <1>3, <2>1, <2>2
<1> QED BY <1>4

\* Induction, with the set of the naturals up to n for which a statement holds.
LEMMA SetInduction ==
  ASSUME NEW n \in Nat, NEW H \in SUBSET (0..n), 0 \in H,
         \A m \in 1..n : m - 1 \in H => m \in H
  PROVE  H = 0..n
<1> SUFFICES ASSUME H # 0..n PROVE FALSE
  OBVIOUS
<1> DEFINE T == (0..n) \ H
<1>1. T \in SUBSET Nat
  OBVIOUS
<1>2. T # {}
  BY Zenon
<1>3. PICK m \in T : \A k \in T : m <= k
  BY <1>1, <1>2, LeastNatural
<1>4. m \in 1..n /\ m - 1 \in 0..n
  OBVIOUS
<1>5. m - 1 \in H
  BY <1>3, <1>4
<1> QED BY <1>4, <1>5

-----------------------------------------------------------------------------
(* FlattenSeq *)

\* The first m sequences of ss stand in F one after the other, that of index i after the
\* first off[i] places.
Lays(ss, m, F, off) ==
  /\ off \in [1..m+1 -> Nat] /\ off[1] = 0 /\ Len(F) = off[m + 1]
  /\ \A i \in 1..m : off[i + 1] = off[i] + Len(ss[i])
  /\ \A i, j \in 1..m : i < j => off[i + 1] <= off[j]
  /\ \A i \in 1..m : off[i + 1] <= off[m + 1]
  /\ \A i \in 1..m : \A k \in 1..Len(ss[i]) : F[off[i] + k] = ss[i][k]
  /\ \A p \in 1..Len(F) : \E i \in 1..m : \E k \in 1..Len(ss[i]) : p = off[i] + k

\* A sequence stands in a longer one, after what was there before.
LEMMA ConcatAt ==
  ASSUME NEW S, NEW s \in Seq(S), NEW t \in Seq(S)
  PROVE  /\ s \o t \in Seq(S) /\ Len(s \o t) = Len(s) + Len(t)
         /\ \A k \in 1..Len(s) : (s \o t)[k] = s[k]
         /\ \A k \in 1..Len(t) : (s \o t)[Len(s) + k] = t[k]
OBVIOUS

\* A place in the second part of a sum is a place in the whole.
LEMMA WithinSum ==
  ASSUME NEW a \in Nat, NEW b \in Nat, NEW c \in Nat, a + b <= c, NEW k \in 1..b
  PROVE  a + k \in 1..c
OBVIOUS

\* The places of the first m - 1 sequences are places of the first m.
LEMMA EarlierPlaces ==
  ASSUME NEW m \in Nat \ {0}, NEW i \in 1..m-1
  PROVE  i \in 1..m /\ i + 1 \in 1..m
OBVIOUS

\* One more sequence is laid after those laid before.
LEMMA LayOneMore ==
  ASSUME NEW S, NEW ss \in Seq(Seq(S)), NEW m \in 1..Len(ss), NEW F \in Seq(S), NEW off,
         Lays(ss, m - 1, F, off)
  PROVE  /\ F \o ss[m] \in Seq(S)
         /\ \E o : Lays(ss, m, F \o ss[m], o)
<1> DEFINE G == F \o ss[m]
           o == [i \in 1..m+1 |-> IF i = m + 1 THEN off[m] + Len(ss[m]) ELSE off[i]]
<1>1. /\ m \in Nat /\ m - 1 + 1 = m /\ ss[m] \in Seq(S) /\ Len(ss[m]) \in Nat /\ Len(F) \in Nat
      /\ \A i \in 1..m : ss[i] \in Seq(S) /\ Len(ss[i]) \in Nat
  OBVIOUS
<1>2. /\ off \in [1..m -> Nat] /\ off[1] = 0 /\ Len(F) = off[m]
      /\ \A i \in 1..m-1 : off[i + 1] = off[i] + Len(ss[i])
      /\ \A i, j \in 1..m-1 : i < j => off[i + 1] <= off[j]
      /\ \A i \in 1..m-1 : off[i + 1] <= off[m]
      /\ \A i \in 1..m-1 : \A k \in 1..Len(ss[i]) : F[off[i] + k] = ss[i][k]
      /\ \A p \in 1..Len(F) : \E i \in 1..m-1 : \E k \in 1..Len(ss[i]) : p = off[i] + k
  BY <1>1 DEF Lays
<1>3. /\ G \in Seq(S) /\ Len(G) = Len(F) + Len(ss[m])
      /\ \A k \in 1..Len(F) : G[k] = F[k]
      /\ \A k \in 1..Len(ss[m]) : G[Len(F) + k] = ss[m][k]
  BY <1>1, ConcatAt
<1>4. /\ o \in [1..m+1 -> Nat] /\ o[m + 1] = off[m] + Len(ss[m])
      /\ \A i \in 1..m : o[i] = off[i]
  BY <1>1, <1>2
<1> HIDE DEF G, o
<1>5. m \in Nat \ {0}
  OBVIOUS
<1>6. \A i \in 1..m-1 : i \in 1..m /\ i + 1 \in 1..m
  BY <1>5, EarlierPlaces
<1>7. (\A i \in 1..m : off[i] \in Nat) /\ \A i \in 1..m+1 : o[i] \in Nat
  BY <1>2, <1>4
<1>8. m \in 1..m /\ m + 1 \in 1..m+1 /\ 1 \in 1..m
  BY <1>5
<1>9. o[1] = 0 /\ Len(G) = o[m + 1]
  BY <1>1, <1>2, <1>3, <1>4
<1>10. \A i \in 1..m : o[i + 1] = o[i] + Len(ss[i])
  <2>1. ASSUME NEW i \in 1..m-1 PROVE o[i + 1] = o[i] + Len(ss[i])
    BY <1>2, <1>4, <1>6
  <2>2. o[m + 1] = o[m] + Len(ss[m])
    BY <1>4, <1>8
  <2> QED BY <1>1, <2>1, <2>2
<1>11. \A i, j \in 1..m : i < j => o[i + 1] <= o[j]
  <2> SUFFICES ASSUME NEW i \in 1..m, NEW j \in 1..m, i < j PROVE o[i + 1] <= o[j]
    OBVIOUS
  <2>1. i \in 1..m-1 /\ i + 1 \in 1..m /\ o[i + 1] = off[i + 1] /\ o[j] = off[j]
    BY <1>1, <1>4
  <2>2. CASE j = m
    BY <1>2, <2>1, <2>2
  <2>3. CASE j # m
    BY <1>1, <1>2, <2>1, <2>3
  <2> QED BY <2>2, <2>3
<1>12. \A i \in 1..m : o[i + 1] <= o[m + 1]
  <2> SUFFICES ASSUME NEW i \in 1..m-1 PROVE o[i + 1] <= o[m + 1]
    BY <1>1, <1>4
  <2>1. i + 1 \in 1..m /\ o[i + 1] = off[i + 1] /\ off[i + 1] <= off[m]
    BY <1>6, <1>2, <1>4
  <2>2. off[i + 1] \in Nat /\ off[m] \in Nat
    BY <1>7, <1>8, <2>1
  <2>3. Len(ss[m]) \in Nat /\ o[m + 1] = off[m] + Len(ss[m])
    BY <1>1, <1>4
  <2>4. off[i + 1] <= o[m + 1]
    BY <2>1, <2>2, <2>3
  <2> QED BY <2>1, <2>4
<1>13. \A i \in 1..m : \A k \in 1..Len(ss[i]) : G[o[i] + k] = ss[i][k]
  <2>1. ASSUME NEW i \in 1..m-1, NEW k \in 1..Len(ss[i]) PROVE G[o[i] + k] = ss[i][k]
    <3>1. i \in 1..m /\ i + 1 \in 1..m
      BY <1>6
    <3>2. o[i] = off[i] /\ off[i] \in Nat /\ Len(ss[i]) \in Nat
      BY <1>1, <1>2, <1>4, <3>1
    <3>3. off[i] + Len(ss[i]) <= Len(F) /\ F[off[i] + k] = ss[i][k]
      BY <1>2, <2>1
    <3>4. off[i] + k \in 1..Len(F)
      <4>1. Len(F) \in Nat /\ k \in 1..Len(ss[i])
        BY <1>1
      <4> QED BY <3>2, <3>3, <4>1, WithinSum
    <3>5. G[off[i] + k] = F[off[i] + k]
      BY <1>3, <3>4
    <3> QED BY <3>2, <3>3, <3>5
  <2>2. ASSUME NEW k \in 1..Len(ss[m]) PROVE G[o[m] + k] = ss[m][k]
    <3>1. m \in 1..m
      BY <1>5
    <3>2. o[m] = Len(F)
      BY <1>2, <1>4, <3>1
    <3> QED BY <1>3, <3>2
  <2>3. \A i \in 1..m : i \in 1..m-1 \/ i = m
    BY <1>1
  <2> QED BY <2>1, <2>2, <2>3
<1>14. \A p \in 1..Len(G) : \E i \in 1..m : \E k \in 1..Len(ss[i]) : p = o[i] + k
  <2> SUFFICES ASSUME NEW p \in 1..Len(G)
               PROVE  \E i \in 1..m : \E k \in 1..Len(ss[i]) : p = o[i] + k
    OBVIOUS
  <2>1. CASE p <= Len(F)
    <3>1. PICK i \in 1..m-1 : \E k \in 1..Len(ss[i]) : p = off[i] + k
      BY <1>1, <1>2, <2>1
    <3>2. i \in 1..m /\ o[i] = off[i]
      BY <1>1, <1>4
    <3> QED BY <3>1, <3>2
  <2>2. CASE p > Len(F)
    <3>1. m \in 1..m
      BY <1>5
    <3>2. o[m] = Len(F)
      BY <1>2, <1>4, <3>1
    <3>3. p - Len(F) \in 1..Len(ss[m]) /\ p = Len(F) + (p - Len(F))
      BY <1>1, <1>3, <2>2
    <3> QED BY <3>1, <3>2, <3>3
  <2> QED BY <1>1, <2>1, <2>2
<1>15. Lays(ss, m, G, o)
  BY <1>4, <1>9, <1>10, <1>11, <1>12, <1>13, <1>14 DEF Lays
<1> QED BY <1>3, <1>15 DEF G

\* The recursive function in FlattenSeq exists.
LEMMA FlattenExists ==
  ASSUME NEW ss, NEW n \in Nat
  PROVE  \E f : f = [i \in 1..n |-> IF i = 1 THEN ss[i] ELSE f[i - 1] \o ss[i]]
<1> DEFINE Is(f, m) == f = [i \in 1..m |-> IF i = 1 THEN ss[i] ELSE f[i - 1] \o ss[i]]
           H == {m \in 0..n : \E f : Is(f, m)}
<1>1. 0 \in H
  <2>1. Is([i \in 1..0 |-> 0], 0)
    OBVIOUS
  <2> HIDE DEF Is
  <2> QED BY <2>1
<1>2. ASSUME NEW m \in 1..n, m - 1 \in H PROVE m \in H
  <2>1. PICK f : Is(f, m - 1)
    BY <1>2
  <2> DEFINE g == [i \in 1..m |-> IF i = 1 THEN ss[i] ELSE f[i - 1] \o ss[i]]
  <2>2. \A i \in 1..m-1 : g[i] = f[i]
    <3>1. f = [i \in 1..m-1 |-> IF i = 1 THEN ss[i] ELSE f[i - 1] \o ss[i]]
      BY <2>1
    <3>2. ASSUME NEW i \in 1..m-1 PROVE g[i] = f[i]
      <4>1. f[i] = IF i = 1 THEN ss[i] ELSE f[i - 1] \o ss[i]
        BY <3>1
      <4>2. i \in 1..m
        OBVIOUS
      <4> HIDE DEF Is
      <4> QED BY <4>1, <4>2
    <3> QED BY <3>2
  <2>3. g = [i \in 1..m |-> IF i = 1 THEN ss[i] ELSE g[i - 1] \o ss[i]]
    <3>1. ASSUME NEW i \in 1..m, i # 1 PROVE g[i] = g[i - 1] \o ss[i]
      <4>1. g[i] = f[i - 1] \o ss[i]
        BY <3>1
      <4>2. i - 1 \in 1..m-1
        BY <3>1
      <4> QED BY <2>2, <4>1, <4>2
    <3>2. \A i \in 1..m : i = 1 => g[i] = ss[i]
      OBVIOUS
    <3>3. g = [i \in 1..m |-> g[i]]
      OBVIOUS
    <3> HIDE DEF g
    <3> QED BY <3>1, <3>2, <3>3
  <2> HIDE DEF g
  <2>4. Is(g, m)
    BY <2>3
  <2> HIDE DEF Is
  <2> QED BY <2>4
<1>3. H = 0..n
  <2> HIDE DEF H
  <2>1. H \in SUBSET (0..n)
    BY DEF H
  <2> QED BY <1>1, <1>2, <2>1, SetInduction
<1>4. \E f : Is(f, n)
  <2> HIDE DEF Is
  <2>1. n \in H
    <3> HIDE DEF H
    <3> QED BY <1>3
  <2> QED BY <2>1
<1> QED BY <1>4

\* FlattenSeq lays the sequences one after the other, and nothing else.
LEMMA FlattenLays ==
  ASSUME NEW S, NEW ss \in Seq(Seq(S))
  PROVE  /\ FlattenSeq(ss) \in Seq(S)
         /\ \E off : Lays(ss, Len(ss), FlattenSeq(ss), off)
<1> DEFINE n == Len(ss)
<1>1. CASE n = 0
  <2>1. FlattenSeq(ss) = ss /\ ss = <<>>
    BY <1>1 DEF FlattenSeq
  <2>2. Lays(ss, 0, <<>>, [i \in 1..1 |-> 0])
    BY DEF Lays
  <2> QED BY <1>1, <2>1, <2>2
<1>2. CASE n # 0
  <2>1. n \in Nat \ {0}
    BY <1>2
  <2> DEFINE f == CHOOSE f : f = [i \in 1..n |-> IF i = 1 THEN ss[i] ELSE f[i - 1] \o ss[i]]
  <2>2. FlattenSeq(ss) = f[n]
    BY <1>2 DEF FlattenSeq
  <2>3. f = [i \in 1..n |-> IF i = 1 THEN ss[i] ELSE f[i - 1] \o ss[i]]
    BY <2>1, FlattenExists
  <2> HIDE DEF f
  <2> DEFINE H == {m \in 0..n : m = 0 \/ (f[m] \in Seq(S) /\ \E off : Lays(ss, m, f[m], off))}
  <2>4. 0 \in H
    BY <2>1
  <2>5. ASSUME NEW m \in 1..n, m - 1 \in H PROVE m \in H
    <3>1. CASE m = 1
      <4>1. Lays(ss, 0, <<>>, [i \in 1..1 |-> 0]) /\ <<>> \in Seq(S)
        BY DEF Lays
      <4>2. <<>> \o ss[1] = ss[1] /\ f[1] = ss[1]
        BY <2>1, <2>3
      <4>3. f[m] \in Seq(S) /\ \E off : Lays(ss, m, f[m], off)
        <5>1. 1 \in 1..Len(ss) /\ 1 - 1 = 0
          BY <2>1
        <5>2. Lays(ss, 1 - 1, <<>>, [i \in 1..1 |-> 0])
          BY <4>1, <5>1
        <5>3. <<>> \o ss[1] \in Seq(S) /\ \E off : Lays(ss, 1, <<>> \o ss[1], off)
          BY <4>1, <5>1, <5>2, LayOneMore
        <5> QED BY <3>1, <4>2, <5>3
      <4> QED BY <4>3
    <3>2. CASE m # 1
      <4>1. f[m - 1] \in Seq(S) /\ \E off : Lays(ss, m - 1, f[m - 1], off)
        BY <2>5, <3>2
      <4>2. f[m] = f[m - 1] \o ss[m]
        BY <2>3, <3>2
      <4> HIDE DEF H
      <4>3. f[m] \in Seq(S) /\ \E off : Lays(ss, m, f[m], off)
        BY <4>1, <4>2, LayOneMore
      <4> QED BY <4>3 DEF H
    <3> QED BY <3>1, <3>2
  <2>6. H = 0..n
    <3> HIDE DEF H
    <3>1. H \in SUBSET (0..n)
      BY DEF H
    <3> QED BY <2>1, <2>4, <2>5, <3>1, SetInduction
  <2> QED BY <2>1, <2>2, <2>6
<1> QED BY <1>1, <1>2

-----------------------------------------------------------------------------
(* Sorting *)

\* A strict total order of 1..n can be followed: some permutation of 1..n goes up in it.
LEMMA SortingExists ==
  ASSUME NEW n \in Nat, NEW R \in SUBSET ((1..n) \X (1..n)),
         \A i \in 1..n : <<i, i>> \notin R,
         \A i, j, k \in 1..n : <<i, j>> \in R /\ <<j, k>> \in R => <<i, k>> \in R,
         \A i, j \in 1..n : i # j => <<i, j>> \in R \/ <<j, i>> \in R
  PROVE  \E p \in Bijection(1..n, 1..n) : \A j, k \in 1..n : j < k => <<p[j], p[k]>> \in R
<1> DEFINE D == 1..n
           Below(j) == {i \in D : <<i, j>> \in R}
           rank == [j \in D |-> Cardinality(Below(j)) + 1]
<1>1. IsFiniteSet(D) /\ Cardinality(D) = n
  BY FS_Interval
<1>2. ASSUME NEW j \in D PROVE /\ IsFiniteSet(Below(j)) /\ Cardinality(Below(j)) \in 0..n-1
                               /\ rank[j] \in D
  <2>1. Below(j) \in SUBSET (D \ {j})
    OBVIOUS
  <2>2. IsFiniteSet(D \ {j}) /\ Cardinality(D \ {j}) = n - 1
    BY <1>1, FS_RemoveElement
  <2> HIDE DEF D, Below
  <2>3. IsFiniteSet(Below(j)) /\ Cardinality(Below(j)) <= n - 1
    BY <2>1, <2>2, FS_Subset
  <2>4. Cardinality(Below(j)) \in Nat
    BY <2>3, FS_CardinalityType
  <2> QED BY <2>3, <2>4 DEF D
<1>3. ASSUME NEW i \in D, NEW j \in D, <<i, j>> \in R PROVE rank[i] < rank[j]
  <2>1. Below(i) \in SUBSET Below(j) /\ i \in Below(j) /\ i \notin Below(i)
    BY <1>3
  <2>2. /\ IsFiniteSet(Below(i)) /\ Cardinality(Below(i)) \in 0..n-1
        /\ IsFiniteSet(Below(j)) /\ Cardinality(Below(j)) \in 0..n-1
    BY <1>2
  <2> HIDE DEF Below
  <2>3. /\ Cardinality(Below(i)) <= Cardinality(Below(j))
        /\ Cardinality(Below(i)) # Cardinality(Below(j))
    BY <2>1, <2>2, FS_Subset
  <2> QED BY <2>2, <2>3
<1>4. rank \in Injection(D, D)
  <2>1. rank \in [D -> D]
    BY <1>2
  <2>2. ASSUME NEW i \in D, NEW j \in D, i # j PROVE rank[i] # rank[j]
    <3>1. rank[i] \in D /\ rank[j] \in D
      BY <1>2
    <3>2. rank[i] < rank[j] \/ rank[j] < rank[i]
      BY <1>3, <2>2
    <3> HIDE DEF rank
    <3> QED BY <3>1, <3>2
  <2> HIDE DEF rank
  <2> QED BY <2>1, <2>2 DEF Injection, IsInjective
<1> HIDE DEF rank, Below
<1>5. rank \in Surjection(D, D)
  BY <1>1, <1>4, FS_Injection
<1> DEFINE p == [k \in D |-> CHOOSE j \in D : rank[j] = k]
<1>6. \A k \in D : p[k] \in D /\ rank[p[k]] = k
  BY <1>5 DEF Surjection
<1>7. \A j \in D : p[rank[j]] = j
  <2>1. \A j \in D : rank[j] \in D
    BY <1>4 DEF Injection
  <2> QED BY <1>4, <1>6, <2>1 DEF Injection, IsInjective
<1> HIDE DEF p
<1>8. p \in Bijection(D, D)
  <2>1. p = [k \in D |-> p[k]] /\ p \in [D -> D]
    BY <1>6 DEF p
  <2>2. \A j \in D : rank[j] \in D
    BY <1>4 DEF Injection
  <2>3. \A j, k \in D : p[j] = p[k] => j = k
    BY <1>6
  <2> QED BY <1>7, <2>1, <2>2, <2>3 DEF Bijection, Injection, Surjection, IsInjective
<1>9. ASSUME NEW j \in D, NEW k \in D, j < k PROVE <<p[j], p[k]>> \in R
  <2>1. p[j] \in D /\ p[k] \in D /\ rank[p[j]] = j /\ rank[p[k]] = k
    BY <1>6
  <2>2. p[j] # p[k] /\ ~(k < j)
    BY <1>9, <2>1
  <2>3. <<p[k], p[j]>> \notin R
    BY <1>3, <2>1, <2>2
  <2> QED BY <2>1, <2>2, <2>3
<1> QED BY <1>8, <1>9

-----------------------------------------------------------------------------
(* Folds *)

\* The last of the first k places, and those before it.
LEMMA LastPlace ==
  ASSUME NEW k \in Nat \ {0}
  PROVE  1..k # {} /\ Max(1..k) = k /\ (1..k) \ {k} = 1..k-1
<1>1. k \in 1..k /\ \A i \in 1..k : k >= i
  OBVIOUS
<1>2. \A i \in 1..k : (\A j \in 1..k : i >= j) => i = k
  <2> SUFFICES ASSUME NEW i \in 1..k, i >= k PROVE i = k
    BY <1>1
  <2> QED OBVIOUS
<1>3. Max(1..k) = k
  BY <1>1, <1>2 DEF Max
<1>4. (1..k) \ {k} = 1..k-1
  OBVIOUS
<1> QED BY <1>1, <1>3, <1>4

\* The last of a set of places is one of them.
LEMMA MaxPlace ==
  ASSUME NEW m \in Nat, NEW x \in SUBSET (1..m), x # {}
  PROVE  Max(x) \in x /\ \A i \in x : Max(x) >= i
<1> DEFINE T == {m - i : i \in x}
<1>1. \A i \in x : i \in 1..m /\ m - i \in Nat
  OBVIOUS
<1>2. T \in SUBSET Nat /\ T # {}
  BY <1>1
<1>3. PICK d \in T : \A k \in T : d <= k
  BY <1>2, LeastNatural
<1>4. PICK i \in x : d = m - i
  OBVIOUS
<1>5. \A j \in x : i >= j
  <2> SUFFICES ASSUME NEW j \in x PROVE i >= j
    OBVIOUS
  <2>1. d <= m - j
    BY <1>3
  <2>2. i \in Int /\ j \in Int
    BY <1>1
  <2> QED BY <1>4, <2>1, <2>2
<1> QED BY <1>5 DEF Max

\* f[x] is what the fold of G from base is over the places x, from the first to the last.
Folding(f, n, base, G) ==
  \A x \in SUBSET (1..n) : f[x] = IF x = {} THEN base ELSE G[f[x \ {Max(x)}], Max(x)]

\* There is such a function, the recursive one in the definition of a fold.
LEMMA FoldExists ==
  ASSUME NEW n \in Nat, NEW V, NEW base \in V, NEW G \in [V \X (1..n) -> V]
  PROVE  \E f \in [SUBSET (1..n) -> V] : Folding(f, n, base, G)
<1> DEFINE Folds(f, m) ==
             /\ f \in [SUBSET (1..m) -> V] /\ f[{}] = base
             /\ \A x \in SUBSET (1..m) : x # {} => f[x] = G[f[x \ {Max(x)}], Max(x)]
           H == {m \in 0..n : \E f : Folds(f, m)}
<1>1. 0 \in H
  <2> DEFINE f == [x \in SUBSET (1..0) |-> base]
  <2>1. 1..0 = {}
    OBVIOUS
  <2>2. Folds(f, 0)
    BY <2>1
  <2> HIDE DEF Folds
  <2> QED BY <2>2
<1>2. ASSUME NEW m \in 1..n, m - 1 \in H PROVE m \in H
  <2>1. PICK f : Folds(f, m - 1)
    BY <1>2
  <2> DEFINE g == [x \in SUBSET (1..m) |-> IF m \in x THEN G[f[x \ {m}], m] ELSE f[x]]
  <2>2. /\ \A x \in SUBSET (1..m) : x \ {m} \in SUBSET (1..m-1)
        /\ \A x \in SUBSET (1..m) : m \notin x => x \in SUBSET (1..m-1)
        /\ \A x \in SUBSET (1..m-1) : m \notin x /\ x \in SUBSET (1..m)
        /\ m \in 1..n
    OBVIOUS
  <2>3. \A x \in SUBSET (1..m) : g[x] = IF m \in x THEN G[f[x \ {m}], m] ELSE f[x]
    OBVIOUS
  <2>4. g \in [SUBSET (1..m) -> V]
    <3> HIDE DEF H
    <3>1. ASSUME NEW x \in SUBSET (1..m)
          PROVE  (IF m \in x THEN G[f[x \ {m}], m] ELSE f[x]) \in V
      <4>1. CASE m \in x
        <5>1. f[x \ {m}] \in V /\ m \in 1..n
          BY <2>1, <2>2
        <5> QED BY <4>1, <5>1
      <4>2. CASE m \notin x
        BY <2>1, <2>2, <4>2
      <4> QED BY <4>1, <4>2
    <3> QED BY <3>1
  <2>5. g[{}] = base
    BY <2>1, <2>3
  <2>6. ASSUME NEW x \in SUBSET (1..m), x # {} PROVE g[x] = G[g[x \ {Max(x)}], Max(x)]
    <3>1. CASE m \in x
      <4>1. Max(x) = m
        <5>1. m \in Nat /\ x \in SUBSET (1..m)
          OBVIOUS
        <5>2. Max(x) \in x /\ \A i \in x : Max(x) >= i
          BY <2>6, <5>1, MaxPlace
        <5>3. Max(x) \in x /\ Max(x) >= m
          BY <3>1, <5>2
        <5>4. Max(x) \in 1..m
          BY <5>3
        <5> QED BY <5>3, <5>4
      <4>2. g[x \ {m}] = f[x \ {m}]
        BY <2>2, <2>3
      <4>3. g[x] = G[f[x \ {m}], m]
        BY <2>3, <3>1
      <4> QED BY <4>1, <4>2, <4>3
    <3>2. CASE m \notin x
      <4>1. x \in SUBSET (1..m-1) /\ x \ {Max(x)} \in SUBSET (1..m) /\ m \notin x \ {Max(x)}
        BY <2>2, <3>2
      <4>2. g[x] = f[x] /\ g[x \ {Max(x)}] = f[x \ {Max(x)}]
        BY <2>3, <3>2, <4>1
      <4>3. f[x] = G[f[x \ {Max(x)}], Max(x)]
        BY <2>1, <2>6, <4>1
      <4> QED BY <4>2, <4>3
    <3> QED BY <3>1, <3>2
  <2> HIDE DEF g
  <2>7. Folds(g, m)
    BY <2>4, <2>5, <2>6
  <2> HIDE DEF Folds
  <2> QED BY <2>7
<1>3. H = 0..n
  <2>1. H \in SUBSET (0..n)
    OBVIOUS
  <2> HIDE DEF H
  <2> QED BY <1>1, <1>2, <2>1, SetInduction
<1>4. PICK f : Folds(f, n)
  <2>1. n \in H
    <3> HIDE DEF H
    <3> QED BY <1>3
  <2> QED BY <2>1
<1>5. \A x \in SUBSET (1..n) : f[x] = IF x = {} THEN base ELSE G[f[x \ {Max(x)}], Max(x)]
  BY <1>4
<1> QED BY <1>4, <1>5 DEF Folding

\* What two sequences joined have is what one or the other has.
LEMMA ConcatRange ==
  ASSUME NEW S, NEW s \in Seq(S), NEW t \in Seq(S)
  PROVE  s \o t \in Seq(S) /\ Range(s \o t) = Range(s) \cup Range(t)
<1>1. /\ DOMAIN s = 1..Len(s) /\ DOMAIN t = 1..Len(t) /\ s \o t \in Seq(S)
      /\ DOMAIN (s \o t) = 1..(Len(s) + Len(t)) /\ Len(s) \in Nat /\ Len(t) \in Nat
      /\ \A k \in 1..Len(s) : (s \o t)[k] = s[k]
      /\ \A k \in 1..Len(t) : (s \o t)[Len(s) + k] = t[k]
  OBVIOUS
<1>2. \A k \in 1..Len(t) : Len(s) + k \in 1..(Len(s) + Len(t))
  BY <1>1
<1>3. \A k \in 1..(Len(s) + Len(t)) : k \in 1..Len(s) \/ \E j \in 1..Len(t) : k = Len(s) + j
  <2> SUFFICES ASSUME NEW k \in 1..(Len(s) + Len(t)), k \notin 1..Len(s)
               PROVE  k - Len(s) \in 1..Len(t) /\ k = Len(s) + (k - Len(s))
    OBVIOUS
  <2> QED BY <1>1
<1>4. ASSUME NEW k \in 1..(Len(s) + Len(t)) PROVE (s \o t)[k] \in Range(s) \cup Range(t)
  BY <1>1, <1>3 DEF Range
<1>5. Range(s) \subseteq Range(s \o t)
  <2> SUFFICES ASSUME NEW k \in 1..Len(s) PROVE s[k] \in Range(s \o t)
    BY <1>1 DEF Range
  <2> QED BY <1>1 DEF Range
<1>6. Range(t) \subseteq Range(s \o t)
  BY <1>1, <1>2 DEF Range
<1>7. Range(s \o t) \subseteq Range(s) \cup Range(t)
  BY <1>1, <1>4 DEF Range
<1> QED BY <1>1, <1>5, <1>6, <1>7

\* FlattenSeq leaves nothing out.
LEMMA FlattenRange ==
  ASSUME NEW S, NEW ss \in Seq(Seq(S))
  PROVE  /\ FlattenSeq(ss) \in Seq(S)
         /\ \A k \in DOMAIN ss : Range(ss[k]) \subseteq Range(FlattenSeq(ss))
<1>1. /\ FlattenSeq(ss) \in Seq(S)
      /\ \E off : Lays(ss, Len(ss), FlattenSeq(ss), off)
  BY FlattenLays
<1>2. ASSUME NEW k \in DOMAIN ss, NEW i \in DOMAIN ss[k] PROVE ss[k][i] \in Range(FlattenSeq(ss))
  <2>1. PICK off : Lays(ss, Len(ss), FlattenSeq(ss), off)
    BY <1>1
  <2>2. k \in 1..Len(ss) /\ ss[k] \in Seq(S) /\ i \in 1..Len(ss[k])
    BY ConcatRange
  <2>3. /\ FlattenSeq(ss)[off[k] + i] = ss[k][i] /\ off[k] \in Nat
        /\ off[k] + Len(ss[k]) <= Len(FlattenSeq(ss)) /\ Len(FlattenSeq(ss)) \in Nat
        /\ DOMAIN FlattenSeq(ss) = 1..Len(FlattenSeq(ss)) /\ Len(ss[k]) \in Nat
    <3>1. FlattenSeq(ss)[off[k] + i] = ss[k][i]
      BY <2>1, <2>2 DEF Lays
    <3>2. off[k] \in Nat
      BY <2>1, <2>2 DEF Lays
    <3>3. off[k] + Len(ss[k]) <= Len(FlattenSeq(ss))
      <4>1. off[k + 1] = off[k] + Len(ss[k]) /\ off[k + 1] <= off[Len(ss) + 1]
            /\ Len(FlattenSeq(ss)) = off[Len(ss) + 1]
        BY <2>1, <2>2 DEF Lays
      <4> QED BY <4>1
    <3> QED BY <3>1, <3>2, <3>3, <1>1, <2>2
  <2>4. off[k] + i \in DOMAIN FlattenSeq(ss)
    BY <2>2, <2>3, WithinSum
  <2> QED BY <2>3, <2>4 DEF Range
<1> QED BY <1>1, <1>2 DEF Range

\* A sequence over a set is one over every larger set.
LEMMA SeqMono ==
  ASSUME NEW S, NEW T, S \subseteq T, NEW s \in Seq(S)
  PROVE  s \in Seq(T)
OBVIOUS

\* One piece for each element of a sequence, joined by FlattenSeq.
LEMMA EachPiece ==
  ASSUME NEW S, NEW T, NEW seq \in Seq(T), NEW G \in [DOMAIN seq -> Seq(S)]
  PROVE  /\ G \in Seq(Seq(S)) /\ DOMAIN G = DOMAIN seq /\ FlattenSeq(G) \in Seq(S)
         /\ \A k \in DOMAIN seq : Range(G[k]) \subseteq Range(FlattenSeq(G))
<1>1. DOMAIN seq = 1..Len(seq) /\ Len(seq) \in Nat
  OBVIOUS
<1>2. G \in Seq(Seq(S)) /\ DOMAIN G = DOMAIN seq
  BY <1>1
<1> QED BY <1>2, FlattenRange

-----------------------------------------------------------------------------
(* Sums *)

\* f gives the sum of g over every set of places below n.
Summing(f, n, g) ==
  \A x \in SUBSET (1..n) : f[x] = IF x = {} THEN 0 ELSE f[x \ {Max(x)}] + g[Max(x)]

\* The sums over all sets of places exist.
LEMMA SumExists ==
  ASSUME NEW n \in Nat, NEW g \in [1..n -> Nat]
  PROVE  \E f \in [SUBSET (1..n) -> Nat] : Summing(f, n, g)
<1> DEFINE G == [v \in Nat \X (1..n) |-> v[1] + g[v[2]]]
<1>1. G \in [Nat \X (1..n) -> Nat] /\ \A a \in Nat, k \in 1..n : G[a, k] = a + g[k]
  <2>1. \A v \in Nat \X (1..n) : v[1] + g[v[2]] \in Nat
    OBVIOUS
  <2>2. \A a \in Nat, k \in 1..n : G[a, k] = a + g[k]
    OBVIOUS
  <2> QED BY <2>1, <2>2
<1> HIDE DEF G
<1>2. PICK f \in [SUBSET (1..n) -> Nat] : Folding(f, n, 0, G)
  BY <1>1, FoldExists
<1>3. Summing(f, n, g)
  <2> SUFFICES ASSUME NEW x \in SUBSET (1..n), x # {}
               PROVE  f[x] = f[x \ {Max(x)}] + g[Max(x)]
    BY <1>2 DEF Folding, Summing
  <2>1. Max(x) \in 1..n
    BY MaxPlace
  <2>2. f[x \ {Max(x)}] \in Nat
    OBVIOUS
  <2> QED BY <1>1, <1>2, <2>1, <2>2 DEF Folding
<1> QED BY <1>3

\* Summed in the order of the places, it goes up by one value after the other.
LEMMA SumSteps ==
  ASSUME NEW n \in Nat, NEW g \in [1..n -> Nat], NEW f, Summing(f, n, g)
  PROVE  /\ f[1..0] = 0
         /\ \A k \in 1..n : f[1..k] = f[1..k-1] + g[k]
         /\ \A k \in 0..n : f[1..k] \in Nat
<1>1. f[1..0] = 0
  <2>1. 1..0 = {}
    OBVIOUS
  <2> QED BY <2>1 DEF Summing
<1>2. ASSUME NEW k \in 1..n PROVE f[1..k] = f[1..k-1] + g[k]
  <2>1. 1..k # {} /\ Max(1..k) = k /\ (1..k) \ {k} = 1..k-1
    BY LastPlace
  <2>2. 1..k \in SUBSET (1..n)
    OBVIOUS
  <2> QED BY <2>1, <2>2 DEF Summing
<1>3. \A k \in 0..n : f[1..k] \in Nat
  <2> DEFINE H == {k \in 0..n : f[1..k] \in Nat}
  <2>1. 0 \in H
    BY <1>1
  <2>2. ASSUME NEW k \in 1..n, k - 1 \in H PROVE k \in H
    <3>1. f[1..k-1] \in Nat /\ g[k] \in Nat /\ k \in 0..n
      BY <2>2
    <3> QED BY <1>2, <3>1
  <2>3. H \in SUBSET (0..n)
    OBVIOUS
  <2>4. H = 0..n
    <3> HIDE DEF H
    <3> QED BY <2>1, <2>2, <2>3, SetInduction
  <2> QED BY <2>4
<1> QED BY <1>1, <1>2, <1>3
-----------------------------------------------------------------------------
(* A piece of a sequence *)

\* s stands in D, and everything before and after it is in O.
Isolates(D, s, O) ==
  \E off \in Nat :
    /\ off + Len(s) <= Len(D)
    /\ \A j \in 1..Len(s) : D[off + j] = s[j]
    /\ \A k \in 1..Len(D) : k \in off+1..off+Len(s) \/ D[k] \in O

\* It does so in itself,
LEMMA IsolatesItself ==
  ASSUME NEW S, NEW s \in Seq(S), NEW O
  PROVE  Isolates(s, s, O)
<1>1. Len(s) \in Nat /\ 0 + Len(s) = Len(s) /\ 0 + 1 = 1 /\ \A j \in 1..Len(s) : 0 + j = j
  OBVIOUS
<1> QED BY <1>1 DEF Isolates

\* ... with more of O behind it,
LEMMA IsolatesBefore ==
  ASSUME NEW U, NEW O, NEW D \in Seq(U), NEW s, Len(s) \in Nat, Isolates(D, s, O),
         NEW t \in Seq(O), O \subseteq U
  PROVE  D \o t \in Seq(U) /\ Isolates(D \o t, s, O)
<1>1. /\ Len(D) \in Nat /\ Len(t) \in Nat /\ Len(D \o t) = Len(D) + Len(t) /\ t \in Seq(U)
      /\ \A k \in 1..Len(D) : (D \o t)[k] = D[k]
      /\ \A k \in 1..Len(t) : (D \o t)[Len(D) + k] = t[k] /\ t[k] \in O
  OBVIOUS
<1>2. PICK off \in Nat :
        /\ off + Len(s) <= Len(D)
        /\ \A j \in 1..Len(s) : D[off + j] = s[j]
        /\ \A k \in 1..Len(D) : k \in off+1..off+Len(s) \/ D[k] \in O
  BY DEF Isolates
<1>3. \A j \in 1..Len(s) : off + j \in 1..Len(D)
  BY <1>1, <1>2
<1>4. ASSUME NEW k \in 1..Len(D)+Len(t), k \notin 1..Len(D) PROVE (D \o t)[k] \in O
  <2>1. k - Len(D) \in 1..Len(t) /\ k = Len(D) + (k - Len(D))
    BY <1>1, <1>4
  <2> QED BY <1>1, <2>1
<1>5. \A k \in 1..Len(D)+Len(t) : k \in off+1..off+Len(s) \/ (D \o t)[k] \in O
  BY <1>1, <1>2, <1>4
<1>6. \A j \in 1..Len(s) : (D \o t)[off + j] = s[j]
  BY <1>1, <1>2, <1>3
<1>7. off + Len(s) <= Len(D) + Len(t)
  BY <1>1, <1>2
<1>8. Isolates(D \o t, s, O)
  <2> DEFINE E == D \o t
  <2>1. Len(E) = Len(D) + Len(t)
    BY <1>1
  <2> HIDE DEF E
  <2>2. \A k \in 1..Len(E) : k \in off+1..off+Len(s) \/ E[k] \in O
    BY <1>5, <2>1 DEF E
  <2>3. \A j \in 1..Len(s) : E[off + j] = s[j]
    BY <1>6 DEF E
  <2> QED BY <1>7, <2>1, <2>2, <2>3 DEF Isolates, E
<1>9. D \o t \in Seq(U)
  BY <1>1
<1> QED BY <1>8, <1>9

\* ... with more of O before it,
LEMMA IsolatesAfter ==
  ASSUME NEW U, NEW O, NEW D \in Seq(U), NEW s, Len(s) \in Nat, Isolates(D, s, O),
         NEW t \in Seq(O), O \subseteq U
  PROVE  t \o D \in Seq(U) /\ Isolates(t \o D, s, O)
<1>1. /\ Len(D) \in Nat /\ Len(t) \in Nat /\ Len(t \o D) = Len(t) + Len(D) /\ t \in Seq(U)
      /\ \A k \in 1..Len(t) : (t \o D)[k] = t[k] /\ t[k] \in O
      /\ \A k \in 1..Len(D) : (t \o D)[Len(t) + k] = D[k]
  OBVIOUS
<1>2. PICK off \in Nat :
        /\ off + Len(s) <= Len(D)
        /\ \A j \in 1..Len(s) : D[off + j] = s[j]
        /\ \A k \in 1..Len(D) : k \in off+1..off+Len(s) \/ D[k] \in O
  BY DEF Isolates
<1> DEFINE at == Len(t) + off
<1>3. \A j \in 1..Len(s) : off + j \in 1..Len(D) /\ at + j = Len(t) + (off + j)
  BY <1>1, <1>2
<1>4. ASSUME NEW k \in 1..Len(t)+Len(D), k \notin 1..Len(t), k \notin at+1..at+Len(s)
      PROVE  (t \o D)[k] \in O
  <2>1. k - Len(t) \in 1..Len(D) /\ k = Len(t) + (k - Len(t))
        /\ k - Len(t) \notin off+1..off+Len(s)
    BY <1>1, <1>2, <1>4
  <2> QED BY <1>1, <1>2, <2>1
<1>5. \A k \in 1..Len(t)+Len(D) : k \in at+1..at+Len(s) \/ (t \o D)[k] \in O
  BY <1>1, <1>4
<1>6. \A j \in 1..Len(s) : (t \o D)[at + j] = s[j]
  BY <1>1, <1>2, <1>3
<1>7. at \in Nat /\ at + Len(s) <= Len(t) + Len(D)
  BY <1>1, <1>2
<1> HIDE DEF at
<1>8. Isolates(t \o D, s, O)
  <2> DEFINE E == t \o D
  <2>1. Len(E) = Len(t) + Len(D)
    BY <1>1
  <2> HIDE DEF E
  <2>2. \A k \in 1..Len(E) : k \in at+1..at+Len(s) \/ E[k] \in O
    BY <1>5, <2>1 DEF E
  <2>3. \A j \in 1..Len(s) : E[at + j] = s[j]
    BY <1>6 DEF E
  <2> QED BY <1>7, <2>1, <2>2, <2>3 DEF Isolates, E
<1>9. t \o D \in Seq(U)
  BY <1>1
<1> QED BY <1>8, <1>9

\* ... and among sequences over O that are joined.
LEMMA IsolatesAmong ==
  ASSUME NEW U, NEW O, NEW ss \in Seq(Seq(U)), NEW q \in DOMAIN ss, NEW s, Len(s) \in Nat,
         Isolates(ss[q], s, O), \A k \in DOMAIN ss : k # q => ss[k] \in Seq(O)
  PROVE  FlattenSeq(ss) \in Seq(U) /\ Isolates(FlattenSeq(ss), s, O)
<1> DEFINE F == FlattenSeq(ss)
           n == Len(ss)
<1>1. F \in Seq(U) /\ \E o : Lays(ss, n, F, o)
  BY FlattenLays
<1>2. n \in Nat /\ DOMAIN ss = 1..n /\ Len(F) \in Nat
  BY <1>1
<1> HIDE DEF F
<1>3. PICK o : Lays(ss, n, F, o)
  BY <1>1
<1>4. PICK off \in Nat :
        /\ off + Len(s) <= Len(ss[q])
        /\ \A j \in 1..Len(s) : ss[q][off + j] = s[j]
        /\ \A k \in 1..Len(ss[q]) : k \in off+1..off+Len(s) \/ ss[q][k] \in O
  BY DEF Isolates
<1> HIDE DEF n
<1>5. q \in 1..n /\ o[q] \in Nat /\ Len(ss[q]) \in Nat /\ o[q] + Len(ss[q]) <= Len(F)
      /\ \A k \in 1..Len(ss[q]) : F[o[q] + k] = ss[q][k]
  <2>1. q \in 1..n /\ ss[q] \in Seq(U)
    BY <1>2
  <2>2. q \in 1..n+1 /\ n + 1 \in 1..n+1 /\ q + 1 \in 1..n+1
    BY <1>2, <2>1
  <2>3. o \in [1..n+1 -> Nat] /\ Len(F) = o[n + 1]
    BY <1>3 DEF Lays
  <2>4. o[q + 1] = o[q] + Len(ss[q]) /\ o[q + 1] <= o[n + 1]
    BY <1>3, <2>1 DEF Lays
  <2>5. \A k \in 1..Len(ss[q]) : F[o[q] + k] = ss[q][k]
    BY <1>3, <2>1 DEF Lays
  <2> QED BY <2>1, <2>2, <2>3, <2>4, <2>5
<1> DEFINE at == o[q] + off
<1>6. at \in Nat /\ at + Len(s) <= Len(F)
  BY <1>2, <1>4, <1>5
<1>7. \A j \in 1..Len(s) : F[at + j] = s[j]
  <2>1. \A j \in 1..Len(s) : off + j \in 1..Len(ss[q]) /\ at + j = o[q] + (off + j)
    BY <1>4, <1>5
  <2> QED BY <1>4, <1>5, <2>1
<1>8. ASSUME NEW p \in 1..Len(F), p \notin at+1..at+Len(s) PROVE F[p] \in O
  <2>1. PICK i \in 1..n : \E k \in 1..Len(ss[i]) : p = o[i] + k
    BY <1>3 DEF Lays
  <2>2. PICK k \in 1..Len(ss[i]) : p = o[i] + k
    BY <2>1
  <2>3. F[p] = ss[i][k]
    BY <1>3, <2>2 DEF Lays
  <2>4. CASE i = q
    <3>1. k \notin off+1..off+Len(s)
      <4>1. p = o[q] + k /\ o[q] \in Nat /\ k \in Nat /\ off \in Nat
        BY <1>5, <2>2, <2>4
      <4>2. at = o[q] + off
        OBVIOUS
      <4> HIDE DEF at
      <4>3. \A x, y, z, l \in Nat : z \in y+1..y+l => x + z \in x+y+1..x+y+l
        OBVIOUS
      <4> QED BY <1>8, <4>1, <4>2, <4>3
    <3> QED BY <1>4, <2>2, <2>3, <2>4, <3>1
  <2>5. CASE i # q
    <3>1. ss[i] \in Seq(O)
      BY <1>2, <2>5
    <3> QED BY <2>2, <2>3, <3>1
  <2> QED BY <2>4, <2>5
<1> HIDE DEF at
<1>9. Isolates(F, s, O)
  BY <1>6, <1>7, <1>8 DEF Isolates
<1> QED BY <1>1, <1>9 DEF F

\* It still does with more that does not matter.
LEMMA IsolatesMono ==
  ASSUME NEW D, NEW s, NEW O, NEW P, O \subseteq P, Isolates(D, s, O)
  PROVE  Isolates(D, s, P)
BY DEF Isolates

\* All of the piece is there.
LEMMA IsolatedRange ==
  ASSUME NEW U, NEW O, NEW D \in Seq(U), NEW s \in Seq(U), Isolates(D, s, O)
  PROVE  Range(s) \subseteq Range(D)
<1>1. PICK off \in Nat : off + Len(s) <= Len(D) /\ \A j \in 1..Len(s) : D[off + j] = s[j]
  BY DEF Isolates
<1>2. DOMAIN s = 1..Len(s) /\ DOMAIN D = 1..Len(D) /\ Len(s) \in Nat /\ Len(D) \in Nat
  OBVIOUS
<1>3. \A j \in 1..Len(s) : off + j \in 1..Len(D)
  BY <1>1, <1>2
<1> QED BY <1>1, <1>2, <1>3 DEF Range

-----------------------------------------------------------------------------
(* The sum of the numbers of some elements *)

\* The elements of s that are not in O stand together; their numbers are 1 but for the
\* last, and their sum is total.
AddsUp(s, O, total) ==
  \E a, c \in Nat :
    /\ a + c <= Len(s)
    /\ \A k \in 1..Len(s) : s[k] \notin O <=> k \in a+1..a+c
    /\ \A k \in a+1..a+c : k # a + c => s[k].n = 1
    /\ c = 0 => total = 0
    /\ c # 0 => s[a + c].n \in Int /\ total = c - 1 + s[a + c].n

\* One element adds its number.
LEMMA OneAddsUp ==
  ASSUME NEW x, x.n \in Int, NEW O, x \notin O
  PROVE  AddsUp(<<x>>, O, x.n)
<1>1. /\ Len(<<x>>) = 1 /\ <<x>>[1] = x /\ 0 + 1 = 1 /\ 0 + 1 <= 1 /\ x.n = 1 - 1 + x.n
      /\ \A k \in 1..1 : k = 1 /\ 1 \in 0+1..0+1
  OBVIOUS
<1> DEFINE s == <<x>>
<1> HIDE DEF s
<1>2. Len(s) = 1 /\ s[1] = x
  BY <1>1 DEF s
<1>3. \A k \in 1..Len(s) : s[k] \notin O <=> k \in 0+1..0+1
  BY <1>2
<1>4. \A k \in 0+1..0+1 : k # 0 + 1 => s[k].n = 1
  OBVIOUS
<1>5. s[0 + 1].n \in Int /\ x.n = 1 - 1 + s[0 + 1].n
  BY <1>2
<1> QED BY <1>2, <1>3, <1>4, <1>5 DEF AddsUp, s

\* What is around a piece adds nothing.
LEMMA AddsUpWithin ==
  ASSUME NEW U, NEW O, NEW D \in Seq(U), NEW s \in Seq(U), Isolates(D, s, O), NEW total,
         AddsUp(s, O, total)
  PROVE  AddsUp(D, O, total)
<1>1. PICK off \in Nat :
        /\ off + Len(s) <= Len(D)
        /\ \A j \in 1..Len(s) : D[off + j] = s[j]
        /\ \A k \in 1..Len(D) : k \in off+1..off+Len(s) \/ D[k] \in O
  BY DEF Isolates
<1>2. PICK a, c \in Nat :
        /\ a + c <= Len(s)
        /\ \A k \in 1..Len(s) : s[k] \notin O <=> k \in a+1..a+c
        /\ \A k \in a+1..a+c : k # a + c => s[k].n = 1
        /\ c = 0 => total = 0
        /\ c # 0 => s[a + c].n \in Int /\ total = c - 1 + s[a + c].n
  BY DEF AddsUp
<1>3. Len(s) \in Nat /\ Len(D) \in Nat
  OBVIOUS
<1> DEFINE b == off + a
<1>4. b \in Nat /\ b + c <= Len(D)
      /\ \A k \in b+1..b+c : k - off \in a+1..a+c /\ k = off + (k - off)
  BY <1>1, <1>2, <1>3
<1>5. \A j \in a+1..a+c : j \in 1..Len(s) /\ D[off + j] = s[j]
  <2>1. \A j \in a+1..a+c : j \in 1..Len(s)
    BY <1>2, <1>3
  <2> QED BY <1>1, <2>1
<1>6. ASSUME NEW k \in 1..Len(D) PROVE D[k] \notin O <=> k \in b+1..b+c
  <2>1. CASE k \in off+1..off+Len(s)
    <3>1. k - off \in 1..Len(s) /\ k = off + (k - off)
      BY <1>1, <1>3, <2>1
    <3>2. D[k] = s[k - off]
      BY <1>1, <3>1
    <3>3. k - off \in a+1..a+c <=> k \in b+1..b+c
      BY <1>1, <1>2
    <3> QED BY <1>2, <3>1, <3>2, <3>3
  <2>2. CASE k \notin off+1..off+Len(s)
    <3>1. k \notin b+1..b+c
      BY <1>1, <1>2, <1>3, <2>2
    <3> QED BY <1>1, <2>2, <3>1
  <2> QED BY <2>1, <2>2
<1>7. \A k \in b+1..b+c : k # b + c => D[k].n = 1
  <2> SUFFICES ASSUME NEW k \in b+1..b+c, k # b + c PROVE D[k].n = 1
    OBVIOUS
  <2>1. k - off \in a+1..a+c /\ k = off + (k - off) /\ k - off # a + c
    BY <1>1, <1>2, <1>4
  <2> QED BY <1>2, <1>5, <2>1
<1>8. c # 0 => D[b + c].n \in Int /\ total = c - 1 + D[b + c].n
  <2> SUFFICES ASSUME c # 0 PROVE D[b + c].n \in Int /\ total = c - 1 + D[b + c].n
    OBVIOUS
  <2>1. a + c \in a+1..a+c /\ b + c = off + (a + c)
    BY <1>1, <1>2
  <2> QED BY <1>2, <1>5, <2>1
<1> HIDE DEF b
<1> QED BY <1>2, <1>4, <1>6, <1>7, <1>8 DEF AddsUp

\* f[x] is the sum of g over x, in the order in which CHOOSE takes the members.
SumOf(f, T, g) ==
  \A x \in SUBSET T : f[x] = IF x = {} THEN 0
                             ELSE g[CHOOSE k \in x : TRUE] + f[x \ {CHOOSE k \in x : TRUE}]

\* h[x] is the size of x, but that one member counts v instead of 1.
SizesOf(h, T, last, v) ==
  \A x \in SUBSET T : h[x] = IF last \in x THEN Cardinality(x) - 1 + v ELSE Cardinality(x)

\* That is the sum when all but one of the values are 1.
LEMMA SumOfOnes ==
  ASSUME NEW T, IsFiniteSet(T), NEW last, NEW v \in Int, NEW g,
         \A k \in T : g[k] = IF k = last THEN v ELSE 1, NEW h,
         SizesOf(h, T, last, v)
  PROVE  SumOf(h, T, g) /\ \A f : SumOf(f, T, g) => f[T] = h[T]
<1>1. \A x \in SUBSET T : /\ IsFiniteSet(x) /\ Cardinality(x) \in Nat
                          /\ Cardinality(x) = 0 <=> x = {}
                          /\ Cardinality(x) <= Cardinality(T)
  BY FS_Subset, FS_CardinalityType, FS_EmptySet
<1>2. ASSUME NEW x \in SUBSET T, NEW k \in x
      PROVE  /\ x \ {k} \in SUBSET T /\ Cardinality(x \ {k}) = Cardinality(x) - 1
             /\ h[x] = g[k] + h[x \ {k}]
  <2>1. x \ {k} \in SUBSET T /\ Cardinality(x \ {k}) = Cardinality(x) - 1
    BY <1>1, FS_RemoveElement
  <2>2. h[x] = (IF last \in x THEN Cardinality(x) - 1 + v ELSE Cardinality(x))
        /\ h[x \ {k}] = (IF last \in x \ {k} THEN Cardinality(x) - 1 - 1 + v
                         ELSE Cardinality(x) - 1)
    BY <2>1 DEF SizesOf
  <2>3. g[k] = IF k = last THEN v ELSE 1
    OBVIOUS
  <2>4. Cardinality(x) \in Int
    BY <1>1
  <2>5. h[x] = g[k] + h[x \ {k}]
    BY <2>2, <2>3, <2>4
  <2> QED BY <2>1, <2>5
<1>3. h[{}] = 0
  <2>1. {} \in SUBSET T /\ Cardinality({}) = 0
    BY FS_EmptySet
  <2> QED BY <2>1 DEF SizesOf
<1>4. SumOf(h, T, g)
  BY <1>2, <1>3 DEF SumOf
<1>5. ASSUME NEW f, SumOf(f, T, g) PROVE f[T] = h[T]
  <2> DEFINE n == Cardinality(T)
             H == {m \in 0..n : \A x \in SUBSET T : Cardinality(x) = m => f[x] = h[x]}
  <2>1. n \in Nat
    BY <1>1
  <2>2. f[{}] = 0
    BY <1>5 DEF SumOf
  <2>3. 0 \in H
    <3>1. \A x \in SUBSET T : Cardinality(x) = 0 => x = {}
      BY <1>1
    <3> QED BY <1>3, <2>1, <2>2, <3>1
  <2>4. ASSUME NEW m \in 1..n, m - 1 \in H PROVE m \in H
    <3> SUFFICES ASSUME NEW x \in SUBSET T, Cardinality(x) = m PROVE f[x] = h[x]
      BY <2>1
    <3>1. x # {}
      BY <1>1
    <3>2. PICK k \in x : k = CHOOSE j \in x : TRUE
      BY <3>1
    <3>3. f[x] = g[k] + f[x \ {k}]
      BY <1>5, <3>1, <3>2 DEF SumOf
    <3>4. x \ {k} \in SUBSET T /\ Cardinality(x \ {k}) = m - 1 /\ h[x] = g[k] + h[x \ {k}]
      BY <1>2
    <3>5. f[x \ {k}] = h[x \ {k}]
      BY <2>4, <3>4
    <3> QED BY <3>3, <3>4, <3>5
  <2>5. H = 0..n
    <3>1. H \in SUBSET (0..n)
      OBVIOUS
    <3> HIDE DEF H, n
    <3> QED BY <2>1, <2>3, <2>4, <3>1, SetInduction
  <2>6. n \in H
    <3> HIDE DEF H, n
    <3> QED BY <2>1, <2>5
  <2> QED BY <2>6
<1> QED BY <1>4, <1>5
====
