----------------------------- MODULE ListsProofs -----------------------------
(* Theorems about Lists, and induction over the naturals.                   *)
EXTENDS Lists, FiniteSetTheorems, SequenceTheorems, TLAPS

(* Induction over the naturals for a set instead of a predicate: the least  *)
(* number outside of it would have a predecessor outside of it.             *)
LEMMA SetInduction ==
  ASSUME NEW S, 0 \in S, \A n \in Nat : n \in S => n + 1 \in S
  PROVE  Nat \subseteq S
<1>1. SUFFICES ASSUME Nat \ S # {} PROVE FALSE
  OBVIOUS
<1>2. PICK n \in Nat \ S : \A m \in Nat \ S : ~(<<m, n>> \in OpToRel(<, Nat))
  BY <1>1, NatLessThanWellFounded, WFMin
<1>3. n \in Nat /\ n \notin S /\ n # 0
  BY <1>2
<1>4. n - 1 \in Nat /\ n - 1 < n
  BY <1>3
<1>5. <<n - 1, n>> \in OpToRel(<, Nat)
  BY <1>3, <1>4 DEF OpToRel
<1>6. n - 1 \in S
  BY <1>2, <1>4, <1>5
<1>. QED
  BY <1>3, <1>4, <1>6

-----------------------------------------------------------------------------
(* Counting what is not above each element of a finite set, under any order *)
(* in which two elements differ, numbers the elements from 1.               *)
LEMMA RanksArePlaces ==
  ASSUME NEW K, IsFiniteSet(K), NEW below \in [K -> SUBSET K],
         \A i \in K : i \in below[i],
         \A i, j \in K : i # j => \/ below[i] \subseteq below[j] /\ j \notin below[i]
                                  \/ below[j] \subseteq below[i] /\ i \notin below[j]
  PROVE  /\ Cardinality(K) \in Nat
         /\ \A i \in K : Cardinality(below[i]) \in 1 .. Cardinality(K)
         /\ \A i, j \in K : Cardinality(below[i]) = Cardinality(below[j]) => i = j
         /\ \A k \in 1 .. Cardinality(K) : \E i \in K : Cardinality(below[i]) = k
<1>. DEFINE n == Cardinality(K)
            rank == [i \in K |-> Cardinality(below[i])]
<1>1. n \in Nat
  BY FS_CardinalityType
<1>2. ASSUME NEW i \in K PROVE IsFiniteSet(below[i]) /\ rank[i] \in 1 .. n
  <2>1. IsFiniteSet(below[i]) /\ Cardinality(below[i]) <= n
    BY FS_Subset
  <2>2. Cardinality(below[i]) \in Nat
    BY <2>1, FS_CardinalityType
  <2>3. Cardinality(below[i]) # 0
    BY <2>1, FS_EmptySet
  <2>. QED
    BY <1>1, <2>1, <2>2, <2>3
<1>3. ASSUME NEW i \in K, NEW j \in K, below[i] \subseteq below[j], j \notin below[i]
      PROVE  rank[i] # rank[j]
  <2>1. below[i] \in SUBSET below[j] /\ below[i] # below[j]
    BY <1>3
  <2>. QED
    BY <1>2, <2>1, FS_Subset
<1>4. \A i, j \in K : rank[i] = rank[j] => i = j
  <2>. SUFFICES ASSUME NEW i \in K, NEW j \in K, i # j PROVE rank[i] # rank[j]
    OBVIOUS
  <2>1. \/ below[i] \subseteq below[j] /\ j \notin below[i]
        \/ below[j] \subseteq below[i] /\ i \notin below[j]
    OBVIOUS
  <2>. HIDE DEF rank
  <2>. QED
    BY <1>3, <2>1
<1>5. rank \in [K -> 1 .. n]
  BY <1>2
<1>6. rank \in Injection(K, 1 .. n)
  <2>. HIDE DEF rank, n
  <2>. QED
    BY <1>4, <1>5 DEF Injection, IsInjective
<1>7. IsFiniteSet(1 .. n) /\ Cardinality(1 .. n) = n
  BY <1>1, FS_Interval
<1>8. rank \in Surjection(K, 1 .. n)
  <2>. HIDE DEF rank
  <2>. QED
    BY <1>6, <1>7, FS_Injection
<1>9. \A k \in 1 .. n : \E i \in K : rank[i] = k
  <2>. HIDE DEF rank, n
  <2>. QED
    BY <1>8 DEF Surjection
<1>. QED
  BY <1>1, <1>2, <1>4, <1>9

(* The numbers of a finite set in ascending order: at place k stands the    *)
(* one that k of them do not exceed.                                        *)
LEMMA AscendingRanks ==
  ASSUME NEW K, IsFiniteSet(K), K \subseteq Int
  PROVE  /\ Cardinality(K) \in Nat
         /\ Ascending(K) \in [1 .. Cardinality(K) -> K]
         /\ \A k, l \in 1 .. Cardinality(K) : Ascending(K)[k] = Ascending(K)[l] => k = l
         /\ \A n \in K : \E k \in 1 .. Cardinality(K) : Ascending(K)[k] = n
         /\ \A k \in 1 .. Cardinality(K) : Cardinality({m \in K : m <= Ascending(K)[k]}) = k
<1>. DEFINE Below(n) == {m \in K : m <= n}
            c == Cardinality(K)
<1>1. /\ c \in Nat
      /\ \A n \in K : Cardinality(Below(n)) \in 1 .. c
      /\ \A i, j \in K : Cardinality(Below(i)) = Cardinality(Below(j)) => i = j
      /\ \A k \in 1 .. c : \E n \in K : Cardinality(Below(n)) = k
  <2>. DEFINE below == [n \in K |-> Below(n)]
  <2>1. below \in [K -> SUBSET K] /\ \A n \in K : n \in below[n]
    OBVIOUS
  <2>2. ASSUME NEW i \in K, NEW j \in K, i # j
        PROVE  \/ below[i] \subseteq below[j] /\ j \notin below[i]
               \/ below[j] \subseteq below[i] /\ i \notin below[j]
    <3>0. /\ i \in Int /\ j \in Int /\ K \subseteq Int
          /\ \A m \in below[i] : m \in K /\ m <= i
          /\ \A m \in below[j] : m \in K /\ m <= j
          /\ \A m \in K : (m <= i => m \in below[i]) /\ (m <= j => m \in below[j])
      OBVIOUS
    <3>. HIDE DEF below
    <3>1. CASE i < j
      <4>1. ASSUME NEW m \in below[i] PROVE m <= j
        <5>1. m \in Int /\ m <= i
          BY <3>0
        <5>. QED
          BY <5>1, <3>0, <3>1
      <4>2. ~(j <= i)
        BY <3>0, <3>1
      <4>. QED
        BY <3>0, <4>1, <4>2
    <3>2. CASE j < i
      <4>1. ASSUME NEW m \in below[j] PROVE m <= i
        <5>1. m \in Int /\ m <= j
          BY <3>0
        <5>. QED
          BY <5>1, <3>0, <3>2
      <4>2. ~(i <= j)
        BY <3>0, <3>2
      <4>. QED
        BY <3>0, <4>1, <4>2
    <3>. QED
      BY <2>2, <3>1, <3>2
  <2>3. \A n \in K : below[n] = Below(n)
    OBVIOUS
  <2>4. /\ c \in Nat
        /\ \A i \in K : Cardinality(below[i]) \in 1 .. c
        /\ \A i, j \in K : Cardinality(below[i]) = Cardinality(below[j]) => i = j
        /\ \A k \in 1 .. c : \E i \in K : Cardinality(below[i]) = k
    <3>. HIDE DEF below
    <3>. QED
      BY <2>1, <2>2, RanksArePlaces, ZenonT(30)
  <2>. HIDE DEF below, Below, c
  <2>. QED
    BY <2>3, <2>4
<1>2. Ascending(K) = [k \in 1 .. c |-> CHOOSE n \in K : Cardinality(Below(n)) = k]
  BY DEF Ascending
<1>. HIDE DEF Below, c
<1>3. ASSUME NEW k \in 1 .. c
      PROVE  Ascending(K)[k] \in K /\ Cardinality(Below(Ascending(K)[k])) = k
  BY <1>1, <1>2
<1>4. Ascending(K) \in [1 .. c -> K]
  BY <1>2, <1>3
<1>5. \A k, l \in 1 .. c : Ascending(K)[k] = Ascending(K)[l] => k = l
  BY <1>3
<1>6. \A n \in K : \E k \in 1 .. c : Ascending(K)[k] = n
  <2>. SUFFICES ASSUME NEW n \in K PROVE \E k \in 1 .. c : Ascending(K)[k] = n
    OBVIOUS
  <2>1. Cardinality(Below(n)) \in 1 .. c
    BY <1>1
  <2>. QED
    BY <1>1, <1>3, <2>1
<1>7. \A k \in 1 .. c : Cardinality({m \in K : m <= Ascending(K)[k]}) = k
  BY <1>3 DEF Below
<1>. QED
  BY <1>1, <1>4, <1>5, <1>6, <1>7 DEF c

(* They are all of them, each once.                                         *)
LEMMA AscendingNumbers ==
  ASSUME NEW K, IsFiniteSet(K), K \subseteq Int
  PROVE  /\ Cardinality(K) \in Nat
         /\ Ascending(K) \in [1 .. Cardinality(K) -> K]
         /\ \A k, l \in 1 .. Cardinality(K) : Ascending(K)[k] = Ascending(K)[l] => k = l
         /\ \A n \in K : \E k \in 1 .. Cardinality(K) : Ascending(K)[k] = n
BY AscendingRanks

(* They ascend.                                                             *)
LEMMA AscendingOrder ==
  ASSUME NEW K, IsFiniteSet(K), K \subseteq Int
  PROVE  \A k, l \in 1 .. Cardinality(K) : k < l => Ascending(K)[k] < Ascending(K)[l]
<1>. DEFINE Below(n) == {m \in K : m <= n}
            c == Cardinality(K)
            at == Ascending(K)
<1>1. /\ c \in Nat /\ at \in [1 .. c -> K]
      /\ \A k, l \in 1 .. c : at[k] = at[l] => k = l
      /\ \A n \in K : \E k \in 1 .. c : at[k] = n
  BY AscendingNumbers
<1>2. \A k \in 1 .. c : Cardinality(Below(at[k])) = k
  BY AscendingRanks
<1>3. ASSUME NEW k \in 1 .. c, NEW l \in 1 .. c, k < l PROVE at[k] < at[l]
  <2>1. at[k] \in Int /\ at[l] \in Int
    BY <1>1
  <2>2. SUFFICES ASSUME at[l] <= at[k] PROVE FALSE
    BY <2>1
  <2>3. Below(at[l]) \in SUBSET Below(at[k])
    <3>1. ASSUME NEW m \in K, m <= at[l] PROVE m <= at[k]
      <4>1. m \in Int
        OBVIOUS
      <4>. HIDE DEF at
      <4>. QED
        BY <2>1, <2>2, <3>1, <4>1
    <3>. HIDE DEF at
    <3>. QED
      BY <3>1
  <2>4. IsFiniteSet(Below(at[k]))
    <3>1. Below(at[k]) \in SUBSET K
      OBVIOUS
    <3>. QED
      BY <3>1, FS_Subset
  <2>5. Cardinality(Below(at[l])) <= Cardinality(Below(at[k]))
    BY <2>3, <2>4, FS_Subset
  <2>. QED
    BY <1>2, <1>3, <2>5
<1>. QED
  BY <1>3

(* Some places of a sequence, picked in their order.                        *)
LEMMA PickedElements ==
  ASSUME NEW T, NEW s \in Seq(T), NEW K \in SUBSET (DOMAIN s)
  PROVE  /\ Picked(s, K) \in Seq(T)
         /\ IsFiniteSet(K) /\ Len(Picked(s, K)) = Cardinality(K)
         /\ \A i \in K : \E k \in DOMAIN Picked(s, K) : Picked(s, K)[k] = s[i]
         /\ \A k \in DOMAIN Picked(s, K) : \E i \in K : Picked(s, K)[k] = s[i]
         /\ \A k, l \in DOMAIN Picked(s, K) : k # l =>
              \E i, j \in K : i # j /\ Picked(s, K)[k] = s[i] /\ Picked(s, K)[l] = s[j]
<1>. DEFINE c == Cardinality(K)
            at == Ascending(K)
<1>1. DOMAIN s = 1 .. Len(s) /\ Len(s) \in Nat
  OBVIOUS
<1>2. IsFiniteSet(K) /\ K \subseteq Int
  <2>1. IsFiniteSet(DOMAIN s)
    BY <1>1, FS_Interval
  <2>. QED
    BY <1>1, <2>1, FS_Subset
<1>3. /\ c \in Nat /\ at \in [1 .. c -> K]
      /\ \A k, l \in 1 .. c : at[k] = at[l] => k = l
      /\ \A n \in K : \E k \in 1 .. c : at[k] = n
  BY <1>2, AscendingNumbers
<1>4. Picked(s, K) = [k \in 1 .. c |-> s[at[k]]]
  BY DEF Picked
<1>. HIDE DEF c, at
<1>5. Picked(s, K) \in Seq(T) /\ Len(Picked(s, K)) = c /\ DOMAIN Picked(s, K) = 1 .. c
  <2>1. \A k \in 1 .. c : s[at[k]] \in T
    BY <1>1, <1>3
  <2>2. Picked(s, K) \in [1 .. c -> T]
    BY <1>4, <2>1
  <2>. QED
    BY <1>3, <2>2
<1>6. \A i \in K : \E k \in DOMAIN Picked(s, K) : Picked(s, K)[k] = s[i]
  BY <1>3, <1>4, <1>5, SMTT(20)
<1>7. \A k \in DOMAIN Picked(s, K) : at[k] \in K /\ Picked(s, K)[k] = s[at[k]]
  BY <1>3, <1>4, <1>5
<1>8. ASSUME NEW k \in DOMAIN Picked(s, K), NEW l \in DOMAIN Picked(s, K), k # l
      PROVE  \E i, j \in K : i # j /\ Picked(s, K)[k] = s[i] /\ Picked(s, K)[l] = s[j]
  <2>1. at[k] # at[l]
    BY <1>3, <1>5, <1>8
  <2>. QED
    BY <1>7, <2>1
<1>. QED
  BY <1>2, <1>5, <1>6, <1>7, <1>8 DEF c


(* A list that ascends is the ascending list of its elements.               *)
LEMMA AscendingIs ==
  ASSUME NEW s \in Seq(Int), NEW K, K = {s[i] : i \in DOMAIN s},
         \A i, j \in DOMAIN s : i < j => s[i] < s[j]
  PROVE  IsFiniteSet(K) /\ Cardinality(K) = Len(s) /\ s = Ascending(K)
<1>. DEFINE c == Len(s)
            Below(n) == {m \in K : m <= n}
<1>1. /\ c \in Nat /\ DOMAIN s = 1 .. c /\ \A i \in 1 .. c : s[i] \in Int /\ s[i] \in K
      /\ \A i, j \in 1 .. c : s[i] = s[j] => i = j
      /\ \A i, j \in 1 .. c : s[i] <= s[j] <=> i <= j
  OBVIOUS
<1>2. \A k \in 0 .. c : IsFiniteSet(1 .. k) /\ Cardinality(1 .. k) = k
  BY <1>1, FS_Interval
<1>3. ASSUME NEW k \in 1 .. c
      PROVE  Cardinality(Below(s[k])) = k
  <2>. DEFINE f == [i \in 1 .. k |-> s[i]]
  <2>1. \A n \in Below(s[k]) : \E i \in 1 .. k : n = s[i]
    BY <1>1
  <2>2. \A i \in 1 .. k : s[i] \in Below(s[k])
    BY <1>1
  <2>3. f \in Bijection(1 .. k, Below(s[k]))
    <3>. HIDE DEF Below
    <3>. QED
      BY <1>1, <2>1, <2>2 DEF Bijection, Injection, Surjection, IsInjective
  <2>4. Cardinality(Below(s[k])) = Cardinality(1 .. k)
    <3>. HIDE DEF f, Below
    <3>. QED
      BY <1>2, <2>3, FS_Bijection DEF ExistsBijection
  <2>. QED
    BY <1>2, <2>4
<1>4. s \in Bijection(1 .. c, K)
  BY <1>1 DEF Bijection, Injection, Surjection, IsInjective
<1>5. IsFiniteSet(K) /\ Cardinality(K) = c
  <2>. HIDE DEF c
  <2>. QED
    BY <1>1, <1>2, <1>4, FS_Bijection DEF ExistsBijection
<1>6. K \subseteq Int
  BY <1>1
<1>7. /\ Ascending(K) \in [1 .. c -> K]
      /\ \A k \in 1 .. c : Cardinality(Below(Ascending(K)[k])) = k
  BY <1>5, <1>6, AscendingRanks
<1>. HIDE DEF c, Below
<1>8. ASSUME NEW k \in 1 .. c PROVE Ascending(K)[k] = s[k]
  <2>0. Ascending(K)[k] \in {s[i] : i \in 1 .. c}
    BY <1>1, <1>7
  <2>1. PICK i \in 1 .. c : Ascending(K)[k] = s[i]
    BY <2>0
  <2>2. i = k
    BY <1>3, <1>7, <2>1
  <2>. QED
    BY <2>1, <2>2
<1>9. s = Ascending(K)
  <2>1. s = [k \in 1 .. c |-> s[k]]
    BY <1>1
  <2>2. Ascending(K) = [k \in 1 .. c |-> Ascending(K)[k]]
    BY <1>7
  <2>. QED
    BY <1>8, <2>1, <2>2
<1>. QED
  BY <1>5, <1>9 DEF c

(* A chain is what it is written as, from the first part on.                *)
LEMMA ChainSteps ==
  ASSUME NEW parts, Len(parts) \in Nat
  PROVE  /\ Chain(parts)[0] = <<>>
         /\ \A n \in Nat : n + 1 \in 1 .. Len(parts) => Chain(parts)[n + 1] = Chain(parts)[n] \o parts[n + 1]
<1>. DEFINE Next1(n, f) == IF n = 0 THEN <<>> ELSE f[n - 1] \o parts[n]
            S == {m \in Nat : \E f : f = [i \in 0 .. m |-> Next1(i, f)]}
            chain == CHOOSE f : f = [n \in 0 .. Len(parts) |-> Next1(n, f)]
<1>1. 0 \in S
  <2>. DEFINE f == [i \in 0 .. 0 |-> <<>>]
  <2>1. f = [i \in 0 .. 0 |-> Next1(i, f)]
    OBVIOUS
  <2>. QED
    BY <2>1
<1>2. ASSUME NEW m \in Nat, m \in S PROVE m + 1 \in S
  <2>1. PICK f : f = [i \in 0 .. m |-> Next1(i, f)]
    BY <1>2
  <2>. DEFINE g == [i \in 0 .. m + 1 |-> IF i = m + 1 THEN f[m] \o parts[m + 1] ELSE f[i]]
  <2>2. ASSUME NEW i \in 0 .. m + 1 PROVE g[i] = Next1(i, g)
    <3>1. CASE i = m + 1
      BY <3>1
    <3>2. CASE i \in 0 .. m
      <4>1. f[i] = Next1(i, f)
        BY <2>1, <3>2
      <4>2. i # 0 => g[i - 1] = f[i - 1]
        BY <3>2
      <4>. QED
        BY <3>2, <4>1, <4>2
    <3>. QED
      BY <3>1, <3>2
  <2>3. g = [i \in 0 .. m + 1 |-> Next1(i, g)]
    BY <2>2
  <2>. HIDE DEF g
  <2>. HIDE DEF Next1
  <2>4. \E h : h = [i \in 0 .. m + 1 |-> Next1(i, h)]
    BY <2>3
  <2>. QED
    BY <2>4
<1>3. Len(parts) \in S
  <2>. HIDE DEF S
  <2>. QED
    BY <1>1, <1>2, SetInduction
<1>4. chain = [n \in 0 .. Len(parts) |-> Next1(n, chain)]
  BY <1>3
<1>5. Chain(parts) = chain
  BY DEF Chain
<1>. HIDE DEF chain
<1>6. chain[0] = <<>>
  BY <1>4
<1>7. \A n \in Nat : n + 1 \in 1 .. Len(parts) => chain[n + 1] = chain[n] \o parts[n + 1]
  <2>1. ASSUME NEW n \in Nat, n + 1 \in 1 .. Len(parts)
        PROVE  chain[n + 1] = chain[n] \o parts[n + 1]
    <3>1. n + 1 \in 0 .. Len(parts) /\ n + 1 # 0 /\ (n + 1) - 1 = n
      BY <2>1
    <3>2. chain[n + 1] = Next1(n + 1, chain)
      BY <1>4, <3>1
    <3>. QED
      BY <3>1, <3>2
  <2>. QED
    BY <2>1
<1>. QED
  BY <1>5, <1>6, <1>7

(* Two lists one after the other have the elements of both, at their places. *)
LEMMA JoinedElements ==
  ASSUME NEW T, NEW a \in Seq(T), NEW b \in Seq(T)
  PROVE  /\ a \o b \in Seq(T) /\ Len(a \o b) = Len(a) + Len(b)
         /\ \A i \in DOMAIN a : i \in DOMAIN (a \o b) /\ (a \o b)[i] = a[i]
         /\ \A i \in DOMAIN b : Len(a) + i \in DOMAIN (a \o b) /\ (a \o b)[Len(a) + i] = b[i]
         /\ \A i \in DOMAIN (a \o b) :
              \/ i \in DOMAIN a
              \/ i > Len(a) /\ i - Len(a) \in DOMAIN b /\ (a \o b)[i] = b[i - Len(a)]
OBVIOUS

(* Where the parts of a chain are: each after those before it.              *)
LEMMA ChainPlaces ==
  ASSUME NEW T, NEW parts \in Seq(Seq(T))
  PROVE  /\ \A n \in 0 .. Len(parts) : Chain(parts)[n] \in Seq(T)
         /\ \A k \in DOMAIN parts : Len(Chain(parts)[k]) = Len(Chain(parts)[k - 1]) + Len(parts[k])
         /\ \A m \in 0 .. Len(parts) : Len(Chain(parts)[m]) <= Len(Chained(parts))
         /\ \A k \in DOMAIN parts : \A i \in DOMAIN parts[k] :
              /\ Len(Chain(parts)[k - 1]) + i \in DOMAIN Chained(parts)
              /\ Chained(parts)[Len(Chain(parts)[k - 1]) + i] = parts[k][i]
         /\ \A j \in DOMAIN Chained(parts) :
              \E k \in DOMAIN parts : \E i \in DOMAIN parts[k] : j = Len(Chain(parts)[k - 1]) + i
<1>. DEFINE chain == Chain(parts)
            Has(n) ==
              /\ \A m \in 0 .. n : chain[m] \in Seq(T) /\ Len(chain[m]) <= Len(chain[n])
              /\ \A k \in 1 .. n : Len(chain[k]) = Len(chain[k - 1]) + Len(parts[k])
              /\ \A k \in 1 .. n : \A i \in DOMAIN parts[k] :
                   /\ Len(chain[k - 1]) + i \in DOMAIN chain[n]
                   /\ chain[n][Len(chain[k - 1]) + i] = parts[k][i]
              /\ \A j \in DOMAIN chain[n] :
                   \E k \in 1 .. n : \E i \in DOMAIN parts[k] : j = Len(chain[k - 1]) + i
            S == {n \in Nat : n \in 0 .. Len(parts) => Has(n)}
<1>1. Len(parts) \in Nat /\ DOMAIN parts = 1 .. Len(parts) /\ \A k \in 1 .. Len(parts) : parts[k] \in Seq(T)
  OBVIOUS
<1>2. /\ chain[0] = <<>>
      /\ \A n \in Nat : n + 1 \in 1 .. Len(parts) => chain[n + 1] = chain[n] \o parts[n + 1]
  BY <1>1, ChainSteps
<1>. HIDE DEF chain, Has
<1>3. 0 \in S
  <2>1. PICK none : none = chain[0]
    OBVIOUS
  <2>2. none \in Seq(T) /\ DOMAIN none = {} /\ 1 .. 0 = {} /\ 0 .. 0 = {0} /\ Len(none) = 0
    BY <1>2, <2>1
  <2>3. Has(0)
    BY <2>1, <2>2 DEF Has
  <2>. QED
    BY <2>3
<1>4. ASSUME NEW n \in Nat, n \in S PROVE n + 1 \in S
  <2>. SUFFICES ASSUME n + 1 \in 0 .. Len(parts) PROVE Has(n + 1)
    OBVIOUS
  <2>1. n + 1 \in 1 .. Len(parts) /\ n \in 0 .. Len(parts)
    BY <1>1
  <2>2. Has(n)
    BY <1>4, <2>1
  <2>3. PICK a : a = chain[n]
    OBVIOUS
  <2>4. PICK b : b = parts[n + 1]
    OBVIOUS
  <2>5. PICK c : c = chain[n + 1]
    OBVIOUS
  <2>6. /\ a \in Seq(T) /\ b \in Seq(T)
        /\ \A m \in 0 .. n : chain[m] \in Seq(T) /\ Len(chain[m]) <= Len(a)
        /\ \A k \in 1 .. n : Len(chain[k]) = Len(chain[k - 1]) + Len(parts[k])
        /\ \A k \in 1 .. n : \A i \in DOMAIN parts[k] :
             Len(chain[k - 1]) + i \in DOMAIN a /\ a[Len(chain[k - 1]) + i] = parts[k][i]
        /\ \A j \in DOMAIN a : \E k \in 1 .. n : \E i \in DOMAIN parts[k] : j = Len(chain[k - 1]) + i
    <3>1. n \in 0 .. n
      OBVIOUS
    <3>. QED
      BY <1>1, <2>1, <2>2, <2>3, <2>4, <3>1 DEF Has
  <2>7. c = a \o b
    BY <1>2, <2>1, <2>3, <2>4, <2>5
  <2>8. /\ c \in Seq(T) /\ Len(c) = Len(a) + Len(b) /\ Len(a) \in Nat /\ Len(b) \in Nat
        /\ \A i \in DOMAIN a : i \in DOMAIN c /\ c[i] = a[i]
        /\ \A i \in DOMAIN b : Len(a) + i \in DOMAIN c /\ c[Len(a) + i] = b[i]
        /\ \A i \in DOMAIN c : \/ i \in DOMAIN a
                               \/ i > Len(a) /\ i - Len(a) \in DOMAIN b /\ c[i] = b[i - Len(a)]
    BY <2>6, <2>7, JoinedElements, SMTT(20)
  <2>9. ASSUME NEW m \in 0 .. n + 1 PROVE chain[m] \in Seq(T) /\ Len(chain[m]) <= Len(c)
    <3>1. CASE m = n + 1
      BY <2>5, <2>8, <3>1
    <3>2. CASE m \in 0 .. n
      <4>1. chain[m] \in Seq(T) /\ Len(chain[m]) <= Len(a)
        BY <2>6, <3>2
      <4>2. Len(chain[m]) \in Nat
        BY <4>1
      <4>. QED
        BY <2>8, <4>1, <4>2
    <3>. QED
      BY <3>1, <3>2
  <2>10. ASSUME NEW k \in 1 .. n + 1, NEW i \in DOMAIN parts[k]
         PROVE  Len(chain[k - 1]) + i \in DOMAIN c /\ c[Len(chain[k - 1]) + i] = parts[k][i]
    <3>1. CASE k = n + 1
      <4>1. k - 1 = n
        BY <3>1
      <4>. QED
        BY <2>3, <2>4, <2>8, <3>1, <4>1
    <3>2. CASE k \in 1 .. n
      <4>1. PICK j : j = Len(chain[k - 1]) + i
        OBVIOUS
      <4>2. j \in DOMAIN a /\ a[j] = parts[k][i]
        BY <2>6, <3>2, <4>1
      <4>3. j \in DOMAIN c /\ c[j] = a[j]
        BY <2>8, <4>2
      <4>. QED
        BY <4>1, <4>2, <4>3
    <3>. QED
      BY <3>1, <3>2
  <2>11. ASSUME NEW j \in DOMAIN c
         PROVE  \E k \in 1 .. n + 1 : \E i \in DOMAIN parts[k] : j = Len(chain[k - 1]) + i
    <3>1. CASE j \in DOMAIN a
      <4>1. PICK k \in 1 .. n : \E i \in DOMAIN parts[k] : j = Len(chain[k - 1]) + i
        BY <2>6, <3>1
      <4>2. k \in 1 .. n + 1
        OBVIOUS
      <4>. QED
        BY <4>1, <4>2
    <3>2. CASE j > Len(a) /\ j - Len(a) \in DOMAIN b
      <4>1. PICK i : i = j - Len(a)
        OBVIOUS
      <4>2. n + 1 \in 1 .. n + 1 /\ (n + 1) - 1 = n /\ j = Len(a) + i
        BY <2>8, <4>1
      <4>. QED
        BY <2>3, <2>4, <3>2, <4>1, <4>2
    <3>. QED
      BY <2>8, <3>1, <3>2
  <2>12. \A k \in 1 .. n + 1 : Len(chain[k]) = Len(chain[k - 1]) + Len(parts[k])
    <3>1. ASSUME NEW k \in 1 .. n + 1 PROVE Len(chain[k]) = Len(chain[k - 1]) + Len(parts[k])
      <4>0. k = n + 1 \/ k \in 1 .. n
        OBVIOUS
      <4>1. CASE k = n + 1
        <5>1. k - 1 = n
          BY <4>1
        <5>. QED
          BY <2>3, <2>4, <2>5, <2>8, <4>1, <5>1
      <4>2. CASE k \in 1 .. n
        <5>1. Len(chain[k]) = Len(chain[k - 1]) + Len(parts[k])
          BY <2>6, <4>2
        <5>. QED
          BY <5>1
      <4>. HIDE DEF S
      <4>. QED
        BY <4>0, <4>1, <4>2
    <3>. QED
      BY <3>1
  <2>. QED
    BY <2>5, <2>9, <2>10, <2>11, <2>12 DEF Has
<1>5. Len(parts) \in S
  <2>. HIDE DEF S
  <2>. QED
    BY <1>1, <1>3, <1>4, SetInduction
<1>6. Has(Len(parts))
  BY <1>1, <1>5
<1>7. Chained(parts) = chain[Len(parts)]
  BY DEF Chained, chain
<1>8. /\ \A n \in 0 .. Len(parts) : chain[n] \in Seq(T)
      /\ \A n \in 0 .. Len(parts) : Len(chain[n]) <= Len(chain[Len(parts)])
      /\ \A k \in 1 .. Len(parts) : Len(chain[k]) = Len(chain[k - 1]) + Len(parts[k])
  BY <1>6 DEF Has
<1>9. /\ \A k \in 1 .. Len(parts) : \A i \in DOMAIN parts[k] :
           /\ Len(chain[k - 1]) + i \in DOMAIN chain[Len(parts)]
           /\ chain[Len(parts)][Len(chain[k - 1]) + i] = parts[k][i]
      /\ \A j \in DOMAIN chain[Len(parts)] :
           \E k \in 1 .. Len(parts) : \E i \in DOMAIN parts[k] : j = Len(chain[k - 1]) + i
  BY <1>6 DEF Has
<1>10. DOMAIN parts = 1 .. Len(parts)
  OBVIOUS
<1>11. chain = Chain(parts)
  BY DEF chain
<1>12. \A k \in DOMAIN parts : \A i \in DOMAIN parts[k] :
         /\ Len(Chain(parts)[k - 1]) + i \in DOMAIN Chained(parts)
         /\ Chained(parts)[Len(Chain(parts)[k - 1]) + i] = parts[k][i]
  BY <1>7, <1>9, <1>10, <1>11, Zenon
<1>13. \A j \in DOMAIN Chained(parts) :
         \E k \in DOMAIN parts : \E i \in DOMAIN parts[k] : j = Len(Chain(parts)[k - 1]) + i
  <2>1. ASSUME NEW j \in DOMAIN Chained(parts)
        PROVE  \E k \in DOMAIN parts : \E i \in DOMAIN parts[k] : j = Len(Chain(parts)[k - 1]) + i
    <3>1. PICK k \in 1 .. Len(parts) : \E i \in DOMAIN parts[k] : j = Len(chain[k - 1]) + i
      BY <1>7, <1>9
    <3>2. k \in DOMAIN parts
      BY <1>10
    <3>. QED
      BY <1>11, <3>1, <3>2, Zenon
  <2>. QED
    BY <2>1
<1>14. /\ \A n \in 0 .. Len(parts) : Chain(parts)[n] \in Seq(T)
       /\ \A k \in DOMAIN parts : Len(Chain(parts)[k]) = Len(Chain(parts)[k - 1]) + Len(parts[k])
       /\ \A m \in 0 .. Len(parts) : Len(Chain(parts)[m]) <= Len(Chained(parts))
  BY <1>7, <1>8, <1>10, <1>11, Zenon
<1>. QED
  BY <1>12, <1>13, <1>14, Zenon

(* A chain has the elements of its parts and no others.                     *)
LEMMA ChainedElements ==
  ASSUME NEW T, NEW parts \in Seq(Seq(T))
  PROVE  /\ Chained(parts) \in Seq(T)
         /\ \A k \in DOMAIN parts : \A i \in DOMAIN parts[k] :
              \E j \in DOMAIN Chained(parts) : Chained(parts)[j] = parts[k][i]
         /\ \A j \in DOMAIN Chained(parts) :
              \E k \in DOMAIN parts : \E i \in DOMAIN parts[k] : Chained(parts)[j] = parts[k][i]
<1>1. Len(parts) \in 0 .. Len(parts)
  OBVIOUS
<1>2. Chained(parts) \in Seq(T)
  BY <1>1, ChainPlaces DEF Chained
<1>3. \A k \in DOMAIN parts : \A i \in DOMAIN parts[k] :
        \E j \in DOMAIN Chained(parts) : Chained(parts)[j] = parts[k][i]
  BY ChainPlaces
<1>4. \A j \in DOMAIN Chained(parts) :
        \E k \in DOMAIN parts : \E i \in DOMAIN parts[k] : Chained(parts)[j] = parts[k][i]
  <2>1. ASSUME NEW j \in DOMAIN Chained(parts)
        PROVE  \E k \in DOMAIN parts : \E i \in DOMAIN parts[k] : Chained(parts)[j] = parts[k][i]
    <3>1. PICK k \in DOMAIN parts : \E i \in DOMAIN parts[k] : j = Len(Chain(parts)[k - 1]) + i
      BY ChainPlaces
    <3>2. PICK i \in DOMAIN parts[k] : j = Len(Chain(parts)[k - 1]) + i
      BY <3>1
    <3>3. Chained(parts)[j] = parts[k][i]
      BY <3>2, ChainPlaces
    <3>. QED
      BY <3>3
  <2>. QED
    BY <2>1
<1>. QED
  BY <1>2, <1>3, <1>4

(* A chain grows from part to part.                                         *)
LEMMA ChainGrows ==
  ASSUME NEW T, NEW parts \in Seq(Seq(T)), NEW m \in 0 .. Len(parts), NEW n \in m .. Len(parts)
  PROVE  Len(Chain(parts)[m]) <= Len(Chain(parts)[n])
<1>. DEFINE length == [k \in 0 .. Len(parts) |-> Len(Chain(parts)[k])]
            S == {k \in Nat : k \in m .. Len(parts) => length[m] <= length[k]}
<1>1. /\ Len(parts) \in Nat /\ DOMAIN parts = 1 .. Len(parts)
      /\ \A k \in DOMAIN parts : Len(parts[k]) \in Nat
  OBVIOUS
<1>2. \A k \in 0 .. Len(parts) : length[k] \in Nat
  <2>1. ASSUME NEW k \in 0 .. Len(parts) PROVE length[k] \in Nat
    <3>1. Chain(parts)[k] \in Seq(T)
      BY ChainPlaces
    <3>. QED
      BY <3>1
  <2>. QED
    BY <2>1
<1>3. \A k \in 1 .. Len(parts) : length[k] = length[k - 1] + Len(parts[k])
  <2>1. ASSUME NEW k \in 1 .. Len(parts) PROVE length[k] = length[k - 1] + Len(parts[k])
    <3>1. k \in DOMAIN parts /\ k \in 0 .. Len(parts) /\ k - 1 \in 0 .. Len(parts)
      BY <1>1
    <3>2. Len(Chain(parts)[k]) = Len(Chain(parts)[k - 1]) + Len(parts[k])
      BY <3>1, ChainPlaces
    <3>. QED
      BY <3>1, <3>2
  <2>. QED
    BY <2>1
<1>. HIDE DEF length
<1>4. 0 \in S
  BY <1>2
<1>5. ASSUME NEW k \in Nat, k \in S PROVE k + 1 \in S
  <2>. SUFFICES ASSUME k + 1 \in m .. Len(parts) PROVE length[m] <= length[k + 1]
    OBVIOUS
  <2>1. CASE k + 1 = m
    BY <1>2, <2>1
  <2>2. CASE k + 1 # m
    <3>1. k + 1 \in 1 .. Len(parts) /\ k \in m .. Len(parts) /\ k \in 0 .. Len(parts) /\ (k + 1) - 1 = k
      BY <1>1, <2>2
    <3>2. length[k + 1] = length[k] + Len(parts[k + 1]) /\ length[m] <= length[k]
      BY <1>3, <1>5, <3>1
    <3>. QED
      BY <1>1, <1>2, <3>1, <3>2
  <2>. QED
    BY <2>1, <2>2
<1>6. n \in S
  <2>1. n \in Nat
    BY <1>1
  <2>. HIDE DEF S
  <2>. QED
    BY <1>4, <1>5, <2>1, SetInduction
<1>. QED
  BY <1>6, <1>1 DEF length

(* If the elements of the parts are all different, so are the chain's.      *)
LEMMA ChainDiffers ==
  ASSUME NEW T, NEW parts \in Seq(Seq(T)),
         \A k, l \in DOMAIN parts : \A i \in DOMAIN parts[k], j \in DOMAIN parts[l] :
           parts[k][i] = parts[l][j] => k = l /\ i = j
  PROVE  \A i, j \in DOMAIN Chained(parts) : Chained(parts)[i] = Chained(parts)[j] => i = j
<1>1. ASSUME NEW i \in DOMAIN Chained(parts), NEW j \in DOMAIN Chained(parts),
             Chained(parts)[i] = Chained(parts)[j]
      PROVE  i = j
  <2>1. PICK k \in DOMAIN parts : \E o \in DOMAIN parts[k] : i = Len(Chain(parts)[k - 1]) + o
    BY ChainPlaces
  <2>2. PICK o \in DOMAIN parts[k] : i = Len(Chain(parts)[k - 1]) + o
    BY <2>1
  <2>3. PICK l \in DOMAIN parts : \E p \in DOMAIN parts[l] : j = Len(Chain(parts)[l - 1]) + p
    BY ChainPlaces
  <2>4. PICK p \in DOMAIN parts[l] : j = Len(Chain(parts)[l - 1]) + p
    BY <2>3
  <2>5. Chained(parts)[i] = parts[k][o]
    BY <2>2, ChainPlaces
  <2>6. Chained(parts)[j] = parts[l][p]
    BY <2>4, ChainPlaces
  <2>7. parts[k][o] = parts[l][p]
    BY <1>1, <2>5, <2>6
  <2>8. k = l /\ o = p
    BY <2>7
  <2>. QED
    BY <2>2, <2>4, <2>8
<1>. QED
  BY <1>1

(* And the other way round.                                                 *)
LEMMA PartBefore ==
  ASSUME NEW T, NEW parts \in Seq(Seq(T)), NEW k \in DOMAIN parts, NEW l \in DOMAIN parts, k < l,
         NEW i \in DOMAIN parts[k], NEW j \in DOMAIN parts[l]
  PROVE  Len(Chain(parts)[k - 1]) + i < Len(Chain(parts)[l - 1]) + j
<1>1. /\ k \in 1 .. Len(parts) /\ l \in 1 .. Len(parts)
      /\ k \in 0 .. Len(parts) /\ k - 1 \in 0 .. Len(parts) /\ l - 1 \in k .. Len(parts) /\ l - 1 \in 0 .. Len(parts)
      /\ i \in 1 .. Len(parts[k]) /\ j \in 1 .. Len(parts[l]) /\ Len(parts[k]) \in Nat /\ Len(parts[l]) \in Nat
  OBVIOUS
<1>2. Chain(parts)[k - 1] \in Seq(T) /\ Chain(parts)[l - 1] \in Seq(T) /\ Chain(parts)[k] \in Seq(T)
  BY <1>1, ChainPlaces
<1>3. Len(Chain(parts)[k - 1]) \in Nat /\ Len(Chain(parts)[l - 1]) \in Nat /\ Len(Chain(parts)[k]) \in Nat
  BY <1>2, SMTT(20)
<1>4. Len(Chain(parts)[k]) <= Len(Chain(parts)[l - 1])
  BY <1>1, ChainGrows
<1>5. Len(Chain(parts)[k]) = Len(Chain(parts)[k - 1]) + Len(parts[k])
  BY ChainPlaces
<1>6. PICK a : a = Len(Chain(parts)[k - 1])
  OBVIOUS
<1>7. PICK b : b = Len(Chain(parts)[l - 1])
  OBVIOUS
<1>8. a \in Nat /\ b \in Nat /\ a + Len(parts[k]) <= b
  BY <1>3, <1>4, <1>5, <1>6, <1>7
<1>9. a + i < b + j
  BY <1>1, <1>8, SMTT(20)
<1>. QED
  BY <1>6, <1>7, <1>9

LEMMA PartsDiffer ==
  ASSUME NEW T, NEW parts \in Seq(Seq(T)),
         \A i, j \in DOMAIN Chained(parts) : Chained(parts)[i] = Chained(parts)[j] => i = j,
         NEW k \in DOMAIN parts, NEW l \in DOMAIN parts,
         NEW i \in DOMAIN parts[k], NEW j \in DOMAIN parts[l], parts[k][i] = parts[l][j]
  PROVE  k = l
<1>1. PICK p : p = Len(Chain(parts)[k - 1]) + i
  OBVIOUS
<1>2. PICK q : q = Len(Chain(parts)[l - 1]) + j
  OBVIOUS
<1>3. p \in DOMAIN Chained(parts) /\ Chained(parts)[p] = parts[k][i]
  BY <1>1, ChainPlaces
<1>4. q \in DOMAIN Chained(parts) /\ Chained(parts)[q] = parts[l][j]
  <2>1. /\ Len(Chain(parts)[l - 1]) + j \in DOMAIN Chained(parts)
        /\ Chained(parts)[Len(Chain(parts)[l - 1]) + j] = parts[l][j]
    BY ChainPlaces
  <2>. QED
    BY <1>2, <2>1
<1>5. p = q /\ Chained(parts) \in Seq(T)
  BY <1>3, <1>4, ChainedElements
<1>6. p \in Int
  BY <1>3, <1>5
<1>7. k < l => p < q
  BY <1>1, <1>2, PartBefore
<1>8. l < k => q < p
  BY <1>1, <1>2, PartBefore
<1>9. k \in Int /\ l \in Int
  OBVIOUS
<1>. QED
  BY <1>5, <1>6, <1>7, <1>8, <1>9

-----------------------------------------------------------------------------
(* Chains with the same parts up to n are the same up to n.                 *)
LEMMA ChainPrefix ==
  ASSUME NEW p, NEW q, Len(p) \in Nat, Len(q) \in Nat, NEW n \in Nat, n <= Len(p), n <= Len(q),
         \A k \in 1 .. n : p[k] = q[k]
  PROVE  Chain(p)[n] = Chain(q)[n]
<1>. DEFINE S == {m \in Nat : m <= n => Chain(p)[m] = Chain(q)[m]}
<1>1. 0 \in S
  BY ChainSteps
<1>2. ASSUME NEW m \in Nat, m \in S PROVE m + 1 \in S
  <2>. SUFFICES ASSUME m + 1 <= n PROVE Chain(p)[m + 1] = Chain(q)[m + 1]
    OBVIOUS
  <2>1. m + 1 \in 1 .. Len(p) /\ m + 1 \in 1 .. Len(q) /\ m + 1 \in 1 .. n /\ m <= n
    OBVIOUS
  <2>2. Chain(p)[m + 1] = Chain(p)[m] \o p[m + 1]
    BY <2>1, ChainSteps
  <2>3. Chain(q)[m + 1] = Chain(q)[m] \o q[m + 1]
    BY <2>1, ChainSteps
  <2>. QED
    BY <1>2, <2>1, <2>2, <2>3
<1>3. n \in S
  <2>. HIDE DEF S
  <2>. QED
    BY <1>1, <1>2, SetInduction
<1>. QED
  BY <1>3

(* One part more.                                                           *)
LEMMA ChainAppend ==
  ASSUME NEW T, NEW parts \in Seq(Seq(T)), NEW part \in Seq(T)
  PROVE  Chained(Append(parts, part)) = Chained(parts) \o part
<1>1. PICK more : more = Append(parts, part)
  OBVIOUS
<1>2. PICK n : n = Len(parts)
  OBVIOUS
<1>3. /\ n \in Nat /\ Len(more) = n + 1 /\ more[n + 1] = part
      /\ \A k \in 1 .. n : more[k] = parts[k]
      /\ n + 1 \in 1 .. Len(more)
  BY <1>1, <1>2
<1>4. Chain(more)[n + 1] = Chain(more)[n] \o part
  <2>1. Len(more) \in Nat
    BY <1>3
  <2>2. \A m \in Nat : m + 1 \in 1 .. Len(more) => Chain(more)[m + 1] = Chain(more)[m] \o more[m + 1]
    BY <2>1, ChainSteps
  <2>. QED
    BY <1>3, <2>2
<1>5. Chain(more)[n] = Chain(parts)[n]
  <2>1. Len(more) \in Nat /\ Len(parts) \in Nat /\ n <= Len(more) /\ n <= Len(parts)
    BY <1>2, <1>3
  <2>. QED
    BY <1>3, <2>1, ChainPrefix
<1>. QED
  BY <1>1, <1>2, <1>3, <1>4, <1>5 DEF Chained

(* One element more in the last part.                                       *)
LEMMA ChainLonger ==
  ASSUME NEW T, NEW parts \in Seq(Seq(T)), parts # <<>>, NEW x \in T
  PROVE  Chained([parts EXCEPT ![Len(parts)] = Append(@, x)]) = Append(Chained(parts), x)
<1>1. PICK n : n = Len(parts)
  OBVIOUS
<1>2. PICK more : more = [parts EXCEPT ![n] = Append(@, x)]
  OBVIOUS
<1>3. n \in Nat /\ n > 0 /\ DOMAIN parts = 1 .. n /\ parts[n] \in Seq(T)
  BY <1>1
<1>4. /\ more \in Seq(Seq(T)) /\ Len(more) = n /\ more[n] = Append(parts[n], x)
      /\ \A k \in 1 .. n - 1 : more[k] = parts[k]
  BY <1>1, <1>2, <1>3
<1>5. PICK m \in Nat : n = m + 1
  BY <1>3
<1>6. m = n - 1 /\ m <= Len(parts) /\ m <= Len(more) /\ m + 1 \in 1 .. Len(parts) /\ m + 1 \in 1 .. Len(more)
  BY <1>1, <1>3, <1>4, <1>5
<1>7. Chain(more)[m] = Chain(parts)[m]
  <2>1. Len(more) \in Nat /\ Len(parts) \in Nat /\ \A k \in 1 .. m : more[k] = parts[k]
    BY <1>1, <1>3, <1>4, <1>6
  <2>. QED
    BY <1>6, <2>1, ChainPrefix
<1>8. Chain(parts)[m] \in Seq(T)
  <2>1. m \in 0 .. Len(parts)
    BY <1>1, <1>6
  <2>. QED
    BY <2>1, ChainPlaces
<1>9. Chain(more)[n] = Chain(parts)[m] \o Append(parts[n], x)
  <2>1. Len(more) \in Nat
    BY <1>3, <1>4
  <2>2. \A k \in Nat : k + 1 \in 1 .. Len(more) => Chain(more)[k + 1] = Chain(more)[k] \o more[k + 1]
    BY <2>1, ChainSteps
  <2>3. Chain(more)[m + 1] = Chain(more)[m] \o more[m + 1]
    BY <1>6, <2>2
  <2>. QED
    BY <1>4, <1>5, <1>7, <2>3
<1>10. Chain(parts)[n] = Chain(parts)[m] \o parts[n]
  <2>1. Len(parts) \in Nat
    OBVIOUS
  <2>2. \A k \in Nat : k + 1 \in 1 .. Len(parts) => Chain(parts)[k + 1] = Chain(parts)[k] \o parts[k + 1]
    BY <2>1, ChainSteps
  <2>3. Chain(parts)[m + 1] = Chain(parts)[m] \o parts[m + 1]
    BY <1>6, <2>2
  <2>. QED
    BY <1>5, <2>3
<1>11. Chain(parts)[m] \o Append(parts[n], x) = Append(Chain(parts)[m] \o parts[n], x)
  <2>1. PICK a : a = Chain(parts)[m]
    OBVIOUS
  <2>2. PICK b : b = parts[n]
    OBVIOUS
  <2>3. a \in Seq(T) /\ b \in Seq(T)
    BY <1>3, <1>8, <2>1, <2>2
  <2>4. a \o Append(b, x) = Append(a \o b, x)
    BY <2>3
  <2>. QED
    BY <2>1, <2>2, <2>4
<1>. QED
  BY <1>1, <1>2, <1>4, <1>9, <1>10, <1>11 DEF Chained

(* They keep their order.                                                   *)
LEMMA PickedOrder ==
  ASSUME NEW T, NEW s \in Seq(T), NEW K \in SUBSET (DOMAIN s)
  PROVE  \A k, l \in DOMAIN Picked(s, K) : k < l =>
           \E i, j \in K : i < j /\ Picked(s, K)[k] = s[i] /\ Picked(s, K)[l] = s[j]
<1>1. PICK at : at = Ascending(K)
  OBVIOUS
<1>2. PICK c : c = Cardinality(K)
  OBVIOUS
<1>3. IsFiniteSet(K) /\ K \subseteq Int
  BY PickedElements
<1>4. c \in Nat /\ at \in [1 .. c -> K] /\ \A k, l \in 1 .. c : k < l => at[k] < at[l]
  BY <1>1, <1>2, <1>3, AscendingNumbers, AscendingOrder
<1>5. Picked(s, K) = [k \in 1 .. c |-> s[at[k]]]
  BY <1>1, <1>2 DEF Picked
<1>. QED
  BY <1>4, <1>5

(* A run of places, picked.                                                 *)
LEMMA PickedRun ==
  ASSUME NEW T, NEW s \in Seq(T), NEW a \in Nat, NEW m \in Nat, a + m <= Len(s),
         NEW K, K = a + 1 .. a + m
  PROVE  /\ Picked(s, K) \in Seq(T) /\ Len(Picked(s, K)) = m
         /\ \A k \in 1 .. m : Picked(s, K)[k] = s[a + k]
<1>1. PICK r : r = [k \in 1 .. m |-> a + k]
  OBVIOUS
<1>2. /\ r \in Seq(Int) /\ Len(r) = m /\ DOMAIN r = 1 .. m
      /\ \A k \in 1 .. m : r[k] = a + k
      /\ \A i, j \in DOMAIN r : i < j => r[i] < r[j]
  BY <1>1
<1>3. K = {r[i] : i \in DOMAIN r}
  <2>1. ASSUME NEW n \in K PROVE n - a \in DOMAIN r /\ n = r[n - a]
    BY <1>2
  <2>2. ASSUME NEW i \in DOMAIN r PROVE r[i] \in K
    BY <1>2
  <2>. QED
    BY <2>1, <2>2
<1>4. Cardinality(K) = m /\ Ascending(K) = r
  BY <1>2, <1>3, AscendingIs
<1>5. Picked(s, K) = [k \in 1 .. m |-> s[r[k]]]
  BY <1>4 DEF Picked
<1>6. K \in SUBSET (DOMAIN s)
  <2>1. DOMAIN s = 1 .. Len(s) /\ Len(s) \in Nat
    OBVIOUS
  <2>. QED
    BY <2>1
<1>. QED
  BY <1>2, <1>4, <1>5, <1>6, PickedElements

LEMMA AmongElements ==
  ASSUME NEW T, NEW s \in Seq(T), NEW S
  PROVE  /\ Among(s, S) \in Seq(T)
         /\ \A i \in DOMAIN s : s[i] \in S => \E k \in DOMAIN Among(s, S) : Among(s, S)[k] = s[i]
         /\ \A k \in DOMAIN Among(s, S) :
              Among(s, S)[k] \in S /\ \E i \in DOMAIN s : Among(s, S)[k] = s[i]
         /\ \A k, l \in DOMAIN Among(s, S) : k < l =>
              \E i, j \in DOMAIN s : i < j /\ Among(s, S)[k] = s[i] /\ Among(s, S)[l] = s[j]
<1>1. PICK K : K = {i \in DOMAIN s : s[i] \in S}
  OBVIOUS
<1>2. K \in SUBSET (DOMAIN s) /\ Among(s, S) = Picked(s, K) /\ \A i \in K : s[i] \in S
  BY <1>1 DEF Among
<1>3. PICK w : w = Among(s, S)
  OBVIOUS
<1>4. w = Picked(s, K)
  BY <1>2, <1>3
<1>5. w \in Seq(T)
  BY <1>2, <1>4, PickedElements
<1>6. \A i \in K : \E k \in DOMAIN w : w[k] = s[i]
  <2>1. \A i \in K : \E k \in DOMAIN Picked(s, K) : Picked(s, K)[k] = s[i]
    BY <1>2, PickedElements
  <2>. QED
    BY <1>4, <2>1
<1>7. \A k \in DOMAIN w : \E i \in K : w[k] = s[i]
  <2>1. \A k \in DOMAIN Picked(s, K) : \E i \in K : Picked(s, K)[k] = s[i]
    BY <1>2, PickedElements
  <2>. QED
    BY <1>4, <2>1
<1>8. \A k, l \in DOMAIN w : k < l => \E i, j \in K : i < j /\ w[k] = s[i] /\ w[l] = s[j]
  <2>1. \A k, l \in DOMAIN Picked(s, K) : k < l =>
          \E i, j \in K : i < j /\ Picked(s, K)[k] = s[i] /\ Picked(s, K)[l] = s[j]
    BY <1>2, PickedOrder
  <2>. QED
    BY <1>4, <2>1
<1>9. \A i \in DOMAIN s : s[i] \in S => \E k \in DOMAIN w : w[k] = s[i]
  BY <1>1, <1>6
<1>10. \A k \in DOMAIN w : w[k] \in S /\ \E i \in DOMAIN s : w[k] = s[i]
  BY <1>2, <1>7
<1>11. \A k, l \in DOMAIN w : k < l => \E i, j \in DOMAIN s : i < j /\ w[k] = s[i] /\ w[l] = s[j]
  BY <1>2, <1>8
<1>. QED
  BY <1>3, <1>5, <1>9, <1>10, <1>11

(* A list without repetition is no longer than one that has its elements.   *)
LEMMA NoLonger ==
  ASSUME NEW T, NEW s \in Seq(T), NEW t \in Seq(T),
         \A i, j \in DOMAIN s : s[i] = s[j] => i = j,
         \A i \in DOMAIN s : \E j \in DOMAIN t : t[j] = s[i]
  PROVE  Len(s) <= Len(t)
<1>1. PICK f : f = [i \in DOMAIN s |-> CHOOSE j \in DOMAIN t : t[j] = s[i]]
  OBVIOUS
<1>2. ASSUME NEW i \in DOMAIN s PROVE f[i] \in DOMAIN t /\ t[f[i]] = s[i]
  BY <1>1
<1>3. f \in Injection(DOMAIN s, DOMAIN t)
  <2>1. f \in [DOMAIN s -> DOMAIN t]
    BY <1>1, <1>2
  <2>2. \A i, j \in DOMAIN s : f[i] = f[j] => i = j
    BY <1>2
  <2>. QED
    BY <2>1, <2>2 DEF Injection, IsInjective
<1>4. /\ DOMAIN s = 1 .. Len(s) /\ DOMAIN t = 1 .. Len(t) /\ Len(s) \in Nat /\ Len(t) \in Nat
      /\ IsFiniteSet(1 .. Len(t)) /\ Cardinality(1 .. Len(t)) = Len(t) /\ Cardinality(1 .. Len(s)) = Len(s)
  <2>1. Len(s) \in Nat /\ Len(t) \in Nat /\ DOMAIN s = 1 .. Len(s) /\ DOMAIN t = 1 .. Len(t)
    OBVIOUS
  <2>2. ASSUME NEW n \in Nat PROVE IsFiniteSet(1 .. n) /\ Cardinality(1 .. n) = n
    <3>1. IsFiniteSet(1 .. n) /\ Cardinality(1 .. n) = (IF 1 > n THEN 0 ELSE n - 1 + 1)
      BY FS_Interval
    <3>. QED
      BY <3>1
  <2>. QED
    BY <2>1, <2>2
<1>. QED
  BY <1>3, <1>4, FS_Injection

LEMMA ElementsIn ==
  ASSUME NEW T, NEW U, NEW s \in Seq(T), \A k \in DOMAIN s : s[k] \in U
  PROVE  s \in Seq(U)
<1>1. PICK n \in Nat : n = Len(s) /\ DOMAIN s = 1 .. n
  OBVIOUS
<1>2. s = [k \in 1 .. n |-> s[k]]
  BY <1>1
<1>3. s \in [1 .. n -> U]
  BY <1>1, <1>2
<1>. QED
  BY <1>1, <1>3

LEMMA IsList ==
  ASSUME NEW T, NEW n \in Nat, NEW s, s = [k \in 1 .. n |-> s[k]], \A k \in 1 .. n : s[k] \in T
  PROVE  s \in Seq(T) /\ Len(s) = n /\ DOMAIN s = 1 .. n
<1>1. s \in [1 .. n -> T]
  OBVIOUS
<1>. QED
  BY <1>1

LEMMA CutAt ==
  ASSUME NEW T, NEW s \in Seq(T), NEW m \in Nat, m <= Len(s)
  PROVE  s = SubSeq(s, 1, m) \o SubSeq(s, m + 1, Len(s))
<1>1. PICK a : a = SubSeq(s, 1, m)
  OBVIOUS
<1>2. PICK b : b = SubSeq(s, m + 1, Len(s))
  OBVIOUS
<1>3. /\ a \in Seq(T) /\ Len(a) = m /\ \A i \in 1 .. m : a[i] = s[i]
      /\ b \in Seq(T) /\ Len(b) = Len(s) - m /\ \A i \in 1 .. Len(s) - m : b[i] = s[m + i]
  BY <1>1, <1>2
<1>4. PICK c : c = a \o b
  OBVIOUS
<1>5. c \in Seq(T) /\ Len(c) = Len(s)
  <2>1. Len(s) \in Nat
    OBVIOUS
  <2>2. c \in Seq(T) /\ Len(c) = Len(a) + Len(b)
    <3>1. a \in Seq(T) /\ b \in Seq(T)
      BY <1>3
    <3>. QED
      BY <1>4, <3>1, JoinedElements
  <2>. QED
    BY <1>3, <2>1, <2>2
<1>6. ASSUME NEW i \in 1 .. Len(s)
      PROVE  c[i] = s[i]
  <2>1. Len(s) \in Nat /\ Len(a) = m /\ Len(b) = Len(s) - m
    BY <1>3
  <2>2. CASE i <= m
    <3>1. i \in 1 .. m
      BY <2>1, <2>2
    <3>2. c[i] = a[i]
      BY <1>3, <1>4, <2>1, <3>1
    <3>. QED
      BY <1>3, <3>1, <3>2
  <2>3. CASE i > m
    <3>1. PICK j : j = i - m
      OBVIOUS
    <3>2. j \in 1 .. Len(s) - m /\ i = m + j
      BY <2>1, <2>3, <3>1
    <3>3. c[m + j] = b[j]
      BY <1>3, <1>4, <2>1, <3>2
    <3>. QED
      BY <1>3, <3>2, <3>3
  <2>. QED
    BY <2>1, <2>2, <2>3
<1>7. c = s
  BY <1>5, <1>6
<1>. QED
  BY <1>1, <1>2, <1>4, <1>7
=============================================================================
