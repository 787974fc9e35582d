-------------------------- MODULE AnswerStreamProofs --------------------------
(***************************************************************************)
(* Proofs about the answer to a question: what is shown and cited has had  *)
(* a row since the question came, a search is complete while nothing       *)
(* changes, and the stream keeps to its protocol.                          *)
(***************************************************************************)
EXTENDS AnswerStream, ListsProofs

-----------------------------------------------------------------------------
(* The scores of a fusion are whole numbers.                                *)
LEMMA ScaleIsNatural ==
  ASSUME NEW k \in Nat, NEW n \in Nat
  PROVE  Scale(k, n) \in Nat
<1>. DEFINE Next1(i, s) == IF i = 0 THEN 1 ELSE s[i - 1] * (k + i)
            S == {m \in Nat : \E f \in [0 .. m -> Nat] : \A i \in 0 .. m : f[i] = Next1(i, f)}
            scale == CHOOSE s : s = [i \in 0 .. n |-> IF i = 0 THEN 1 ELSE s[i - 1] * (k + i)]
            R == {m \in Nat : m \in 0 .. n => scale[m] \in Nat}
<1>1. 0 \in S
  <2>1. [i \in 0 .. 0 |-> 1] \in [0 .. 0 -> Nat] /\ \A i \in 0 .. 0 : [j \in 0 .. 0 |-> 1][i] = Next1(i, [j \in 0 .. 0 |-> 1])
    OBVIOUS
  <2>. QED
    BY <2>1
<1>2. ASSUME NEW m \in Nat, m \in S PROVE m + 1 \in S
  <2>1. PICK f \in [0 .. m -> Nat] : \A i \in 0 .. m : f[i] = Next1(i, f)
    BY <1>2
  <2>. DEFINE g == [i \in 0 .. m + 1 |-> IF i = m + 1 THEN f[m] * (k + m + 1) ELSE f[i]]
  <2>2. g \in [0 .. m + 1 -> Nat]
    OBVIOUS
  <2>3. ASSUME NEW i \in 0 .. m + 1 PROVE g[i] = Next1(i, g)
    <3>1. CASE i = m + 1
      BY <3>1
    <3>2. CASE i \in 0 .. m
      BY <3>2, <2>1
    <3>. QED
      BY <3>1, <3>2
  <2>. HIDE DEF g
  <2>4. \E h \in [0 .. m + 1 -> Nat] : \A i \in 0 .. m + 1 : h[i] = Next1(i, h)
    <3>. WITNESS g \in [0 .. m + 1 -> Nat]
    <3>. QED
      BY <2>3
  <2>5. m + 1 \in Nat
    OBVIOUS
  <2>. QED
    BY <2>4, <2>5, Zenon
<1>3. n \in S
  <2>. HIDE DEF S
  <2>. QED
    BY <1>1, <1>2, SetInduction
<1>4. PICK f \in [0 .. n -> Nat] : \A i \in 0 .. n : f[i] = Next1(i, f)
  BY <1>3
<1>5. f = [i \in 0 .. n |-> IF i = 0 THEN 1 ELSE f[i - 1] * (k + i)]
  BY <1>4
<1>6. scale = [i \in 0 .. n |-> IF i = 0 THEN 1 ELSE scale[i - 1] * (k + i)]
  BY <1>5
<1>7. 0 \in R
  <2>. HIDE DEF scale
  <2>. QED
    BY <1>6
<1>8. ASSUME NEW m \in Nat, m \in R PROVE m + 1 \in R
  <2>. HIDE DEF scale
  <2>1. CASE m + 1 \in 0 .. n
    <3>1. scale[m + 1] = scale[m] * (k + (m + 1))
      BY <1>6, <2>1
    <3>. QED
      BY <3>1, <1>8, <2>1
  <2>. QED
    BY <2>1
<1>9. n \in R
  <2>. HIDE DEF R
  <2>. QED
    BY <1>7, <1>8, SetInduction
<1>10. scale[n] \in Nat
  <2>. HIDE DEF scale
  <2>. QED
    BY <1>9
<1>. QED
  BY <1>10 DEF Scale

-----------------------------------------------------------------------------
(* The first k elements of a sequence, or all if there are less.            *)
LEMMA TakeElements ==
  ASSUME NEW T, NEW s \in Seq(T), NEW k \in Nat
  PROVE  /\ Take(s, k) \in Seq(T)
         /\ Len(Take(s, k)) = Least(k, Len(s))
         /\ Len(Take(s, k)) <= k /\ DOMAIN Take(s, k) \subseteq DOMAIN s
         /\ \A i \in DOMAIN Take(s, k) : Take(s, k)[i] = s[i]
<1>. DEFINE n == IF k < Len(s) THEN k ELSE Len(s)
<1>1. n \in 0 .. Len(s) /\ n <= k /\ n = Least(k, Len(s))
  BY DEF Least
<1>2. Take(s, k) = SubSeq(s, 1, n)
  BY DEF Take
<1>. HIDE DEF n
<1>3. Len(SubSeq(s, 1, n)) = n /\ SubSeq(s, 1, n) \in Seq(T)
  BY <1>1
<1>4. \A i \in 1 .. n : SubSeq(s, 1, n)[i] = s[i]
  BY <1>1
<1>. QED
  BY <1>1, <1>2, <1>3, <1>4

(* A sort by scores has every element, each at the place that the number of *)
(* elements not after it says.                                              *)
LEMMA RankedElements ==
  ASSUME NEW T, NEW s \in Seq(T), NEW score \in [DOMAIN s -> Int]
  PROVE  /\ RankedBy(s, score) \in Seq(T) /\ Len(RankedBy(s, score)) = Len(s)
         /\ \A i \in DOMAIN s : Cardinality(NotAfter(score, i)) \in DOMAIN s
         /\ \A i, j \in DOMAIN s :
              Cardinality(NotAfter(score, i)) = Cardinality(NotAfter(score, j)) => i = j
         /\ \A i \in DOMAIN s : RankedBy(s, score)[Cardinality(NotAfter(score, i))] = s[i]
         /\ \A k \in DOMAIN s : \E i \in DOMAIN s : Cardinality(NotAfter(score, i)) = k
<1>. DEFINE K == DOMAIN s
            Place(i) == Cardinality(NotAfter(score, i))
            at == [k \in K |-> CHOOSE i \in K : Place(i) = k]
<1>1. /\ K = 1 .. Len(s) /\ Len(s) \in Nat /\ IsFiniteSet(K) /\ Cardinality(K) = Len(s)
      /\ K \subseteq Int
  <2>1. K = 1 .. Len(s) /\ Len(s) \in Nat
    OBVIOUS
  <2>2. IsFiniteSet(1 .. Len(s)) /\ Cardinality(1 .. Len(s)) = Len(s)
    <3>1. \A n \in Nat : IsFiniteSet(1 .. n) /\ Cardinality(1 .. n) = n
      BY FS_Interval
    <3>. QED
      BY <2>1, <3>1
  <2>. QED
    BY <2>1, <2>2
<1>2. /\ \A i \in K : Place(i) \in K
      /\ \A i, j \in K : Place(i) = Place(j) => i = j
      /\ \A k \in K : \E i \in K : Place(i) = k
  <2>. DEFINE below == [i \in K |-> NotAfter(score, i)]
  <2>0. /\ \A i, j \in K : j \in below[i] <=> score[j] > score[i] \/ (score[j] = score[i] /\ j <= i)
        /\ \A i \in K : below[i] \subseteq K
    BY DEF NotAfter
  <2>1. below \in [K -> SUBSET K] /\ \A i \in K : below[i] = NotAfter(score, i)
    BY <2>0
  <2>. HIDE DEF below
  <2>2. \A i \in K : i \in below[i]
    BY <2>0, <1>1
  <2>3. ASSUME NEW i \in K, NEW j \in K, i # j
        PROVE  \/ below[i] \subseteq below[j] /\ j \notin below[i]
               \/ below[j] \subseteq below[i] /\ i \notin below[j]
    <3>. DEFINE Above(x, y) == score[x] > score[y] \/ (score[x] = score[y] /\ x <= y)
    <3>1. \A x \in K : x \in Int /\ score[x] \in Int
      BY <1>1
    <3>2. CASE Above(i, j)
      <4>1. ASSUME NEW x \in K, Above(x, i) PROVE Above(x, j)
        BY <3>1, <3>2, <4>1
      <4>2. ~Above(j, i)
        BY <3>1, <3>2, <2>3
      <4>. QED
        BY <2>0, <4>1, <4>2
    <3>3. CASE Above(j, i)
      <4>1. ASSUME NEW x \in K, Above(x, j) PROVE Above(x, i)
        BY <3>1, <3>3, <4>1
      <4>2. ~Above(i, j)
        BY <3>1, <3>3, <2>3
      <4>. QED
        BY <2>0, <4>1, <4>2
    <3>4. Above(i, j) \/ Above(j, i)
      BY <3>1
    <3>. QED
      BY <3>2, <3>3, <3>4
  <2>4. /\ \A i \in K : Cardinality(below[i]) \in 1 .. Cardinality(K)
        /\ \A i, j \in K : Cardinality(below[i]) = Cardinality(below[j]) => i = j
        /\ \A k \in 1 .. Cardinality(K) : \E i \in K : Cardinality(below[i]) = k
    <3>. HIDE DEF K
    <3>1. IsFiniteSet(K)
      BY <1>1
    <3>2. \A i, j \in K : i # j => \/ below[i] \subseteq below[j] /\ j \notin below[i]
                                   \/ below[j] \subseteq below[i] /\ i \notin below[j]
      BY <2>3
    <3>. QED
      BY <3>1, <3>2, <2>1, <2>2, RanksArePlaces
  <2>. HIDE DEF K
  <2>. QED
    BY <1>1, <2>1, <2>4
<1>3. RankedBy(s, score) = [k \in K |-> s[CHOOSE i \in K : Place(i) = k]]
  BY DEF RankedBy
<1>. HIDE DEF Place
<1>4. \A k \in K : at[k] \in K /\ Place(at[k]) = k
  <2>. HIDE DEF K
  <2>. QED
    BY <1>2
<1>5. \A i \in K : at[Place(i)] = i
  <2>. HIDE DEF K, at
  <2>. QED
    BY <1>2, <1>4
<1>6. \A k \in K : RankedBy(s, score)[k] = s[at[k]]
  <2>. HIDE DEF K
  <2>. QED
    BY <1>3
<1>7. RankedBy(s, score) \in Seq(T) /\ Len(RankedBy(s, score)) = Len(s)
  <2>1. \A k \in K : s[at[k]] \in T
    <3>. HIDE DEF at
    <3>. QED
      BY <1>4
  <2>2. RankedBy(s, score) = [k \in K |-> RankedBy(s, score)[k]]
    BY <1>3
  <2>3. RankedBy(s, score) \in [1 .. Len(s) -> T]
    <3>. HIDE DEF K, at
    <3>. QED
      BY <1>1, <1>6, <2>1, <2>2
  <2>. QED
    BY <1>1, <2>3
<1>8. \A i \in K : RankedBy(s, score)[Place(i)] = s[i]
  <2>. HIDE DEF K, at
  <2>. QED
    BY <1>2, <1>5, <1>6
<1>. HIDE DEF at
<1>. QED
  BY <1>2, <1>7, <1>8 DEF Place

(* The best k: elements of s, each once, and those with fewer than k before *)
(* them among them.                                                         *)
LEMMA TopElements ==
  ASSUME NEW T, NEW s \in Seq(T), NEW score \in [DOMAIN s -> Int], NEW k \in Nat
  PROVE  /\ Take(RankedBy(s, score), k) \in Seq(T) /\ Len(Take(RankedBy(s, score), k)) = Least(k, Len(s))
         /\ \A i \in DOMAIN s : Cardinality(NotAfter(score, i)) \in DOMAIN s
         /\ \A i, j \in DOMAIN s :
              Cardinality(NotAfter(score, i)) = Cardinality(NotAfter(score, j)) => i = j
         /\ \A l \in DOMAIN Take(RankedBy(s, score), k) :
              l <= k /\ \E i \in DOMAIN s : /\ Cardinality(NotAfter(score, i)) = l
                                           /\ Take(RankedBy(s, score), k)[l] = s[i]
         /\ \A i \in DOMAIN s : Cardinality(NotAfter(score, i)) <= k =>
              \E l \in DOMAIN Take(RankedBy(s, score), k) : Take(RankedBy(s, score), k)[l] = s[i]
<1>. DEFINE ranked == RankedBy(s, score)
            best == Take(ranked, k)
            Place(i) == Cardinality(NotAfter(score, i))
<1>1. /\ ranked \in Seq(T) /\ Len(ranked) = Len(s)
      /\ \A i \in DOMAIN s : Place(i) \in DOMAIN s
      /\ \A i, j \in DOMAIN s : Place(i) = Place(j) => i = j
      /\ \A i \in DOMAIN s : ranked[Place(i)] = s[i]
      /\ \A l \in DOMAIN s : \E i \in DOMAIN s : Place(i) = l
  BY RankedElements
<1>. HIDE DEF ranked, Place
<1>2. /\ best \in Seq(T) /\ Len(best) = Least(k, Len(ranked))
      /\ Len(best) <= k /\ DOMAIN best \subseteq DOMAIN ranked
      /\ \A l \in DOMAIN best : best[l] = ranked[l]
  BY <1>1, TakeElements
<1>. HIDE DEF best
<1>3. /\ DOMAIN s = 1 .. Len(s) /\ DOMAIN best = 1 .. Len(best) /\ DOMAIN best \subseteq DOMAIN s
      /\ Len(s) \in Nat /\ Len(best) \in Nat /\ Len(best) = Least(k, Len(s))
  BY <1>1, <1>2
<1>4. \A l \in DOMAIN best : l <= k /\ \E i \in DOMAIN s : Place(i) = l /\ best[l] = s[i]
  <2>. SUFFICES ASSUME NEW l \in DOMAIN best
                PROVE  l <= k /\ \E i \in DOMAIN s : Place(i) = l /\ best[l] = s[i]
    OBVIOUS
  <2>1. l <= k
    BY <1>2, <1>3
  <2>2. PICK i \in DOMAIN s : Place(i) = l
    BY <1>1, <1>3
  <2>3. best[l] = s[i]
    BY <1>1, <1>2, <2>2
  <2>. QED
    BY <2>1, <2>2, <2>3
<1>5. ASSUME NEW i \in DOMAIN s, Place(i) <= k PROVE \E l \in DOMAIN best : best[l] = s[i]
  <2>1. Place(i) \in DOMAIN best
    BY <1>1, <1>3, <1>5 DEF Least
  <2>. QED
    BY <2>1, <1>1, <1>2
<1>. QED
  BY <1>1, <1>2, <1>3, <1>4, <1>5 DEF best, ranked, Place

-----------------------------------------------------------------------------
(* Hits that have no node twice.                                            *)
NoNodeTwice(hits) == \A i, j \in DOMAIN hits : hits[i].node = hits[j].node => i = j

(* Hits have finitely many nodes, as many as hits if none is twice.         *)
LEMMA NodesOfHits ==
  ASSUME NEW hits \in Seq(Hit)
  PROVE  /\ NodesIn(hits) \subseteq Node /\ IsFiniteSet(NodesIn(hits))
         /\ Cardinality(NodesIn(hits)) \in Nat /\ Cardinality(NodesIn(hits)) <= Len(hits)
         /\ NoNodeTwice(hits) => Cardinality(NodesIn(hits)) = Len(hits)
<1>. DEFINE nodeAt == [i \in 1 .. Len(hits) |-> hits[i].node]
<1>1. DOMAIN hits = 1 .. Len(hits) /\ Len(hits) \in Nat
  OBVIOUS
<1>2. \A i \in 1 .. Len(hits) : hits[i].node \in Node
  <2>1. \A i \in 1 .. Len(hits) : hits[i] \in Hit
    BY <1>1
  <2>. QED
    BY <2>1 DEF Hit
<1>3. NodesIn(hits) \subseteq Node
  BY <1>1, <1>2 DEF NodesIn
<1>4. IsFiniteSet(1 .. Len(hits)) /\ Cardinality(1 .. Len(hits)) = Len(hits)
  <2>1. \A n \in Nat : IsFiniteSet(1 .. n) /\ Cardinality(1 .. n) = n
    BY FS_Interval
  <2>. QED
    BY <1>1, <2>1
<1>5. nodeAt \in Surjection(1 .. Len(hits), NodesIn(hits))
  BY <1>1 DEF Surjection, NodesIn
<1>6. /\ IsFiniteSet(NodesIn(hits)) /\ Cardinality(NodesIn(hits)) <= Cardinality(1 .. Len(hits))
      /\ Cardinality(NodesIn(hits)) = Cardinality(1 .. Len(hits))
           <=> nodeAt \in Injection(1 .. Len(hits), NodesIn(hits))
  <2>. HIDE DEF nodeAt
  <2>. QED
    BY <1>4, <1>5, FS_Surjection
<1>7. Cardinality(NodesIn(hits)) \in Nat
  BY <1>6, FS_CardinalityType
<1>8. ASSUME NoNodeTwice(hits) PROVE nodeAt \in Injection(1 .. Len(hits), NodesIn(hits))
  <2>1. nodeAt \in [1 .. Len(hits) -> NodesIn(hits)]
    BY <1>5 DEF Surjection
  <2>2. \A i, j \in 1 .. Len(hits) : nodeAt[i] = nodeAt[j] => i = j
    BY <1>1, <1>8 DEF NoNodeTwice
  <2>3. DOMAIN nodeAt = 1 .. Len(hits)
    OBVIOUS
  <2>. HIDE DEF nodeAt
  <2>. QED
    BY <2>1, <2>2, <2>3 DEF Injection, IsInjective
<1>. QED
  BY <1>3, <1>4, <1>6, <1>7, <1>8

(* Every node once, at the hit where it is first.                           *)
LEMMA FirstHitsElements ==
  ASSUME NEW hits \in Seq(Hit)
  PROVE  /\ FirstHits(hits) \in Seq(Hit) /\ NoNodeTwice(FirstHits(hits))
         /\ NodesIn(FirstHits(hits)) = NodesIn(hits)
         /\ \A k \in DOMAIN FirstHits(hits) : \E i \in DOMAIN hits :
              /\ FirstHits(hits)[k] = hits[i]
              /\ \A j \in DOMAIN hits : j < i => hits[j].node # hits[i].node
         /\ \A i \in DOMAIN hits :
              (\A j \in DOMAIN hits : j < i => hits[j].node # hits[i].node) =>
                \E k \in DOMAIN FirstHits(hits) : FirstHits(hits)[k] = hits[i]
<1>. DEFINE key == [i \in DOMAIN hits |-> hits[i].node]
            K == Firsts(key)
            first == FirstHits(hits)
<1>1. DOMAIN hits = 1 .. Len(hits) /\ Len(hits) \in Nat
  OBVIOUS
<1>2. /\ K \in SUBSET (DOMAIN hits)
      /\ \A i \in DOMAIN hits : i \in K <=> \A j \in DOMAIN hits : j < i => hits[j].node # hits[i].node
  BY DEF Firsts
<1>3. first = Picked(hits, K)
  BY DEF FirstHits
<1>. HIDE DEF K, first
<1>4. /\ first \in Seq(Hit)
      /\ \A i \in K : \E k \in DOMAIN first : first[k] = hits[i]
      /\ \A k \in DOMAIN first : \E i \in K : first[k] = hits[i]
      /\ \A k, l \in DOMAIN first : k # l => \E i, j \in K : i # j /\ first[k] = hits[i] /\ first[l] = hits[j]
  BY <1>2, <1>3, PickedElements
<1>6. NoNodeTwice(first)
  <2>1. ASSUME NEW k \in DOMAIN first, NEW l \in DOMAIN first, k # l PROVE first[k].node # first[l].node
    <3>1. PICK i \in K, j \in K : i # j /\ first[k] = hits[i] /\ first[l] = hits[j]
      BY <1>4, <2>1
    <3>2. i < j \/ j < i
      BY <1>1, <1>2, <3>1
    <3>. QED
      BY <1>2, <3>1, <3>2
  <2>. QED
    BY <2>1 DEF NoNodeTwice
<1>7. \A i \in DOMAIN hits : \E f \in DOMAIN hits : f \in K /\ hits[f].node = hits[i].node
  <2>. SUFFICES ASSUME NEW i \in DOMAIN hits
                PROVE  \E f \in DOMAIN hits : f \in K /\ hits[f].node = hits[i].node
    OBVIOUS
  <2>. DEFINE same == {j \in DOMAIN hits : hits[j].node = hits[i].node}
  <2>1. same \subseteq Nat /\ same # {}
    BY <1>1
  <2>2. PICK f \in same : \A j \in same : ~(<<j, f>> \in OpToRel(<, Nat))
    <3>. HIDE DEF same
    <3>. QED
      BY <2>1, NatLessThanWellFounded, WFMin
  <2>3. ASSUME NEW j \in DOMAIN hits, j < f PROVE hits[j].node # hits[f].node
    <3>1. j \in Nat /\ f \in Nat
      BY <1>1
    <3>2. <<j, f>> \in OpToRel(<, Nat)
      BY <2>3, <3>1 DEF OpToRel
    <3>. QED
      BY <2>2, <3>2
  <2>. QED
    BY <1>2, <2>3
<1>8. NodesIn(first) = NodesIn(hits)
  <2>1. NodesIn(first) \subseteq NodesIn(hits)
    BY <1>2, <1>4 DEF NodesIn
  <2>2. ASSUME NEW i \in DOMAIN hits PROVE hits[i].node \in NodesIn(first)
    <3>1. PICK f \in K : hits[f].node = hits[i].node
      BY <1>7
    <3>2. PICK k \in DOMAIN first : first[k] = hits[f]
      BY <1>4
    <3>. QED
      BY <3>1, <3>2 DEF NodesIn
  <2>. QED
    BY <2>1, <2>2 DEF NodesIn
<1>9. \A k \in DOMAIN first : \E i \in DOMAIN hits :
         first[k] = hits[i] /\ \A j \in DOMAIN hits : j < i => hits[j].node # hits[i].node
  BY <1>2, <1>4
<1>10. \A i \in DOMAIN hits : (\A j \in DOMAIN hits : j < i => hits[j].node # hits[i].node) =>
          \E k \in DOMAIN first : first[k] = hits[i]
  BY <1>2, <1>4
<1>. QED
  BY <1>4, <1>6, <1>8, <1>9, <1>10 DEF first

(* The best k hits: from the hits, in their number as many as there are, a  *)
(* hit is among them just if fewer than k come before it.                   *)
LEMMA BestElements ==
  ASSUME NEW hits \in Seq(Hit), NEW k \in Nat
  PROVE  /\ Best(hits, k) \in Seq(Hit) /\ Len(Best(hits, k)) = Least(k, Len(hits))
         /\ NodesIn(Best(hits, k)) \subseteq NodesIn(hits)
         /\ \A l \in DOMAIN Best(hits, k) : \E i \in DOMAIN hits : Best(hits, k)[l] = hits[i]
         /\ NoNodeTwice(hits) => NoNodeTwice(Best(hits, k))
         /\ \A i \in DOMAIN hits : Cardinality(NotAfter(ScoresOf(hits), i)) \in Nat
         /\ \A i \in DOMAIN hits : Cardinality(NotAfter(ScoresOf(hits), i)) <= k =>
              hits[i].node \in NodesIn(Best(hits, k))
         /\ NoNodeTwice(hits) =>
              \A i \in DOMAIN hits : Cardinality(NotAfter(ScoresOf(hits), i)) > k =>
                hits[i].node \notin NodesIn(Best(hits, k))
<1>. DEFINE best == Best(hits, k)
            Place(i) == Cardinality(NotAfter(ScoresOf(hits), i))
<1>1. DOMAIN hits = 1 .. Len(hits) /\ Len(hits) \in Nat /\ \A i \in DOMAIN hits : hits[i] \in Hit
  OBVIOUS
<1>2. ScoresOf(hits) \in [DOMAIN hits -> Int]
  BY <1>1 DEF ScoresOf, Hit
<1>3. best = Take(RankedBy(hits, ScoresOf(hits)), k)
  BY DEF Best
<1>. HIDE DEF best
<1>4. /\ best \in Seq(Hit) /\ Len(best) = Least(k, Len(hits))
      /\ \A i \in DOMAIN hits : Place(i) \in DOMAIN hits
      /\ \A i, j \in DOMAIN hits : Place(i) = Place(j) => i = j
      /\ \A l \in DOMAIN best : l <= k /\ \E i \in DOMAIN hits : Place(i) = l /\ best[l] = hits[i]
      /\ \A i \in DOMAIN hits : Place(i) <= k => \E l \in DOMAIN best : best[l] = hits[i]
  BY <1>2, <1>3, TopElements, SMTT(20)
<1>. HIDE DEF Place
<1>5. NodesIn(best) \subseteq NodesIn(hits)
  BY <1>4 DEF NodesIn
<1>6. ASSUME NoNodeTwice(hits) PROVE NoNodeTwice(best)
  <2>1. ASSUME NEW l \in DOMAIN best, NEW m \in DOMAIN best, best[l].node = best[m].node PROVE l = m
    <3>1. PICK i \in DOMAIN hits : Place(i) = l /\ best[l] = hits[i]
      BY <1>4
    <3>2. PICK j \in DOMAIN hits : Place(j) = m /\ best[m] = hits[j]
      BY <1>4
    <3>3. i = j
      BY <1>6, <2>1, <3>1, <3>2 DEF NoNodeTwice
    <3>. QED
      BY <3>1, <3>2, <3>3
  <2>. QED
    BY <2>1 DEF NoNodeTwice
<1>7. \A i \in DOMAIN hits : Place(i) <= k => hits[i].node \in NodesIn(best)
  BY <1>4 DEF NodesIn
<1>8. ASSUME NoNodeTwice(hits), NEW i \in DOMAIN hits, Place(i) > k, hits[i].node \in NodesIn(best)
      PROVE  FALSE
  <2>1. PICK l \in DOMAIN best : best[l].node = hits[i].node
    BY <1>8 DEF NodesIn
  <2>2. PICK j \in DOMAIN hits : Place(j) = l /\ best[l] = hits[j]
    BY <1>4
  <2>3. i = j /\ l <= k /\ l \in Nat
    BY <1>4, <1>8, <2>1, <2>2 DEF NoNodeTwice
  <2>. QED
    BY <1>8, <2>2, <2>3
<1>9. \A i \in DOMAIN hits : Place(i) \in Nat
  BY <1>1, <1>4
<1>. QED
  BY <1>4, <1>5, <1>6, <1>7, <1>8, <1>9 DEF best, Place

(* A hit above all others has only itself not after it.                     *)
LEMMA OnlyItself ==
  ASSUME NEW hits \in Seq(Hit), NEW i \in DOMAIN hits,
         \A j \in DOMAIN hits : j # i => hits[i].score > hits[j].score
  PROVE  Cardinality(NotAfter(ScoresOf(hits), i)) = 1
<1>1. \A j \in DOMAIN hits : hits[j].score \in Nat /\ j \in Nat
  <2>1. \A j \in DOMAIN hits : hits[j] \in Hit /\ j \in Nat
    OBVIOUS
  <2>. QED
    BY <2>1 DEF Hit
<1>2. NotAfter(ScoresOf(hits), i) =
        {j \in DOMAIN hits : hits[j].score > hits[i].score \/ (hits[j].score = hits[i].score /\ j <= i)}
  BY DEF NotAfter, ScoresOf
<1>3. i \in NotAfter(ScoresOf(hits), i) /\ \A j \in DOMAIN hits : j # i => j \notin NotAfter(ScoresOf(hits), i)
  BY <1>1, <1>2
<1>4. NotAfter(ScoresOf(hits), i) = {i}
  BY <1>2, <1>3
<1>. QED
  BY <1>4, FS_Singleton

(* A searcher's answer: the best of the nodes that match, each once, the    *)
(* best of all among them and none with enough better ones.                 *)
LEMMA HitsElements ==
  ASSUME NEW score \in [Node -> Nat], NEW nodes \in SUBSET Node, NEW limit \in Nat
  PROVE  /\ Hits(score, nodes, limit) \in Seq(Hit) /\ NoNodeTwice(Hits(score, nodes, limit))
         /\ NodesIn(Hits(score, nodes, limit)) \subseteq nodes
         /\ Cardinality(nodes) \in Nat
         /\ Len(Hits(score, nodes, limit)) = Least(limit, Cardinality(nodes))
         /\ \A i \in DOMAIN Hits(score, nodes, limit) :
              Hits(score, nodes, limit)[i].score = score[Hits(score, nodes, limit)[i].node]
         /\ \A n \in nodes : limit > 0 /\ (\A m \in nodes \ {n} : score[n] > score[m]) =>
              n \in NodesIn(Hits(score, nodes, limit))
         /\ \A n \in nodes : Cardinality({m \in nodes : score[m] > score[n]}) >= limit =>
              n \notin NodesIn(Hits(score, nodes, limit))
<1>. DEFINE order == Ascending(nodes)
            all == [i \in DOMAIN order |-> [node |-> order[i], score |-> score[order[i]]]]
            best == Hits(score, nodes, limit)
            c == Cardinality(nodes)
<1>1. IsFiniteSet(nodes) /\ nodes \subseteq Int
  <2>1. IsFiniteSet(Node) /\ Node \subseteq Int
    BY NodesAssumption
  <2>. QED
    BY <2>1, FS_Subset
<1>2. /\ c \in Nat /\ order \in [1 .. c -> nodes]
      /\ \A k, l \in 1 .. c : order[k] = order[l] => k = l
      /\ \A n \in nodes : \E k \in 1 .. c : order[k] = n
  BY <1>1, AscendingNumbers
<1>3. best = Best(all, limit)
  BY DEF Hits
<1>. HIDE DEF order, c, best
<1>4. DOMAIN order = 1 .. c
  BY <1>2
<1>5. /\ all \in Seq(Hit) /\ Len(all) = c /\ DOMAIN all = 1 .. c
      /\ \A i \in 1 .. c : all[i].node = order[i] /\ all[i].score = score[order[i]]
  <2>1. \A i \in 1 .. c : order[i] \in Node /\ score[order[i]] \in Nat
    BY <1>2
  <2>2. all \in [1 .. c -> Hit]
    BY <1>4, <2>1 DEF Hit
  <2>3. \A i \in 1 .. c : all[i].node = order[i] /\ all[i].score = score[order[i]]
    BY <1>4
  <2>. QED
    BY <1>2, <2>2, <2>3
<1>. HIDE DEF all
<1>6. NoNodeTwice(all) /\ NodesIn(all) = nodes
  <2>1. NoNodeTwice(all)
    BY <1>2, <1>5 DEF NoNodeTwice
  <2>2. NodesIn(all) \subseteq nodes
    BY <1>2, <1>5 DEF NodesIn
  <2>3. ASSUME NEW n \in nodes PROVE n \in NodesIn(all)
    <3>1. PICK k \in 1 .. c : order[k] = n
      BY <1>2
    <3>. QED
      BY <3>1, <1>5 DEF NodesIn
  <2>. QED
    BY <2>1, <2>2, <2>3
<1>7. /\ best \in Seq(Hit) /\ Len(best) = Least(limit, c) /\ NodesIn(best) \subseteq nodes
      /\ NoNodeTwice(best)
      /\ \A l \in DOMAIN best : \E i \in 1 .. c : best[l] = all[i]
      /\ \A i \in 1 .. c : Cardinality(NotAfter(ScoresOf(all), i)) \in Nat
      /\ \A i \in 1 .. c : Cardinality(NotAfter(ScoresOf(all), i)) <= limit =>
           order[i] \in NodesIn(best)
      /\ \A i \in 1 .. c : Cardinality(NotAfter(ScoresOf(all), i)) > limit =>
           order[i] \notin NodesIn(best)
  <2>0. all \in Seq(Hit) /\ NoNodeTwice(all)
    BY <1>5, <1>6
  <2>1. /\ best \in Seq(Hit) /\ Len(best) = Least(limit, Len(all)) /\ NodesIn(best) \subseteq NodesIn(all)
        /\ NoNodeTwice(best)
        /\ \A l \in DOMAIN best : \E i \in DOMAIN all : best[l] = all[i]
        /\ \A i \in DOMAIN all : Cardinality(NotAfter(ScoresOf(all), i)) \in Nat
        /\ \A i \in DOMAIN all : Cardinality(NotAfter(ScoresOf(all), i)) <= limit =>
             all[i].node \in NodesIn(best)
        /\ \A i \in DOMAIN all : Cardinality(NotAfter(ScoresOf(all), i)) > limit =>
             all[i].node \notin NodesIn(best)
    <3>1. /\ best \in Seq(Hit) /\ Len(best) = Least(limit, Len(all)) /\ NodesIn(best) \subseteq NodesIn(all)
          /\ NoNodeTwice(best)
      BY <1>3, <2>0, BestElements
    <3>2. \A l \in DOMAIN best : \E i \in DOMAIN all : best[l] = all[i]
      BY <1>3, <2>0, BestElements
    <3>3. \A i \in DOMAIN all : Cardinality(NotAfter(ScoresOf(all), i)) \in Nat
      BY <1>3, <2>0, BestElements
    <3>4. \A i \in DOMAIN all : Cardinality(NotAfter(ScoresOf(all), i)) <= limit =>
             all[i].node \in NodesIn(best)
      BY <1>3, <2>0, BestElements
    <3>5. \A i \in DOMAIN all : Cardinality(NotAfter(ScoresOf(all), i)) > limit =>
             all[i].node \notin NodesIn(best)
      BY <1>3, <2>0, BestElements
    <3>. QED
      BY <3>1, <3>2, <3>3, <3>4, <3>5
  <2>. QED
    BY <1>5, <1>6, <2>1
<1>8. \A l \in DOMAIN best : best[l].score = score[best[l].node]
  BY <1>5, <1>7
<1>9. ASSUME NEW n \in nodes, limit > 0, \A m \in nodes \ {n} : score[n] > score[m]
      PROVE  n \in NodesIn(best)
  <2>1. PICK i \in 1 .. c : order[i] = n
    BY <1>2
  <2>2. \A j \in 1 .. c : j # i => all[i].score > all[j].score
    BY <1>2, <1>5, <1>9, <2>1
  <2>3. Cardinality(NotAfter(ScoresOf(all), i)) = 1
    BY <1>5, <2>2, OnlyItself
  <2>. QED
    BY <1>7, <1>9, <2>1, <2>3
<1>10. ASSUME NEW n \in nodes, Cardinality({m \in nodes : score[m] > score[n]}) >= limit
       PROVE  n \notin NodesIn(best)
  <2>. DEFINE better == {m \in nodes : score[m] > score[n]}
  <2>1. PICK i \in 1 .. c : order[i] = n
    BY <1>2
  <2>. DEFINE ahead == NotAfter(ScoresOf(all), i)
              nodeOf == [j \in ahead |-> order[j]]
  <2>2. /\ ahead \subseteq 1 .. c /\ i \in ahead
        /\ \A j \in 1 .. c : score[order[j]] > score[n] => j \in ahead
    <3>1. \A j \in 1 .. c : score[order[j]] \in Nat /\ j \in Nat
      BY <1>2
    <3>2. ahead = {j \in 1 .. c : all[j].score > all[i].score \/ (all[j].score = all[i].score /\ j <= i)}
      BY <1>5 DEF NotAfter, ScoresOf
    <3>. HIDE DEF ahead
    <3>. QED
      BY <1>5, <2>1, <3>1, <3>2
  <2>. DEFINE rest == ahead \ {i}
              indexes == {j \in 1 .. c : score[order[j]] > score[n]}
              bijection == [j \in indexes |-> order[j]]
  <2>3. indexes \subseteq rest
    <3>. HIDE DEF ahead
    <3>. QED
      BY <2>1, <2>2, <1>2
  <2>4. bijection \in Surjection(indexes, better)
    <3>1. \A j \in indexes : order[j] \in better
      BY <1>2
    <3>2. ASSUME NEW m \in better PROVE \E j \in indexes : order[j] = m
      BY <1>2
    <3>. QED
      BY <3>1, <3>2 DEF Surjection
  <2>5. IsFiniteSet(ahead) /\ Cardinality(rest) = Cardinality(ahead) - 1
    <3>1. IsFiniteSet(1 .. c)
      BY <1>2, FS_Interval
    <3>2. IsFiniteSet(ahead)
      <4>. HIDE DEF ahead
      <4>. QED
        BY <2>2, <3>1, FS_Subset
    <3>. HIDE DEF ahead
    <3>. QED
      BY <2>2, <3>2, FS_RemoveElement
  <2>6. IsFiniteSet(rest)
    <3>. HIDE DEF ahead
    <3>. QED
      BY <2>5, FS_Difference
  <2>7. IsFiniteSet(indexes) /\ Cardinality(indexes) <= Cardinality(rest)
    <3>. HIDE DEF rest, indexes
    <3>. QED
      BY <2>3, <2>6, FS_Subset
  <2>8. Cardinality(better) <= Cardinality(indexes)
    <3>. HIDE DEF indexes, better, bijection
    <3>. QED
      BY <2>4, <2>7, FS_Surjection
  <2>9. Cardinality(ahead) > limit
    <3>1. /\ Cardinality(ahead) \in Nat /\ Cardinality(rest) \in Nat /\ Cardinality(indexes) \in Nat
          /\ IsFiniteSet(better)
      <4>1. IsFiniteSet(better)
        <5>. HIDE DEF indexes, better, bijection
        <5>. QED
          BY <2>4, <2>7, FS_Surjection
      <4>. HIDE DEF ahead, rest, indexes, better
      <4>. QED
        BY <2>5, <2>6, <2>7, <4>1, FS_CardinalityType
    <3>2. Cardinality(better) \in Nat /\ Cardinality(better) >= limit
      <4>1. Cardinality(better) >= limit
        BY <1>10
      <4>. HIDE DEF better
      <4>. QED
        BY <3>1, <4>1, FS_CardinalityType
    <3>. HIDE DEF ahead, rest, indexes, better
    <3>. QED
      BY <2>5, <2>7, <2>8, <3>1, <3>2
  <2>. QED
    BY <1>7, <2>1, <2>9
<1>. QED
  BY <1>2, <1>7, <1>8, <1>9, <1>10 DEF best, c

(* The hits of all variants merged: each node once, as many as there are up *)
(* to k, and a node that is found first with the highest score among them.  *)
LEMMA MergedElements ==
  ASSUME NEW hits \in Seq(Hit), NEW k \in Nat
  PROVE  /\ MergedVariants(hits, k) \in Seq(Hit) /\ NoNodeTwice(MergedVariants(hits, k))
         /\ NodesIn(MergedVariants(hits, k)) \subseteq NodesIn(hits)
         /\ Len(MergedVariants(hits, k)) = Least(k, Cardinality(NodesIn(hits)))
         /\ \A i \in DOMAIN hits :
              /\ k > 0
              /\ \A j \in DOMAIN hits : j < i => hits[j].node # hits[i].node
              /\ \A j \in DOMAIN hits : hits[j].node # hits[i].node => hits[i].score > hits[j].score
              => hits[i].node \in NodesIn(MergedVariants(hits, k))
<1>. DEFINE first == FirstHits(hits)
            merged == MergedVariants(hits, k)
<1>1. /\ first \in Seq(Hit) /\ NoNodeTwice(first) /\ NodesIn(first) = NodesIn(hits)
      /\ \A l \in DOMAIN first : \E i \in DOMAIN hits : first[l] = hits[i]
      /\ \A i \in DOMAIN hits :
           (\A j \in DOMAIN hits : j < i => hits[j].node # hits[i].node) =>
             \E l \in DOMAIN first : first[l] = hits[i]
  <2>1. /\ first \in Seq(Hit) /\ NoNodeTwice(first) /\ NodesIn(first) = NodesIn(hits)
    BY FirstHitsElements
  <2>2. \A l \in DOMAIN first : \E i \in DOMAIN hits : first[l] = hits[i]
    BY FirstHitsElements
  <2>3. \A i \in DOMAIN hits :
           (\A j \in DOMAIN hits : j < i => hits[j].node # hits[i].node) =>
             \E l \in DOMAIN first : first[l] = hits[i]
    BY FirstHitsElements
  <2>. QED
    BY <2>1, <2>2, <2>3
<1>2. merged = Best(first, k)
  BY DEF MergedVariants
<1>. HIDE DEF first, merged
<1>3. Cardinality(NodesIn(hits)) = Len(first)
  BY <1>1, NodesOfHits
<1>4. /\ merged \in Seq(Hit) /\ NoNodeTwice(merged) /\ NodesIn(merged) \subseteq NodesIn(hits)
      /\ Len(merged) = Least(k, Cardinality(NodesIn(hits)))
  BY <1>1, <1>2, <1>3, BestElements
<1>5. ASSUME NEW i \in DOMAIN hits, k > 0,
             \A j \in DOMAIN hits : j < i => hits[j].node # hits[i].node,
             \A j \in DOMAIN hits : hits[j].node # hits[i].node => hits[i].score > hits[j].score
      PROVE  hits[i].node \in NodesIn(merged)
  <2>1. PICK l \in DOMAIN first : first[l] = hits[i]
    BY <1>1, <1>5
  <2>2. ASSUME NEW m \in DOMAIN first, m # l PROVE first[l].score > first[m].score
    <3>1. PICK j \in DOMAIN hits : first[m] = hits[j]
      BY <1>1
    <3>2. first[m].node # first[l].node
      BY <1>1, <2>2 DEF NoNodeTwice
    <3>. QED
      BY <1>5, <2>1, <3>1, <3>2
  <2>3. Cardinality(NotAfter(ScoresOf(first), l)) = 1
    BY <1>1, <2>2, OnlyItself
  <2>4. Cardinality(NotAfter(ScoresOf(first), l)) <= k => first[l].node \in NodesIn(merged)
    BY <1>1, <1>2, BestElements
  <2>. QED
    BY <1>5, <2>1, <2>3, <2>4
<1>. QED
  BY <1>4, <1>5 DEF merged

(* The fusion of two lists: each node of either once, as many as there are  *)
(* up to top.                                                               *)
LEMMA FusedElements ==
  ASSUME NEW vector \in Seq(Hit), NEW bm25 \in Seq(Hit), NoNodeTwice(vector), NoNodeTwice(bm25),
         NEW unit \in Nat, NEW top \in Nat
  PROVE  /\ Fused(vector, bm25, 60, unit, top) \in Seq(Hit)
         /\ NoNodeTwice(Fused(vector, bm25, 60, unit, top))
         /\ NodesIn(Fused(vector, bm25, 60, unit, top)) \subseteq NodesIn(vector) \cup NodesIn(bm25)
         /\ Len(Fused(vector, bm25, 60, unit, top)) =
              Least(top, Cardinality(NodesIn(vector) \cup NodesIn(bm25)))
<1>. DEFINE Part(rank) == IF rank = 0 THEN 0 ELSE unit \div (60 + rank)
            either == NodesIn(vector) \cup NodesIn(bm25)
            c == Cardinality(either)
            nodes == Ascending(either)
            fused == [i \in DOMAIN nodes |->
                       [node |-> nodes[i],
                        score |-> Part(RankIn(vector, nodes[i])) + Part(RankIn(bm25, nodes[i]))]]
            best == Fused(vector, bm25, 60, unit, top)
<1>1. IsFiniteSet(either) /\ either \subseteq Node /\ either \subseteq Int
  <2>1. /\ IsFiniteSet(NodesIn(vector)) /\ IsFiniteSet(NodesIn(bm25))
        /\ NodesIn(vector) \subseteq Node /\ NodesIn(bm25) \subseteq Node
    BY NodesOfHits
  <2>2. Node \subseteq Int
    BY NodesAssumption
  <2>. QED
    BY <2>1, <2>2, FS_Union
<1>2. ASSUME NEW hits \in Seq(Hit), NoNodeTwice(hits), NEW node PROVE RankIn(hits, node) \in Nat
  <2>. DEFINE at == {i \in DOMAIN hits : hits[i].node = node}
  <2>1. DOMAIN hits \subseteq Nat
    OBVIOUS
  <2>2. \A i, j \in at : i = j
    BY <1>2 DEF NoNodeTwice
  <2>3. at # {} => \E i \in at : \A j \in at : j <= i
    BY <2>1, <2>2
  <2>4. RankIn(hits, node) = IF at = {} THEN 0 ELSE CHOOSE i \in at : \A j \in at : j <= i
    BY DEF RankIn
  <2>5. at \subseteq Nat
    BY <2>1
  <2>. HIDE DEF at
  <2>. DEFINE last == CHOOSE i \in at : \A j \in at : j <= i
  <2>6. at # {} => last \in at
    BY <2>3
  <2>7. RankIn(hits, node) = IF at = {} THEN 0 ELSE last
    BY <2>4
  <2>. HIDE DEF last
  <2>8. CASE at = {}
    BY <2>7, <2>8
  <2>9. CASE at # {}
    <3>1. last \in Nat
      BY <2>5, <2>6, <2>9
    <3>. QED
      BY <2>7, <2>9, <3>1
  <2>. QED
    BY <2>8, <2>9
<1>3. ASSUME NEW rank \in Nat PROVE Part(rank) \in Nat
  OBVIOUS
<1>4. best = Best(fused, top)
  BY DEF Fused
<1>5. /\ c \in Nat /\ nodes \in [1 .. c -> either]
      /\ \A k, l \in 1 .. c : nodes[k] = nodes[l] => k = l
      /\ \A n \in either : \E k \in 1 .. c : nodes[k] = n
  <2>. HIDE DEF either
  <2>. QED
    BY <1>1, AscendingNumbers
<1>6. either = NodesIn(vector) \cup NodesIn(bm25)
  OBVIOUS
<1>. HIDE DEF nodes, either, c, best, Part
<1>7. ASSUME NEW n \in Node PROVE Part(RankIn(vector, n)) + Part(RankIn(bm25, n)) \in Nat
  <2>1. RankIn(vector, n) \in Nat /\ RankIn(bm25, n) \in Nat
    BY <1>2
  <2>2. Part(RankIn(vector, n)) \in Nat /\ Part(RankIn(bm25, n)) \in Nat
    BY <2>1, <1>3
  <2>. QED
    BY <2>2
<1>8. /\ fused \in Seq(Hit) /\ Len(fused) = c /\ DOMAIN fused = 1 .. c
      /\ \A i \in 1 .. c : fused[i].node = nodes[i]
  <2>1. DOMAIN nodes = 1 .. c /\ \A i \in 1 .. c : nodes[i] \in Node
    BY <1>1, <1>5
  <2>2. fused \in [1 .. c -> Hit]
    BY <1>7, <2>1 DEF Hit
  <2>3. \A i \in 1 .. c : fused[i].node = nodes[i]
    BY <2>1
  <2>. HIDE DEF fused
  <2>. QED
    BY <1>5, <2>2, <2>3
<1>. HIDE DEF fused
<1>9. NoNodeTwice(fused) /\ NodesIn(fused) \subseteq either
  BY <1>5, <1>8 DEF NoNodeTwice, NodesIn
<1>10. /\ best \in Seq(Hit) /\ NoNodeTwice(best) /\ NodesIn(best) \subseteq NodesIn(fused)
       /\ Len(best) = Least(top, Len(fused))
  BY <1>4, <1>8, <1>9, BestElements
<1>. QED
  BY <1>6, <1>8, <1>9, <1>10 DEF best, c

(* The results: of the hits that were found, each node once; all of them if *)
(* all were found and are no more than asked for.                           *)
LEMMA AssembledElements ==
  ASSUME NEW hits \in Seq(Hit), NEW found, NEW top \in Nat
  PROVE  /\ Assembled(hits, found, top) \in Seq(Hit) /\ NoNodeTwice(Assembled(hits, found, top))
         /\ NodesIn(Assembled(hits, found, top)) \subseteq NodesIn(hits) \cap found
         /\ NodesIn(hits) \subseteq found =>
              Len(Assembled(hits, found, top)) = Least(top, Cardinality(NodesIn(hits)))
<1>. DEFINE first == FirstHits(hits)
            K == {i \in DOMAIN first : first[i].node \in found}
            kept == Picked(first, K)
            results == Assembled(hits, found, top)
<1>1. first \in Seq(Hit) /\ NoNodeTwice(first) /\ NodesIn(first) = NodesIn(hits)
  BY FirstHitsElements
<1>2. results = Take(kept, top)
  BY DEF Assembled
<1>3. K \in SUBSET (DOMAIN first) /\ \A i \in DOMAIN first : i \in K <=> first[i].node \in found
  OBVIOUS
<1>. HIDE DEF first, K
<1>4. /\ kept \in Seq(Hit) /\ Len(kept) = Cardinality(K)
      /\ \A k \in DOMAIN kept : \E i \in K : kept[k] = first[i]
      /\ \A k, l \in DOMAIN kept : k # l => \E i, j \in K : i # j /\ kept[k] = first[i] /\ kept[l] = first[j]
  BY <1>1, <1>3, PickedElements
<1>. HIDE DEF kept, results
<1>6. /\ results \in Seq(Hit) /\ Len(results) = Least(top, Len(kept)) /\ DOMAIN results \subseteq DOMAIN kept
      /\ \A i \in DOMAIN results : results[i] = kept[i]
  BY <1>2, <1>4, TakeElements
<1>7. NoNodeTwice(results)
  <2>1. ASSUME NEW k \in DOMAIN results, NEW l \in DOMAIN results, k # l
        PROVE  results[k].node # results[l].node
    <3>1. PICK i \in K, j \in K : i # j /\ kept[k] = first[i] /\ kept[l] = first[j]
      BY <1>4, <1>6, <2>1
    <3>. QED
      BY <1>1, <1>3, <1>6, <3>1 DEF NoNodeTwice
  <2>. QED
    BY <2>1 DEF NoNodeTwice
<1>8. NodesIn(results) \subseteq NodesIn(hits) \cap found
  <2>1. ASSUME NEW k \in DOMAIN results PROVE results[k].node \in NodesIn(hits) /\ results[k].node \in found
    <3>1. PICK i \in K : kept[k] = first[i]
      BY <1>4, <1>6
    <3>. QED
      BY <1>1, <1>3, <1>6, <3>1 DEF NodesIn
  <2>. QED
    BY <2>1 DEF NodesIn
<1>9. ASSUME NodesIn(hits) \subseteq found PROVE Len(results) = Least(top, Cardinality(NodesIn(hits)))
  <2>1. \A i \in DOMAIN first : first[i].node \in NodesIn(first)
    BY DEF NodesIn
  <2>2. K = DOMAIN first
    BY <1>1, <1>3, <1>9, <2>1
  <2>3. Cardinality(K) = Len(first)
    <3>1. \A n \in Nat : Cardinality(1 .. n) = n
      BY FS_Interval
    <3>2. DOMAIN first = 1 .. Len(first) /\ Len(first) \in Nat
      BY <1>1
    <3>. QED
      BY <2>2, <3>1, <3>2
  <2>4. Cardinality(NodesIn(hits)) = Len(first)
    BY <1>1, NodesOfHits
  <2>. QED
    BY <1>4, <1>6, <2>3, <2>4
<1>. QED
  BY <1>6, <1>7, <1>8, <1>9 DEF results

(* Reranking takes from the results.                                        *)
LEMMA RerankedElements ==
  ASSUME NEW results \in Seq(Hit), NEW stages, NEW overlap \in [Node -> Nat],
         NEW judged \in [Node -> Nat], NEW coarseTop \in Nat, NEW top \in Nat
  PROVE  /\ Reranked(results, stages, overlap, judged, coarseTop, top) \in Seq(Hit)
         /\ NodesIn(Reranked(results, stages, overlap, judged, coarseTop, top)) \subseteq NodesIn(results)
<1>1. ASSUME NEW s \in Seq(Hit), NEW score \in [DOMAIN s -> Int], NEW k \in Nat
      PROVE  /\ Take(RankedBy(s, score), k) \in Seq(Hit)
             /\ NodesIn(Take(RankedBy(s, score), k)) \subseteq NodesIn(s)
  <2>. DEFINE best == Take(RankedBy(s, score), k)
  <2>1. /\ best \in Seq(Hit)
        /\ \A l \in DOMAIN best : l <= k /\ \E i \in DOMAIN s : /\ Cardinality(NotAfter(score, i)) = l
                                                            /\ best[l] = s[i]
    BY TopElements
  <2>. HIDE DEF best
  <2>2. NodesIn(best) \subseteq NodesIn(s)
    BY <2>1 DEF NodesIn
  <2>. QED
    BY <2>1, <2>2 DEF best
<1>2. ASSUME NEW s \in Seq(Hit), NEW k \in Nat
      PROVE  /\ KeywordReranked(s, overlap, k) \in Seq(Hit)
             /\ NodesIn(KeywordReranked(s, overlap, k)) \subseteq NodesIn(s)
             /\ CrossReranked(s, judged, k) \in Seq(Hit)
             /\ NodesIn(CrossReranked(s, judged, k)) \subseteq NodesIn(s)
  <2>. DEFINE words == [i \in DOMAIN s |-> 3 * s[i].score + overlap[s[i].node]]
              cross == [i \in DOMAIN s |-> judged[s[i].node]]
  <2>1. \A i \in DOMAIN s : s[i].score \in Nat /\ s[i].node \in Node
    <3>1. \A i \in DOMAIN s : s[i] \in Hit
      OBVIOUS
    <3>. QED
      BY <3>1 DEF Hit
  <2>2. words \in [DOMAIN s -> Int]
    BY <2>1
  <2>3. cross \in [DOMAIN s -> Int]
    BY <2>1
  <2>4. /\ KeywordReranked(s, overlap, k) = Take(RankedBy(s, words), k)
        /\ CrossReranked(s, judged, k) = Take(RankedBy(s, cross), k)
    BY DEF KeywordReranked, CrossReranked
  <2>. HIDE DEF words, cross
  <2>. QED
    BY <1>1, <2>2, <2>3, <2>4
<1>. DEFINE coarse == IF "coarse" \in stages
                      THEN KeywordReranked(results, overlap, Least(coarseTop, Len(results)))
                      ELSE results
<1>3. ASSUME NEW a \in Nat, NEW s \in Seq(Hit) PROVE Least(a, Len(s)) \in Nat
  BY DEF Least
<1>4. coarse \in Seq(Hit) /\ NodesIn(coarse) \subseteq NodesIn(results)
  <2>1. Least(coarseTop, Len(results)) \in Nat
    BY <1>3
  <2>. QED
    BY <1>2, <2>1
<1>5. Reranked(results, stages, overlap, judged, coarseTop, top) =
        IF "fine" \in stages THEN CrossReranked(coarse, judged, Least(top, Len(coarse)))
                             ELSE Take(coarse, top)
  BY DEF Reranked
<1>. HIDE DEF coarse
<1>6. /\ CrossReranked(coarse, judged, Least(top, Len(coarse))) \in Seq(Hit)
      /\ NodesIn(CrossReranked(coarse, judged, Least(top, Len(coarse)))) \subseteq NodesIn(coarse)
  <2>1. Least(top, Len(coarse)) \in Nat
    BY <1>3, <1>4
  <2>. QED
    BY <1>2, <1>4, <2>1
<1>7. Take(coarse, top) \in Seq(Hit) /\ NodesIn(Take(coarse, top)) \subseteq NodesIn(coarse)
  <2>1. /\ Take(coarse, top) \in Seq(Hit)
        /\ DOMAIN Take(coarse, top) \subseteq DOMAIN coarse
        /\ \A i \in DOMAIN Take(coarse, top) : Take(coarse, top)[i] = coarse[i]
    BY <1>4, TakeElements
  <2>. QED
    BY <2>1 DEF NodesIn
<1>. QED
  BY <1>4, <1>5, <1>6, <1>7

(* Contexts: at most as many as allowed, each a reranked node, shown as     *)
(* itself or as its parent.                                                 *)
LEMMA ContextsElements ==
  ASSUME NEW reranked \in Seq(Hit), NEW D \in SUBSET Node, NEW parents \in [D -> Node], NEW most \in Nat
  PROVE  /\ Contexts(reranked, parents, most) \in Seq([matched : Node, node : Node])
         /\ Len(Contexts(reranked, parents, most)) \in 0 .. most
         /\ \A i \in DOMAIN Contexts(reranked, parents, most) :
              LET context == Contexts(reranked, parents, most)[i] IN
              /\ context.matched \in NodesIn(reranked)
              /\ context.node = IF context.matched \in D THEN parents[context.matched] ELSE context.matched
<1>. DEFINE items == Take(reranked, most)
            contexts == Contexts(reranked, parents, most)
            Shown(node) == IF node \in D THEN parents[node] ELSE node
<1>1. /\ items \in Seq(Hit) /\ Len(items) <= most /\ DOMAIN items \subseteq DOMAIN reranked
      /\ \A i \in DOMAIN items : items[i] = reranked[i]
  BY TakeElements
<1>2. contexts = [i \in DOMAIN items |-> [matched |-> items[i].node, node |-> Shown(items[i].node)]]
  BY DEF Contexts
<1>. HIDE DEF items, contexts
<1>3. DOMAIN items = 1 .. Len(items) /\ Len(items) \in Nat /\ \A i \in DOMAIN items : items[i] \in Hit
  BY <1>1
<1>4. \A i \in DOMAIN items : items[i].node \in Node /\ items[i].node \in NodesIn(reranked)
  <2>1. \A i \in DOMAIN items : items[i].node \in Node
    BY <1>3 DEF Hit
  <2>. QED
    BY <1>1, <2>1 DEF NodesIn
<1>5. \A n \in Node : Shown(n) \in Node
  OBVIOUS
<1>6. contexts \in [1 .. Len(items) -> [matched : Node, node : Node]]
  <2>. HIDE DEF Shown
  <2>. QED
    BY <1>2, <1>3, <1>4, <1>5
<1>7. /\ contexts \in Seq([matched : Node, node : Node]) /\ Len(contexts) = Len(items)
      /\ DOMAIN contexts = DOMAIN items
  <2>. DEFINE C == [matched : Node, node : Node]
  <2>1. contexts \in [1 .. Len(items) -> C]
    BY <1>6
  <2>. HIDE DEF C
  <2>2. contexts \in Seq(C) /\ Len(contexts) = Len(items)
    BY <1>3, <2>1
  <2>. QED
    BY <1>3, <2>1, <2>2 DEF C
<1>8. \A i \in DOMAIN contexts : /\ contexts[i].matched = items[i].node
                                 /\ contexts[i].node = Shown(contexts[i].matched)
  <2>. HIDE DEF Shown
  <2>. QED
    BY <1>2, <1>7
<1>. QED
  BY <1>1, <1>3, <1>4, <1>7, <1>8 DEF contexts

(* The citations of an answer: numbers of its contexts, each once.          *)
LEMMA UsedElements ==
  ASSUME NEW mentions \in Seq(Nat), NEW T, NEW contexts \in Seq(T)
  PROVE  /\ Used(mentions, contexts) \in Seq(DOMAIN contexts)
         /\ \A i, j \in DOMAIN Used(mentions, contexts) :
              Used(mentions, contexts)[i] = Used(mentions, contexts)[j] => i = j
<1>. DEFINE K == {i \in DOMAIN mentions : mentions[i] \in DOMAIN contexts}
            shown == Picked(mentions, K)
            F == Firsts(shown)
            used == Used(mentions, contexts)
<1>1. K \in SUBSET (DOMAIN mentions) /\ \A i \in K : mentions[i] \in DOMAIN contexts
  OBVIOUS
<1>2. used = Picked(shown, F)
  BY DEF Used, FirstOf
<1>. HIDE DEF K
<1>3. shown \in Seq(Nat) /\ \A k \in DOMAIN shown : \E i \in K : shown[k] = mentions[i]
  BY <1>1, PickedElements
<1>. HIDE DEF shown, used
<1>4. \A k \in DOMAIN shown : shown[k] \in DOMAIN contexts
  BY <1>1, <1>3
<1>5. shown \in Seq(DOMAIN contexts)
  BY <1>3, <1>4
<1>6. /\ F \in SUBSET (DOMAIN shown)
      /\ \A i \in F : \A j \in DOMAIN shown : j < i => shown[j] # shown[i]
  BY DEF Firsts
<1>. HIDE DEF F
<1>7. /\ used \in Seq(DOMAIN contexts)
      /\ \A k, l \in DOMAIN used : k # l => \E i, j \in F : i # j /\ used[k] = shown[i] /\ used[l] = shown[j]
  BY <1>2, <1>5, <1>6, PickedElements
<1>8. ASSUME NEW k \in DOMAIN used, NEW l \in DOMAIN used, k # l PROVE used[k] # used[l]
  <2>1. PICK i \in F, j \in F : i # j /\ used[k] = shown[i] /\ used[l] = shown[j]
    BY <1>7, <1>8
  <2>2. i < j \/ j < i
    BY <1>5, <1>6, <2>1
  <2>. QED
    BY <1>6, <2>1, <2>2
<1>. QED
  BY <1>7, <1>8 DEF used

(* Numbers from 1 to n, each at most once, are a selection.                 *)
LEMMA SelectionsElements ==
  ASSUME NEW n \in Nat, NEW s \in Seq(1 .. n), \A i, j \in DOMAIN s : s[i] = s[j] => i = j
  PROVE  s \in Protocol!Selections(n)
<1>1. Len(s) \in Nat /\ DOMAIN s = 1 .. Len(s) /\ s \in [1 .. Len(s) -> 1 .. n]
  OBVIOUS
<1>2. s \in Injection(1 .. Len(s), 1 .. n)
  BY <1>1 DEF Injection, IsInjective
<1>3. \A m \in Nat : IsFiniteSet(1 .. m) /\ Cardinality(1 .. m) = m
  BY FS_Interval
<1>4. Cardinality(1 .. Len(s)) <= Cardinality(1 .. n)
  BY <1>2, <1>3, FS_Injection
<1>5. Len(s) \in 0 .. n
  BY <1>1, <1>3, <1>4
<1>6. s \in UNION {[1 .. k -> 1 .. n] : k \in 0 .. n}
  BY <1>1, <1>5
<1>. QED
  BY <1>6 DEF Protocol!Selections

-----------------------------------------------------------------------------
(* What a mode holds.                                                       *)
LEMMA ModeFields ==
  ASSUME TypeOK
  PROVE  /\ mode.hybrid \in BOOLEAN /\ mode.most \in Nat /\ mode.most <= MaxContexts
         /\ mode.top \in Nat /\ mode.top > 0 /\ mode.sparseTop \in Nat /\ mode.sparseTop > 0
         /\ mode.coarseTop \in Nat /\ mode.rerankTop \in Nat
         /\ MaxContexts \in Nat
<1>1. mode \in Modes
  BY DEF TypeOK
<1>2. mode \in Mode /\ mode.most <= MaxContexts /\ MaxContexts \in Nat
  BY <1>1, ModesAssumption
<1>. QED
  BY <1>2 DEF Mode, Limit

(* The same for the variants of the query and their scores.                 *)
LEMMA RelevanceFields ==
  ASSUME TypeOK
  PROVE  /\ relevance.vector \in Seq([Node -> Nat]) /\ relevance.bm25 \in Seq([Node -> Nat])
         /\ Len(relevance.vector) \in Nat /\ Len(relevance.vector) > 0
         /\ Len(relevance.bm25) = Len(relevance.vector)
         /\ relevance.overlap \in [Node -> Nat] /\ relevance.cross \in [Node -> Nat]
         /\ Variants = 1 .. Len(relevance.vector)
<1>1. relevance \in Relevance
  BY RelevancesAssumption DEF TypeOK
<1>2. /\ relevance.vector \in Seq([Node -> Nat]) /\ relevance.bm25 \in Seq([Node -> Nat])
      /\ relevance.vector # <<>> /\ Len(relevance.bm25) = Len(relevance.vector)
      /\ relevance.overlap \in [Node -> Nat] /\ relevance.cross \in [Node -> Nat]
  BY <1>1 DEF Relevance
<1>3. Len(relevance.vector) \in Nat /\ Len(relevance.vector) > 0
  BY <1>2
<1>. QED
  BY <1>2, <1>3 DEF Variants

(* The fields of the question.                                              *)
LEMMA AskFields ==
  ASSUME TypeOK
  PROVE  /\ ask.vector \in Seq(Hit) /\ ask.sparse \in Seq(Hit) /\ ask.hits \in Seq(Hit)
         /\ ask.results \in Seq(Hit) /\ ask.found \subseteq Node /\ ask.sources \subseteq Source
         /\ ask.variant \in Nat /\ ask.sparseVariant \in Nat /\ ask.mentions \in Seq(Nat)
         /\ ask.contexts \in Seq([matched : Node, node : Node])
         /\ \E D \in SUBSET Node : ask.parents \in [D -> Node]
         /\ Searchable \subseteq Node /\ Len(ask.contexts) \in Nat
         /\ points \subseteq Node /\ rows \subseteq Node
<1>1. ask \in Asked /\ points \subseteq Node /\ rows \subseteq Node
  BY DEF TypeOK
<1>2. /\ ask.vector \in Seq(Hit) /\ ask.sparse \in Seq(Hit) /\ ask.hits \in Seq(Hit)
      /\ ask.results \in Seq(Hit) /\ ask.found \subseteq Node /\ ask.sources \subseteq Source
      /\ ask.variant \in Nat /\ ask.sparseVariant \in Nat /\ ask.mentions \in Seq(Nat)
      /\ ask.contexts \in Seq([matched : Node, node : Node])
  BY <1>1 DEF Asked
<1>3. ask.parents \in UNION {[D -> Node] : D \in SUBSET Node}
  BY <1>1 DEF Asked
<1>4. \E D \in SUBSET Node : ask.parents \in [D -> Node]
  BY <1>3
<1>5. Len(ask.contexts) \in Nat
  BY <1>2
<1>6. Searchable \subseteq Node
  BY <1>1 DEF Searchable
<1>. QED
  BY <1>1, <1>2, <1>4, <1>5, <1>6

(* The fusion's unit is a number.                                           *)
LEMMA UnitIsNatural ==
  ASSUME TypeOK
  PROVE  Unit \in Nat /\ Overlap \in [Node -> Nat]
<1>1. mode.top \in Nat /\ mode.sparseTop \in Nat
  BY ModeFields
<1>2. Scale(60, mode.top) \in Nat /\ Scale(60, mode.sparseTop) \in Nat
  BY <1>1, ScaleIsNatural
<1>3. Unit \in Nat
  BY <1>1, <1>2 DEF Unit
<1>4. relevance.overlap \in [Node -> Nat]
  BY RelevanceFields
<1>5. \A n \in Node : Unit * relevance.overlap[n] \in Nat
  BY <1>3, <1>4
<1>. QED
  BY <1>3, <1>5 DEF Overlap

(* One variant's answers.                                                   *)
LEMMA VariantHits ==
  ASSUME TypeOK, NEW v \in 1 .. Len(relevance.vector)
  PROVE  /\ relevance.vector[v] \in [Node -> Nat] /\ relevance.bm25[v] \in [Node -> Nat]
         /\ Hits(relevance.vector[v], Searchable, mode.top) \in Seq(Hit)
         /\ NodesIn(Hits(relevance.vector[v], Searchable, mode.top)) \subseteq Searchable
         /\ \A matching \in SUBSET Searchable :
              /\ Hits(relevance.bm25[v], matching, mode.sparseTop) \in Seq(Hit)
              /\ NodesIn(Hits(relevance.bm25[v], matching, mode.sparseTop)) \subseteq Searchable
<1>1. relevance.vector[v] \in [Node -> Nat] /\ relevance.bm25[v] \in [Node -> Nat]
  BY RelevanceFields
<1>2. mode.top \in Nat /\ mode.sparseTop \in Nat
  BY ModeFields
<1>3. Searchable \in SUBSET Node
  BY AskFields
<1>4. ASSUME NEW score \in [Node -> Nat], NEW nodes \in SUBSET Node, NEW limit \in Nat
      PROVE  Hits(score, nodes, limit) \in Seq(Hit) /\ NodesIn(Hits(score, nodes, limit)) \subseteq nodes
  BY HitsElements
<1>5. ASSUME NEW matching \in SUBSET Searchable
      PROVE  /\ Hits(relevance.bm25[v], matching, mode.sparseTop) \in Seq(Hit)
             /\ NodesIn(Hits(relevance.bm25[v], matching, mode.sparseTop)) \subseteq Searchable
  <2>1. matching \in SUBSET Node
    BY <1>3
  <2>. QED
    BY <1>1, <1>2, <1>4, <2>1
<1>. QED
  BY <1>1, <1>2, <1>3, <1>4, <1>5

(* What the search has found.                                               *)
LEMMA FoundElements ==
  ASSUME TypeOK
  PROVE  /\ Found(ask.vector, ask.sparse) \in Seq(Hit)
         /\ NodesIn(Found(ask.vector, ask.sparse)) \subseteq NodesIn(ask.vector) \cup NodesIn(ask.sparse)
         /\ NoNodeTwice(Found(ask.vector, ask.sparse))
<1>. DEFINE vectors == MergedVariants(ask.vector, mode.top)
            words   == MergedVariants(ask.sparse, mode.sparseTop)
<1>1. mode.top \in Nat /\ mode.sparseTop \in Nat /\ mode.hybrid \in BOOLEAN
  BY ModeFields
<1>2. ask.vector \in Seq(Hit) /\ ask.sparse \in Seq(Hit)
  BY AskFields
<1>3. vectors \in Seq(Hit) /\ NoNodeTwice(vectors) /\ NodesIn(vectors) \subseteq NodesIn(ask.vector)
  BY <1>1, <1>2, MergedElements
<1>4. words \in Seq(Hit) /\ NoNodeTwice(words) /\ NodesIn(words) \subseteq NodesIn(ask.sparse)
  BY <1>1, <1>2, MergedElements
<1>5. Unit \in Nat
  BY UnitIsNatural
<1>. HIDE DEF vectors, words
<1>6. /\ Fused(vectors, words, 60, Unit, mode.top) \in Seq(Hit)
      /\ NoNodeTwice(Fused(vectors, words, 60, Unit, mode.top))
      /\ NodesIn(Fused(vectors, words, 60, Unit, mode.top)) \subseteq NodesIn(vectors) \cup NodesIn(words)
  BY <1>1, <1>3, <1>4, <1>5, FusedElements
<1>7. Found(ask.vector, ask.sparse) =
        IF mode.hybrid THEN Fused(vectors, words, 60, Unit, mode.top) ELSE vectors
  BY DEF Found, vectors, words
<1>. QED
  BY <1>1, <1>3, <1>4, <1>6, <1>7

(* The contexts: nodes of the results or their parents, no more than        *)
(* allowed.                                                                 *)
LEMMA ShownContexts ==
  ASSUME TypeOK, NEW contexts,
         contexts = Contexts(Reranked(ask.results, mode.stages, Overlap, relevance.cross,
                                      mode.coarseTop, mode.rerankTop), ask.parents, mode.most)
  PROVE  /\ contexts \in Seq([matched : Node, node : Node]) /\ Len(contexts) \in 0 .. MaxContexts
         /\ \A i \in DOMAIN contexts :
              /\ contexts[i].matched \in NodesIn(ask.results)
              /\ \/ contexts[i].node = contexts[i].matched
                 \/ /\ contexts[i].matched \in DOMAIN ask.parents
                    /\ contexts[i].node = ask.parents[contexts[i].matched]
<1>. DEFINE reranked == Reranked(ask.results, mode.stages, Overlap, relevance.cross,
                                 mode.coarseTop, mode.rerankTop)
<1>1. /\ mode.most \in Nat /\ mode.most <= MaxContexts /\ MaxContexts \in Nat
      /\ mode.coarseTop \in Nat /\ mode.rerankTop \in Nat
  BY ModeFields
<1>2. Overlap \in [Node -> Nat] /\ relevance.cross \in [Node -> Nat]
  BY UnitIsNatural, RelevanceFields
<1>3. ask.results \in Seq(Hit)
  BY AskFields
<1>4. reranked \in Seq(Hit) /\ NodesIn(reranked) \subseteq NodesIn(ask.results)
  BY <1>1, <1>2, <1>3, RerankedElements
<1>5. PICK D \in SUBSET Node : ask.parents \in [D -> Node]
  BY AskFields
<1>6. contexts = Contexts(reranked, ask.parents, mode.most)
  OBVIOUS
<1>. HIDE DEF reranked
<1>7. contexts \in Seq([matched : Node, node : Node]) /\ Len(contexts) \in 0 .. mode.most
  <2>1. /\ Contexts(reranked, ask.parents, mode.most) \in Seq([matched : Node, node : Node])
        /\ Len(Contexts(reranked, ask.parents, mode.most)) \in 0 .. mode.most
    BY <1>1, <1>4, <1>5, ContextsElements
  <2>. QED
    BY <1>6, <2>1
<1>8. \A i \in DOMAIN contexts :
        /\ contexts[i].matched \in NodesIn(reranked)
        /\ contexts[i].node = IF contexts[i].matched \in D THEN ask.parents[contexts[i].matched]
                                                            ELSE contexts[i].matched
  BY <1>1, <1>4, <1>5, <1>6, ContextsElements
<1>9. DOMAIN ask.parents = D
  BY <1>5
<1>10. Len(contexts) \in 0 .. MaxContexts
  BY <1>1, <1>7
<1>. QED
  BY <1>4, <1>7, <1>8, <1>9, <1>10

(* The citations are numbers of contexts, each once, in either answer.      *)
LEMMA CitedOnce ==
  ASSUME TypeOK, NEW cited,
         cited = Used(ask.mentions, ask.contexts)
         \/ cited \in SetToSeqs(ToSet(Used(ask.mentions, ask.contexts)))
  PROVE  /\ cited \in Seq(1 .. Len(ask.contexts)) /\ cited \in Seq(Nat)
         /\ \A i, j \in DOMAIN cited : cited[i] = cited[j] => i = j
<1>. DEFINE used == Used(ask.mentions, ask.contexts)
            S == ToSet(used)
<1>1. ask.mentions \in Seq(Nat) /\ ask.contexts \in Seq([matched : Node, node : Node])
  BY AskFields
<1>2. DOMAIN ask.contexts = 1 .. Len(ask.contexts) /\ Len(ask.contexts) \in Nat
  BY <1>1
<1>3. used \in Seq(DOMAIN ask.contexts) /\ \A i, j \in DOMAIN used : used[i] = used[j] => i = j
  BY <1>1, UsedElements, SMTT(20)
<1>. HIDE DEF used
<1>4. used \in Seq(1 .. Len(ask.contexts))
  BY <1>2, <1>3
<1>5. ASSUME NEW s \in Seq(1 .. Len(ask.contexts)) PROVE s \in Seq(Nat)
  <2>1. 1 .. Len(ask.contexts) \subseteq Nat
    BY <1>2
  <2>. QED
    BY <2>1
<1>6. CASE cited = used
  BY <1>3, <1>4, <1>5, <1>6
<1>7. CASE cited \in SetToSeqs(S)
  <2>1. S \subseteq 1 .. Len(ask.contexts)
    BY <1>4 DEF ToSet
  <2>2. IsFiniteSet(1 .. Len(ask.contexts))
    BY <1>2, FS_Interval
  <2>3. IsFiniteSet(S)
    BY <2>1, <2>2, FS_Subset
  <2>4. Cardinality(S) \in Nat
    BY <2>3, FS_CardinalityType
  <2>. HIDE DEF S
  <2>5. cited \in [1 .. Cardinality(S) -> S] /\ \A i, j \in 1 .. Cardinality(S) : i # j => cited[i] # cited[j]
    BY <1>7 DEF SetToSeqs
  <2>6. cited \in Seq(1 .. Len(ask.contexts))
    <3>1. cited \in [1 .. Cardinality(S) -> 1 .. Len(ask.contexts)]
      BY <2>1, <2>5
    <3>. QED
      BY <2>4, <3>1
  <2>. QED
    BY <1>5, <2>4, <2>5, <2>6
<1>. QED
  BY <1>6, <1>7 DEF used

-----------------------------------------------------------------------------
(* A question that has just come is one, and has read nothing.              *)
LEMMA QuestionType == Question \in Asked
<1>1. /\ "dataset" \in Step /\ "asked" \in Protocol!Stage /\ 0 \in Nat /\ {} \subseteq Source
      /\ {} \subseteq Node
  BY DEF Step, Protocol!Stage
<1>2. \A T : <<>> \in Seq(T)
  OBVIOUS
<1>3. <<>> \in UNION {[D -> Node] : D \in SUBSET Node}
  <2>1. <<>> \in [{} -> Node]
    OBVIOUS
  <2>. QED
    BY <2>1
<1>4. /\ <<>> \in Seq(Hit) /\ <<>> \in Seq([matched : Node, node : Node]) /\ <<>> \in Seq(Nat)
  BY <1>2
<1>. QED
  BY <1>1, <1>3, <1>4 DEF Question, Asked

(* A list without hits has no nodes.                                        *)
LEMMA NothingRead ==
  /\ \A T : <<>> \in Seq(T)
  /\ DOMAIN <<>> = {} /\ NodesIn(<<>>) = {} /\ Len(<<>>) = 0
<1>1. DOMAIN <<>> = {}
  OBVIOUS
<1>. QED
  BY <1>1 DEF NodesIn

(* The invariant holds when the question comes.                             *)
LEMMA AnswerInit == Init => AnswerInv
<1>. SUFFICES ASSUME Init PROVE AnswerInv
  OBVIOUS
<1>1. rows \subseteq Node
  <2>1. PICK build \in [Source -> UNION {Builds[s] : s \in Source}] :
          /\ \A s \in Source : build[s] \in Builds[s]
          /\ rows = UNION {build[s] : s \in Source}
    BY DEF Init
  <2>2. \A s \in Source : build[s] \subseteq Node
    BY <2>1, BuildsAssumption DEF Of
  <2>. QED
    BY <2>1, <2>2
<1>2. points \subseteq Node
  BY <1>1 DEF Init, Indexable
<1>3. ask = Question
  BY DEF Init
<1>4. TypeOK
  <2>1. indexing \in [pc : Source \cup {"idle"}, nodes : SUBSET Node]
    BY DEF Init
  <2>2. files \in SUBSET Source /\ mode \in Modes /\ relevance \in Relevances /\ disturbed \in BOOLEAN
        /\ lived = rows
    BY DEF Init
  <2>. QED
    BY <1>1, <1>2, <1>3, <2>1, <2>2, QuestionType DEF TypeOK
<1>5. ReadsLive
  <2>1. lived = rows
    BY DEF Init
  <2>. QED
    BY <1>3, <2>1, NothingRead DEF ReadsLive, InSources, Question
<1>6. InStep
  BY <1>3 DEF InStep, Question, Saying
<1>7. OnlyLiveContexts
  BY <1>3, NothingRead DEF OnlyLiveContexts, Question
<1>8. CompleteSoFar
  <2>1. ~disturbed => points = rows \cap Indexable
    BY DEF Init
  <2>. QED
    BY <1>3, <2>1 DEF CompleteSoFar, Question
<1>9. SearchIsComplete
  BY <1>3 DEF SearchIsComplete, Question
<1>. QED
  BY <1>4, <1>5, <1>6, <1>7, <1>8, <1>9 DEF AnswerInv

-----------------------------------------------------------------------------
(* What an index request leaves of points, rows and the question.           *)
LEMMA IndexTypes ==
  ASSUME TypeOK, NEW s \in Source,
         (\E build \in Builds[s] : StartIndexing(s, build)) \/ StartClearing(s) \/ CommitRows(s)
  PROVE  TypeOK' /\ UNCHANGED ask /\ Changed
<1>1. /\ points \subseteq Node /\ rows \subseteq Node /\ lived \subseteq Node
      /\ indexing \in [pc : Source \cup {"idle"}, nodes : SUBSET Node]
  BY DEF TypeOK
<1>2. Changed
  BY DEF StartIndexing, StartClearing, CommitRows
<1>3. UNCHANGED <<files, mode, relevance, ask>>
  BY <1>2 DEF Changed, asked
<1>4. points' \subseteq Node /\ rows' \subseteq Node
      /\ indexing' \in [pc : Source \cup {"idle"}, nodes : SUBSET Node]
  <2>1. CASE \E build \in Builds[s] : StartIndexing(s, build)
    <3>1. PICK build \in Builds[s] : StartIndexing(s, build)
      BY <2>1
    <3>2. build \subseteq Node
      BY BuildsAssumption DEF Of
    <3>. QED
      BY <1>1, <3>1, <3>2 DEF StartIndexing
  <2>2. CASE StartClearing(s)
    BY <1>1, <2>2 DEF StartClearing
  <2>3. CASE CommitRows(s)
    BY <1>1, <2>3 DEF CommitRows
  <2>. QED
    BY <2>1, <2>2, <2>3
<1>5. lived' \subseteq Node /\ disturbed' \in BOOLEAN
  BY <1>1, <1>2, <1>4 DEF Changed
<1>6. files' \in SUBSET Source /\ mode' \in Modes /\ relevance' \in Relevances /\ ask' \in Asked
  BY <1>3 DEF TypeOK
<1>. QED
  BY <1>2, <1>3, <1>4, <1>5, <1>6 DEF TypeOK

(* The question keeps its shape at each of its steps.                       *)
LEMMA AskTypes ==
  ASSUME TypeOK,
         \/ ReadDataset \/ AskPlainly \/ Prepare \/ Transform \/ SearchVectors \/ SearchWords \/ Fuse
         \/ Hydrate \/ ReadParents \/ Rerank \/ Generate \/ Delta \/ Done \/ Answered \/ Fail
  PROVE  ask' \in Asked
<1>1. ask \in Asked /\ files \in SUBSET Source
  BY DEF TypeOK
<1>2. /\ Step = {"dataset", "prepare", "transform", "search", "hydrate", "parents", "rerank", "contexts",
                 "stream", "over"}
      /\ Protocol!Stage = {"asked", "refused", "accepted", "searching", "reranking", "contexts",
                           "generating", "done", "error", "broken"}
  BY DEF Step, Protocol!Stage
<1>3. CASE ReadDataset
  BY <1>1, <1>2, <1>3 DEF ReadDataset, Asked
<1>4. CASE AskPlainly
  BY <1>1, <1>2, <1>4 DEF AskPlainly, Asked
<1>5. CASE Prepare
  BY <1>1, <1>2, <1>5 DEF Prepare, Asked
<1>6. CASE Transform
  BY <1>1, <1>2, <1>6 DEF Transform, Asked
<1>7. CASE SearchVectors
  <2>. DEFINE v == ask.variant + 1
              more == Hits(relevance.vector[v], Searchable, mode.top)
  <2>1. ask.variant \in Nat /\ ask.vector \in Seq(Hit) /\ v \in 1 .. Len(relevance.vector) /\ v \in Nat
    BY <1>7, AskFields, RelevanceFields DEF SearchVectors
  <2>2. more \in Seq(Hit)
    BY <2>1, VariantHits
  <2>3. ask' = [ask EXCEPT !.variant = v, !.vector = ask.vector \o more]
    BY <1>7 DEF SearchVectors
  <2>. HIDE DEF more, v
  <2>4. ask.vector \o more \in Seq(Hit)
    BY <2>1, <2>2
  <2>. QED
    BY <1>1, <2>1, <2>3, <2>4 DEF Asked
<1>8. CASE SearchWords
  <2>. DEFINE v == ask.sparseVariant + 1
              matching == {n \in Searchable : relevance.bm25[v][n] > 0}
              more == Hits(relevance.bm25[v], matching, mode.sparseTop)
  <2>1. /\ ask.sparseVariant \in Nat /\ ask.sparse \in Seq(Hit) /\ v \in 1 .. Len(relevance.vector)
        /\ v \in Nat
    BY <1>8, AskFields, RelevanceFields DEF SearchWords
  <2>2. matching \in SUBSET Searchable
    OBVIOUS
  <2>3. more \in Seq(Hit)
    <3>. HIDE DEF matching
    <3>. QED
      BY <2>1, <2>2, VariantHits
  <2>4. ask' = [ask EXCEPT !.sparseVariant = v, !.sparse = ask.sparse \o more]
    BY <1>8 DEF SearchWords
  <2>. HIDE DEF more, v
  <2>5. ask.sparse \o more \in Seq(Hit)
    BY <2>1, <2>3
  <2>. QED
    BY <1>1, <2>1, <2>4, <2>5 DEF Asked
<1>9. CASE Fuse
  <2>1. Found(ask.vector, ask.sparse) \in Seq(Hit) /\ <<>> \in Seq(Hit)
    BY FoundElements, NothingRead
  <2>. QED
    BY <1>1, <1>2, <1>9, <2>1 DEF Fuse, Asked
<1>10. CASE Hydrate
  <2>1. NodesIn(ask.hits) \cap rows \subseteq Node
    BY DEF TypeOK
  <2>. QED
    BY <1>1, <1>2, <1>10, <2>1 DEF Hydrate, Asked
<1>11. CASE ReadParents
  <2>1. ask.hits \in Seq(Hit) /\ ask.found \subseteq Node /\ mode.top \in Nat /\ rows \subseteq Node
    BY AskFields, ModeFields
  <2>2. Assembled(ask.hits, ask.found, mode.top) \in Seq(Hit)
    BY <2>1, AssembledElements
  <2>3. Parents(ask.found) \in UNION {[D -> Node] : D \in SUBSET Node}
    <3>. DEFINE D0 == {n \in ask.found : ParentOf[n] \in rows}
    <3>1. D0 \in SUBSET Node /\ \A n \in D0 : ParentOf[n] \in Node
      BY <2>1
    <3>2. Parents(ask.found) = [n \in D0 |-> ParentOf[n]]
      BY DEF Parents
    <3>. HIDE DEF D0
    <3>3. Parents(ask.found) \in [D0 -> Node]
      BY <3>1, <3>2
    <3>. QED
      BY <3>1, <3>3
  <2>. QED
    BY <1>1, <1>2, <1>11, <2>2, <2>3 DEF ReadParents, Asked
<1>12. CASE Rerank
  <2>. DEFINE contexts == Contexts(Reranked(ask.results, mode.stages, Overlap, relevance.cross,
                                            mode.coarseTop, mode.rerankTop), ask.parents, mode.most)
  <2>1. contexts \in Seq([matched : Node, node : Node])
    BY ShownContexts
  <2>2. ask' = [ask EXCEPT !.pc = "contexts", !.said = "contexts", !.contexts = contexts,
                           !.hits = <<>>, !.found = {}, !.results = <<>>, !.parents = <<>>]
    BY <1>12 DEF Rerank
  <2>3. <<>> \in Seq(Hit) /\ {} \subseteq Node
    BY NothingRead
  <2>4. <<>> \in UNION {[D -> Node] : D \in SUBSET Node}
    BY QuestionType DEF Question, Asked
  <2>. HIDE DEF contexts
  <2>. QED
    BY <1>1, <1>2, <2>1, <2>2, <2>3, <2>4 DEF Asked
<1>13. CASE Generate
  BY <1>1, <1>2, <1>13 DEF Generate, Asked
<1>14. CASE Delta
  <2>1. mode.most \in Nat /\ ask.mentions \in Seq(Nat)
    BY ModeFields, AskFields
  <2>2. PICK mention \in 1 .. (mode.most + 1) : ask' = [ask EXCEPT !.mentions = Append(@, mention)]
    BY <1>14 DEF Delta
  <2>3. Append(ask.mentions, mention) \in Seq(Nat)
    BY <2>1
  <2>. QED
    BY <1>1, <2>2, <2>3 DEF Asked
<1>15. CASE Done
  <2>1. Used(ask.mentions, ask.contexts) \in Seq(Nat)
    BY CitedOnce
  <2>. QED
    BY <1>1, <1>2, <1>15, <2>1 DEF Done, Asked
<1>16. CASE Answered
  <2>1. PICK cited \in SetToSeqs(ToSet(Used(ask.mentions, ask.contexts))) :
          ask' = [ask EXCEPT !.pc = "over", !.said = "done", !.cited = cited]
    BY <1>16 DEF Answered
  <2>2. cited \in Seq(Nat)
    BY <2>1, CitedOnce
  <2>. QED
    BY <1>1, <1>2, <2>1, <2>2 DEF Asked
<1>17. CASE Fail
  <2>1. PICK end \in Raised(ask.pc) : ask' = [ask EXCEPT !.pc = "over", !.said = end]
    BY <1>17 DEF Fail
  <2>2. end \in {"error", "broken"}
    BY DEF Raised
  <2>. QED
    BY <1>1, <1>2, <2>1, <2>2 DEF Asked
<1>. QED
  BY <1>3, <1>4, <1>5, <1>6, <1>7, <1>8, <1>9, <1>10, <1>11, <1>12, <1>13, <1>14, <1>15, <1>16, <1>17

-----------------------------------------------------------------------------
(* One list of hits after another.                                          *)
LEMMA JoinedHits ==
  ASSUME NEW a \in Seq(Hit), NEW b \in Seq(Hit)
  PROVE  /\ a \o b \in Seq(Hit) /\ NodesIn(a \o b) = NodesIn(a) \cup NodesIn(b)
         /\ \A i \in DOMAIN a : i \in DOMAIN (a \o b) /\ (a \o b)[i] = a[i]
         /\ \A i \in DOMAIN b : Len(a) + i \in DOMAIN (a \o b) /\ (a \o b)[Len(a) + i] = b[i]
         /\ \A i \in DOMAIN (a \o b) :
              \/ i \in DOMAIN a
              \/ i - Len(a) \in DOMAIN b /\ i > Len(a) /\ (a \o b)[i] = b[i - Len(a)]
<1>1. /\ a \o b \in Seq(Hit) /\ Len(a) \in Nat /\ Len(b) \in Nat
      /\ DOMAIN a = 1 .. Len(a) /\ DOMAIN b = 1 .. Len(b)
      /\ DOMAIN (a \o b) = 1 .. Len(a) + Len(b)
  OBVIOUS
<1>2. \A i \in 1 .. Len(a) : (a \o b)[i] = a[i]
  OBVIOUS
<1>3. \A i \in 1 .. Len(b) : (a \o b)[Len(a) + i] = b[i]
  OBVIOUS
<1>4. ASSUME NEW i \in DOMAIN (a \o b)
      PROVE \/ i \in DOMAIN a
            \/ i - Len(a) \in DOMAIN b /\ i > Len(a) /\ (a \o b)[i] = b[i - Len(a)]
  <2>1. CASE i <= Len(a)
    BY <1>1, <2>1
  <2>2. CASE ~(i <= Len(a))
    <3>1. i - Len(a) \in 1 .. Len(b) /\ Len(a) + (i - Len(a)) = i /\ i > Len(a)
      BY <1>1, <2>2
    <3>2. (a \o b)[Len(a) + (i - Len(a))] = b[i - Len(a)]
      BY <1>3, <3>1
    <3>. QED
      BY <1>1, <3>1, <3>2
  <2>. QED
    BY <2>1, <2>2
<1>5. \A i \in DOMAIN a : i \in DOMAIN (a \o b)
  BY <1>1
<1>6. \A i \in DOMAIN b : Len(a) + i \in DOMAIN (a \o b)
  BY <1>1
<1>. DEFINE joined == a \o b
<1>. HIDE DEF joined
<1>7. NodesIn(joined) = NodesIn(a) \cup NodesIn(b)
  <2>1. /\ \A i \in DOMAIN a : i \in DOMAIN joined /\ joined[i] = a[i]
        /\ \A i \in DOMAIN b : Len(a) + i \in DOMAIN joined /\ joined[Len(a) + i] = b[i]
        /\ \A i \in DOMAIN joined :
             \/ i \in DOMAIN a
             \/ i - Len(a) \in DOMAIN b /\ joined[i] = b[i - Len(a)]
    BY <1>1, <1>2, <1>3, <1>4, <1>5, <1>6 DEF joined
  <2>2. NodesIn(a) \subseteq NodesIn(joined)
    BY <2>1 DEF NodesIn
  <2>3. NodesIn(b) \subseteq NodesIn(joined)
    BY <2>1 DEF NodesIn
  <2>4. NodesIn(joined) \subseteq NodesIn(a) \cup NodesIn(b)
    BY <2>1 DEF NodesIn
  <2>. QED
    BY <2>2, <2>3, <2>4
<1>. QED
  BY <1>1, <1>2, <1>3, <1>4, <1>5, <1>6, <1>7 DEF joined

(* Hits lie in the sources when their nodes do.                             *)
LEMMA SourcesOfNodes ==
  ASSUME NEW hits
  PROVE  InSources(hits) <=> \A n \in NodesIn(hits) : SourceOf[n] \in ask.sources
BY DEF InSources, NodesIn

(* What is read lies in the sources of the question and has had a row, and  *)
(* so have the contexts, whatever index requests do.                        *)
LEMMA LiveStep ==
  ASSUME TypeOK, ReadsLive, InStep, OnlyLiveContexts, [Next]_vars
  PROVE  ReadsLive' /\ OnlyLiveContexts'
<1>1. /\ ask.pc = "dataset" => ask = Question
      /\ rows \subseteq lived /\ ask.found \subseteq lived
      /\ \A n \in NodesIn(ask.vector) \cup NodesIn(ask.sparse) \cup NodesIn(ask.hits)
                   \cup NodesIn(ask.results) : SourceOf[n] \in ask.sources
      /\ NodesIn(ask.results) \subseteq lived
      /\ \A n \in DOMAIN ask.parents : ask.parents[n] \in lived /\ SourceOf[ask.parents[n]] = SourceOf[n]
  BY SourcesOfNodes DEF ReadsLive
<1>2. /\ \A T : <<>> \in Seq(T)
      /\ DOMAIN <<>> = {} /\ NodesIn(<<>>) = {} /\ Len(<<>>) = 0
  BY NothingRead
<1>3. SUFFICES ASSUME Next PROVE ReadsLive' /\ OnlyLiveContexts'
  <2>1. CASE UNCHANGED vars
    <3>1. rows' = rows /\ lived' = lived /\ ask' = ask
      BY <2>1 DEF vars, indexVars
    <3>. QED
      BY <3>1 DEF ReadsLive, OnlyLiveContexts, InSources
  <2>. QED
    BY <2>1
<1>4. ASSUME NEW s \in Source,
             (\E build \in Builds[s] : StartIndexing(s, build)) \/ StartClearing(s) \/ CommitRows(s)
      PROVE  ReadsLive' /\ OnlyLiveContexts'
  <2>1. UNCHANGED ask /\ Changed
    BY <1>4, IndexTypes
  <2>2. rows' \subseteq lived'
    BY <2>1 DEF Changed
  <2>3. CASE ask.pc = "dataset"
    <3>1. ask' = Question
      BY <1>1, <2>1, <2>3
    <3>. QED
      BY <1>2, <2>2, <3>1 DEF ReadsLive, OnlyLiveContexts, InSources, Question
  <2>4. CASE ask.pc # "dataset"
    <3>1. lived \subseteq lived'
      BY <2>1, <2>4 DEF Changed
    <3>2. ReadsLive'
      BY <2>1, <2>2, <2>4, <3>1 DEF ReadsLive, InSources
    <3>3. OnlyLiveContexts'
      BY <2>1, <3>1 DEF OnlyLiveContexts
    <3>. QED
      BY <3>2, <3>3
  <2>. QED
    BY <2>3, <2>4
<1>5. ASSUME Reading, ask'.pc # "dataset", UNCHANGED <<ask.sources, ask.vector, ask.sparse, ask.hits,
             ask.found, ask.results, ask.parents>>
      PROVE  ReadsLive'
  BY <1>5 DEF Reading, indexVars, ReadsLive, InSources
<1>6. ASSUME Reading, UNCHANGED <<ask.sources, ask.contexts>>
      PROVE  OnlyLiveContexts'
  BY <1>6 DEF Reading, OnlyLiveContexts
<1>7. ask \in Asked
  BY DEF TypeOK
<1>8. CASE ReadDataset
  <2>1. ask = Question /\ Reading
    BY <1>1, <1>8 DEF ReadDataset
  <2>2. /\ ask'.pc # "dataset" /\ ask'.found = {} /\ ask'.parents = <<>> /\ ask'.contexts = <<>>
        /\ ask'.vector = <<>> /\ ask'.sparse = <<>> /\ ask'.hits = <<>> /\ ask'.results = <<>>
    BY <1>8, <2>1 DEF ReadDataset, Question
  <2>. QED
    BY <1>1, <1>2, <2>1, <2>2 DEF Reading, indexVars, ReadsLive, InSources, OnlyLiveContexts
<1>9. CASE AskPlainly
  <2>1. ask = Question /\ Reading
    BY <1>1, <1>9 DEF AskPlainly
  <2>2. /\ ask'.pc # "dataset" /\ ask'.found = {} /\ ask'.parents = <<>> /\ ask'.contexts = <<>>
        /\ ask'.vector = <<>> /\ ask'.sparse = <<>> /\ ask'.hits = <<>> /\ ask'.results = <<>>
    BY <1>9, <2>1 DEF AskPlainly, Question
  <2>. QED
    BY <1>1, <1>2, <2>1, <2>2 DEF Reading, indexVars, ReadsLive, InSources, OnlyLiveContexts
<1>10. CASE Prepare \/ Transform \/ Generate \/ Delta \/ Done \/ Answered \/ Fail
  <2>1. Reading
    BY <1>10 DEF Prepare, Transform, Generate, Delta, Done, Answered, Fail
  <2>2. /\ ask'.pc # "dataset"
        /\ UNCHANGED <<ask.sources, ask.vector, ask.sparse, ask.hits, ask.found, ask.results,
                       ask.parents, ask.contexts>>
    BY <1>7, <1>10, ZenonT(30) DEF Prepare, Transform, Generate, Delta, Done, Answered, Fail, Asked
  <2>. QED
    BY <1>5, <1>6, <2>1, <2>2
<1>11. CASE SearchVectors
  <2>. DEFINE more == Hits(relevance.vector[ask.variant + 1], Searchable, mode.top)
  <2>1. ask.variant + 1 \in 1 .. Len(relevance.vector) /\ ask.vector \in Seq(Hit)
    BY <1>11, AskFields, RelevanceFields DEF SearchVectors
  <2>2. more \in Seq(Hit) /\ NodesIn(more) \subseteq Searchable
    BY <2>1, VariantHits
  <2>3. ask' = [ask EXCEPT !.variant = ask.variant + 1, !.vector = ask.vector \o more]
    BY <1>11 DEF SearchVectors
  <2>4. Reading /\ ask.pc # "dataset"
    BY <1>11 DEF SearchVectors
  <2>. HIDE DEF more
  <2>5. \A n \in NodesIn(ask.vector \o more) : SourceOf[n] \in ask.sources
    BY <1>1, <2>1, <2>2, JoinedHits DEF Searchable
  <2>6. /\ ask'.vector = ask.vector \o more /\ ask'.pc # "dataset"
        /\ UNCHANGED <<ask.sources, ask.sparse, ask.hits, ask.found, ask.results, ask.parents, ask.contexts>>
    BY <1>7, <2>3, <2>4 DEF Asked
  <2>7. InSources(ask.vector)'
    BY <2>5, <2>6 DEF InSources, NodesIn
  <2>8. ReadsLive'
    BY <2>4, <2>6, <2>7 DEF Reading, indexVars, ReadsLive, InSources
  <2>. QED
    BY <1>6, <2>4, <2>6, <2>8
<1>12. CASE SearchWords
  <2>. DEFINE matching == {n \in Searchable : relevance.bm25[ask.sparseVariant + 1][n] > 0}
              more == Hits(relevance.bm25[ask.sparseVariant + 1], matching, mode.sparseTop)
  <2>1. ask.sparseVariant + 1 \in 1 .. Len(relevance.vector) /\ ask.sparse \in Seq(Hit)
    BY <1>12, AskFields, RelevanceFields DEF SearchWords
  <2>2. matching \in SUBSET Searchable
    OBVIOUS
  <2>3. more \in Seq(Hit) /\ NodesIn(more) \subseteq Searchable
    <3>. HIDE DEF matching
    <3>. QED
      BY <2>1, <2>2, VariantHits
  <2>4. ask' = [ask EXCEPT !.sparseVariant = ask.sparseVariant + 1, !.sparse = ask.sparse \o more]
    BY <1>12 DEF SearchWords
  <2>5. Reading /\ ask.pc # "dataset"
    BY <1>12 DEF SearchWords
  <2>. HIDE DEF more
  <2>6. \A n \in NodesIn(ask.sparse \o more) : SourceOf[n] \in ask.sources
    BY <1>1, <2>1, <2>3, JoinedHits DEF Searchable
  <2>7. /\ ask'.sparse = ask.sparse \o more /\ ask'.pc # "dataset"
        /\ UNCHANGED <<ask.sources, ask.vector, ask.hits, ask.found, ask.results, ask.parents, ask.contexts>>
    BY <1>7, <2>4, <2>5 DEF Asked
  <2>8. InSources(ask.sparse)'
    BY <2>6, <2>7 DEF InSources, NodesIn
  <2>9. ReadsLive'
    BY <2>5, <2>7, <2>8 DEF Reading, indexVars, ReadsLive, InSources
  <2>. QED
    BY <1>6, <2>5, <2>7, <2>9
<1>13. CASE Fuse
  <2>1. \A n \in NodesIn(Found(ask.vector, ask.sparse)) : SourceOf[n] \in ask.sources
    BY <1>1, FoundElements
  <2>2. Reading
    BY <1>13 DEF Fuse
  <2>3. /\ ask'.hits = Found(ask.vector, ask.sparse) /\ ask'.pc = "hydrate"
        /\ ask'.vector = <<>> /\ ask'.sparse = <<>>
        /\ UNCHANGED <<ask.sources, ask.found, ask.results, ask.parents, ask.contexts>>
    BY <1>7, <1>13 DEF Fuse, Asked
  <2>4. InSources(ask.hits)'
    BY <2>1, <2>3 DEF InSources, NodesIn
  <2>5. ReadsLive'
    BY <1>2, <2>2, <2>3, <2>4 DEF Reading, indexVars, ReadsLive, InSources
  <2>. QED
    BY <1>6, <2>2, <2>3, <2>5
<1>14. CASE Hydrate
  <2>1. /\ ask'.found = NodesIn(ask.hits) \cap rows /\ ask'.pc = "parents"
        /\ UNCHANGED <<ask.sources, ask.vector, ask.sparse, ask.hits, ask.results, ask.parents, ask.contexts>>
    BY <1>7, <1>14 DEF Hydrate, Asked
  <2>2. Reading
    BY <1>14 DEF Hydrate
  <2>3. ReadsLive'
    BY <2>1, <2>2 DEF Reading, indexVars, ReadsLive, InSources
  <2>. QED
    BY <1>6, <2>1, <2>2, <2>3
<1>15. CASE ReadParents
  <2>1. ask.hits \in Seq(Hit) /\ mode.top \in Nat /\ rows \subseteq Node /\ ask.found \subseteq Node
    BY AskFields, ModeFields
  <2>2. NodesIn(Assembled(ask.hits, ask.found, mode.top)) \subseteq NodesIn(ask.hits) \cap ask.found
    BY <2>1, AssembledElements
  <2>3. /\ ask'.results = Assembled(ask.hits, ask.found, mode.top) /\ ask'.parents = Parents(ask.found)
        /\ ask'.pc = "rerank"
        /\ UNCHANGED <<ask.sources, ask.vector, ask.sparse, ask.hits, ask.found, ask.contexts>>
    BY <1>7, <1>15 DEF ReadParents, Asked
  <2>4. Reading
    BY <1>15 DEF ReadParents
  <2>5. \A n \in DOMAIN Parents(ask.found) :
          /\ Parents(ask.found)[n] \in lived
          /\ SourceOf[Parents(ask.found)[n]] = SourceOf[n]
    <3>1. 0 \notin Node
      BY NodesAssumption
    <3>2. ASSUME NEW n \in ask.found, ParentOf[n] \in rows
          PROVE  ParentOf[n] \in lived /\ SourceOf[ParentOf[n]] = SourceOf[n]
      <4>1. n \in Node /\ ParentOf[n] # 0
        BY <2>1, <3>1, <3>2
      <4>. QED
        BY <1>1, <3>2, <4>1, NodesAssumption
    <3>. QED
      BY <3>2 DEF Parents
  <2>6. NodesIn(ask'.results) \subseteq lived /\ \A n \in NodesIn(ask'.results) : SourceOf[n] \in ask.sources
    BY <1>1, <2>2, <2>3
  <2>7. InSources(ask.results)' /\ NodesIn(ask.results)' \subseteq lived'
    BY <2>3, <2>4, <2>6 DEF InSources, NodesIn, Reading
  <2>8. ReadsLive'
    BY <2>3, <2>4, <2>5, <2>7 DEF Reading, indexVars, ReadsLive, InSources
  <2>. QED
    BY <1>6, <2>3, <2>4, <2>8
<1>16. CASE Rerank
  <2>. DEFINE contexts == Contexts(Reranked(ask.results, mode.stages, Overlap, relevance.cross,
                                            mode.coarseTop, mode.rerankTop), ask.parents, mode.most)
  <2>1. \A i \in DOMAIN contexts :
          /\ contexts[i].matched \in NodesIn(ask.results)
          /\ \/ contexts[i].node = contexts[i].matched
             \/ /\ contexts[i].matched \in DOMAIN ask.parents
                /\ contexts[i].node = ask.parents[contexts[i].matched]
    BY ShownContexts
  <2>2. /\ ask'.contexts = contexts /\ ask'.pc = "contexts"
        /\ ask'.hits = <<>> /\ ask'.results = <<>> /\ ask'.parents = <<>> /\ ask'.found = {}
        /\ UNCHANGED <<ask.sources, ask.vector, ask.sparse>>
    BY <1>7, <1>16 DEF Rerank, Asked
  <2>3. Reading
    BY <1>16 DEF Rerank
  <2>. HIDE DEF contexts
  <2>4. ReadsLive'
    BY <1>2, <2>2, <2>3 DEF Reading, indexVars, ReadsLive, InSources
  <2>5. \A i \in DOMAIN contexts :
          /\ contexts[i].matched \in lived /\ contexts[i].node \in lived
          /\ SourceOf[contexts[i].matched] \in ask.sources /\ SourceOf[contexts[i].node] \in ask.sources
    BY <1>1, <2>1
  <2>6. OnlyLiveContexts'
    BY <2>2, <2>3, <2>5 DEF OnlyLiveContexts, Reading
  <2>. QED
    BY <2>4, <2>6
<1>. QED
  BY <1>3, <1>4, <1>8, <1>9, <1>10, <1>11, <1>12, <1>13, <1>14, <1>15, <1>16 DEF Next

(* What was said follows the question's steps.                              *)
LEMMA InStepStep ==
  ASSUME TypeOK, ReadsLive, InStep, [Next]_vars
  PROVE  InStep'
<1>1. ask \in Asked
  BY DEF TypeOK
<1>2. SUFFICES ASSUME Next PROVE InStep'
  BY DEF vars, InStep
<1>3. CASE \E s \in Source : (\E build \in Builds[s] : StartIndexing(s, build)) \/ StartClearing(s) \/ CommitRows(s)
  <2>1. UNCHANGED ask
    BY <1>3, IndexTypes
  <2>. QED
    BY <2>1 DEF InStep
<1>4. /\ Saying["prepare"] = "accepted" /\ Saying["transform"] = "searching"
      /\ Saying["search"] = "searching" /\ Saying["hydrate"] = "searching"
      /\ Saying["parents"] = "searching" /\ Saying["rerank"] = "reranking"
      /\ Saying["contexts"] = "contexts" /\ Saying["stream"] = "generating"
  BY DEF Saying
<1>5. CASE ReadDataset
  <2>1. /\ ask'.contexts = ask.contexts /\ ask'.cited = ask.cited /\ ask.pc = "dataset"
        /\ \/ ask'.pc = "prepare" /\ ask'.said = "accepted"
           \/ ask'.pc = "over" /\ ask'.said = "refused"
    BY <1>1, <1>5 DEF ReadDataset, Asked
  <2>2. ask.contexts = <<>> /\ ask.cited = <<>>
    BY <2>1 DEF InStep
  <2>. QED
    BY <1>4, <2>1, <2>2 DEF InStep, Protocol!Ends
<1>6. CASE AskPlainly
  <2>1. /\ ask'.contexts = ask.contexts /\ ask'.cited = ask.cited /\ ask.pc = "dataset"
        /\ \/ ask'.pc = "prepare" /\ ask'.said = "accepted"
           \/ ask'.pc = "over" /\ ask'.said = "refused"
    BY <1>1, <1>6 DEF AskPlainly, Asked
  <2>2. ask.contexts = <<>> /\ ask.cited = <<>>
    BY <2>1 DEF InStep
  <2>. QED
    BY <1>4, <2>1, <2>2 DEF InStep, Protocol!Ends
<1>7. CASE Prepare
  <2>1. /\ ask.pc = "prepare" /\ ask'.pc = "transform" /\ ask'.said = "searching"
        /\ ask'.contexts = ask.contexts /\ ask'.cited = ask.cited
    BY <1>1, <1>7 DEF Prepare, Asked
  <2>. QED
    BY <1>4, <2>1 DEF InStep
<1>8. CASE Transform
  <2>1. /\ ask.pc = "transform" /\ ask'.pc = "search" /\ ask'.said = ask.said
        /\ ask'.contexts = ask.contexts /\ ask'.cited = ask.cited
    BY <1>1, <1>8 DEF Transform, Asked
  <2>. QED
    BY <1>4, <2>1 DEF InStep
<1>9. CASE SearchVectors
  <2>1. /\ ask.pc = "search" /\ ask'.pc = "search" /\ ask'.said = ask.said
        /\ ask'.contexts = ask.contexts /\ ask'.cited = ask.cited
    BY <1>1, <1>9 DEF SearchVectors, Asked
  <2>. QED
    BY <1>4, <2>1 DEF InStep
<1>10. CASE SearchWords
  <2>1. /\ ask.pc = "search" /\ ask'.pc = "search" /\ ask'.said = ask.said
        /\ ask'.contexts = ask.contexts /\ ask'.cited = ask.cited
    BY <1>1, <1>10 DEF SearchWords, Asked
  <2>. QED
    BY <1>4, <2>1 DEF InStep
<1>11. CASE Fuse
  <2>1. /\ ask.pc = "search" /\ ask'.pc = "hydrate" /\ ask'.said = ask.said
        /\ ask'.contexts = ask.contexts /\ ask'.cited = ask.cited
    BY <1>1, <1>11 DEF Fuse, Asked
  <2>. QED
    BY <1>4, <2>1 DEF InStep
<1>12. CASE Hydrate
  <2>1. /\ ask.pc = "hydrate" /\ ask'.pc = "parents" /\ ask'.said = ask.said
        /\ ask'.contexts = ask.contexts /\ ask'.cited = ask.cited
    BY <1>1, <1>12 DEF Hydrate, Asked
  <2>. QED
    BY <1>4, <2>1 DEF InStep
<1>13. CASE ReadParents
  <2>1. /\ ask.pc = "parents" /\ ask'.pc = "rerank" /\ ask'.said = "reranking"
        /\ ask'.contexts = ask.contexts /\ ask'.cited = ask.cited
    BY <1>1, <1>13 DEF ReadParents, Asked
  <2>. QED
    BY <1>4, <2>1 DEF InStep
<1>14. CASE Rerank
  <2>1. /\ ask.pc = "rerank" /\ ask'.pc = "contexts" /\ ask'.said = "contexts"
        /\ ask'.cited = ask.cited
    BY <1>1, <1>14 DEF Rerank, Asked
  <2>. QED
    BY <1>4, <2>1 DEF InStep
<1>15. CASE Generate
  <2>1. /\ ask.pc = "contexts" /\ ask'.pc = "stream" /\ ask'.said = "generating"
        /\ ask'.contexts = ask.contexts /\ ask'.cited = ask.cited
    BY <1>1, <1>15 DEF Generate, Asked
  <2>. QED
    BY <1>4, <2>1 DEF InStep
<1>16. CASE Delta
  <2>1. /\ ask.pc = "stream" /\ ask'.pc = "stream" /\ ask'.said = ask.said
        /\ ask'.contexts = ask.contexts /\ ask'.cited = ask.cited
    BY <1>1, <1>16 DEF Delta, Asked
  <2>. QED
    BY <1>4, <2>1 DEF InStep
<1>17. CASE Done \/ Answered \/ Fail
  BY <1>1, <1>17 DEF Done, Answered, Fail, Raised, Asked, InStep, Saying, Protocol!Ends
<1>. QED
  BY <1>2, <1>3, <1>5, <1>6, <1>7, <1>8, <1>9, <1>10, <1>11, <1>12, <1>13, <1>14, <1>15, <1>16, <1>17 DEF Next

-----------------------------------------------------------------------------
(* Another variant's answer keeps what the merging needs.                   *)
LEMMA AnotherVariant ==
  ASSUME TypeOK, ask.variant < Len(relevance.vector), Merging(ask.vector, ask.variant)
  PROVE  Merging(ask.vector \o Hits(relevance.vector[ask.variant + 1], Searchable, mode.top),
                 ask.variant + 1)
<1>. DEFINE v == ask.variant
            before == ask.vector
            score == relevance.vector[v + 1]
            more == Hits(score, Searchable, mode.top)
            joined == before \o more
            c == Cardinality(Searchable)
            enough == Least(mode.top, c)
<1>1. /\ v \in Nat /\ before \in Seq(Hit) /\ Searchable \in SUBSET Node
      /\ mode.top \in Nat /\ mode.top > 0 /\ v + 1 \in 1 .. Len(relevance.vector)
      /\ Variants = 1 .. Len(relevance.vector) /\ Len(relevance.vector) \in Nat
  BY AskFields, ModeFields, RelevanceFields, SMTT(20)
<1>2. score \in [Node -> Nat]
  BY <1>1, VariantHits
<1>3. /\ more \in Seq(Hit) /\ NoNodeTwice(more) /\ NodesIn(more) \subseteq Searchable
      /\ c \in Nat /\ Len(more) = enough
      /\ \A i \in DOMAIN more : more[i].score = score[more[i].node]
  <2>. HIDE DEF score
  <2>. QED
    BY <1>1, <1>2, HitsElements
<1>4. /\ \A n \in Searchable : (\A m \in Searchable \ {n} : score[n] > score[m]) => n \in NodesIn(more)
      /\ \A n \in Searchable : Cardinality({m \in Searchable : score[m] > score[n]}) >= mode.top =>
           n \notin NodesIn(more)
  <2>. HIDE DEF score
  <2>. QED
    BY <1>1, <1>2, HitsElements
<1>5. /\ NodesIn(before) \subseteq Searchable
      /\ \A i \in DOMAIN before : \E w \in 1 .. v : before[i].score = relevance.vector[w][before[i].node]
      /\ \A n \in Searchable, u \in Variants : OutstandingIn(n, u) =>
           IF u > v THEN n \notin NodesIn(before)
           ELSE \E i \in DOMAIN before : /\ before[i] = [node |-> n, score |-> relevance.vector[u][n]]
                                         /\ \A j \in DOMAIN before : j < i => before[j].node # n
  BY DEF Merging
<1>. HIDE DEF more
<1>6. /\ joined \in Seq(Hit) /\ NodesIn(joined) = NodesIn(before) \cup NodesIn(more)
      /\ \A i \in DOMAIN before : i \in DOMAIN joined /\ joined[i] = before[i]
      /\ \A i \in DOMAIN more : Len(before) + i \in DOMAIN joined /\ joined[Len(before) + i] = more[i]
      /\ \A i \in DOMAIN joined :
           \/ i \in DOMAIN before
           \/ i - Len(before) \in DOMAIN more /\ i > Len(before) /\ joined[i] = more[i - Len(before)]
  BY <1>1, <1>3, JoinedHits
<1>7. /\ DOMAIN before = 1 .. Len(before) /\ Len(before) \in Nat
      /\ DOMAIN more = 1 .. Len(more) /\ Len(more) \in Nat
      /\ DOMAIN joined \subseteq Nat \ {0}
  BY <1>1, <1>3, <1>6
<1>. HIDE DEF joined, score, c, enough, v, before
<1>8. ASSUME NEW i \in DOMAIN joined
      PROVE  \E w \in 1 .. (v + 1) : joined[i].score = relevance.vector[w][joined[i].node]
  <2>1. CASE i \in DOMAIN before
    <3>1. PICK w \in 1 .. v : before[i].score = relevance.vector[w][before[i].node]
      BY <1>5, <2>1
    <3>2. w \in 1 .. (v + 1)
      BY <1>1
    <3>. QED
      BY <1>6, <2>1, <3>1, <3>2
  <2>2. CASE i - Len(before) \in DOMAIN more /\ joined[i] = more[i - Len(before)]
    <3>1. v + 1 \in 1 .. (v + 1)
      BY <1>1
    <3>2. joined[i].score = relevance.vector[v + 1][joined[i].node]
      BY <1>3, <2>2 DEF score
    <3>. QED
      BY <3>1, <3>2
  <2>. QED
    BY <1>6, <2>1, <2>2
<1>9. Cardinality(NodesIn(joined)) >= enough
  <2>1. /\ IsFiniteSet(NodesIn(joined)) /\ Cardinality(NodesIn(joined)) \in Nat
        /\ Cardinality(NodesIn(more)) = Len(more)
    BY <1>3, <1>6, NodesOfHits
  <2>2. NodesIn(more) \in SUBSET NodesIn(joined)
    BY <1>6
  <2>3. Cardinality(NodesIn(more)) <= Cardinality(NodesIn(joined))
    BY <2>1, <2>2, FS_Subset
  <2>. QED
    BY <1>3, <1>7, <2>1, <2>3
<1>10. ASSUME NEW n \in Searchable, NEW u \in Variants, OutstandingIn(n, u)
       PROVE  IF u > v + 1 THEN n \notin NodesIn(joined)
              ELSE \E i \in DOMAIN joined : /\ joined[i] = [node |-> n, score |-> relevance.vector[u][n]]
                                            /\ \A j \in DOMAIN joined : j < i => joined[j].node # n
  <2>1. u \in Nat /\ u > 0
    BY <1>1
  <2>2. CASE u > v + 1
    <3>1. n \notin NodesIn(before)
      BY <1>1, <1>5, <1>10, <2>1, <2>2
    <3>2. v + 1 \in 1 .. (u - 1)
      BY <1>1, <2>1, <2>2
    <3>3. Cardinality({m \in Searchable : score[m] > score[n]}) >= mode.top
      BY <1>10, <3>2 DEF OutstandingIn, score
    <3>4. n \notin NodesIn(more)
      BY <1>4, <3>3
    <3>. QED
      BY <1>6, <2>2, <3>1, <3>4
  <2>3. CASE u = v + 1
    <3>1. n \notin NodesIn(before)
      BY <1>1, <1>5, <1>10, <2>1, <2>3
    <3>2. \A m \in Searchable \ {n} : score[n] > score[m]
      BY <1>1, <1>10, <2>3 DEF OutstandingIn, score
    <3>3. PICK i \in DOMAIN more : more[i].node = n
      BY <1>4, <3>2 DEF NodesIn
    <3>4. more[i] = [node |-> n, score |-> score[n]]
      <4>1. more[i] \in Hit /\ more[i].score = score[n]
        BY <1>3, <3>3
      <4>. QED
        BY <3>3, <4>1 DEF Hit
    <3>5. Len(before) + i \in DOMAIN joined /\ joined[Len(before) + i] = more[i]
      BY <1>6
    <3>6. ASSUME NEW j \in DOMAIN joined, j < Len(before) + i PROVE joined[j].node # n
      <4>1. CASE j \in DOMAIN before
        BY <1>6, <3>1, <4>1 DEF NodesIn
      <4>2. CASE j - Len(before) \in DOMAIN more /\ joined[j] = more[j - Len(before)]
        <5>1. j - Len(before) # i
          BY <1>7, <3>6
        <5>. QED
          BY <1>3, <3>3, <4>2, <5>1 DEF NoNodeTwice
      <4>. QED
        BY <1>6, <4>1, <4>2
    <3>7. joined[Len(before) + i] = [node |-> n, score |-> relevance.vector[u][n]]
      BY <2>3, <3>4, <3>5 DEF score
    <3>8. ~(u > v + 1)
      BY <1>1, <2>1, <2>3
    <3>. QED
      BY <3>5, <3>6, <3>7, <3>8
  <2>4. CASE u < v + 1
    <3>1. ~(u > v) /\ ~(u > v + 1)
      BY <1>1, <2>1, <2>4
    <3>2. PICK i \in DOMAIN before : /\ before[i] = [node |-> n, score |-> relevance.vector[u][n]]
                                     /\ \A j \in DOMAIN before : j < i => before[j].node # n
      BY <1>5, <1>10, <3>1
    <3>3. i \in DOMAIN joined /\ joined[i] = before[i]
      BY <1>6
    <3>4. ASSUME NEW j \in DOMAIN joined, j < i PROVE joined[j].node # n
      <4>1. j \in DOMAIN before
        BY <1>7, <3>4
      <4>. QED
        BY <1>6, <3>2, <3>4, <4>1
    <3>. QED
      BY <3>1, <3>2, <3>3, <3>4
  <2>. QED
    BY <1>1, <2>1, <2>2, <2>3, <2>4
<1>11. NodesIn(joined) \subseteq Searchable
  BY <1>3, <1>5, <1>6
<1>12. Merging(joined, v + 1)
  BY <1>8, <1>9, <1>10, <1>11 DEF Merging, enough, c
<1>. QED
  BY <1>12 DEF joined, before, more, score, v

(* A search whose hits merge finds as much as it was asked for.             *)
LEMMA FusionCompletes ==
  ASSUME TypeOK, ask.variant = Len(relevance.vector), Merging(ask.vector, ask.variant),
         NodesIn(ask.sparse) \subseteq Searchable
  PROVE  /\ Complete(Found(ask.vector, ask.sparse))
         /\ NodesIn(Found(ask.vector, ask.sparse)) \subseteq Searchable
<1>. DEFINE hits == ask.vector
            vectors == MergedVariants(hits, mode.top)
            words   == MergedVariants(ask.sparse, mode.sparseTop)
            found == Found(hits, ask.sparse)
            c == Cardinality(Searchable)
            enough == Least(mode.top, c)
<1>1. /\ hits \in Seq(Hit) /\ ask.sparse \in Seq(Hit) /\ Searchable \in SUBSET Node
      /\ mode.top \in Nat /\ mode.top > 0 /\ mode.sparseTop \in Nat /\ mode.hybrid \in BOOLEAN
      /\ Variants = 1 .. Len(relevance.vector) /\ Len(relevance.vector) \in Nat
      /\ Len(relevance.vector) > 0
  BY AskFields, ModeFields, RelevanceFields
<1>2. /\ NodesIn(hits) \subseteq Searchable
      /\ \A i \in DOMAIN hits : \E w \in Variants : hits[i].score = relevance.vector[w][hits[i].node]
      /\ Cardinality(NodesIn(hits)) >= enough
      /\ \A n \in Searchable, u \in Variants : OutstandingIn(n, u) =>
           \E i \in DOMAIN hits : /\ hits[i] = [node |-> n, score |-> relevance.vector[u][n]]
                                  /\ \A j \in DOMAIN hits : j < i => hits[j].node # n
  BY <1>1 DEF Merging
<1>3. IsFiniteSet(Searchable) /\ c \in Nat
  <2>1. IsFiniteSet(Node)
    BY NodesAssumption
  <2>2. IsFiniteSet(Searchable)
    BY <1>1, <2>1, FS_Subset
  <2>. QED
    BY <2>2, FS_CardinalityType
<1>4. ASSUME NEW S \in SUBSET Searchable
      PROVE  IsFiniteSet(S) /\ Cardinality(S) \in Nat /\ Cardinality(S) <= c
  <2>1. IsFiniteSet(S) /\ Cardinality(S) <= c
    BY <1>3, FS_Subset
  <2>. QED
    BY <2>1, FS_CardinalityType
<1>5. ASSUME NEW x \in Nat, x >= enough, x <= c PROVE Least(mode.top, x) = enough
  BY <1>1, <1>3, <1>5 DEF Least
<1>6. /\ vectors \in Seq(Hit) /\ NoNodeTwice(vectors) /\ NodesIn(vectors) \subseteq NodesIn(hits)
      /\ Len(vectors) = Least(mode.top, Cardinality(NodesIn(hits)))
  BY <1>1, MergedElements
<1>7. /\ words \in Seq(Hit) /\ NoNodeTwice(words) /\ NodesIn(words) \subseteq NodesIn(ask.sparse)
  BY <1>1, MergedElements
<1>8. \A i \in DOMAIN hits :
        /\ \A j \in DOMAIN hits : j < i => hits[j].node # hits[i].node
        /\ \A j \in DOMAIN hits : hits[j].node # hits[i].node => hits[i].score > hits[j].score
        => hits[i].node \in NodesIn(vectors)
  BY <1>1, MergedElements
<1>9. found = IF mode.hybrid THEN Fused(vectors, words, 60, Unit, mode.top) ELSE vectors
  BY DEF Found
<1>. HIDE DEF vectors, words, found, enough, c, hits
<1>10. Len(vectors) = enough /\ Cardinality(NodesIn(vectors)) = enough
  <2>1. Cardinality(NodesIn(hits)) \in Nat /\ Cardinality(NodesIn(hits)) <= c
    BY <1>2, <1>4
  <2>2. Cardinality(NodesIn(vectors)) = Len(vectors)
    BY <1>6, NodesOfHits
  <2>. QED
    BY <1>2, <1>5, <1>6, <2>1, <2>2
<1>11. CASE ~mode.hybrid
  <2>1. found = vectors
    BY <1>9, <1>11
  <2>2. ASSUME NEW n \in Searchable, NEW u \in Variants, OutstandingIn(n, u)
        PROVE  n \in NodesIn(vectors)
    <3>1. PICK i \in DOMAIN hits : /\ hits[i] = [node |-> n, score |-> relevance.vector[u][n]]
                                   /\ \A j \in DOMAIN hits : j < i => hits[j].node # n
      BY <1>2, <2>2
    <3>2. ASSUME NEW j \in DOMAIN hits, hits[j].node # n PROVE hits[i].score > hits[j].score
      <4>1. PICK w \in Variants : hits[j].score = relevance.vector[w][hits[j].node]
        BY <1>2
      <4>2. hits[j].node \in Searchable \ {n}
        BY <1>2, <3>2 DEF NodesIn
      <4>3. relevance.vector[u][n] > relevance.vector[w][hits[j].node]
        BY <2>2, <4>2 DEF OutstandingIn
      <4>. QED
        BY <3>1, <4>1, <4>3
    <3>. QED
      BY <1>8, <3>1, <3>2
  <2>3. NodesIn(vectors) \subseteq Searchable
    BY <1>2, <1>6
  <2>4. Complete(vectors)
    BY <1>10, <2>2 DEF Complete, enough, c
  <2>. QED
    BY <2>1, <2>3, <2>4 DEF found, hits
<1>12. CASE mode.hybrid
  <2>. DEFINE either == NodesIn(vectors) \cup NodesIn(words)
  <2>1. found = Fused(vectors, words, 60, Unit, mode.top)
    BY <1>9, <1>12
  <2>2. Unit \in Nat
    BY UnitIsNatural
  <2>3. /\ found \in Seq(Hit) /\ NoNodeTwice(found) /\ NodesIn(found) \subseteq either
        /\ Len(found) = Least(mode.top, Cardinality(either))
    <3>1. /\ Fused(vectors, words, 60, Unit, mode.top) \in Seq(Hit)
          /\ NoNodeTwice(Fused(vectors, words, 60, Unit, mode.top))
          /\ NodesIn(Fused(vectors, words, 60, Unit, mode.top)) \subseteq NodesIn(vectors) \cup NodesIn(words)
      BY <1>1, <1>6, <1>7, <2>2, FusedElements
    <3>2. /\ vectors \in Seq(Hit) /\ words \in Seq(Hit) /\ NoNodeTwice(vectors) /\ NoNodeTwice(words)
          /\ Unit \in Nat /\ mode.top \in Nat
      BY <1>1, <1>6, <1>7, <2>2
    <3>3. Len(Fused(vectors, words, 60, Unit, mode.top)) =
            Least(mode.top, Cardinality(NodesIn(vectors) \cup NodesIn(words)))
      <4>1. ASSUME NEW a \in Seq(Hit), NEW b \in Seq(Hit), NoNodeTwice(a), NoNodeTwice(b),
                   NEW unit \in Nat, NEW top \in Nat
            PROVE  Len(Fused(a, b, 60, unit, top)) = Least(top, Cardinality(NodesIn(a) \cup NodesIn(b)))
        BY <4>1, FusedElements
      <4>. QED
        BY <3>2, <4>1, SMTT(20)
    <3>. QED
      BY <2>1, <3>1, <3>3
  <2>4. either \in SUBSET Searchable
    BY <1>2, <1>6, <1>7
  <2>5. IsFiniteSet(either) /\ Cardinality(either) \in Nat /\ Cardinality(either) <= c
    BY <1>4, <2>4
  <2>6. NodesIn(vectors) \in SUBSET either
    OBVIOUS
  <2>7. Cardinality(NodesIn(vectors)) <= Cardinality(either)
    BY <2>5, <2>6, FS_Subset
  <2>. HIDE DEF either
  <2>8. Len(found) = enough
    BY <1>5, <1>10, <2>3, <2>5, <2>7
  <2>9. Cardinality(NodesIn(found)) = Len(found)
    BY <2>3, NodesOfHits
  <2>10. NodesIn(found) \subseteq Searchable
    BY <2>3, <2>4
  <2>11. Complete(found)
    BY <1>12, <2>8, <2>9 DEF Complete, enough, c
  <2>. QED
    BY <2>10, <2>11 DEF found, hits
<1>. QED
  BY <1>1, <1>11, <1>12

(* Complete hits that are all found make complete results.                  *)
LEMMA ResultsComplete ==
  ASSUME TypeOK, Complete(ask.hits), ask.found = NodesIn(ask.hits), NodesIn(ask.hits) \subseteq Searchable
  PROVE  Complete(Assembled(ask.hits, ask.found, mode.top))
<1>. DEFINE hits == ask.hits
            results == Assembled(ask.hits, ask.found, mode.top)
<1>1. hits \in Seq(Hit) /\ mode.top \in Nat /\ ask.found \subseteq Node
  BY AskFields, ModeFields
<1>2. /\ Len(hits) = Least(mode.top, Cardinality(Searchable))
      /\ Cardinality(NodesIn(hits)) = Len(hits)
      /\ ~mode.hybrid => \A n \in Searchable, v \in Variants : OutstandingIn(n, v) => n \in NodesIn(hits)
  BY DEF Complete
<1>3. /\ results \in Seq(Hit) /\ NoNodeTwice(results)
      /\ NodesIn(results) \subseteq NodesIn(hits)
      /\ Len(results) = Least(mode.top, Cardinality(NodesIn(hits)))
  BY <1>1, AssembledElements
<1>. HIDE DEF results
<1>4. IsFiniteSet(NodesIn(hits)) /\ Cardinality(NodesIn(results)) = Len(results)
  BY <1>1, <1>3, NodesOfHits
<1>5. IsFiniteSet(Searchable) /\ Cardinality(Searchable) \in Nat
  <2>1. IsFiniteSet(Node) /\ Searchable \in SUBSET Node
    BY NodesAssumption, AskFields
  <2>2. IsFiniteSet(Searchable)
    BY <2>1, FS_Subset
  <2>. QED
    BY <2>2, FS_CardinalityType
<1>6. Len(results) = Least(mode.top, Cardinality(Searchable))
  BY <1>1, <1>2, <1>3, <1>5 DEF Least
<1>7. NodesIn(results) = NodesIn(hits)
  <2>1. NodesIn(results) \in SUBSET NodesIn(hits)
    BY <1>3
  <2>2. Cardinality(NodesIn(hits)) = Cardinality(NodesIn(results))
    BY <1>2, <1>4, <1>6
  <2>. QED
    BY <1>4, <2>1, <2>2, FS_Subset
<1>8. Complete(results)
  BY <1>2, <1>4, <1>6, <1>7 DEF Complete
<1>. QED
  BY <1>8 DEF results

-----------------------------------------------------------------------------
(* A search stays complete step by step: an index request in between marks  *)
(* it as disturbed.                                                         *)
LEMMA CompletenessStep ==
  ASSUME TypeOK, ReadsLive, CompleteSoFar, SearchIsComplete, [Next]_vars
  PROVE  CompleteSoFar' /\ SearchIsComplete'
<1>1. ASSUME UNCHANGED <<points, mode, relevance>>, ask'.sources = ask.sources
      PROVE  /\ Searchable' = Searchable /\ Variants' = Variants
             /\ \A hits, v : Merging(hits, v) => Merging(hits, v)'
             /\ \A hits : Complete(hits) => Complete(hits)'
  <2>1. Searchable' = Searchable /\ Variants' = Variants
    BY <1>1 DEF Searchable, Variants
  <2>2. \A n, v : OutstandingIn(n, v)' <=> OutstandingIn(n, v)
    BY <1>1, <2>1 DEF OutstandingIn
  <2>3. \A hits, v : Merging(hits, v) => Merging(hits, v)'
    BY <1>1, <2>1, <2>2 DEF Merging
  <2>4. \A hits : Complete(hits) => Complete(hits)'
    BY <1>1, <2>1, <2>2 DEF Complete
  <2>. QED
    BY <2>1, <2>3, <2>4
<1>2. SUFFICES ASSUME Next PROVE CompleteSoFar' /\ SearchIsComplete'
  <2>1. CASE UNCHANGED vars
    <3>1. UNCHANGED <<points, rows, mode, relevance, ask, disturbed>>
      BY <2>1 DEF vars, indexVars, asked
    <3>2. /\ Searchable' = Searchable
          /\ \A hits, v : Merging(hits, v) => Merging(hits, v)'
          /\ \A hits : Complete(hits) => Complete(hits)'
      BY <1>1, <3>1
    <3>3. /\ Merging(ask.vector, ask.variant) => Merging(ask.vector, ask.variant)'
          /\ Complete(ask.hits) => Complete(ask.hits)'
          /\ Complete(ask.results) => Complete(ask.results)'
      <4>1. \A hits, v : hits = ask.vector /\ v = ask.variant /\ Merging(hits, v) => Merging(hits, v)'
        BY <3>2
      <4>2. \A hits : hits = ask.hits /\ Complete(hits) => Complete(hits)'
        BY <3>2
      <4>3. \A hits : hits = ask.results /\ Complete(hits) => Complete(hits)'
        BY <3>2
      <4>4. Merging(ask.vector, ask.variant) => Merging(ask.vector, ask.variant)'
        BY <3>1, <4>1
      <4>5. Complete(ask.hits) => Complete(ask.hits)'
        BY <3>1, <4>2
      <4>6. Complete(ask.results) => Complete(ask.results)'
        BY <3>1, <4>3
      <4>. QED
        BY <4>4, <4>5, <4>6
    <3>. QED
      BY <3>1, <3>2, <3>3 DEF CompleteSoFar, SearchIsComplete
  <2>. QED
    BY <2>1
<1>3. ASSUME NEW s \in Source,
             (\E build \in Builds[s] : StartIndexing(s, build)) \/ StartClearing(s) \/ CommitRows(s)
      PROVE  CompleteSoFar' /\ SearchIsComplete'
  <2>1. UNCHANGED ask /\ Changed
    BY <1>3, IndexTypes
  <2>2. CASE ask.pc = "dataset"
    <3>1. ask' = Question
      BY <2>1, <2>2 DEF ReadsLive
    <3>2. ~disturbed' => points' = rows' \cap Indexable
      BY <2>1, <2>2 DEF Changed
    <3>. QED
      BY <3>1, <3>2 DEF CompleteSoFar, SearchIsComplete, Question
  <2>3. CASE ask.pc # "dataset"
    <3>1. disturbed'
      BY <2>1, <2>3 DEF Changed
    <3>. QED
      BY <3>1 DEF CompleteSoFar, SearchIsComplete
  <2>. QED
    BY <2>2, <2>3
<1>4. ask \in Asked
  BY DEF TypeOK
<1>5. CASE ReadDataset \/ AskPlainly \/ Prepare
  <2>1. /\ disturbed' = disturbed /\ points' = points /\ rows' = rows
        /\ ask'.vector = ask.vector /\ ask'.sparse = ask.sparse /\ ask'.variant = ask.variant
        /\ ask.pc \in {"dataset", "prepare"} /\ ask'.pc \in {"prepare", "transform", "over"}
    BY <1>4, <1>5 DEF ReadDataset, AskPlainly, Prepare, Reading, indexVars, Asked
  <2>. QED
    BY <2>1 DEF CompleteSoFar, SearchIsComplete
<1>6. ASSUME Reading, ask'.sources = ask.sources
      PROVE  /\ UNCHANGED <<points, rows, mode, relevance, disturbed>>
             /\ Searchable' = Searchable /\ Variants' = Variants
             /\ \A hits, v : Merging(hits, v) => Merging(hits, v)'
             /\ \A hits : Complete(hits) => Complete(hits)'
  <2>1. UNCHANGED <<points, rows, mode, relevance, disturbed>>
    BY <1>6 DEF Reading, indexVars, asked
  <2>. QED
    BY <1>6, <1>1, <2>1
<1>7. CASE Transform
  <2>1. /\ Reading /\ ask'.sources = ask.sources /\ ask.pc = "transform" /\ ask'.pc = "search"
        /\ ask'.vector = ask.vector /\ ask'.sparse = ask.sparse /\ ask'.variant = ask.variant
    BY <1>4, <1>7 DEF Transform, Asked
  <2>2. ASSUME ~disturbed PROVE CompleteSoFar'
    <3>1. points = rows \cap Indexable /\ ask.vector = <<>> /\ ask.sparse = <<>> /\ ask.variant = 0
      BY <2>1, <2>2 DEF CompleteSoFar
    <3>2. DOMAIN <<>> = {} /\ NodesIn(<<>>) = {}
      BY NothingRead
    <3>3. Len(relevance.vector) \in Nat /\ Variants = 1 .. Len(relevance.vector)
      BY RelevanceFields
    <3>4. Merging(<<>>, 0)
      BY <3>2, <3>3 DEF Merging
    <3>5. Merging(<<>>, 0)'
      BY <1>6, <2>1, <3>4
    <3>6. /\ UNCHANGED <<points, rows, mode, relevance, disturbed>> /\ Searchable' = Searchable
      BY <1>6, <2>1
    <3>7. Merging(ask.vector, ask.variant)'
      BY <2>1, <3>1, <3>5
    <3>. QED
      BY <2>1, <3>1, <3>2, <3>3, <3>6, <3>7 DEF CompleteSoFar
  <2>3. disturbed' = disturbed
    BY <1>6, <2>1
  <2>. QED
    BY <2>1, <2>2, <2>3 DEF CompleteSoFar, SearchIsComplete
<1>8. CASE SearchVectors
  <2>. DEFINE more == Hits(relevance.vector[ask.variant + 1], Searchable, mode.top)
  <2>1. /\ Reading /\ ask.pc = "search" /\ ask.variant < Len(relevance.vector)
        /\ ask' = [ask EXCEPT !.variant = ask.variant + 1, !.vector = ask.vector \o more]
    BY <1>8 DEF SearchVectors
  <2>. HIDE DEF more
  <2>2. /\ ask'.pc = "search" /\ ask'.sources = ask.sources /\ ask'.sparse = ask.sparse
        /\ ask'.variant = ask.variant + 1 /\ ask'.vector = ask.vector \o more
    BY <1>4, <2>1 DEF Asked
  <2>3. ASSUME ~disturbed PROVE CompleteSoFar'
    <3>1. /\ points = rows \cap Indexable /\ Merging(ask.vector, ask.variant)
          /\ NodesIn(ask.sparse) \subseteq Searchable
      BY <2>1, <2>3 DEF CompleteSoFar
    <3>2. Merging(ask.vector \o more, ask.variant + 1)
      BY <2>1, <3>1, AnotherVariant DEF more
    <3>3. \A hits, v : hits = ask.vector \o more /\ v = ask.variant + 1 => Merging(hits, v)'
      BY <1>6, <2>1, <2>2, <3>2
    <3>4. Merging(ask.vector, ask.variant)'
      BY <2>2, <3>3
    <3>5. /\ UNCHANGED <<points, rows, mode, relevance, disturbed>> /\ Searchable' = Searchable
      BY <1>6, <2>1, <2>2
    <3>6. ask.variant + 1 <= Len(relevance.vector)
      BY <2>1, AskFields, RelevanceFields
    <3>. QED
      BY <2>2, <3>1, <3>4, <3>5, <3>6 DEF CompleteSoFar
  <2>4. disturbed' = disturbed
    BY <1>6, <2>1, <2>2
  <2>. QED
    BY <2>2, <2>3, <2>4 DEF CompleteSoFar, SearchIsComplete
<1>9. CASE SearchWords
  <2>. DEFINE matching == {n \in Searchable : relevance.bm25[ask.sparseVariant + 1][n] > 0}
              more == Hits(relevance.bm25[ask.sparseVariant + 1], matching, mode.sparseTop)
  <2>1. /\ Reading /\ ask.pc = "search"
        /\ ask' = [ask EXCEPT !.sparseVariant = ask.sparseVariant + 1, !.sparse = ask.sparse \o more]
    BY <1>9 DEF SearchWords
  <2>2. ask.sparseVariant + 1 \in 1 .. Len(relevance.vector) /\ ask.sparse \in Seq(Hit)
    BY <1>9, AskFields, RelevanceFields DEF SearchWords
  <2>3. matching \in SUBSET Searchable
    OBVIOUS
  <2>4. more \in Seq(Hit) /\ NodesIn(more) \subseteq Searchable
    <3>. HIDE DEF matching
    <3>. QED
      BY <2>2, <2>3, VariantHits
  <2>. HIDE DEF more
  <2>5. /\ ask'.pc = "search" /\ ask'.sources = ask.sources /\ ask'.vector = ask.vector
        /\ ask'.variant = ask.variant /\ ask'.sparse = ask.sparse \o more
    BY <1>4, <2>1 DEF Asked
  <2>6. ASSUME ~disturbed PROVE CompleteSoFar'
    <3>1. /\ points = rows \cap Indexable /\ Merging(ask.vector, ask.variant)
          /\ NodesIn(ask.sparse) \subseteq Searchable /\ ask.variant <= Len(relevance.vector)
      BY <2>1, <2>6 DEF CompleteSoFar
    <3>2. NodesIn(ask.sparse \o more) \subseteq Searchable
      BY <2>2, <2>4, <3>1, JoinedHits
    <3>3. \A hits, v : hits = ask.vector /\ v = ask.variant => Merging(hits, v)'
      BY <1>6, <2>1, <2>5, <3>1
    <3>4. Merging(ask.vector, ask.variant)'
      BY <2>5, <3>3
    <3>5. /\ UNCHANGED <<points, rows, mode, relevance, disturbed>> /\ Searchable' = Searchable
      BY <1>6, <2>1, <2>5
    <3>. QED
      BY <2>5, <3>1, <3>2, <3>4, <3>5 DEF CompleteSoFar
  <2>7. disturbed' = disturbed
    BY <1>6, <2>1, <2>5
  <2>. QED
    BY <2>5, <2>6, <2>7 DEF CompleteSoFar, SearchIsComplete
<1>10. CASE Fuse
  <2>. DEFINE found == Found(ask.vector, ask.sparse)
  <2>1. /\ Reading /\ ask.pc = "search" /\ ask.variant = Len(relevance.vector)
        /\ ask'.pc = "hydrate" /\ ask'.sources = ask.sources /\ ask'.hits = found
    BY <1>4, <1>10 DEF Fuse, Asked
  <2>. HIDE DEF found
  <2>2. ASSUME ~disturbed PROVE CompleteSoFar'
    <3>1. /\ points = rows \cap Indexable /\ Merging(ask.vector, ask.variant)
          /\ NodesIn(ask.sparse) \subseteq Searchable
      BY <2>1, <2>2 DEF CompleteSoFar
    <3>2. Complete(found) /\ NodesIn(found) \subseteq Searchable
      BY <2>1, <3>1, FusionCompletes DEF found
    <3>3. \A hits : hits = found => Complete(hits)'
      BY <1>6, <2>1, <3>2
    <3>4. Complete(ask.hits)'
      BY <2>1, <3>3
    <3>5. /\ UNCHANGED <<points, rows, mode, relevance, disturbed>> /\ Searchable' = Searchable
      BY <1>6, <2>1
    <3>. QED
      BY <2>1, <3>1, <3>2, <3>4, <3>5 DEF CompleteSoFar
  <2>3. disturbed' = disturbed
    BY <1>6, <2>1
  <2>. QED
    BY <2>1, <2>2, <2>3 DEF CompleteSoFar, SearchIsComplete
<1>11. CASE Hydrate
  <2>1. /\ Reading /\ ask.pc = "hydrate" /\ ask'.pc = "parents" /\ ask'.sources = ask.sources
        /\ ask'.hits = ask.hits /\ ask'.found = NodesIn(ask.hits) \cap rows
    BY <1>4, <1>11 DEF Hydrate, Asked
  <2>2. ASSUME ~disturbed PROVE CompleteSoFar'
    <3>1. points = rows \cap Indexable /\ Complete(ask.hits) /\ NodesIn(ask.hits) \subseteq Searchable
      BY <2>1, <2>2 DEF CompleteSoFar
    <3>2. NodesIn(ask.hits) \cap rows = NodesIn(ask.hits)
      BY <3>1 DEF Searchable
    <3>3. \A hits : hits = ask.hits => Complete(hits)'
      BY <1>6, <2>1, <3>1
    <3>4. Complete(ask.hits)'
      BY <2>1, <3>3
    <3>5. /\ UNCHANGED <<points, rows, mode, relevance, disturbed>> /\ Searchable' = Searchable
      BY <1>6, <2>1
    <3>. QED
      BY <2>1, <3>1, <3>2, <3>4, <3>5 DEF CompleteSoFar
  <2>3. disturbed' = disturbed
    BY <1>6, <2>1
  <2>. QED
    BY <2>1, <2>2, <2>3 DEF CompleteSoFar, SearchIsComplete
<1>12. CASE ReadParents
  <2>. DEFINE results == Assembled(ask.hits, ask.found, mode.top)
  <2>1. /\ Reading /\ ask.pc = "parents" /\ ask'.pc = "rerank" /\ ask'.sources = ask.sources
        /\ ask'.results = results
    BY <1>4, <1>12 DEF ReadParents, Asked
  <2>. HIDE DEF results
  <2>2. ASSUME ~disturbed PROVE CompleteSoFar' /\ SearchIsComplete'
    <3>1. /\ points = rows \cap Indexable /\ Complete(ask.hits) /\ ask.found = NodesIn(ask.hits)
          /\ NodesIn(ask.hits) \subseteq Searchable
      BY <2>1, <2>2 DEF CompleteSoFar
    <3>2. Complete(results)
      BY <3>1, ResultsComplete DEF results
    <3>3. \A hits : hits = results => Complete(hits)'
      BY <1>6, <2>1, <3>2
    <3>4. Complete(ask.results)'
      BY <2>1, <3>3
    <3>5. /\ UNCHANGED <<points, rows, mode, relevance, disturbed>>
      BY <1>6, <2>1
    <3>. QED
      BY <2>1, <3>1, <3>4, <3>5 DEF CompleteSoFar, SearchIsComplete
  <2>3. disturbed' = disturbed
    BY <1>6, <2>1
  <2>. QED
    BY <2>1, <2>2, <2>3 DEF CompleteSoFar, SearchIsComplete
<1>13. CASE Rerank \/ Generate \/ Delta \/ Done \/ Answered \/ Fail
  <2>1. /\ disturbed' = disturbed /\ points' = points /\ rows' = rows
        /\ ask'.pc \in {"contexts", "stream", "over"}
    BY <1>4, <1>13 DEF Rerank, Generate, Delta, Done, Answered, Fail, Reading, indexVars, Asked
  <2>. QED
    BY <2>1 DEF CompleteSoFar, SearchIsComplete
<1>. QED
  BY <1>2, <1>3, <1>5, <1>7, <1>8, <1>9, <1>10, <1>11, <1>12, <1>13 DEF Next

-----------------------------------------------------------------------------
(* The invariant is kept by every step of a question and of an index        *)
(* request.                                                                 *)
LEMMA AnswerNext == AnswerInv /\ [Next]_vars => AnswerInv'
<1>. SUFFICES ASSUME AnswerInv, [Next]_vars PROVE AnswerInv'
  OBVIOUS
<1>1. /\ TypeOK /\ ReadsLive /\ InStep /\ OnlyLiveContexts /\ CompleteSoFar /\ SearchIsComplete
  BY DEF AnswerInv
<1>2. TypeOK'
  <2>1. CASE UNCHANGED vars
    BY <1>1, <2>1 DEF vars, indexVars, asked, TypeOK
  <2>2. CASE \E s \in Source :
               (\E build \in Builds[s] : StartIndexing(s, build)) \/ StartClearing(s) \/ CommitRows(s)
    BY <1>1, <2>2, IndexTypes
  <2>3. CASE \/ ReadDataset \/ AskPlainly \/ Prepare \/ Transform \/ SearchVectors \/ SearchWords \/ Fuse
             \/ Hydrate \/ ReadParents \/ Rerank \/ Generate \/ Delta \/ Done \/ Answered \/ Fail
    <3>1. ask' \in Asked
      BY <1>1, <2>3, AskTypes
    <3>2. Reading
      BY <2>3 DEF ReadDataset, AskPlainly, Prepare, Transform, SearchVectors, SearchWords, Fuse,
                  Hydrate, ReadParents, Rerank, Generate, Delta, Done, Answered, Fail
    <3>. QED
      BY <1>1, <3>1, <3>2 DEF Reading, indexVars, asked, TypeOK
  <2>. QED
    BY <2>1, <2>2, <2>3 DEF Next
<1>3. ReadsLive' /\ OnlyLiveContexts'
  BY <1>1, LiveStep
<1>4. InStep'
  BY <1>1, InStepStep
<1>5. CompleteSoFar' /\ SearchIsComplete'
  BY <1>1, CompletenessStep
<1>. QED
  BY <1>2, <1>3, <1>4, <1>5 DEF AnswerInv

(* The invariant holds at every step of every question.                     *)
THEOREM AnswerInvariant == Spec => []AnswerInv
BY AnswerInit, AnswerNext, PTL DEF Spec

(* Whatever index requests come while a question is answered, and whatever  *)
(* they left in the collection before, it is not answered from a node that  *)
(* had no row since it came, nor from outside of its dataset: for every     *)
(* number of documents, requests and settings.                              *)
THEOREM NothingStaleIsShown == Spec => []OnlyLiveContexts
<1>1. AnswerInv => OnlyLiveContexts
  BY DEF AnswerInv
<1>. QED
  BY <1>1, AnswerInvariant, PTL

(* While nothing changes, a search finds as many nodes as it was asked for, *)
(* each once, and none that only one variant of the query finds is lost.    *)
THEOREM QuietSearchIsComplete == Spec => []SearchIsComplete
<1>1. AnswerInv => SearchIsComplete
  BY DEF AnswerInv
<1>. QED
  BY <1>1, AnswerInvariant, PTL

-----------------------------------------------------------------------------
(* Every step of a question is one of the protocol or none.                 *)
LEMMA ProtocolStep ==
  ASSUME AnswerInv, [Next]_vars
  PROVE  [Protocol!ProtocolNext]_(Protocol!protocolVars)
<1>. USE DEF Protocol!protocolVars
<1>1. /\ TypeOK /\ InStep /\ ask \in Asked /\ (ask.pc = "dataset" => ask = Question)
  BY DEF AnswerInv, TypeOK, ReadsLive
<1>2. /\ Protocol!Follows["asked"] = {"refused", "accepted"}
      /\ Protocol!Follows["accepted"] = {"searching"}
      /\ Protocol!Follows["searching"] = {"reranking"}
      /\ Protocol!Follows["reranking"] = {"contexts"}
      /\ Protocol!Follows["contexts"] = {"generating"}
  BY DEF Protocol!Follows
<1>3. /\ Saying["prepare"] = "accepted" /\ Saying["transform"] = "searching"
      /\ Saying["search"] = "searching" /\ Saying["hydrate"] = "searching"
      /\ Saying["parents"] = "searching" /\ Saying["rerank"] = "reranking"
      /\ Saying["contexts"] = "contexts" /\ Saying["stream"] = "generating"
      /\ Saying["dataset"] = "asked"
  BY DEF Saying
<1>4. ASSUME NEW s \in Protocol!Stage, ask.said \notin Protocol!Ends, s \in Protocol!Follows[ask.said],
             s # "contexts", ask'.said = s, ask'.contexts = ask.contexts, ask'.cited = ask.cited
      PROVE  Protocol!ProtocolNext
  BY <1>4 DEF Protocol!ProtocolNext, Protocol!Say
<1>5. CASE UNCHANGED ask
  BY <1>5
<1>6. CASE UNCHANGED vars
  BY <1>5, <1>6 DEF vars
<1>7. CASE \E s \in Source :
             (\E build \in Builds[s] : StartIndexing(s, build)) \/ StartClearing(s) \/ CommitRows(s)
  <2>1. UNCHANGED ask
    BY <1>1, <1>7, IndexTypes
  <2>. QED
    BY <1>5, <2>1
<1>8. CASE ReadDataset \/ AskPlainly
  <2>1. ask.pc = "dataset"
    BY <1>8 DEF ReadDataset, AskPlainly
  <2>2. ask.said = "asked"
    BY <1>1, <2>1 DEF Question
  <2>3. /\ ask'.said \in {"refused", "accepted"} /\ ask'.contexts = ask.contexts /\ ask'.cited = ask.cited
    BY <1>1, <1>8 DEF ReadDataset, AskPlainly, Asked
  <2>4. ask'.said \in Protocol!Stage /\ ask'.said # "contexts" /\ ask.said \notin Protocol!Ends
    BY <2>2, <2>3 DEF Protocol!Stage, Protocol!Ends
  <2>5. Protocol!ProtocolNext
    BY <1>2, <1>4, <2>2, <2>3, <2>4
  <2>. QED
    BY <2>5
<1>9. CASE Prepare
  <2>1. ask.pc = "prepare" /\ ask'.said = "searching" /\ ask'.contexts = ask.contexts /\ ask'.cited = ask.cited
    BY <1>1, <1>9 DEF Prepare, Asked
  <2>2. ask.said = "accepted"
    BY <1>1, <1>3, <2>1 DEF InStep
  <2>3. "searching" \in Protocol!Stage /\ ask.said \notin Protocol!Ends
    BY <2>2 DEF Protocol!Stage, Protocol!Ends
  <2>4. Protocol!ProtocolNext
    BY <1>2, <1>4, <2>1, <2>2, <2>3
  <2>. QED
    BY <2>4
<1>10. CASE Transform \/ SearchVectors \/ SearchWords \/ Fuse \/ Hydrate \/ Delta
  <2>1. ask'.said = ask.said /\ ask'.contexts = ask.contexts /\ ask'.cited = ask.cited
    BY <1>1, <1>10 DEF Transform, SearchVectors, SearchWords, Fuse, Hydrate, Delta, Asked
  <2>. QED
    BY <2>1
<1>11. CASE ReadParents
  <2>1. ask.pc = "parents" /\ ask'.said = "reranking" /\ ask'.contexts = ask.contexts /\ ask'.cited = ask.cited
    BY <1>1, <1>11 DEF ReadParents, Asked
  <2>2. ask.said = "searching"
    BY <1>1, <1>3, <2>1 DEF InStep
  <2>3. "reranking" \in Protocol!Stage /\ ask.said \notin Protocol!Ends
    BY <2>2 DEF Protocol!Stage, Protocol!Ends
  <2>4. Protocol!ProtocolNext
    BY <1>2, <1>4, <2>1, <2>2, <2>3
  <2>. QED
    BY <2>4
<1>12. CASE Rerank
  <2>. DEFINE contexts == Contexts(Reranked(ask.results, mode.stages, Overlap, relevance.cross,
                                            mode.coarseTop, mode.rerankTop), ask.parents, mode.most)
  <2>1. ask.pc = "rerank" /\ ask'.said = "contexts" /\ ask'.contexts = contexts /\ ask'.cited = ask.cited
    BY <1>1, <1>12 DEF Rerank, Asked
  <2>2. Len(contexts) \in 0 .. MaxContexts
    BY <1>1, ShownContexts
  <2>. HIDE DEF contexts
  <2>3. ask.said = "reranking"
    BY <1>1, <1>3, <2>1 DEF InStep
  <2>4. "contexts" \in Protocol!Stage /\ ask.said \notin Protocol!Ends
    BY <2>3 DEF Protocol!Stage, Protocol!Ends
  <2>5. Protocol!Say("contexts")
    BY <1>2, <2>1, <2>2, <2>3, <2>4 DEF Protocol!Say
  <2>6. Protocol!ProtocolNext
    BY <2>4, <2>5 DEF Protocol!ProtocolNext
  <2>. QED
    BY <2>6
<1>13. CASE Generate
  <2>1. ask.pc = "contexts" /\ ask'.said = "generating" /\ ask'.contexts = ask.contexts /\ ask'.cited = ask.cited
    BY <1>1, <1>13 DEF Generate, Asked
  <2>2. ask.said = "contexts"
    BY <1>1, <1>3, <2>1 DEF InStep
  <2>3. "generating" \in Protocol!Stage /\ ask.said \notin Protocol!Ends
    BY <2>2 DEF Protocol!Stage, Protocol!Ends
  <2>4. Protocol!ProtocolNext
    BY <1>2, <1>4, <2>1, <2>2, <2>3
  <2>. QED
    BY <2>4
<1>14. CASE Done \/ Answered
  <2>1. PICK cited : /\ ask' = [ask EXCEPT !.pc = "over", !.said = "done", !.cited = cited]
                     /\ \/ cited = Used(ask.mentions, ask.contexts)
                        \/ cited \in SetToSeqs(ToSet(Used(ask.mentions, ask.contexts)))
    BY <1>14 DEF Done, Answered
  <2>2. ask.pc = "stream"
    BY <1>14 DEF Done, Answered
  <2>3. ask'.said = "done" /\ ask'.contexts = ask.contexts /\ ask'.cited = cited
    BY <1>1, <2>1 DEF Asked
  <2>4. Len(ask.contexts) \in Nat
    BY <1>1, AskFields
  <2>5. /\ cited \in Seq(1 .. Len(ask.contexts))
        /\ \A i, j \in DOMAIN cited : cited[i] = cited[j] => i = j
    BY <1>1, <2>1, CitedOnce
  <2>6. cited \in Protocol!Selections(Len(ask.contexts))
    BY <2>4, <2>5, SelectionsElements
  <2>7. ask.said = "generating"
    BY <1>1, <1>3, <2>2 DEF InStep
  <2>8. Protocol!Finish
    BY <2>3, <2>6, <2>7 DEF Protocol!Finish
  <2>. QED
    BY <2>8 DEF Protocol!ProtocolNext
<1>15. CASE Fail
  <2>1. PICK end \in Raised(ask.pc) : ask' = [ask EXCEPT !.pc = "over", !.said = end]
    BY <1>15 DEF Fail
  <2>2. end \in {"error", "broken"}
    BY DEF Raised
  <2>3. ask'.said = end /\ ask'.contexts = ask.contexts /\ ask'.cited = ask.cited
    BY <1>1, <2>1 DEF Asked
  <2>4. ask.pc \in Step \ {"dataset", "over"}
    BY <1>1, <1>15 DEF Fail, Asked
  <2>5. ask.said = Saying[ask.pc]
    BY <1>1, <2>4 DEF InStep
  <2>6. ask.said \notin Protocol!Ends \cup {"asked"}
    BY <1>3, <2>4, <2>5 DEF Step, Protocol!Ends
  <2>7. Protocol!Stop(end)
    BY <2>3, <2>6 DEF Protocol!Stop
  <2>8. Protocol!ProtocolNext
    BY <2>2, <2>7 DEF Protocol!ProtocolNext
  <2>. QED
    BY <2>8
<1>. QED
  BY <1>6, <1>7, <1>8, <1>9, <1>10, <1>11, <1>12, <1>13, <1>14, <1>15 DEF Next

(* The stream keeps to the protocol that its client is promised: the stages *)
(* in their order, one end, and only contexts that were shown are cited,    *)
(* each once.                                                               *)
THEOREM StreamKeepsToTheProtocol == Spec => ImplementsProtocol
<1>1. Init => Protocol!ProtocolInit
  BY NothingRead DEF Init, Question, Protocol!ProtocolInit
<1>2. AnswerInv /\ [Next]_vars => [Protocol!ProtocolNext]_(Protocol!protocolVars)
  BY ProtocolStep
<1>. QED
  BY <1>1, <1>2, AnswerInvariant, PTL DEF Spec, ImplementsProtocol, Protocol!ProtocolSpec
=============================================================================
