---------------------------- MODULE WorkersProofs ----------------------------
(* Theorems about EmbeddingBatches, for any number of texts, any size of a  *)
(* batch and any number of calls; about ModelLoading, for every set of      *)
(* requests and of models; about EvaluationVersions, for any versions,      *)
(* cases and texts; and about MineruTask, for any times and any results.    *)
EXTENDS EmbeddingBatches, ModelLoading, EvaluationVersions, MineruTask, ListsProofs

-----------------------------------------------------------------------------
(* Embedding batches                                                        *)

BoundsAreNatural == MaxTexts \in Nat /\ MaxBatch \in Nat

-----------------------------------------------------------------------------
(* The vectors of an interval of texts, gathered in their order.            *)
LEMMA InOrderInterval ==
  ASSUME NEW a \in Nat, NEW e \in Nat, a <= e, NEW f,
         DOMAIN f = a + 1 .. e, \A n \in a + 1 .. e : f[n] = n
  PROVE  /\ InOrder(f) \in Seq(Nat) /\ Len(InOrder(f)) = e - a
         /\ \A k \in 1 .. e - a : InOrder(f)[k] = a + k
<1>1. \A n \in Nat : a <= n => Cardinality(a + 1 .. n) = n - a
  <2>1. SUFFICES ASSUME NEW n \in Nat, a <= n PROVE Cardinality(a + 1 .. n) = n - a
    OBVIOUS
  <2>2. PICK p \in Int : p = a + 1
    OBVIOUS
  <2>3. CASE p > n
    <3>1. Cardinality(p .. n) = 0
      BY <2>3, FS_Interval
    <3>2. n = a
      BY <2>1, <2>2, <2>3
    <3>3. QED
      BY <2>2, <3>1, <3>2
  <2>4. CASE p <= n
    <3>1. Cardinality(p .. n) = n - p + 1
      BY <2>4, FS_Interval
    <3>2. QED
      BY <2>2, <3>1
  <2>5. QED
    BY <2>2, <2>3, <2>4
<1> DEFINE Rank(n) == Cardinality({m \in DOMAIN f : m <= n})
<1>2. ASSUME NEW n \in a + 1 .. e PROVE n \in Int /\ Rank(n) = n - a
  <2>1. n \in Nat /\ a <= n /\ {m \in DOMAIN f : m <= n} = a + 1 .. n
    OBVIOUS
  <2>2. Rank(n) = Cardinality(a + 1 .. n)
    BY <2>1
  <2>3. QED
    BY <1>1, <2>1, <2>2
<1>3. Cardinality(DOMAIN f) = e - a
  BY <1>1
<1>4. InOrder(f) = [k \in 1 .. e - a |-> f[CHOOSE n \in DOMAIN f : Rank(n) = k]]
  BY <1>3 DEF InOrder
<1> HIDE DEF Rank
<1>5. ASSUME NEW k \in 1 .. e - a PROVE f[CHOOSE n \in DOMAIN f : Rank(n) = k] = a + k
  <2>1. a + k \in a + 1 .. e /\ (a + k) - a = k
    OBVIOUS
  <2>2. a + k \in DOMAIN f /\ Rank(a + k) = k
    BY <1>2, <2>1
  <2>3. PICK n \in DOMAIN f : n = (CHOOSE x \in DOMAIN f : Rank(x) = k) /\ Rank(n) = k
    BY <2>2
  <2>4. n = a + k
    BY <1>2, <2>3
  <2>5. QED
    BY <2>1, <2>3, <2>4
<1>6. \A k \in 1 .. e - a : InOrder(f)[k] = a + k
  BY <1>4, <1>5
<1>7. e - a \in Nat /\ InOrder(f) = [k \in 1 .. e - a |-> a + k]
  BY <1>4, <1>5
<1>8. [k \in 1 .. e - a |-> a + k] \in [1 .. e - a -> Nat]
  OBVIOUS
<1>9. QED
  BY <1>6, <1>7, <1>8

(* A batch is the interval of texts that comes next.                        *)
LEMMA BatchInterval ==
  ASSUME EmbeddingTypeOK, Batch # {}
  PROVE  /\ Last(start) = start /\ start < Last(start + batchSize)
         /\ Last(start + batchSize) \in Nat
         /\ Batch = start + 1 .. Last(start + batchSize)
         /\ Cardinality(Batch) = Last(start + batchSize) - start
<1>1. start < texts
  BY DEF EmbeddingTypeOK, Batch
<1>2. PICK e \in Nat : e = Last(start + batchSize)
  BY DEF EmbeddingTypeOK, Last
<1>3. start < e /\ Last(start) = start
  BY <1>1, <1>2 DEF EmbeddingTypeOK, Last
<1>4. Batch = start + 1 .. e
  BY <1>1, <1>2 DEF EmbeddingTypeOK, Batch, Last
<1>5. PICK p \in Int : p = start + 1
  BY DEF EmbeddingTypeOK
<1>6. Cardinality(p .. e) = e - p + 1
  BY <1>3, <1>5, FS_Interval DEF EmbeddingTypeOK
<1>7. e - p + 1 = e - start
  BY <1>5 DEF EmbeddingTypeOK
<1>8. QED
  BY <1>2, <1>3, <1>4, <1>5, <1>6, <1>7

(* The vectors of a batch complete those of the batches before it.          *)
LEMMA BatchAppended ==
  ASSUME EmbeddingTypeOK, BatchesInv, phase # "failed", Batch # {}, NEW v \in Seq(Nat),
         Len(v) = Last(start + batchSize) - start,
         \A k \in 1 .. Last(start + batchSize) - start : v[k] = start + k
  PROVE  /\ embedded \o v \in Seq(Nat)
         /\ Len(embedded \o v) = Last(start + batchSize)
         /\ \A n \in 1 .. Len(embedded \o v) : (embedded \o v)[n] = n
<1>1. PICK e \in Nat : e = Last(start + batchSize) /\ start < e
  BY BatchInterval
<1>2. /\ embedded \in Seq(Nat) /\ Len(embedded) = start /\ start \in Nat
      /\ \A n \in 1 .. start : embedded[n] = n
  BY BatchInterval DEF EmbeddingTypeOK, BatchesInv
<1>3. /\ embedded \o v \in Seq(Nat) /\ Len(embedded \o v) = start + (e - start)
  BY <1>1, <1>2, SMTT(20)
<1>4. ASSUME NEW n \in 1 .. e PROVE (embedded \o v)[n] = n
  <2>1. CASE n <= start
    BY <1>1, <1>2, <2>1
  <2>2. CASE n > start
    <3>1. PICK k \in 1 .. e - start : k = n - start
      BY <1>1, <1>2, <2>2
    <3>2. (embedded \o v)[n] = v[k]
      BY <1>1, <1>2, <2>2, <3>1
    <3>3. QED
      BY <1>1, <1>2, <3>1, <3>2
  <2>3. QED
    BY <1>1, <1>2, <2>1, <2>2
<1>5. start + (e - start) = e
  BY <1>1, <1>2
<1>6. QED
  BY <1>1, <1>3, <1>4, <1>5

(* An answer with as many vectors as there are texts has those of the texts. *)
LEMMA FullAnswer ==
  ASSUME EmbeddingTypeOK, Batch # {}, NEW v \in Answers, Len(v) = Cardinality(Batch)
  PROVE  /\ v \in Seq(Nat) /\ Len(v) = Last(start + batchSize) - start
         /\ \A k \in 1 .. Last(start + batchSize) - start : v[k] = start + k
<1>1. PICK e \in Nat : e = Last(start + batchSize) /\ start < e /\ Batch = start + 1 .. e
                       /\ Cardinality(Batch) = e - start
  BY BatchInterval
<1>2. start \in Nat /\ e - start \in Nat \ {0}
  BY <1>1 DEF EmbeddingTypeOK
<1>3. PICK c \in Nat \ {0} : c = e - start
  BY <1>2
<1>4. PICK b \in Seq(Nat) : /\ b = InOrder([n \in Batch |-> n]) /\ Len(b) = c
                            /\ \A k \in 1 .. c : b[k] = start + k
  <2>1. PICK f : f = [n \in Batch |-> n]
    OBVIOUS
  <2>2. DOMAIN f = start + 1 .. e /\ \A n \in start + 1 .. e : f[n] = n
    BY <1>1, <2>1
  <2>3. InOrder(f) \in Seq(Nat) /\ Len(InOrder(f)) = e - start
        /\ \A k \in 1 .. e - start : InOrder(f)[k] = start + k
    BY <1>1, <1>2, <2>2, InOrderInterval
  <2>4. QED
    BY <1>3, <2>1, <2>3
<1>5. \/ \E k \in 1 .. c : v = SubSeq(b, 1, k)
      \/ v = SubSeq(b, 2, c)
      \/ v = b \o <<1>>
  BY <1>4 DEF Answers
<1>6. ASSUME NEW k \in 1 .. c, v = SubSeq(b, 1, k)
      PROVE  v \in Seq(Nat) /\ Len(v) = c /\ \A i \in 1 .. c : v[i] = start + i
  <2>1. Len(v) = k /\ v \in Seq(Nat) /\ \A i \in 1 .. k : v[i] = b[i]
    BY <1>4, <1>6
  <2>2. k = c
    BY <1>1, <1>3, <2>1
  <2>3. QED
    BY <1>4, <2>1, <2>2
<1>7. v # SubSeq(b, 2, c)
  <2>1. Len(SubSeq(b, 2, c)) = c - 1
    BY <1>3, <1>4
  <2>2. QED
    BY <1>1, <1>3, <2>1
<1>8. v # b \o <<1>>
  <2>1. Len(b \o <<1>>) = c + 1
    BY <1>4
  <2>2. QED
    BY <1>1, <1>3, <2>1
<1>9. QED
  BY <1>1, <1>3, <1>5, <1>6, <1>7, <1>8

LEMMA EmbeddingInitInv ==
  ASSUME BoundsAreNatural, EmbeddingInit
  PROVE  EmbeddingInv
<1>1. EmbeddingTypeOK
  BY DEF BoundsAreNatural, EmbeddingInit, EmbeddingTypeOK
<1>2. DOMAIN <<>> = {} /\ Len(<<>>) = 0
  OBVIOUS
<1>3. BatchesInv
  BY <1>1, <1>2 DEF EmbeddingInit, EmbeddingTypeOK, BatchesInv, Last
<1>4. QED
  BY <1>1, <1>3 DEF EmbeddingInv

LEMMA EmbeddingStep ==
  ASSUME BoundsAreNatural, EmbeddingInv, [EmbeddingNext]_embeddingVars
  PROVE  EmbeddingInv'
<1>1. EmbeddingTypeOK /\ BatchesInv
  BY DEF EmbeddingInv
<1>2. DOMAIN <<>> = {} /\ Len(<<>>) = 0 /\ <<>> \in Seq(Nat)
  OBVIOUS
<1>3. ASSUME NEW v \in Answers, BatchAnswered(v) PROVE EmbeddingInv'
  <2>1. CASE Len(v) = Cardinality(Batch)
    <3>1. /\ embedded' = embedded \o v /\ start' = start + batchSize /\ phase' = "batch"
          /\ phase = "batch" /\ Batch # {}
          /\ UNCHANGED <<texts, batchSize, singles>>
      BY <1>3, <2>1 DEF BatchAnswered, CountChecked, AsksForBatch
    <3>2. /\ embedded' \in Seq(Nat) /\ Len(embedded') = Last(start + batchSize)
          /\ \A n \in 1 .. Len(embedded') : embedded'[n] = n
      BY <1>1, <2>1, <3>1, FullAnswer, BatchAppended
    <3>3. EmbeddingTypeOK'
      BY <1>1, <3>1, <3>2 DEF EmbeddingTypeOK
    <3>4. Last(start)' = Last(start + batchSize)
      BY <3>1 DEF Last
    <3>5. DOMAIN singles' = {}
      BY <1>1, <3>1 DEF BatchesInv
    <3>6. BatchesInv'
      BY <3>1, <3>2, <3>4, <3>5 DEF BatchesInv
    <3>7. QED
      BY <3>3, <3>6 DEF EmbeddingInv
  <2>2. CASE Len(v) # Cardinality(Batch)
    BY <1>1, <1>3, <2>2 DEF BatchAnswered, CountChecked, EmbeddingInv, EmbeddingTypeOK, BatchesInv
  <2>3. QED
    BY <2>1, <2>2
<1>4. ASSUME BatchEmpty \/ AskSingly PROVE EmbeddingInv'
  <2>1. /\ phase = "batch" /\ phase' = "singles" /\ Batch # {}
        /\ UNCHANGED <<texts, batchSize, start, embedded, singles>>
    BY <1>4 DEF BatchEmpty, AskSingly, AsksForBatch
  <2>2. Batch' = Batch /\ Last(start)' = Last(start)
    BY <2>1 DEF Batch, Last
  <2>3. QED
    BY <1>1, <2>1, <2>2 DEF EmbeddingInv, EmbeddingTypeOK, BatchesInv
<1>5. ASSUME NEW n \in 1 .. MaxTexts, SingleAnswered(n) PROVE EmbeddingInv'
  <2>1. /\ phase = "singles" /\ n \in Batch /\ UNCHANGED <<texts, batchSize, start, embedded, phase>>
        /\ singles' = [m \in DOMAIN singles \cup {n} |-> IF m = n THEN n ELSE singles[m]]
    BY <1>5 DEF SingleAnswered
  <2>2. Batch' = Batch /\ Last(start)' = Last(start)
    BY <2>1 DEF Batch, Last
  <2>3. /\ DOMAIN singles' = DOMAIN singles \cup {n}
        /\ \A m \in DOMAIN singles' : singles'[m] = IF m = n THEN n ELSE singles[m]
    BY <2>1
  <2>4. DOMAIN singles' \subseteq Batch /\ \A m \in DOMAIN singles' : singles'[m] = m
    BY <1>1, <2>1, <2>3 DEF BatchesInv
  <2>5. QED
    BY <1>1, <2>1, <2>2, <2>4 DEF EmbeddingInv, EmbeddingTypeOK, BatchesInv
<1>6. ASSUME SinglesGathered PROVE EmbeddingInv'
  <2>1. /\ phase = "singles" /\ DOMAIN singles = Batch /\ embedded' = embedded \o InOrder(singles)
        /\ start' = start + batchSize /\ singles' = <<>> /\ phase' = "batch"
        /\ UNCHANGED <<texts, batchSize>>
    BY <1>6 DEF SinglesGathered
  <2>2. Batch # {} /\ \A n \in Batch : singles[n] = n
    BY <1>1, <2>1 DEF BatchesInv
  <2>3. PICK e \in Nat : e = Last(start + batchSize) /\ start < e /\ Batch = start + 1 .. e
    BY <1>1, <2>2, BatchInterval
  <2>4. start \in Nat
    BY <1>1 DEF EmbeddingTypeOK
  <2>5. /\ InOrder(singles) \in Seq(Nat) /\ Len(InOrder(singles)) = e - start
        /\ \A k \in 1 .. e - start : InOrder(singles)[k] = start + k
    BY <2>1, <2>2, <2>3, <2>4, InOrderInterval
  <2>6. /\ embedded' \in Seq(Nat) /\ Len(embedded') = e
        /\ \A n \in 1 .. Len(embedded') : embedded'[n] = n
    BY <1>1, <2>1, <2>2, <2>3, <2>5, BatchAppended
  <2>7. EmbeddingTypeOK'
    BY <1>1, <2>1, <2>6 DEF EmbeddingTypeOK
  <2>8. Last(start)' = e
    BY <2>1, <2>3 DEF Last
  <2>9. BatchesInv'
    BY <1>2, <2>1, <2>6, <2>8 DEF BatchesInv
  <2>10. QED
    BY <2>7, <2>9 DEF EmbeddingInv
<1>7. ASSUME RequestFails PROVE EmbeddingInv'
  BY <1>1, <1>7 DEF RequestFails, EmbeddingInv, EmbeddingTypeOK, BatchesInv
<1>8. ASSUME Return PROVE EmbeddingInv'
  <2>1. /\ phase = "batch" /\ phase' = "returned" /\ Batch = {}
        /\ UNCHANGED <<texts, batchSize, start, embedded, singles>>
    BY <1>8 DEF Return
  <2>2. start >= texts
    <3>1. SUFFICES ASSUME start < texts PROVE start + 1 \in Batch
      BY <1>1, <2>1 DEF EmbeddingTypeOK
    <3>2. QED
      BY <1>1, <3>1 DEF EmbeddingTypeOK, Batch
  <2>3. Batch' = Batch /\ Last(start)' = Last(start)
    BY <2>1 DEF Batch, Last
  <2>4. QED
    BY <1>1, <2>1, <2>2, <2>3 DEF EmbeddingInv, EmbeddingTypeOK, BatchesInv
<1>9. ASSUME NextCall PROVE EmbeddingInv'
  <2>1. /\ texts' \in Nat \ {0} /\ start' = 0 /\ embedded' = <<>> /\ singles' = <<>>
        /\ phase' = "batch" /\ batchSize' = batchSize
    BY <1>9 DEF NextCall, BoundsAreNatural
  <2>2. Last(start)' = 0
    BY <2>1 DEF Last
  <2>3. QED
    BY <1>1, <1>2, <2>1, <2>2 DEF EmbeddingInv, EmbeddingTypeOK, BatchesInv
<1>10. ASSUME UNCHANGED embeddingVars PROVE EmbeddingInv'
  BY <1>1, <1>10 DEF embeddingVars, EmbeddingInv, EmbeddingTypeOK, BatchesInv, Batch, Last
<1>11. QED
  BY <1>3, <1>4, <1>5, <1>6, <1>7, <1>8, <1>9, <1>10 DEF EmbeddingNext

(* A call that returns has the vector of each text at the text's place.     *)
THEOREM TextsAlwaysHaveTheirVectors ==
  ASSUME BoundsAreNatural
  PROVE  EmbeddingSpec => []EveryTextHasItsVector
<1>1. EmbeddingInit => EmbeddingInv
  BY EmbeddingInitInv
<1>2. EmbeddingInv /\ [EmbeddingNext]_embeddingVars => EmbeddingInv'
  BY EmbeddingStep
<1>3. EmbeddingInv => EveryTextHasItsVector
  <2>1. SUFFICES ASSUME EmbeddingInv, phase = "returned"
                 PROVE  embedded = [n \in 1 .. texts |-> n]
    BY DEF EveryTextHasItsVector
  <2>2. /\ embedded \in Seq(Nat) /\ Len(embedded) = texts
        /\ \A n \in 1 .. texts : embedded[n] = n
    BY <2>1 DEF EmbeddingInv, EmbeddingTypeOK, BatchesInv, Last
  <2>3. embedded \in [1 .. texts -> Nat]
    BY <2>2
  <2>4. QED
    BY <2>2, <2>3
<1>4. QED
  BY <1>1, <1>2, <1>3, PTL DEF EmbeddingSpec

-----------------------------------------------------------------------------
(* Model loading                                                            *)

(* None stands for no request. *)
NoneIsNoRequest == None \notin Request

LEMMA InitLoads ==
  ASSUME NoneIsNoRequest, LoadInit
  PROVE  LoadInv
BY DEF NoneIsNoRequest, LoadInit, LoadInv, LoadTypeOK, GuardInv, HolderInv, PC

(* A request that moves between steps which do not concern the locks.       *)
LEMMA LoadingStep ==
  ASSUME LoadInv, NEW r \in Request, NEW p \in {"loading", "loaded", "failed"},
         pc[r] \in {"asked", "loading"}, pc' = [pc EXCEPT ![r] = p],
         cached' \subseteq ModelKey,
         UNCHANGED <<key, guard, locks, lock, holder>>
  PROVE  LoadInv'
<1>1. LoadTypeOK'
  BY DEF LoadInv, LoadTypeOK, PC
<1>2. GuardInv'
  BY DEF LoadInv, LoadTypeOK, GuardInv
<1>3. HolderInv'
  BY DEF LoadInv, LoadTypeOK, HolderInv
<1>4. QED
  BY <1>1, <1>2, <1>3 DEF LoadInv

LEMMA GuardStep ==
  ASSUME NoneIsNoRequest, LoadInv, NEW r \in Request, Enter(r) \/ Leave(r)
  PROVE  LoadInv'
<1>1. LoadTypeOK'
  BY DEF LoadInv, LoadTypeOK, PC, Enter, Leave, Goes
<1>2. GuardInv'
  BY DEF NoneIsNoRequest, LoadInv, LoadTypeOK, GuardInv, Enter, Leave, Goes
<1>3. HolderInv'
  BY DEF LoadInv, LoadTypeOK, HolderInv, Enter, Leave, Goes
<1>4. QED
  BY <1>1, <1>2, <1>3 DEF LoadInv

(* Looking for the lock and making it: the guard keeps the others away.     *)
LEMMA FindLockStep ==
  ASSUME LoadInv, NEW r \in Request, FindLock(r)
  PROVE  LoadInv'
<1>1. LoadTypeOK'
  BY DEF LoadInv, LoadTypeOK, PC, FindLock, Goes
<1>2. GuardInv'
  BY DEF LoadInv, LoadTypeOK, GuardInv, FindLock, Goes
<1>3. HolderInv'
  BY DEF LoadInv, LoadTypeOK, HolderInv, FindLock, Goes
<1>4. QED
  BY <1>1, <1>2, <1>3 DEF LoadInv

LEMMA MakeLockStep ==
  ASSUME NoneIsNoRequest, LoadInv, NEW r \in Request, MakeLock(r)
  PROVE  LoadInv'
<1>1. LoadTypeOK'
  BY DEF LoadInv, LoadTypeOK, PC, MakeLock, Goes
<1>2. GuardInv'
  BY DEF NoneIsNoRequest, LoadInv, LoadTypeOK, GuardInv, MakeLock, Goes
<1>3. HolderInv'
  BY DEF LoadInv, LoadTypeOK, HolderInv, MakeLock, Goes
<1>4. QED
  BY <1>1, <1>2, <1>3 DEF LoadInv

LEMMA AcquireStep ==
  ASSUME NoneIsNoRequest, LoadInv, NEW r \in Request, Acquire(r)
  PROVE  LoadInv'
<1>1. LoadTypeOK'
  BY DEF LoadInv, LoadTypeOK, PC, Acquire, Goes
<1>2. GuardInv'
  BY DEF LoadInv, LoadTypeOK, GuardInv, Acquire, Goes
<1>3. HolderInv'
  <2>1. lock[r] \in Request
    BY DEF LoadInv, LoadTypeOK, GuardInv, Acquire, Goes
  <2>2. QED
    BY <2>1 DEF NoneIsNoRequest, LoadInv, LoadTypeOK, HolderInv, Acquire, Goes
<1>4. QED
  BY <1>1, <1>2, <1>3 DEF LoadInv

LEMMA ReleaseStep ==
  ASSUME LoadInv, NEW r \in Request, NEW outcome \in {"ranked", "failed"},
         Release(r, outcome)
  PROVE  LoadInv'
<1>1. LoadTypeOK'
  BY DEF LoadInv, LoadTypeOK, PC, Release, Goes
<1>2. GuardInv'
  BY DEF LoadInv, LoadTypeOK, GuardInv, Release, Goes
<1>3. HolderInv'
  <2>1. lock[r] \in Request
    BY DEF LoadInv, LoadTypeOK, GuardInv, Release, Goes
  <2>2. QED
    BY <2>1 DEF LoadInv, LoadTypeOK, HolderInv, Release, Goes
<1>4. QED
  BY <1>1, <1>2, <1>3 DEF LoadInv

LEMMA LoadStep ==
  ASSUME NoneIsNoRequest, LoadInv, [LoadNext]_loadVars
  PROVE  LoadInv'
<1>1. CASE UNCHANGED loadVars
  BY <1>1 DEF loadVars, LoadInv, LoadTypeOK, GuardInv, HolderInv
<1>2. CASE LoadNext
  <2>1. PICK r \in Request :
          \/ LookUp(r) \/ Load(r) \/ Enter(r) \/ FindLock(r) \/ MakeLock(r) \/ Leave(r)
          \/ Acquire(r) \/ (\E outcome \in {"ranked", "failed"} : Release(r, outcome))
          \/ LoadFails(r)
    BY <1>2 DEF LoadNext
  <2>2. CASE LookUp(r) \/ Load(r) \/ LoadFails(r)
    <3>1. PICK p \in {"loading", "loaded", "failed"} : pc' = [pc EXCEPT ![r] = p]
      BY <2>2 DEF LookUp, Load, LoadFails, Goes
    <3>2. /\ pc[r] \in {"asked", "loading"} /\ cached' \subseteq ModelKey
          /\ UNCHANGED <<key, guard, locks, lock, holder>>
      BY <2>2 DEF LookUp, Load, LoadFails, Goes, LoadInv, LoadTypeOK
    <3>3. QED
      BY <3>1, <3>2, LoadingStep
  <2>3. QED
    BY <2>1, <2>2, GuardStep, FindLockStep, MakeLockStep, AcquireStep, ReleaseStep
<1>3. QED
  BY <1>1, <1>2

(* However many requests find no model and no lock at the same time, each   *)
(* cross encoder predicts for one of them at a time, and a request waits    *)
(* only while another one is predicting with its model.                     *)
THEOREM ModelsPredictOneAtATime ==
  ASSUME NoneIsNoRequest
  PROVE  LoadSpec => []PredictsOneAtATime
<1>1. LoadInit => LoadInv
  BY InitLoads
<1>2. LoadInv /\ [LoadNext]_loadVars => LoadInv'
  BY LoadStep
<1>3. ASSUME LoadInv PROVE PredictsOneAtATime
  <2>1. ASSUME NEW q \in Request, NEW r \in Request, q # r,
               pc[q] = "predicting", pc[r] = "predicting"
        PROVE  key[q] # key[r]
    BY <1>3, <2>1 DEF LoadInv, GuardInv, HolderInv
  <2>2. ASSUME NEW r \in Request, pc[r] = "turn", holder[lock[r]] # None
        PROVE  \E q \in Request : q # r /\ pc[q] = "predicting" /\ key[q] = key[r]
    <3>1. /\ lock[r] = locks[key[r]] /\ lock[r] # None /\ key[r] \in ModelKey
          /\ lock[r] \in Request
      BY <1>3, <2>2 DEF LoadInv, LoadTypeOK, GuardInv
    <3>2. PICK q \in Request : q = holder[lock[r]]
      BY <1>3, <2>2, <3>1 DEF LoadInv, LoadTypeOK
    <3>3. pc[q] = "predicting" /\ lock[q] = lock[r]
      BY <1>3, <2>2, <3>1, <3>2 DEF LoadInv, HolderInv
    <3>4. lock[q] = locks[key[q]] /\ key[q] \in ModelKey
      BY <1>3, <3>3 DEF LoadInv, LoadTypeOK, GuardInv
    <3>5. key[q] = key[r]
      <4>1. \A k \in ModelKey : locks[k] # None => key[locks[k]] = k
        BY <1>3 DEF LoadInv, HolderInv
      <4>2. key[lock[r]] = key[r] /\ key[lock[q]] = key[q]
        BY <3>1, <3>3, <3>4, <4>1
      <4>3. QED
        BY <3>3, <4>2
    <3>6. QED
      BY <2>2, <3>3, <3>5
  <2>3. QED
    BY <2>1, <2>2 DEF PredictsOneAtATime
<1>4. QED
  BY <1>1, <1>2, <1>3, PTL DEF LoadSpec

-----------------------------------------------------------------------------
(* Versions of an evaluation dataset                                        *)

(* Rows that are added to a table.                                          *)
LEMMA WithRows ==
  ASSUME NEW f, NEW new
  PROVE  /\ DOMAIN With(f, new) = DOMAIN f \cup DOMAIN new
         /\ \A x \in DOMAIN new : With(f, new)[x] = new[x]
         /\ \A x \in DOMAIN f \ DOMAIN new : With(f, new)[x] = f[x]
BY DEF With

(* Rows that are removed from a table.                                      *)
LEMMA WithoutRows ==
  ASSUME NEW f, NEW gone
  PROVE  /\ DOMAIN Without(f, gone) = DOMAIN f \ gone
         /\ \A x \in DOMAIN f \ gone : Without(f, gone)[x] = f[x]
BY DEF Without

(* Rows that are new, in a version that has none of their origins, keep the *)
(* invariant.                                                               *)
LEMMA NewRows ==
  ASSUME VersionsInv, NEW new, NEW from, IsFiniteSet(DOMAIN new), NEW v \in Version,
         DOMAIN new \cap Ids = {}, DOMAIN from = DOMAIN new,
         \A id \in DOMAIN new :
           /\ id \in Seq(Part \cup Version) /\ id # <<>> /\ BaseId(id) = BaseId(from[id][1])
           /\ new[id] \in Case /\ new[id].version = v /\ from[id][2] \in 0 .. ops,
         \A i, j \in DOMAIN new : from[i] = from[j] => i = j,
         \A i \in DOMAIN new, j \in CasesOf(v) : from[i] # origin[j],
         cases' = With(cases, new), origin' = With(origin, from),
         ops' = ops + 1, versions \cup {v} \subseteq versions'
  PROVE  VersionsInv'
<1>1. /\ cases \in [Ids -> Case] /\ IsFiniteSet(Ids) /\ DOMAIN origin = Ids
      /\ ops \in Nat
      /\ \A id \in Ids : /\ id \in Seq(Part \cup Version) /\ id # <<>>
                         /\ BaseId(id) = BaseId(origin[id][1]) /\ origin[id][2] \in 0 .. ops - 1
                         /\ cases[id].version \in versions
      /\ \A i, j \in Ids : cases[i].version = cases[j].version /\ origin[i] = origin[j] => i = j
  BY DEF VersionsInv
<1>2. /\ Ids' = Ids \cup DOMAIN new /\ DOMAIN origin' = Ids'
      /\ \A id \in DOMAIN new : cases'[id] = new[id] /\ origin'[id] = from[id]
      /\ \A id \in Ids : cases'[id] = cases[id] /\ origin'[id] = origin[id]
  <2>1. /\ DOMAIN With(cases, new) = DOMAIN cases \cup DOMAIN new
        /\ \A x \in DOMAIN new : With(cases, new)[x] = new[x]
        /\ \A x \in DOMAIN cases \ DOMAIN new : With(cases, new)[x] = cases[x]
    BY WithRows, ZenonT(30)
  <2>2. /\ DOMAIN With(origin, from) = DOMAIN origin \cup DOMAIN from
        /\ \A x \in DOMAIN from : With(origin, from)[x] = from[x]
        /\ \A x \in DOMAIN origin \ DOMAIN from : With(origin, from)[x] = origin[x]
    BY DEF With
  <2>3. Ids' = Ids \cup DOMAIN new
    BY <2>1 DEF Ids
  <2>. QED
    BY <1>1, <2>1, <2>2, <2>3 DEF Ids
<1>3. IsFiniteSet(Ids')
  <2>1. IsFiniteSet(Ids \cup DOMAIN new)
    BY <1>1, FS_Union
  <2>. QED
    BY <1>2, <2>1
<1>4. cases' \in [Ids' -> Case]
  <2>1. \A id \in Ids' : cases'[id] \in Case
    BY <1>1, <1>2
  <2>2. cases' = [id \in Ids' |-> cases'[id]]
    BY DEF With, Ids
  <2>. QED
    BY <2>1, <2>2
<1>5. \A id \in Ids' : /\ id \in Seq(Part \cup Version) /\ id # <<>>
                       /\ BaseId(id) = BaseId(origin'[id][1])
                       /\ origin'[id][2] \in 0 .. ops' - 1
                       /\ cases'[id].version \in versions'
  BY <1>1, <1>2
<1>6. ASSUME NEW i \in Ids', NEW j \in Ids', cases'[i].version = cases'[j].version, origin'[i] = origin'[j]
      PROVE  i = j
  <2>1. \A k \in DOMAIN new, l \in Ids : cases[l].version = v => from[k] # origin[l]
    BY DEF CasesOf
  <2>. QED
    BY <1>1, <1>2, <1>6, <2>1
<1>. QED
  BY <1>2, <1>3, <1>4, <1>5, <1>6 DEF VersionsInv

(* So do rows that go, if their version may.                                *)
LEMMA GoneRows ==
  ASSUME VersionsInv, NEW gone, cases' = Without(cases, gone), origin' = Without(origin, gone),
         ops' = ops + 1, \A id \in Ids \ gone : cases[id].version \in versions'
  PROVE  VersionsInv'
<1>1. /\ cases \in [Ids -> Case] /\ IsFiniteSet(Ids) /\ DOMAIN origin = Ids
      /\ ops \in Nat
      /\ \A id \in Ids : /\ id \in Seq(Part \cup Version) /\ id # <<>>
                         /\ BaseId(id) = BaseId(origin[id][1]) /\ origin[id][2] \in 0 .. ops - 1
      /\ \A i, j \in Ids : cases[i].version = cases[j].version /\ origin[i] = origin[j] => i = j
  BY DEF VersionsInv
<1>2. /\ Ids' = Ids \ gone /\ DOMAIN origin' = Ids'
      /\ \A id \in Ids' : cases'[id] = cases[id] /\ origin'[id] = origin[id]
  <2>1. /\ DOMAIN Without(cases, gone) = DOMAIN cases \ gone
        /\ \A x \in DOMAIN cases \ gone : Without(cases, gone)[x] = cases[x]
    BY WithoutRows
  <2>2. /\ DOMAIN Without(origin, gone) = DOMAIN origin \ gone
        /\ \A x \in DOMAIN origin \ gone : Without(origin, gone)[x] = origin[x]
    BY WithoutRows
  <2>3. Ids' = Ids \ gone
    BY <2>1 DEF Ids
  <2>. QED
    BY <1>1, <2>1, <2>2, <2>3 DEF Ids
<1>3. IsFiniteSet(Ids')
  <2>1. Ids' \in SUBSET Ids
    BY <1>2
  <2>. QED
    BY <1>1, <2>1, FS_Subset
<1>4. cases' \in [Ids' -> Case]
  <2>1. \A id \in Ids' : cases'[id] \in Case
    BY <1>1, <1>2
  <2>2. cases' = [id \in Ids' |-> cases'[id]]
    BY DEF Without, Ids
  <2>. QED
    BY <2>1, <2>2
<1>. QED
  BY <1>1, <1>2, <1>3, <1>4 DEF VersionsInv

-----------------------------------------------------------------------------
(* Before the first version there are no rows and nothing is compared.      *)
LEMMA VersionsStart == VersionsInit => VersionsInv /\ ComparisonIsRight
<1>. SUFFICES ASSUME VersionsInit PROVE VersionsInv /\ ComparisonIsRight
  OBVIOUS
<1>1. Ids = {} /\ DOMAIN origin = {} /\ report = NoReport
  BY DEF VersionsInit, Ids
<1>2. cases \in [Ids -> Case]
  BY <1>1 DEF VersionsInit, Ids
<1>3. IsFiniteSet(Ids)
  BY <1>1, FS_EmptySet
<1>. QED
  BY <1>1, <1>2, <1>3 DEF VersionsInv, VersionsInit, ComparisonIsRight, ComparisonCountsEachCase

(* No row belongs to a version that does not exist.                         *)
LEMMA NewVersionIsEmpty ==
  ASSUME VersionsInv, NEW v, v \notin versions
  PROVE  CasesOf(v) = {}
BY DEF VersionsInv, CasesOf

(* New cases have an origin of their own.                                   *)
LEMMA InsertedRows ==
  ASSUME VersionsInv, NEW v \in Version, NEW ids \in SUBSET Given, IsFiniteSet(ids),
         NEW new \in [ids -> CaseText], Inserted(v, new), versions \cup {v} \subseteq versions'
  PROVE  VersionsInv'
<1>. DEFINE rows == [id \in DOMAIN new |-> [version |-> v, text |-> new[id]]]
            from == [id \in DOMAIN new |-> <<id, ops>>]
<1>1. /\ DOMAIN new \cap Ids = {} /\ ops' = ops + 1
      /\ cases' = With(cases, rows) /\ origin' = With(origin, from)
  BY DEF Inserted, Changes
<1>2. ops \in Nat /\ \A id \in Ids : origin[id][2] \in 0 .. ops - 1
  BY DEF VersionsInv
<1>3. ASSUME NEW id \in ids
      PROVE  /\ id \in Seq(Part \cup Version) /\ id # <<>>
             /\ rows[id] \in Case /\ rows[id].version = v /\ from[id] = <<id, ops>>
  <2>1. id \in Seq(Part) /\ id # <<>>
    BY GivenAssumption
  <2>. QED
    BY <2>1 DEF Case
<1>4. DOMAIN rows = ids /\ DOMAIN from = ids
  OBVIOUS
<1>. HIDE DEF rows, from
<1>5. \A i \in ids, j \in CasesOf(v) : from[i] # origin[j]
  <2>1. ASSUME NEW i \in ids, NEW j \in CasesOf(v), from[i] = origin[j] PROVE FALSE
    <3>1. from[i][2] = ops
      BY <1>3
    <3>2. origin[j][2] \in 0 .. ops - 1
      BY <1>2 DEF CasesOf
    <3>. QED
      BY <1>2, <2>1, <3>1, <3>2
  <2>. QED
    BY <2>1
<1>6. \A id \in ids : BaseId(id) = BaseId(from[id][1]) /\ from[id][2] \in 0 .. ops
  BY <1>2, <1>3
<1>7. \A i, j \in ids : from[i] = from[j] => i = j
  BY <1>3
<1>. QED
  BY <1>1, <1>3, <1>4, <1>5, <1>6, <1>7, NewRows

(* Every operation keeps ids, origins and versions of the rows together.    *)
LEMMA VersionsKept ==
  ASSUME VersionsInv, [VersionsNext]_versionVars
  PROVE  VersionsInv'
<1>1. /\ cases \in [Ids -> Case] /\ IsFiniteSet(Ids) /\ DOMAIN origin = Ids
      /\ ops \in Nat
      /\ \A id \in Ids : /\ id \in Seq(Part \cup Version) /\ id # <<>>
                         /\ BaseId(id) = BaseId(origin[id][1]) /\ origin[id][2] \in 0 .. ops - 1
                         /\ cases[id].version \in versions
      /\ \A i, j \in Ids : cases[i].version = cases[j].version /\ origin[i] = origin[j] => i = j
  BY DEF VersionsInv
<1>2. CASE UNCHANGED <<versions, cases, origin, ops>>
  BY <1>2 DEF VersionsInv, Ids
<1>3. ASSUME NEW v \in Version, NEW ids \in SUBSET Given, IsFiniteSet(ids), NEW new \in [ids -> CaseText],
             Create(v, new)
      PROVE  VersionsInv'
  <2>1. v \notin versions /\ Inserted(v, new) /\ versions' = versions \cup {v}
    BY <1>3 DEF Create
  <2>2. CasesOf(v) = {}
    BY <2>1, NewVersionIsEmpty
  <2>. QED
    BY <1>3, <2>1, <2>2, InsertedRows
<1>4. ASSUME NEW w \in Version, NEW v \in Version, CreateNewVersion(w, v)
      PROVE  VersionsInv'
  <2>. DEFINE Copied(id) == SubSeq(id, 1, Len(id) - 1)
              copies == {Append(id, v) : id \in CasesOf(w)}
              rows == [id \in copies |-> [version |-> v, text |-> cases[Copied(id)].text]]
              from == [id \in copies |-> origin[Copied(id)]]
  <2>1. /\ w \in versions /\ v \notin versions /\ copies \cap Ids = {}
        /\ versions' = versions \cup {v} /\ ops' = ops + 1
        /\ cases' = With(cases, rows) /\ origin' = With(origin, from)
    BY <1>4 DEF CreateNewVersion, Changes
  <2>2. CasesOf(w) \subseteq Ids /\ \A id \in CasesOf(w) : cases[id].version = w
    BY DEF CasesOf
  <2>3. ASSUME NEW id \in CasesOf(w)
        PROVE  /\ Append(id, v) \in Seq(Part \cup Version) /\ Append(id, v) # <<>>
               /\ BaseId(Append(id, v)) = BaseId(id) /\ Copied(Append(id, v)) = id
    <3>1. id \in Seq(Part \cup Version) /\ id # <<>> /\ v \in Part \cup Version
      BY <1>1, <2>2
    <3>2. Len(id) \in Nat /\ Len(id) > 0 /\ Len(Append(id, v)) = Len(id) + 1
      BY <3>1
    <3>3. SubSeq(Append(id, v), 1, 1) = SubSeq(id, 1, 1)
      BY <3>1, <3>2
    <3>. QED
      BY <3>1, <3>2, <3>3 DEF BaseId
  <2>. HIDE DEF Copied
  <2>4. \A i \in copies : /\ Copied(i) \in CasesOf(w) /\ i = Append(Copied(i), v)
    BY <2>3
  <2>5. ASSUME NEW i \in copies
        PROVE  i \in Seq(Part \cup Version) /\ i # <<>> /\ BaseId(i) = BaseId(Copied(i))
    <3>1. PICK id \in CasesOf(w) : i = Append(id, v)
      OBVIOUS
    <3>2. Copied(i) = id
      BY <2>3, <3>1
    <3>. QED
      BY <2>3, <3>1, <3>2
  <2>6. IsFiniteSet(copies)
    <3>. DEFINE f == [id \in CasesOf(w) |-> Append(id, v)]
    <3>1. CasesOf(w) \in SUBSET Ids
      BY <2>2
    <3>2. IsFiniteSet(CasesOf(w))
      BY <1>1, <3>1, FS_Subset
    <3>3. f \in Surjection(CasesOf(w), copies)
      BY DEF Surjection
    <3>. QED
      BY <3>2, <3>3, FS_Surjection
  <2>7. CasesOf(v) = {}
    BY <2>1, NewVersionIsEmpty
  <2>8. DOMAIN rows = copies /\ DOMAIN from = copies
    OBVIOUS
  <2>9. \A i \in copies : /\ rows[i] = [version |-> v, text |-> cases[Copied(i)].text]
                          /\ from[i] = origin[Copied(i)]
    OBVIOUS
  <2>. HIDE DEF rows, from, copies
  <2>10. ASSUME NEW i \in copies
         PROVE  /\ Copied(i) \in Ids /\ cases[Copied(i)] \in Case
                /\ BaseId(Copied(i)) = BaseId(origin[Copied(i)][1])
                /\ origin[Copied(i)][2] \in 0 .. ops
    <3>1. Copied(i) \in Ids
      BY <2>2, <2>4
    <3>. QED
      BY <1>1, <3>1
  <2>11. ASSUME NEW i \in copies PROVE rows[i] \in Case /\ rows[i].version = v
    <3>1. rows[i] = [version |-> v, text |-> cases[Copied(i)].text]
      BY <2>9
    <3>2. cases[Copied(i)] \in Case
      BY <2>10
    <3>. QED
      BY <3>1, <3>2 DEF Case
  <2>12. ASSUME NEW i \in copies PROVE BaseId(i) = BaseId(from[i][1]) /\ from[i][2] \in 0 .. ops
    <3>1. from[i] = origin[Copied(i)]
      BY <2>9
    <3>. QED
      BY <2>1, <2>5, <2>10, <3>1
  <2>13. \A i, j \in copies : from[i] = from[j] => i = j
    <3>1. ASSUME NEW i \in copies, NEW j \in copies, from[i] = from[j] PROVE i = j
      <4>1. origin[Copied(i)] = origin[Copied(j)]
        BY <2>9, <3>1
      <4>2. /\ Copied(i) \in Ids /\ Copied(j) \in Ids
            /\ cases[Copied(i)].version = w /\ cases[Copied(j)].version = w
        BY <2>2, <2>4
      <4>3. Copied(i) = Copied(j)
        BY <1>1, <4>1, <4>2
      <4>4. i = Append(Copied(i), v) /\ j = Append(Copied(j), v)
        BY <2>4
      <4>. QED
        BY <4>3, <4>4
    <3>. QED
      BY <3>1
  <2>. QED
    BY <2>1, <2>5, <2>6, <2>7, <2>8, <2>11, <2>12, <2>13, NewRows
<1>5. ASSUME NEW v \in Version, NEW id \in Given, NEW t \in CaseText, AddTestCase(v, id, t)
      PROVE  VersionsInv'
  <2>. DEFINE new == [x \in {id} |-> t]
  <2>1. v \in versions /\ Inserted(v, new) /\ versions' = versions
    BY <1>5 DEF AddTestCase
  <2>2. {id} \in SUBSET Given /\ IsFiniteSet({id}) /\ new \in [{id} -> CaseText]
    BY FS_Singleton
  <2>. QED
    BY <2>1, <2>2, InsertedRows
<1>6. ASSUME NEW id \in Ids, NEW t \in CaseText, UpdateTestCase(id, t)
      PROVE  VersionsInv'
  <2>1. /\ cases' = [cases EXCEPT ![id].text = t] /\ origin' = origin /\ versions' = versions /\ ops' = ops + 1
    BY <1>6 DEF UpdateTestCase, Changes
  <2>2. \A i \in Ids : cases[i] \in Case
    BY <1>1
  <2>3. Ids' = Ids /\ cases' \in [Ids -> Case] /\ \A i \in Ids : cases'[i].version = cases[i].version
    BY <1>1, <2>1, <2>2 DEF Ids, Case
  <2>. QED
    BY <1>1, <2>1, <2>3 DEF VersionsInv
<1>7. ASSUME NEW id \in Ids, DeleteTestCase(id) PROVE VersionsInv'
  <2>1. /\ cases' = Without(cases, {id}) /\ origin' = Without(origin, {id})
        /\ versions' = versions /\ ops' = ops + 1
    BY <1>7 DEF DeleteTestCase, Changes
  <2>. QED
    BY <1>1, <2>1, GoneRows
<1>8. ASSUME NEW v \in Version, DeleteDataset(v) PROVE VersionsInv'
  <2>1. /\ cases' = Without(cases, CasesOf(v)) /\ origin' = Without(origin, CasesOf(v))
        /\ versions' = versions \ {v} /\ ops' = ops + 1
    BY <1>8 DEF DeleteDataset, Changes
  <2>2. \A id \in Ids \ CasesOf(v) : cases[id].version \in versions'
    BY <1>1, <2>1 DEF CasesOf
  <2>. QED
    BY <2>1, <2>2, GoneRows
<1>9. ASSUME NEW a, NEW b, Compare(a, b) PROVE VersionsInv'
  BY <1>2, <1>9 DEF Compare, Compared
<1>10. CASE UNCHANGED versionVars
  BY <1>2, <1>10 DEF versionVars
<1>. QED
  BY <1>3, <1>4, <1>5, <1>6, <1>7, <1>8, <1>9, <1>10 DEF VersionsNext

-----------------------------------------------------------------------------
(* Sets whose elements correspond have the same size.                       *)
LEMMA SameSize ==
  ASSUME NEW S, NEW T, IsFiniteSet(S), NEW f \in [S -> T],
         \A x, y \in S : f[x] = f[y] => x = y, \A y \in T : \E x \in S : f[x] = y
  PROVE  Cardinality(T) = Cardinality(S)
<1>1. f \in Bijection(S, T)
  BY DEF Bijection, Injection, Surjection, IsInjective
<1>. QED
  BY <1>1, FS_Bijection DEF ExistsBijection

(* Base ids tell the cases of two versions apart as their origins do, if    *)
(* the ids that the new cases were given do.                                *)
LEMMA BaseIsOrigin ==
  ASSUME VersionsInv, NEW a, NEW b, GivenApart(CasesOf(a) \cup CasesOf(b))
  PROVE  \A i, j \in CasesOf(a) \cup CasesOf(b) : BaseId(i) = BaseId(j) <=> origin[i] = origin[j]
<1>1. \A id \in CasesOf(a) \cup CasesOf(b) : BaseId(id) = BaseId(origin[id][1])
  BY DEF VersionsInv, CasesOf
<1>. QED
  BY <1>1 DEF GivenApart

(* A version has finitely many cases and one of each origin.                *)
LEMMA CasesApart ==
  ASSUME VersionsInv, NEW v
  PROVE  IsFiniteSet(CasesOf(v)) /\ \A i, j \in CasesOf(v) : origin[i] = origin[j] => i = j
<1>1. IsFiniteSet(Ids) /\ CasesOf(v) \in SUBSET Ids
  BY DEF VersionsInv, CasesOf
<1>2. IsFiniteSet(CasesOf(v))
  BY <1>1, FS_Subset
<1>. QED
  BY <1>2 DEF VersionsInv, CasesOf

(* Where base ids are origins, the cases of a version by their base ids     *)
(* are all of them.                                                         *)
LEMMA ByTheirBaseIds ==
  ASSUME VersionsInv, NEW v, NEW by \in ByBaseId(v),
         \A i, j \in CasesOf(v) : BaseId(i) = BaseId(j) <=> origin[i] = origin[j]
  PROVE  /\ DOMAIN by = {BaseId(id) : id \in CasesOf(v)}
         /\ \A id \in CasesOf(v) : by[BaseId(id)] = id
<1>1. /\ by \in [{BaseId(id) : id \in CasesOf(v)} -> CasesOf(v)]
      /\ \A base \in DOMAIN by : BaseId(by[base]) = base
  BY DEF ByBaseId
<1>2. ASSUME NEW id \in CasesOf(v) PROVE by[BaseId(id)] = id
  <2>1. BaseId(id) \in DOMAIN by /\ by[BaseId(id)] \in CasesOf(v) /\ BaseId(by[BaseId(id)]) = BaseId(id)
    BY <1>1
  <2>2. origin[by[BaseId(id)]] = origin[id]
    BY <2>1
  <2>. QED
    BY <2>1, <2>2, CasesApart
<1>. QED
  BY <1>1, <1>2

(* The base ids that only one of two versions has.                          *)
LEMMA OnlyInOne ==
  ASSUME VersionsInv, NEW a, NEW b,
         \A i, j \in CasesOf(a) \cup CasesOf(b) : BaseId(i) = BaseId(j) <=> origin[i] = origin[j]
  PROVE  Cardinality({BaseId(j) : j \in CasesOf(b)} \ {BaseId(i) : i \in CasesOf(a)}) =
           Cardinality({j \in CasesOf(b) : Same(a, j) = {}})
<1>. DEFINE A == {BaseId(i) : i \in CasesOf(a)}
            B == {BaseId(j) : j \in CasesOf(b)}
            S == {j \in CasesOf(b) : Same(a, j) = {}}
            T == B \ A
            f == [j \in S |-> BaseId(j)]
<1>1. IsFiniteSet(CasesOf(b)) /\ \A i, j \in CasesOf(b) : origin[i] = origin[j] => i = j
  BY CasesApart
<1>2. S \in SUBSET CasesOf(b)
  OBVIOUS
<1>3. IsFiniteSet(S)
  BY <1>1, <1>2, FS_Subset
<1>4. \A j \in CasesOf(b) : BaseId(j) \in A <=> Same(a, j) # {}
  <2>1. ASSUME NEW j \in CasesOf(b), BaseId(j) \in A PROVE Same(a, j) # {}
    <3>1. PICK i \in CasesOf(a) : BaseId(j) = BaseId(i)
      BY <2>1
    <3>2. origin[i] = origin[j]
      BY <3>1
    <3>. QED
      BY <3>2 DEF Same
  <2>2. ASSUME NEW j \in CasesOf(b), Same(a, j) # {} PROVE BaseId(j) \in A
    <3>1. PICK i \in CasesOf(a) : origin[i] = origin[j]
      BY <2>2 DEF Same
    <3>2. BaseId(j) = BaseId(i)
      BY <3>1
    <3>. QED
      BY <3>2
  <2>. QED
    BY <2>1, <2>2
<1>5. \A j \in S : f[j] \in T
  BY <1>4
<1>6. f \in [S -> T]
  <2>. HIDE DEF S, T
  <2>. QED
    BY <1>5
<1>7. \A x, y \in S : f[x] = f[y] => x = y
  BY <1>1
<1>8. \A y \in T : \E x \in S : f[x] = y
  BY <1>4
<1>. HIDE DEF S, T, f
<1>9. Cardinality(T) = Cardinality(S)
  BY <1>3, <1>6, <1>7, <1>8, SameSize
<1>. QED
  BY <1>9 DEF S, T

(* Base ids that both versions have correspond to pairs of cases that come  *)
(* from the same new case.                                                  *)
LEMMA InBoth ==
  ASSUME VersionsInv, NEW a, NEW b, NEW S, NEW T,
         \A i, j \in CasesOf(a) \cup CasesOf(b) : BaseId(i) = BaseId(j) <=> origin[i] = origin[j],
         \A k \in S : k \in CasesOf(a) \X CasesOf(b) /\ origin[k[1]] = origin[k[2]],
         T \subseteq {BaseId(id) : id \in CasesOf(a)} \cap {BaseId(id) : id \in CasesOf(b)},
         \A i \in CasesOf(a), j \in CasesOf(b) :
           origin[i] = origin[j] => (<<i, j>> \in S <=> BaseId(i) \in T)
  PROVE  Cardinality(T) = Cardinality(S)
<1>. DEFINE f == [k \in S |-> BaseId(k[1])]
<1>1. IsFiniteSet(CasesOf(a)) /\ \A i, j \in CasesOf(a) : origin[i] = origin[j] => i = j
  BY CasesApart
<1>2. IsFiniteSet(CasesOf(b)) /\ \A i, j \in CasesOf(b) : origin[i] = origin[j] => i = j
  BY CasesApart
<1>3. IsFiniteSet(S)
  <2>1. IsFiniteSet(CasesOf(a) \X CasesOf(b))
    BY <1>1, <1>2, FS_Product
  <2>2. S \in SUBSET (CasesOf(a) \X CasesOf(b))
    OBVIOUS
  <2>. QED
    BY <2>1, <2>2, FS_Subset
<1>4. ASSUME NEW k \in S
      PROVE  /\ k[1] \in CasesOf(a) /\ k[2] \in CasesOf(b) /\ k = <<k[1], k[2]>>
             /\ origin[k[1]] = origin[k[2]] /\ BaseId(k[1]) \in T
  <2>1. k \in CasesOf(a) \X CasesOf(b) /\ origin[k[1]] = origin[k[2]]
    OBVIOUS
  <2>2. k[1] \in CasesOf(a) /\ k[2] \in CasesOf(b) /\ k = <<k[1], k[2]>>
    BY <2>1
  <2>. QED
    BY <2>1, <2>2
<1>5. f \in [S -> T]
  BY <1>4
<1>6. ASSUME NEW x \in S, NEW y \in S, f[x] = f[y] PROVE x = y
  <2>1. origin[x[1]] = origin[y[1]]
    BY <1>4, <1>6
  <2>2. x[1] = y[1]
    BY <1>1, <1>4, <2>1
  <2>3. x[2] \in CasesOf(b) /\ y[2] \in CasesOf(b) /\ origin[x[2]] = origin[y[2]]
    BY <1>4, <2>1
  <2>4. x[2] = y[2]
    BY <1>2, <2>3
  <2>. QED
    BY <1>4, <2>2, <2>4
<1>7. ASSUME NEW base \in T PROVE \E k \in S : f[k] = base
  <2>1. PICK i \in CasesOf(a) : base = BaseId(i)
    OBVIOUS
  <2>2. PICK j \in CasesOf(b) : base = BaseId(j)
    OBVIOUS
  <2>3. origin[i] = origin[j]
    BY <2>1, <2>2
  <2>4. <<i, j>> \in S
    BY <2>1, <2>3
  <2>. QED
    BY <2>1, <2>4
<1>. HIDE DEF f
<1>. QED
  BY <1>3, <1>5, <1>6, <1>7, SameSize

(* A comparison counts base ids, which correspond to the cases; any other   *)
(* operation withdraws it.                                                  *)
LEMMA ComparisonStep ==
  ASSUME VersionsInv, ComparisonIsRight, [VersionsNext]_versionVars
  PROVE  ComparisonIsRight'
<1>1. ASSUME NEW a, NEW b, NEW inA \in ByBaseId(a), NEW inB \in ByBaseId(b), Compared(a, b, inA, inB),
             GivenApart(CasesOf(a) \cup CasesOf(b))
      PROVE  ComparisonCountsEachCase'
  <2>. DEFINE common == DOMAIN inA \cap DOMAIN inB
              edited == {base \in common : cases[inA[base]].text # cases[inB[base]].text}
              equal  == {base \in common : cases[inA[base]].text = cases[inB[base]].text}
              kept == {k \in CasesOf(a) \X CasesOf(b) : origin[k[1]] = origin[k[2]]}
  <2>1. /\ report'.added = Cardinality(DOMAIN inB \ DOMAIN inA)
        /\ report'.removed = Cardinality(DOMAIN inA \ DOMAIN inB)
        /\ report'.modified = Cardinality(edited)
        /\ report'.unchanged = Cardinality(common) - Cardinality(edited)
        /\ report'.a = a /\ report'.b = b
        /\ UNCHANGED <<cases, origin>>
    BY <1>1 DEF Compared
  <2>10. /\ \A i, j \in CasesOf(a) \cup CasesOf(b) : BaseId(i) = BaseId(j) <=> origin[i] = origin[j]
         /\ \A i, j \in CasesOf(b) \cup CasesOf(a) : BaseId(i) = BaseId(j) <=> origin[i] = origin[j]
    BY <1>1, BaseIsOrigin
  <2>11. /\ \A k, l \in CasesOf(a) : BaseId(k) = BaseId(l) <=> origin[k] = origin[l]
         /\ \A k, l \in CasesOf(b) : BaseId(k) = BaseId(l) <=> origin[k] = origin[l]
    BY <2>10
  <2>12. /\ DOMAIN inA = {BaseId(id) : id \in CasesOf(a)}
         /\ \A id \in CasesOf(a) : inA[BaseId(id)] = id
    BY <2>11, ByTheirBaseIds
  <2>13. /\ DOMAIN inB = {BaseId(id) : id \in CasesOf(b)}
         /\ \A id \in CasesOf(b) : inB[BaseId(id)] = id
    BY <2>11, ByTheirBaseIds
  <2>3. /\ DOMAIN inA = {BaseId(id) : id \in CasesOf(a)} /\ DOMAIN inB = {BaseId(id) : id \in CasesOf(b)}
        /\ \A id \in CasesOf(a) : inA[BaseId(id)] = id
        /\ \A id \in CasesOf(b) : inB[BaseId(id)] = id
        /\ IsFiniteSet(CasesOf(a))
    BY <2>12, <2>13, CasesApart
  <2>14. Cardinality(DOMAIN inB \ DOMAIN inA) = Cardinality({j \in CasesOf(b) : Same(a, j) = {}})
    <3>1. Cardinality({BaseId(j) : j \in CasesOf(b)} \ {BaseId(i) : i \in CasesOf(a)}) =
            Cardinality({j \in CasesOf(b) : Same(a, j) = {}})
      BY <2>10, OnlyInOne
    <3>. QED
      BY <2>12, <2>13, <3>1
  <2>15. Cardinality(DOMAIN inA \ DOMAIN inB) = Cardinality({i \in CasesOf(a) : Same(b, i) = {}})
    <3>1. Cardinality({BaseId(j) : j \in CasesOf(a)} \ {BaseId(i) : i \in CasesOf(b)}) =
            Cardinality({j \in CasesOf(a) : Same(b, j) = {}})
      BY <2>10, OnlyInOne
    <3>. QED
      BY <2>12, <2>13, <3>1
  <2>2. /\ Cardinality(DOMAIN inB \ DOMAIN inA) = Cardinality({j \in CasesOf(b) : Same(a, j) = {}})
        /\ Cardinality(DOMAIN inA \ DOMAIN inB) = Cardinality({i \in CasesOf(a) : Same(b, i) = {}})
    BY <2>14, <2>15
  <2>4. \A base \in common : inA[base] \in CasesOf(a) /\ inB[base] \in CasesOf(b)
    BY <2>3
  <2>5. Cardinality(edited) = Cardinality({k \in kept : cases[k[1]].text # cases[k[2]].text})
    <3>. DEFINE pairs == {k \in kept : cases[k[1]].text # cases[k[2]].text}
    <3>1. \A k \in pairs : k \in CasesOf(a) \X CasesOf(b) /\ origin[k[1]] = origin[k[2]]
      OBVIOUS
    <3>2. edited \subseteq {BaseId(id) : id \in CasesOf(a)} \cap {BaseId(id) : id \in CasesOf(b)}
      BY <2>3
    <3>3. ASSUME NEW i \in CasesOf(a), NEW j \in CasesOf(b), origin[i] = origin[j]
          PROVE  <<i, j>> \in pairs <=> BaseId(i) \in edited
      <4>1. inA[BaseId(i)] = i /\ inB[BaseId(i)] = j /\ BaseId(i) \in common
        BY <2>3, <2>10, <3>3
      <4>2. <<i, j>> \in pairs <=> cases[i].text # cases[j].text
        BY <3>3
      <4>. HIDE DEF common
      <4>. QED
        BY <4>1, <4>2
    <3>. HIDE DEF pairs, edited
    <3>4. Cardinality(edited) = Cardinality(pairs)
      BY <2>10, <3>1, <3>2, <3>3, InBoth
    <3>. QED
      BY <3>4 DEF pairs
  <2>6. Cardinality(equal) = Cardinality({k \in kept : cases[k[1]].text = cases[k[2]].text})
    <3>. DEFINE pairs == {k \in kept : cases[k[1]].text = cases[k[2]].text}
    <3>1. \A k \in pairs : k \in CasesOf(a) \X CasesOf(b) /\ origin[k[1]] = origin[k[2]]
      OBVIOUS
    <3>2. equal \subseteq {BaseId(id) : id \in CasesOf(a)} \cap {BaseId(id) : id \in CasesOf(b)}
      BY <2>3
    <3>3. ASSUME NEW i \in CasesOf(a), NEW j \in CasesOf(b), origin[i] = origin[j]
          PROVE  <<i, j>> \in pairs <=> BaseId(i) \in equal
      <4>1. inA[BaseId(i)] = i /\ inB[BaseId(i)] = j /\ BaseId(i) \in common
        BY <2>3, <2>10, <3>3
      <4>2. <<i, j>> \in pairs <=> cases[i].text = cases[j].text
        BY <3>3
      <4>. HIDE DEF common
      <4>. QED
        BY <4>1, <4>2
    <3>. HIDE DEF pairs, equal
    <3>4. Cardinality(equal) = Cardinality(pairs)
      BY <2>10, <3>1, <3>2, <3>3, InBoth
    <3>. QED
      BY <3>4 DEF pairs
  <2>7. Cardinality(common) - Cardinality(edited) = Cardinality(equal)
    <3>1. IsFiniteSet(DOMAIN inA)
      <4>. DEFINE base == [id \in CasesOf(a) |-> BaseId(id)]
      <4>1. base \in Surjection(CasesOf(a), DOMAIN inA)
        BY <2>3 DEF Surjection
      <4>. QED
        BY <2>3, <4>1, FS_Surjection
    <3>2. common \in SUBSET (DOMAIN inA)
      OBVIOUS
    <3>3. IsFiniteSet(common)
      BY <3>1, <3>2, FS_Subset
    <3>4. common \ edited = equal /\ common \cap edited = edited
      OBVIOUS
    <3>5. /\ IsFiniteSet(common \ edited)
          /\ Cardinality(common \ edited) = Cardinality(common) - Cardinality(common \cap edited)
      BY <3>3, FS_Difference
    <3>. QED
      BY <3>4, <3>5
  <2>8. /\ CasesOf(a)' = CasesOf(a) /\ CasesOf(b)' = CasesOf(b)
        /\ \A v, id : Same(v, id)' = Same(v, id)
    BY <2>1 DEF CasesOf, Ids, Same
  <2>. HIDE DEF common, edited, equal
  <2>9. /\ report'.added = Cardinality({j \in CasesOf(b) : Same(a, j) = {}})
         /\ report'.removed = Cardinality({i \in CasesOf(a) : Same(b, i) = {}})
         /\ report'.modified = Cardinality({k \in kept : cases[k[1]].text # cases[k[2]].text})
         /\ report'.unchanged = Cardinality({k \in kept : cases[k[1]].text = cases[k[2]].text})
    BY <2>1, <2>2, <2>5, <2>6, <2>7
  <2>. QED
    BY <2>1, <2>8, <2>9 DEF ComparisonCountsEachCase, CasesOf, Ids, Same
<1>5. ASSUME NEW a, NEW b, Compare(a, b) PROVE ComparisonIsRight'
  <2>1. PICK inA \in ByBaseId(a), inB \in ByBaseId(b) : Compared(a, b, inA, inB)
    BY <1>5 DEF Compare
  <2>2. report'.a = a /\ report'.b = b /\ UNCHANGED <<cases, origin>>
    BY <2>1 DEF Compared
  <2>3. GivenApart(CasesOf(report.a) \cup CasesOf(report.b))' <=> GivenApart(CasesOf(a) \cup CasesOf(b))
    BY <2>2 DEF GivenApart, CasesOf, Ids
  <2>. QED
    BY <1>1, <2>1, <2>3 DEF ComparisonIsRight
<1>2. CASE report' = NoReport
  BY <1>2 DEF ComparisonIsRight, ComparisonCountsEachCase
<1>3. CASE UNCHANGED versionVars
  <2>1. UNCHANGED <<cases, origin, report>>
    BY <1>3 DEF versionVars
  <2>. QED
    BY <2>1 DEF ComparisonIsRight, ComparisonCountsEachCase, GivenApart, CasesOf, Ids, Same
<1>4. CASE \/ \E v \in Version, ids \in SUBSET Given :
                IsFiniteSet(ids) /\ \E new \in [ids -> CaseText] : Create(v, new)
           \/ \E v, w \in Version : CreateNewVersion(v, w)
           \/ \E v \in Version, id \in Given, t \in CaseText : AddTestCase(v, id, t)
           \/ \E id \in Ids : \/ \E t \in CaseText : UpdateTestCase(id, t)
                              \/ DeleteTestCase(id)
           \/ \E v \in Version : DeleteDataset(v)
  <2>1. report' = NoReport
    BY <1>4 DEF Create, Inserted, CreateNewVersion, AddTestCase, UpdateTestCase, DeleteTestCase,
           DeleteDataset, Changes
  <2>. QED
    BY <1>2, <2>1
<1>. QED
  BY <1>3, <1>4, <1>5 DEF VersionsNext

(* A comparison of two versions whose cases were given ids with different   *)
(* base ids is right, for every number of versions, cases and operations,   *)
(* however the versions were copied from each other and whatever was        *)
(* edited, deleted or given again in between.                               *)
THEOREM ComparedRightly == VersionsSpec => []ComparisonIsRight
<1>1. VersionsInv /\ ComparisonIsRight /\ [VersionsNext]_versionVars => VersionsInv' /\ ComparisonIsRight'
  BY VersionsKept, ComparisonStep
<1>. QED
  BY <1>1, VersionsStart, PTL DEF VersionsSpec

-----------------------------------------------------------------------------
(* Documents of the MinerU service                                          *)

(* What the loop over the items has made: a path and blocks with paths.     *)
Making == [path : Seq(Nat), blocks : Seq([item : Nat, hint : Seq(Nat)])]

Titled(item) == item.type = "text" /\ item.level > 0 /\ item.filled

(* A path ends with the last heading up to an item, if there is one.        *)
Follows(hint, n) ==
  IF Titles(n) = {} THEN hint = <<>>
  ELSE hint[Len(hint)] \in Titles(n) /\ \A m \in Titles(n) : m <= hint[Len(hint)]

(* What holds of it after the first n items.                                *)
MadeRight(made, n) ==
  /\ made \in Making
  /\ Follows(made.path, n)
  /\ \A k \in DOMAIN made.blocks : Follows(made.blocks[k].hint, made.blocks[k].item)

(* A heading's own path ends with it.                                       *)
LEMMA SectionEnds ==
  ASSUME NEW p \in Seq(Nat), NEW level \in Nat, level > 0, NEW n \in Nat
  PROVE  Section(p, level, n) \in Seq(Nat) /\ Section(p, level, n)[Len(Section(p, level, n))] = n
<1>. DEFINE upto == IF level - 1 < Len(p) THEN level - 1 ELSE Len(p)
            kept == SubSeq(p, 1, upto)
<1>1. upto \in 0 .. Len(p)
  OBVIOUS
<1>2. kept \in Seq(Nat)
  BY <1>1
<1>. HIDE DEF kept
<1>3. Append(kept, n) \in Seq(Nat) /\ Append(kept, n)[Len(Append(kept, n))] = n
  BY <1>2
<1>. QED
  BY <1>3 DEF Section, kept

(* One more item keeps it right.                                            *)
LEMMA AddedRight ==
  ASSUME content \in Seq(Item), NEW n \in Nat, n + 1 \in 1 .. Len(content), NEW made, MadeRight(made, n)
  PROVE  MadeRight(Added(made, content[n + 1], n + 1), n + 1)
<1>. DEFINE item == content[n + 1]
            p == IF item.type = "text" /\ item.level > 0 THEN Section(made.path, item.level, n + 1)
                 ELSE made.path
<1>1. item \in Item
  OBVIOUS
<1>2. item.level \in Nat /\ item.filled \in BOOLEAN
  BY <1>1 DEF Item
<1>3. made \in Making /\ made.path \in Seq(Nat) /\ made.blocks \in Seq([item : Nat, hint : Seq(Nat)])
  BY DEF MadeRight, Making
<1>4. Titles(n + 1) = IF Titled(item) THEN Titles(n) \cup {n + 1} ELSE Titles(n)
  BY DEF Titles, Titled
<1>5. CASE ~Becomes(item)
  <2>1. ~Titled(item)
    BY <1>5 DEF Becomes, Titled
  <2>2. Added(made, item, n + 1) = made
    BY <1>5 DEF Added
  <2>3. Titles(n + 1) = Titles(n)
    BY <1>4, <2>1
  <2>. QED
    BY <2>2, <2>3 DEF MadeRight, Follows
<1>6. CASE Becomes(item)
  <2>1. p \in Seq(Nat)
    BY <1>2, <1>3, SectionEnds
  <2>2. Follows(p, n + 1)
    <3>1. CASE item.type = "text" /\ item.level > 0
      <4>1. Titled(item)
        BY <1>6, <3>1 DEF Becomes, Titled
      <4>2. Titles(n + 1) = Titles(n) \cup {n + 1}
        BY <1>4, <4>1
      <4>3. p[Len(p)] = n + 1
        BY <1>2, <1>3, <3>1, SectionEnds
      <4>4. \A m \in Titles(n) : m \in Nat /\ m <= n
        BY DEF Titles
      <4>. HIDE DEF p
      <4>. QED
        BY <4>2, <4>3, <4>4 DEF Follows
    <3>2. CASE ~(item.type = "text" /\ item.level > 0)
      <4>1. Titles(n + 1) = Titles(n)
        BY <1>4, <3>2 DEF Titled
      <4>. QED
        BY <3>2, <4>1 DEF Follows, MadeRight
    <3>. QED
      BY <3>1, <3>2
  <2>. DEFINE block == [item |-> n + 1, hint |-> p]
              more == Append(made.blocks, block)
  <2>3. Added(made, item, n + 1) = [path |-> p, blocks |-> more]
    BY <1>6 DEF Added
  <2>. HIDE DEF p
  <2>4. block \in [item : Nat, hint : Seq(Nat)]
    BY <2>1
  <2>5. more \in Seq([item : Nat, hint : Seq(Nat)])
    BY <1>3, <2>4
  <2>6. \A k \in DOMAIN more : Follows(more[k].hint, more[k].item)
    <3>1. ASSUME NEW k \in DOMAIN more PROVE Follows(more[k].hint, more[k].item)
      <4>1. CASE k = Len(made.blocks) + 1
        <5>1. more[k] = block
          BY <1>3, <2>4, <4>1
        <5>. QED
          BY <2>2, <5>1
      <4>2. CASE k # Len(made.blocks) + 1
        <5>. HIDE DEF block
        <5>1. k \in DOMAIN made.blocks /\ more[k] = made.blocks[k]
          BY <1>3, <2>4, <4>2, SMTT(20)
        <5>. QED
          BY <5>1 DEF MadeRight
      <4>. QED
        BY <4>1, <4>2
    <3>. QED
      BY <3>1
  <2>. HIDE DEF more
  <2>. QED
    BY <2>1, <2>2, <2>3, <2>5, <2>6 DEF MadeRight, Making
<1>. QED
  BY <1>5, <1>6

(* The loop is as it is written, from the first item on.                    *)
LEMMA MadeSteps ==
  ASSUME NEW items \in Seq(Item)
  PROVE  /\ Made(items)[0] = [path |-> <<>>, blocks |-> <<>>]
         /\ \A n \in Nat : n + 1 \in 1 .. Len(items) =>
              Made(items)[n + 1] = Added(Made(items)[n], items[n + 1], n + 1)
<1>. DEFINE None0 == [path |-> <<>>, blocks |-> <<>>]
            Next1(n, f) == IF n = 0 THEN None0 ELSE Added(f[n - 1], items[n], n)
            S == {m \in Nat : \E f : f = [i \in 0 .. m |-> Next1(i, f)]}
            made == CHOOSE f : f = [n \in 0 .. Len(items) |-> Next1(n, f)]
<1>1. 0 \in S
  <2>. DEFINE f == [i \in 0 .. 0 |-> None0]
  <2>1. f = [i \in 0 .. 0 |-> Next1(i, f)]
    OBVIOUS
  <2>. QED
    BY <2>1
<1>2. ASSUME NEW m \in Nat, m \in S PROVE m + 1 \in S
  <2>1. PICK f : f = [i \in 0 .. m |-> Next1(i, f)]
    BY <1>2
  <2>. DEFINE g == [i \in 0 .. m + 1 |-> IF i = m + 1 THEN Added(f[m], items[m + 1], m + 1) ELSE f[i]]
  <2>2. ASSUME NEW i \in 0 .. m + 1 PROVE g[i] = Next1(i, g)
    <3>1. CASE i = m + 1
      BY <3>1
    <3>2. CASE i \in 0 .. m
      <4>1. f[i] = Next1(i, f)
        BY <2>1, <3>2
      <4>2. i # 0 => g[i - 1] = f[i - 1]
        BY <3>2
      <4>. QED
        BY <3>2, <4>1, <4>2
    <3>. QED
      BY <3>1, <3>2
  <2>3. g = [i \in 0 .. m + 1 |-> Next1(i, g)]
    BY <2>2
  <2>. HIDE DEF g
  <2>4. \E h : h = [i \in 0 .. m + 1 |-> Next1(i, h)]
    BY <2>3
  <2>. QED
    BY <2>4
<1>3. Len(items) \in S
  <2>. HIDE DEF S
  <2>. QED
    BY <1>1, <1>2, SetInduction
<1>4. made = [n \in 0 .. Len(items) |-> Next1(n, made)]
  BY <1>3
<1>5. Made(items) = made
  BY DEF Made
<1>. HIDE DEF made
<1>6. made[0] = None0
  BY <1>4
<1>7. \A n \in Nat : n + 1 \in 1 .. Len(items) => made[n + 1] = Added(made[n], items[n + 1], n + 1)
  <2>1. ASSUME NEW n \in Nat, n + 1 \in 1 .. Len(items)
        PROVE  made[n + 1] = Added(made[n], items[n + 1], n + 1)
    <3>1. n + 1 \in 0 .. Len(items) /\ n + 1 # 0 /\ (n + 1) - 1 = n
      BY <2>1
    <3>2. made[n + 1] = Next1(n + 1, made)
      BY <1>4, <3>1
    <3>. QED
      BY <3>1, <3>2
  <2>. QED
    BY <2>1
<1>. QED
  BY <1>5, <1>6, <1>7

(* Every block of a result is under the heading before it.                  *)
LEMMA BlocksUnderTheirTitles ==
  ASSUME content \in Seq(Item)
  PROVE  \A k \in DOMAIN BlocksOf(content) : UnderItsTitle(BlocksOf(content)[k])
<1>. DEFINE S == {n \in Nat : n \in 0 .. Len(content) => MadeRight(Made(content)[n], n)}
<1>1. 0 \in S
  <2>1. Titles(0) = {}
    BY DEF Titles
  <2>2. Made(content)[0] = [path |-> <<>>, blocks |-> <<>>]
    BY MadeSteps
  <2>3. <<>> \in Seq(Nat) /\ <<>> \in Seq([item : Nat, hint : Seq(Nat)])
    OBVIOUS
  <2>4. MadeRight([path |-> <<>>, blocks |-> <<>>], 0)
    BY <2>1, <2>3 DEF MadeRight, Making, Follows
  <2>. QED
    BY <2>2, <2>4
<1>2. ASSUME NEW n \in Nat, n \in S PROVE n + 1 \in S
  <2>1. SUFFICES ASSUME n + 1 \in 0 .. Len(content) PROVE MadeRight(Made(content)[n + 1], n + 1)
    OBVIOUS
  <2>2. n + 1 \in 1 .. Len(content) /\ n \in 0 .. Len(content)
    BY <2>1
  <2>3. MadeRight(Made(content)[n], n)
    BY <1>2, <2>2
  <2>4. Made(content)[n + 1] = Added(Made(content)[n], content[n + 1], n + 1)
    BY <2>2, MadeSteps
  <2>. QED
    BY <2>2, <2>3, <2>4, AddedRight
<1>3. Len(content) \in S
  <2>. HIDE DEF S
  <2>. QED
    BY <1>1, <1>2, SetInduction
<1>4. MadeRight(Made(content)[Len(content)], Len(content))
  BY <1>3
<1>. QED
  BY <1>4 DEF MadeRight, Follows, BlocksOf, UnderItsTitle

-----------------------------------------------------------------------------
(* Headings depend on the content alone.                                    *)
LEMMA TitlesStay ==
  ASSUME UNCHANGED content
  PROVE  /\ \A block : UnderItsTitle(block)' <=> UnderItsTitle(block)
         /\ UnderTheirTitles' <=> \A n \in DOMAIN parsed' : UnderItsTitle(parsed'[n])
<1>1. \A n : Titles(n)' = Titles(n)
  BY DEF Titles
<1>2. \A block : UnderItsTitle(block)' <=> UnderItsTitle(block)
  BY <1>1 DEF UnderItsTitle
<1>3. UnderTheirTitles' <=> \A n \in DOMAIN parsed' : UnderItsTitle(parsed'[n])
  <2>1. \A b : b = parsed' => (UnderTheirTitles' <=> \A n \in DOMAIN b : UnderItsTitle(b[n]))
    BY <1>1 DEF UnderTheirTitles, UnderItsTitle
  <2>. QED
    BY <2>1
<1>. QED
  BY <1>2, <1>3

(* Every step of the service and of the parser keeps the invariant.         *)
LEMMA ParseStep ==
  ASSUME ParseInv, ParseNext
  PROVE  ParseInv'
<1>1. /\ Timeout \in Nat /\ Interval \in Nat /\ Slow \in Nat
      /\ clock \in Nat /\ doneAt \in Nat /\ begun \in Nat /\ due \in Nat
      /\ content \in Contents /\ content \in Seq(Item)
  BY TimesAssumption, ContentsAssumption DEF ParseInv
<1>2. ASSUME UNCHANGED <<parsed, content>>, parser' = "parsed" => parser = "parsed"
      PROVE  parser' = "parsed" => UnderTheirTitles'
  <2>1. parser' = "parsed" => UnderTheirTitles
    BY <1>2 DEF ParseInv, DoneTaskIsTaken
  <2>. QED
    BY <1>2, <2>1, TitlesStay DEF UnderTheirTitles
<1>3. CASE Tick
  <2>1. /\ clock' = clock + 1 /\ UNCHANGED <<task, doneAt, parser, begun, due, seen, content, parsed>>
        /\ parser # "poll" /\ parser # "timeout" /\ parser # "parsed"
        /\ parser \in {"submit", "asked", "sleep"} => clock < due
    BY <1>3 DEF Tick, Over
  <2>. QED
    BY <1>1, <2>1 DEF ParseInv, DoneTaskIsTaken, NotDoneBefore
<1>4. ASSUME NEW state \in {"running", "done", "failed"}, Work(state) PROVE ParseInv'
  <2>1. /\ task \in {"pending", "running"} /\ task' = state
        /\ doneAt' = IF state = "done" THEN clock ELSE doneAt
        /\ UNCHANGED <<clock, parser, begun, due, seen, content, parsed>>
    BY <1>4 DEF Work
  <2>2. doneAt' \in Nat /\ (task' = "done" => doneAt' = clock)
    BY <1>1, <2>1
  <2>3. DoneTaskIsTaken'
    BY <1>1, <1>2, <2>1, <2>2 DEF ParseInv, DoneTaskIsTaken
  <2>. QED
    BY <1>1, <2>1, <2>2, <2>3 DEF ParseInv, NotDoneBefore
<1>11. CASE Accept
  <2>1. parser = "submit" /\ task' = "pending" /\ UNCHANGED <<clock, doneAt, parser, begun, due, seen, content, parsed>>
    BY <1>11 DEF Accept
  <2>. QED
    BY <1>1, <2>1 DEF ParseInv, DoneTaskIsTaken, NotDoneBefore
<1>5. CASE Submit
  <2>1. /\ parser = "submit" /\ parser' = "poll" /\ begun' = clock
        /\ UNCHANGED <<clock, task, doneAt, due, seen, content, parsed>>
    BY <1>5 DEF Submit
  <2>. QED
    BY <1>1, <2>1 DEF ParseInv, DoneTaskIsTaken, NotDoneBefore
<1>6. CASE Poll
  <2>1. parser = "poll" /\ UNCHANGED <<clock, task, doneAt, begun, seen, content, parsed>>
    BY <1>6 DEF Poll
  <2>2. \/ clock - begun < Timeout /\ parser' = "asked" /\ due' = clock + Slow
        \/ ~(clock - begun < Timeout) /\ parser' = "timeout" /\ due' = due
    BY <1>6 DEF Poll, InTime
  <2>. QED
    BY <1>1, <2>1, <2>2 DEF ParseInv, DoneTaskIsTaken, NotDoneBefore
<1>12. CASE Serve
  <2>1. parser = "asked" /\ seen' = task /\ UNCHANGED <<clock, task, doneAt, parser, begun, due, content, parsed>>
    BY <1>12 DEF Serve
  <2>. QED
    BY <1>1, <2>1 DEF ParseInv, DoneTaskIsTaken, NotDoneBefore
<1>7. CASE Answered
  <2>1. parser = "asked" /\ seen' = "none" /\ UNCHANGED <<clock, task, doneAt, begun, content, parsed>>
    BY <1>7 DEF Answered
  <2>2. \/ parser' = "download" /\ due' = due
        \/ seen \in {"pending", "running"} /\ parser' = "sleep" /\ due' = clock + Interval
        \/ parser' = "failed" /\ due' = due
    BY <1>7 DEF Answered
  <2>. QED
    BY <1>1, <2>1, <2>2 DEF ParseInv, DoneTaskIsTaken, NotDoneBefore
<1>8. CASE Wake
  <2>1. /\ parser = "sleep" /\ clock = due /\ parser' = "poll"
        /\ UNCHANGED <<clock, task, doneAt, begun, due, seen, content, parsed>>
    BY <1>8 DEF Wake
  <2>. QED
    BY <1>1, <2>1 DEF ParseInv, DoneTaskIsTaken, NotDoneBefore
<1>9. CASE ResponseFails
  <2>1. parser' = "failed" /\ UNCHANGED <<clock, task, doneAt, begun, due, content, parsed>>
    BY <1>9 DEF ResponseFails
  <2>. QED
    BY <1>1, <2>1 DEF ParseInv, DoneTaskIsTaken, NotDoneBefore
<1>10. CASE Download
  <2>1. /\ parser' \in {"failed", "parsed"} /\ parsed' = BlocksOf(content)
        /\ UNCHANGED <<clock, task, doneAt, begun, due, content>>
    BY <1>10 DEF Download
  <2>2. \A n \in DOMAIN BlocksOf(content) : UnderItsTitle(BlocksOf(content)[n])
    BY <1>1, BlocksUnderTheirTitles
  <2>3. UnderTheirTitles'
    BY <2>1, <2>2, TitlesStay DEF UnderTheirTitles
  <2>. QED
    BY <1>1, <2>1, <2>3 DEF ParseInv, DoneTaskIsTaken, NotDoneBefore
<1>. QED
  BY <1>3, <1>4, <1>5, <1>6, <1>7, <1>8, <1>9, <1>10, <1>11, <1>12 DEF ParseNext

(* A task that is done one interval and one slow request before the end is  *)
(* not given up, the polling ends, and the blocks of the result stand under *)
(* their headings: for every timeout, interval, delay and result.           *)
THEOREM DoneTasksAreTaken == ParseSpec => []DoneTaskIsTaken
<1>1. ParseInit => ParseInv
  BY TimesAssumption DEF ParseInit, ParseInv, DoneTaskIsTaken, NotDoneBefore
<1>2. ParseInv /\ [ParseNext]_mineruVars => ParseInv'
  <2>1. ASSUME ParseInv, UNCHANGED mineruVars PROVE ParseInv'
    BY <2>1 DEF mineruVars, ParseInv, DoneTaskIsTaken, NotDoneBefore, UnderTheirTitles, UnderItsTitle, Titles
  <2>. QED
    BY <2>1, ParseStep
<1>3. ParseInv => DoneTaskIsTaken
  BY DEF ParseInv
<1>. QED
  BY <1>1, <1>2, <1>3, PTL DEF ParseSpec
=============================================================================
