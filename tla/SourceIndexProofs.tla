------------------------- MODULE SourceIndexProofs -------------------------
(* Theorems about SourceIndex, for every set of handlers, every choice of   *)
(* configurations and every bound: however requests interleave under READ   *)
(* COMMITTED, the first block of an index serves as its lock.               *)
EXTENDS SourceIndex, TLAPS

-----------------------------------------------------------------------------
(* The two tables and the rows of an index. *)

LEMMA TableFacts ==
  /\ Row = BlockRow \cup NodeRow
  /\ BlockRow \cap NodeRow = {}
  /\ Table = {"block", "node"}
  /\ RowsOf("block") = BlockRow /\ RowsOf("node") = NodeRow
  /\ FirstBlock \in BlockRow
  /\ \A t \in Table : RowsOf(t) \subseteq Row
BY FirstBlockAssumption DEF Row, BlockRow, NodeRow, Table, RowsOf, FirstBlock

LEMMA IndexFacts ==
  ASSUME NEW c \in Config
  PROVE  /\ Blocks(c) \subseteq BlockRow
         /\ Nodes(c) \subseteq NodeRow
         /\ Index(c) = Blocks(c) \cup Nodes(c)
         /\ Index(c) \subseteq Row
         /\ Index(c) \cap BlockRow = Blocks(c)
         /\ Index(c) \cap NodeRow = Nodes(c)
         /\ Blocks(c) # {} => FirstBlock \in Blocks(c)
         /\ Nodes(c) # {} => Blocks(c) # {}
<1>1. BlocksOf[c] \subseteq Block /\ NodesOf[c] \subseteq Node
  BY IndexAssumption
<1>2. Blocks(c) \subseteq BlockRow /\ Nodes(c) \subseteq NodeRow
  BY <1>1 DEF Blocks, Nodes, BlockRow, NodeRow
<1>3. Blocks(c) # {} => FirstBlock \in Blocks(c)
  BY FirstBlockAssumption DEF Blocks, FirstBlock
<1>4. Nodes(c) # {} => Blocks(c) # {}
  <2>1. ASSUME Nodes(c) # {} PROVE Blocks(c) # {}
    <3>1. NodesOf[c] # {}
      BY <2>1 DEF Nodes
    <3>2. 1 \in BlocksOf[c]
      BY <3>1, FirstBlockAssumption
    <3>3. <<"block", 1>> \in Blocks(c)
      BY <3>2 DEF Blocks
    <3>4. QED
      BY <3>3
  <2>2. QED
    BY <2>1
<1>5. QED
  BY <1>2, <1>3, <1>4, TableFacts DEF Index

LEMMA AtFacts ==
  ASSUME NEW r \in Request
  PROVE  /\ At(r) = IF r.at = 1 THEN "block" ELSE "node"
         /\ RowsOf(At(r)) = IF r.at = 1 THEN BlockRow ELSE NodeRow
         /\ At(r) \in Table
         /\ r.at = 1 \/ r.at = 2
<1>1. r.at = 1 \/ r.at = 2
  BY DEF Request
<1>2. At(r) = IF r.at = 1 THEN "block" ELSE "node"
  BY <1>1 DEF At, Order
<1>3. QED
  BY <1>1, <1>2, TableFacts

LEMMA IdleFacts ==
  /\ AnyConfig \in Config
  /\ Idle \in Request
  /\ Idle.pc = "idle" /\ Idle.kind = "clear" /\ Idle.gone = {} /\ Idle.made = {} /\ Idle.at = 1
  /\ \A kind \in AllKinds, c \in Config, job \in 0 .. MaxRequests :
       /\ Serve(kind, c, job) \in Request
       /\ Serve(kind, c, job).pc = "check"
       /\ Serve(kind, c, job).kind = kind
       /\ Serve(kind, c, job).config = c
       /\ Serve(kind, c, job).job = job
       /\ Serve(kind, c, job).gone = {} /\ Serve(kind, c, job).made = {}
       /\ Serve(kind, c, job).at = 1
<1>1. AnyConfig \in Config
  BY ConfigAssumption DEF AnyConfig
<1>2. Nothing \in [Row -> 0 .. MaxRequests] /\ 0 \in 0 .. MaxRequests
  BY BoundAssumption DEF Nothing
<1>3. \A kind \in AllKinds, c \in Config, job \in 0 .. MaxRequests :
       /\ Serve(kind, c, job) \in Request
       /\ Serve(kind, c, job).pc = "check"
       /\ Serve(kind, c, job).kind = kind
       /\ Serve(kind, c, job).config = c
       /\ Serve(kind, c, job).job = job
       /\ Serve(kind, c, job).gone = {} /\ Serve(kind, c, job).made = {}
       /\ Serve(kind, c, job).at = 1
  BY <1>2 DEF Serve, Request, PC
<1>4. /\ Idle \in Request
      /\ Idle.pc = "idle" /\ Idle.kind = "clear" /\ Idle.gone = {}
      /\ Idle.made = {} /\ Idle.at = 1
  BY <1>1, <1>2 DEF Idle, Serve, Request, PC, AllKinds
<1>5. QED
  BY <1>1, <1>3, <1>4

(* Only committed rows are deleted, and all of them have a table. *)
LEMMA HeldFacts ==
  /\ \A row \in Row : row \in BlockRow \/ row \in NodeRow
  /\ \A row \in BlockRow : row \in Held("block") <=> rows[row] # 0
  /\ \A row \in NodeRow : row \in Held("node") <=> rows[row] # 0
  /\ Held("block") \subseteq BlockRow /\ Held("node") \subseteq NodeRow
BY TableFacts DEF Held

-----------------------------------------------------------------------------
(* Type correctness, and the invariant in the initial state. *)

THEOREM InitIndex == Init => TypeOK /\ IndexInv
<1>1. SUFFICES ASSUME Init PROVE TypeOK /\ IndexInv
  OBVIOUS
<1>2. \A h \in Handler : req[h] = Idle
  BY <1>1 DEF Init
<1>3. TypeOK
  <2>1. Nothing \in [Row -> 0 .. MaxRequests]
    BY BoundAssumption DEF Nothing
  <2>2. jobs \in [Job -> JobStatus] /\ rows \in [Row -> 0 .. MaxRequests]
    BY <1>1, <2>1 DEF Init, JobStatus
  <2>3. req \in [Handler -> Request]
    BY <1>1, IdleFacts DEF Init
  <2>4. source \in BOOLEAN /\ vectors \subseteq Indexable /\ cleared \in BOOLEAN
    BY <1>1 DEF Init
  <2>5. requests \in 0 .. MaxRequests /\ faults \in 0 .. MaxFaults
    BY <1>1, BoundAssumption DEF Init
  <2>6. QED
    BY <2>2, <2>3, <2>4, <2>5 DEF TypeOK
<1>4. ASSUME NEW h \in Handler PROVE TransactionInv(h) /\ SnapshotInv(h)
  <2>1. req[h] = Idle
    BY <1>2
  <2>2. QED
    BY <2>1, IdleFacts DEF TransactionInv, SnapshotInv, InTransaction, Indexing
<1>5. JobInv
  <2>1. \A row \in Row : rows[row] = 0
    BY <1>1 DEF Init, Nothing
  <2>2. QED
    BY <1>1, <1>2, <2>1, IdleFacts DEF Init, JobInv, Indexing
<1>6. LockInv
  BY <1>2, IdleFacts DEF LockInv, Locked
<1>7. SourceInv
  BY <1>1, <1>2, IdleFacts DEF Init, SourceInv
<1>8. IndexIsWhole
  BY <1>1 DEF Init, IndexIsWhole
<1>9. QED
  BY <1>3, <1>4, <1>5, <1>6, <1>7, <1>8 DEF IndexInv

(* A step after which its handler has no uncommitted rows and no statement  *)
(* under way, and which leaves the committed rows alone.                    *)
LEMMA UnheldStep ==
  ASSUME TypeOK, IndexInv, NEW h \in Handler, NEW r \in Request,
         req' = [req EXCEPT ![h] = r],
         rows' = rows, source' = source,
         jobs' \in [Job -> JobStatus],
         vectors' \subseteq Indexable,
         requests' \in 0 .. MaxRequests, requests <= requests',
         cleared' \in BOOLEAN,
         faults' \in 0 .. MaxFaults,
         r.gone = {}, r.made = {}, r.at = 1,
         r.pc \notin {"lock", "put", "commit"},
         r.pc = "idle" => ~Indexing(r),
         Indexing(r) => /\ r.job \in 1 .. requests'
                        /\ r.job > requests \/ (Indexing(req[h]) /\ r.job = req[h].job),
         r.kind = "stage" /\ r.pc = "see" =>
           source /\ \A g \in Handler : g # h => req[g].pc # "cascade",
         r.pc = "cascade" =>
           /\ source
           /\ \A g \in Handler : g # h => ~SharesSource(g) /\ req[g].pc # "cascade",
         ~source => \A j \in Job : jobs'[j] = "none"
  PROVE  TypeOK' /\ IndexInv'
<1>1. req'[h] = r /\ \A g \in Handler : g # h => req'[g] = req[g]
  BY DEF TypeOK
<1>2. TypeOK'
  BY DEF TypeOK
<1>3. ASSUME NEW g \in Handler PROVE TransactionInv(g)' /\ SnapshotInv(g)'
  <2>1. CASE g = h
    <3>1. req'[g] = r /\ r.pc \notin {"lock", "put", "commit"}
      BY <1>1, <2>1
    <3>2. TransactionInv(g)'
      BY <3>1 DEF TransactionInv, Indexing
    <3>3. SnapshotInv(g)'
      BY <3>1 DEF SnapshotInv
    <3>4. QED
      BY <3>2, <3>3
  <2>2. CASE g # h
    <3>1. req'[g] = req[g]
      BY <1>1, <2>2
    <3>2. QED
      BY <3>1 DEF IndexInv, TransactionInv, SnapshotInv, Owns, Locked, Held, Live
  <2>3. QED
    BY <2>1, <2>2
<1>4. JobInv'
  <2>1. /\ requests \in Nat /\ requests' \in Nat
        /\ \A row \in Row : rows[row] \in Nat
        /\ \A g \in Handler : /\ req[g].job \in Nat
                              /\ \A row \in Row : req[g].seen[row] \in Nat
    BY BoundAssumption DEF TypeOK, Request
  <2>2. \A row \in Row : rows'[row] <= requests'
    BY <2>1 DEF IndexInv, JobInv
  <2>3. \A g \in Handler : req'[g].pc = "lock" =>
          /\ req[g].pc = "lock" /\ req'[g] = req[g]
    BY <1>1
  <2>4. \A g \in Handler : req'[g].pc = "lock" =>
          \A row \in Row : req'[g].seen[row] <= requests'
    BY <2>1, <2>3 DEF IndexInv, JobInv
  <2>5. ASSUME NEW f \in Handler, Indexing(req'[f])
        PROVE  /\ req'[f].job \in 1 .. requests'
               /\ req'[f].job > requests \/ (Indexing(req[f]) /\ req'[f].job = req[f].job)
    BY <1>1, <2>1, <2>5 DEF IndexInv, JobInv
  <2>6. ASSUME NEW f \in Handler, Indexing(req'[f]), NEW row \in Row
        PROVE  rows'[row] # req'[f].job
    BY <2>1, <2>5, <2>6 DEF IndexInv, JobInv
  <2>7. ASSUME NEW f \in Handler, Indexing(req'[f]), NEW g \in Handler,
               req'[g].pc = "lock", NEW row \in Row
        PROVE  req'[g].seen[row] # req'[f].job
    BY <2>1, <2>3, <2>5, <2>7 DEF IndexInv, JobInv
  <2>8. ASSUME NEW f \in Handler, Indexing(req'[f]), NEW g \in Handler,
               g # f, Indexing(req'[g])
        PROVE  req'[g].job # req'[f].job
    <3>1. \A e \in Handler : Indexing(req[e]) => req[e].job <= requests
      BY <2>1 DEF IndexInv, JobInv
    <3>2. ASSUME NEW e \in Handler, e # h, Indexing(req'[e])
          PROVE  req'[e].job # r.job \/ ~Indexing(r)
      <4>1. req'[e] = req[e]
        BY <1>1, <3>2
      <4>2. QED
        BY <2>1, <3>1, <3>2, <4>1 DEF IndexInv, JobInv
    <3>3. CASE f # h /\ g # h
      BY <1>1, <2>8, <3>3 DEF IndexInv, JobInv
    <3>4. CASE f = h \/ g = h
      BY <1>1, <2>8, <3>2, <3>4
    <3>5. QED
      BY <3>3, <3>4
  <2>9. \A f \in Handler : Indexing(req[f])' <=> Indexing(req'[f])
    BY DEF Indexing
  <2>10. QED
    BY <2>2, <2>4, <2>5, <2>6, <2>7, <2>8, <2>9 DEF JobInv
<1>5. LockInv'
  BY <1>1 DEF IndexInv, LockInv, Locked
<1>6. SourceInv'
  <2>1. \A g \in Handler : g # h => (SharesSource(g)' <=> SharesSource(g))
    BY <1>1 DEF SharesSource
  <2>2. SharesSource(h)' => source /\ \A g \in Handler : g # h => req[g].pc # "cascade"
    BY <1>1 DEF SharesSource
  <2>3. \A g \in Handler : req'[g].pc = "cascade" =>
          /\ source
          /\ \A e \in Handler : e # g => ~SharesSource(e)' /\ req'[e].pc # "cascade"
    BY <1>1, <2>1, <2>2 DEF IndexInv, SourceInv
  <2>4. ~source => \A g \in Handler : ~SharesSource(g)'
    BY <2>1, <2>2 DEF IndexInv, SourceInv
  <2>5. QED
    BY <2>3, <2>4 DEF IndexInv, SourceInv
<1>7. IndexIsWhole'
  BY DEF IndexInv, IndexIsWhole, RowsFrom
<1>8. QED
  BY <1>2, <1>3, <1>4, <1>5, <1>6, <1>7 DEF IndexInv

(* A request that ends, in whatever way: an open transaction is rolled back. *)
LEMMA QuitStep ==
  ASSUME TypeOK, IndexInv, NEW h \in Handler,
         req' = [req EXCEPT ![h] = Idle],
         UNCHANGED <<source, rows, received>>,
         jobs' \in [Job -> JobStatus],
         ~source => \A j \in Job : jobs'[j] = "none",
         vectors' \subseteq Indexable,
         faults' \in 0 .. MaxFaults
  PROVE  TypeOK' /\ IndexInv'
<1> DEFINE r == Idle
<1>1. /\ r \in Request /\ r.pc = "idle" /\ r.kind = "clear"
      /\ r.gone = {} /\ r.made = {} /\ r.at = 1
  BY IdleFacts
<1>2. ~Indexing(r)
  BY <1>1 DEF Indexing
<1>3. req' = [req EXCEPT ![h] = r] /\ rows' = rows /\ source' = source
  OBVIOUS
<1>4. /\ requests' \in 0 .. MaxRequests /\ requests <= requests'
      /\ cleared' \in BOOLEAN
  BY BoundAssumption DEF TypeOK, received
<1> HIDE DEF r
<1>5. QED
  BY <1>1, <1>2, <1>3, <1>4, UnheldStep

(* A request that goes on without a transaction, or opens one. *)
LEMMA MoveStep ==
  ASSUME TypeOK, IndexInv, NEW h \in Handler, NEW p \in PC,
         req' = [req EXCEPT ![h].pc = p],
         UNCHANGED <<source, rows, received, faults>>,
         jobs' \in [Job -> JobStatus],
         ~source => \A j \in Job : jobs'[j] = "none",
         vectors' \subseteq Indexable,
         req[h].pc \notin {"idle"} \cup InTransaction,
         p \notin {"idle", "lock", "put", "commit"},
         req[h].kind = "stage" /\ p = "see" =>
           source /\ \A g \in Handler : g # h => req[g].pc # "cascade",
         p = "cascade" =>
           /\ source
           /\ \A g \in Handler : g # h => ~SharesSource(g) /\ req[g].pc # "cascade"
  PROVE  TypeOK' /\ IndexInv'
<1> DEFINE r == [req[h] EXCEPT !.pc = p]
<1>1. req[h] \in Request
  BY DEF TypeOK
<1>2. /\ r \in Request /\ r.pc = p /\ r.kind = req[h].kind
      /\ r.gone = req[h].gone /\ r.made = req[h].made /\ r.at = req[h].at
      /\ r.job = req[h].job
  BY <1>1 DEF Request
<1>3. r.gone = {} /\ r.at = 1 /\ r.made = {}
  BY <1>2 DEF IndexInv, TransactionInv
<1>4. req' = [req EXCEPT ![h] = r] /\ rows' = rows /\ source' = source
  OBVIOUS
<1>5. /\ requests' \in 0 .. MaxRequests /\ requests' = requests /\ requests <= requests'
      /\ cleared' \in BOOLEAN /\ faults' \in 0 .. MaxFaults
  BY BoundAssumption DEF TypeOK, received
<1>6. Indexing(r) => /\ r.job \in 1 .. requests'
                     /\ Indexing(req[h]) /\ r.job = req[h].job
  BY <1>2, <1>5 DEF Indexing, IndexInv, JobInv
<1> HIDE DEF r
<1>7. QED
  BY <1>2, <1>3, <1>4, <1>5, <1>6, UnheldStep, ZenonT(30)

-----------------------------------------------------------------------------
(* One step per action. *)

LEMMA BeginStep ==
  ASSUME TypeOK, IndexInv, NEW h \in Handler, Begin(h)
  PROVE  TypeOK' /\ IndexInv'
<1>1. PICK kind \in Kinds, c \in Config :
        /\ req' = [req EXCEPT ![h] = Serve(kind, c, requests + 1)]
        /\ cleared' = (cleared \/ kind \in {"clear", "remove"})
  BY DEF Begin
<1>2. /\ requests' = requests + 1 /\ requests < MaxRequests
      /\ UNCHANGED <<source, jobs, rows, vectors, faults>>
  BY DEF Begin
<1>3. /\ requests \in Nat /\ requests' \in 0 .. MaxRequests
      /\ requests + 1 \in 0 .. MaxRequests /\ requests + 1 \in 1 .. requests'
      /\ requests <= requests' /\ requests + 1 > requests
  BY <1>2, BoundAssumption DEF TypeOK
<1> DEFINE r == Serve(kind, c, requests + 1)
<1>4. /\ r \in Request /\ r.pc = "check" /\ r.job = requests + 1
      /\ r.gone = {} /\ r.made = {} /\ r.at = 1
  BY <1>3, IdleFacts, KindsAssumption
<1>5. /\ req' = [req EXCEPT ![h] = r] /\ cleared' \in BOOLEAN
      /\ rows' = rows /\ source' = source /\ jobs' \in [Job -> JobStatus]
      /\ vectors' \subseteq Indexable /\ faults' \in 0 .. MaxFaults
      /\ ~source => \A j \in Job : jobs'[j] = "none"
  BY <1>1, <1>2 DEF TypeOK, IndexInv, SourceInv
<1> HIDE DEF r
<1>6. QED
  BY <1>3, <1>4, <1>5, UnheldStep

LEMMA CheckStep ==
  ASSUME TypeOK, IndexInv, NEW h \in Handler, Check(h)
  PROVE  TypeOK' /\ IndexInv'
<1>1. /\ UNCHANGED <<source, jobs, rows, vectors, received, faults>>
      /\ req[h].pc = "check"
      /\ \/ req' = [req EXCEPT ![h] = Idle]
         \/ req' = [req EXCEPT ![h].pc = "create"]
         \/ req' = [req EXCEPT ![h].pc = "vectors"]
  BY DEF Check
<1>2. /\ jobs' \in [Job -> JobStatus] /\ vectors' \subseteq Indexable
      /\ ~source => \A j \in Job : jobs'[j] = "none"
      /\ faults' \in 0 .. MaxFaults
  BY <1>1 DEF TypeOK, IndexInv, SourceInv
<1>3. {"create", "vectors"} \subseteq PC
  BY DEF PC
<1>4. QED
  BY <1>1, <1>2, <1>3, QuitStep, MoveStep DEF InTransaction

LEMMA CreateJobStep ==
  ASSUME TypeOK, IndexInv, NEW h \in Handler, CreateJob(h)
  PROVE  TypeOK' /\ IndexInv'
<1>1. /\ UNCHANGED <<source, rows, vectors, received, faults>>
      /\ req[h].pc = "create" /\ "vectors" \in PC
      /\ vectors' \subseteq Indexable /\ faults' \in 0 .. MaxFaults
  BY DEF CreateJob, PC, TypeOK
<1>2. CASE source
  <2>1. jobs' \in [Job -> JobStatus] /\ req' = [req EXCEPT ![h].pc = "vectors"]
    BY <1>2 DEF CreateJob, TypeOK, JobStatus
  <2>2. QED
    BY <1>1, <1>2, <2>1, MoveStep DEF InTransaction
<1>3. CASE ~source
  <2>1. /\ jobs' = jobs /\ req' = [req EXCEPT ![h] = Idle]
        /\ jobs' \in [Job -> JobStatus] /\ \A j \in Job : jobs'[j] = "none"
    BY <1>3 DEF CreateJob, TypeOK, IndexInv, SourceInv
  <2>2. QED
    BY <1>1, <2>1, QuitStep
<1>4. QED
  BY <1>2, <1>3

(* The collection is written, or its writing fails. *)
LEMMA VectorsStep ==
  ASSUME TypeOK, IndexInv, NEW h \in Handler,
         IndexVectors(h) \/ IndexingFails(h) \/ DeleteVectors(h)
  PROVE  TypeOK' /\ IndexInv'
<1>1. /\ UNCHANGED <<source, jobs, rows, received, faults>>
      /\ req[h].pc = "vectors" /\ req[h] \in Request
  BY DEF IndexVectors, IndexingFails, DeleteVectors, TypeOK
<1>2. /\ jobs' \in [Job -> JobStatus] /\ faults' \in 0 .. MaxFaults
      /\ ~source => \A j \in Job : jobs'[j] = "none"
      /\ {"open", "see", "failed"} \subseteq PC
  BY <1>1 DEF TypeOK, IndexInv, SourceInv, PC
<1>3. vectors' \subseteq Indexable
  BY DEF TypeOK, IndexVectors, IndexingFails, DeleteVectors, Upsert, Remaining
<1>4. \/ req' = [req EXCEPT ![h] = Idle]
      \/ req' = [req EXCEPT ![h].pc = "open"]
      \/ req' = [req EXCEPT ![h].pc = "failed"]
      \/ req' = [req EXCEPT ![h].pc = "see"] /\ req[h].kind # "stage"
  BY DEF IndexVectors, IndexingFails, DeleteVectors, Indexing
<1>5. QED
  BY <1>1, <1>2, <1>3, <1>4, QuitStep, MoveStep DEF InTransaction

LEMMA MarkJobFailedStep ==
  ASSUME TypeOK, IndexInv, NEW h \in Handler, MarkJobFailed(h)
  PROVE  TypeOK' /\ IndexInv'
<1>1. /\ UNCHANGED <<source, rows, vectors, received, faults>>
      /\ req' = [req EXCEPT ![h] = Idle]
      /\ jobs' = [jobs EXCEPT ![req[h].job] =
                    IF jobs[req[h].job] = "none" THEN jobs[req[h].job] ELSE "failed"]
  BY DEF MarkJobFailed
<1>2. jobs' \in [Job -> JobStatus]
  BY <1>1 DEF TypeOK, JobStatus
<1>3. ~source => \A j \in Job : jobs'[j] = "none"
  BY <1>1 DEF TypeOK, IndexInv, SourceInv
<1>4. vectors' \subseteq Indexable /\ faults' \in 0 .. MaxFaults
  BY <1>1 DEF TypeOK
<1>5. QED
  BY <1>1, <1>2, <1>3, <1>4, QuitStep

LEMMA OpenStageStep ==
  ASSUME TypeOK, IndexInv, NEW h \in Handler, OpenStage(h)
  PROVE  TypeOK' /\ IndexInv'
<1>1. /\ UNCHANGED <<source, jobs, rows, vectors, received, faults>>
      /\ req[h].pc = "open" /\ Blockers(h) = {} /\ "see" \in PC
  BY DEF OpenStage, PC
<1>2. /\ jobs' \in [Job -> JobStatus] /\ vectors' \subseteq Indexable
      /\ faults' \in 0 .. MaxFaults
      /\ ~source => \A j \in Job : jobs'[j] = "none"
  BY <1>1 DEF TypeOK, IndexInv, SourceInv
<1>3. \A g \in Handler : g # h => req[g].pc # "cascade"
  BY <1>1 DEF Blockers
<1>4. CASE source
  <2>1. req' = [req EXCEPT ![h].pc = "see"]
    BY <1>4 DEF OpenStage
  <2>2. QED
    BY <1>1, <1>2, <1>3, <1>4, <2>1, MoveStep DEF InTransaction
<1>5. CASE ~source
  <2>1. req' = [req EXCEPT ![h] = Idle]
    BY <1>5 DEF OpenStage
  <2>2. QED
    BY <1>1, <1>2, <2>1, QuitStep
<1>6. QED
  BY <1>4, <1>5

LEMMA LockSourceStep ==
  ASSUME TypeOK, IndexInv, NEW h \in Handler, LockSource(h)
  PROVE  TypeOK' /\ IndexInv'
<1>1. /\ UNCHANGED <<source, jobs, rows, vectors, received, faults>>
      /\ req[h].pc = "source" /\ Blockers(h) = {} /\ "cascade" \in PC
  BY DEF LockSource, PC
<1>2. /\ jobs' \in [Job -> JobStatus] /\ vectors' \subseteq Indexable
      /\ faults' \in 0 .. MaxFaults
      /\ ~source => \A j \in Job : jobs'[j] = "none"
  BY <1>1 DEF TypeOK, IndexInv, SourceInv
<1>3. \A g \in Handler : g # h => ~SharesSource(g) /\ req[g].pc # "cascade"
  BY <1>1 DEF Blockers
<1>4. CASE source
  <2>1. req' = [req EXCEPT ![h].pc = "cascade"]
    BY <1>4 DEF LockSource
  <2>2. QED
    BY <1>1, <1>2, <1>3, <1>4, <2>1, MoveStep DEF InTransaction
<1>5. CASE ~source
  <2>1. req' = [req EXCEPT ![h] = Idle]
    BY <1>5 DEF LockSource
  <2>2. QED
    BY <1>1, <1>2, <2>1, QuitStep
<1>6. QED
  BY <1>4, <1>5

LEMMA StopStep ==
  ASSUME TypeOK, IndexInv, NEW h \in Handler, BreakDeadlock(h) \/ Lost(h)
  PROVE  TypeOK' /\ IndexInv'
<1>1. /\ UNCHANGED <<source, jobs, rows, vectors, received>>
      /\ req' = [req EXCEPT ![h] = Idle]
  BY DEF BreakDeadlock, Lost
<1>2. /\ jobs' \in [Job -> JobStatus] /\ vectors' \subseteq Indexable
      /\ ~source => \A j \in Job : jobs'[j] = "none"
  BY <1>1 DEF TypeOK, IndexInv, SourceInv
<1>3. faults' \in 0 .. MaxFaults
  BY BoundAssumption DEF BreakDeadlock, Lost, TypeOK
<1>4. QED
  BY <1>1, <1>2, <1>3, QuitStep

-----------------------------------------------------------------------------
(* Steps inside a transaction. *)

(* A statement: it changes the locks of its own handler only.               *)
LEMMA StatementStep ==
  ASSUME TypeOK, IndexInv, NEW h \in Handler, NEW r \in Request,
         req' = [req EXCEPT ![h] = r],
         UNCHANGED <<source, jobs, rows, vectors, received, faults>>,
         req[h].pc \in InTransaction, r.pc \in InTransaction,
         r.kind = req[h].kind, r.job = req[h].job,
         TransactionInv(h)', SnapshotInv(h)',
         r.pc = "lock" => \A row \in Row : r.seen[row] \in {0, rows[row]},
         \A g \in Handler : g # h => Locked(g) \cap (r.gone \cup r.made) = {},
         r.made # req[h].made =>
           source /\ \A g \in Handler : g # h => req[g].pc # "cascade"
  PROVE  TypeOK' /\ IndexInv'
<1>1. req'[h] = r /\ \A g \in Handler : g # h => req'[g] = req[g]
  BY DEF TypeOK
<1>2. TypeOK'
  BY DEF TypeOK, received
<1>3. ASSUME NEW g \in Handler PROVE TransactionInv(g)' /\ SnapshotInv(g)'
  <2>1. CASE g = h
    BY <2>1
  <2>2. CASE g # h
    <3>1. req'[g] = req[g]
      BY <1>1, <2>2
    <3>2. QED
      BY <3>1 DEF IndexInv, TransactionInv, SnapshotInv, Owns, Locked, Held, Live
  <2>3. QED
    BY <2>1, <2>2
<1>4. JobInv'
  <2>1. /\ requests' = requests /\ rows' = rows
        /\ \A row \in Row : rows[row] <= requests
        /\ requests \in Nat
    BY BoundAssumption DEF received, IndexInv, JobInv, TypeOK
  <2>2. \A f \in Handler : /\ Indexing(req'[f]) <=> Indexing(req[f])
                           /\ req'[f].job = req[f].job
    BY <1>1 DEF Indexing
  <2>3. \A g \in Handler : req'[g].pc = "lock" => \A row \in Row :
          req'[g].seen[row] \in {0, rows[row]}
            \/ (req[g].pc = "lock" /\ req'[g].seen[row] = req[g].seen[row])
    BY <1>1
  <2>4. ASSUME NEW g \in Handler, req'[g].pc = "lock", NEW row \in Row
        PROVE  req'[g].seen[row] <= requests
    BY <2>1, <2>3, <2>4 DEF IndexInv, JobInv
  <2>5. ASSUME NEW f \in Handler, Indexing(req'[f])
        PROVE  /\ req'[f].job \in 1 .. requests
               /\ \A row \in Row : rows[row] # req'[f].job
               /\ \A g \in Handler : g # f /\ Indexing(req'[g]) => req'[g].job # req'[f].job
    BY <2>2, <2>5 DEF IndexInv, JobInv
  <2>6. ASSUME NEW f \in Handler, Indexing(req'[f]), NEW g \in Handler,
               req'[g].pc = "lock", NEW row \in Row
        PROVE  req'[g].seen[row] # req'[f].job
    <3>1. req'[f].job # 0 /\ req'[f].job # rows[row]
      BY <2>1, <2>5, <2>6
    <3>2. req[g].pc = "lock" => req[g].seen[row] # req'[f].job
      BY <2>2, <2>6 DEF IndexInv, JobInv
    <3>3. QED
      BY <2>3, <2>6, <3>1, <3>2
  <2>7. \A f \in Handler : Indexing(req[f])' <=> Indexing(req'[f])
    BY DEF Indexing
  <2>8. QED
    BY <2>1, <2>4, <2>5, <2>6, <2>7 DEF JobInv
<1>5. LockInv'
  <2>1. /\ Locked(h)' = r.gone \cup r.made
        /\ \A g \in Handler : g # h => Locked(g)' = Locked(g)
    BY <1>1 DEF Locked
  <2>2. QED
    BY <2>1 DEF IndexInv, LockInv
<1>6. SourceInv'
  <2>1. \A g \in Handler : g # h => (SharesSource(g)' <=> SharesSource(g))
    BY <1>1 DEF SharesSource
  <2>2. SharesSource(h)' =>
          SharesSource(h) \/ (source /\ \A g \in Handler : g # h => req[g].pc # "cascade")
    BY <1>1 DEF SharesSource, InTransaction
  <2>3. r.pc # "cascade"
    BY DEF InTransaction
  <2>4. \A g \in Handler : req'[g].pc = "cascade" =>
          /\ g # h /\ source
          /\ \A e \in Handler : e # g => ~SharesSource(e)' /\ req'[e].pc # "cascade"
    BY <1>1, <2>1, <2>2, <2>3 DEF IndexInv, SourceInv
  <2>5. ~source => \A g \in Handler : ~SharesSource(g)'
    BY <2>1, <2>2 DEF IndexInv, SourceInv
  <2>6. QED
    BY <2>4, <2>5 DEF IndexInv, SourceInv
<1>7. IndexIsWhole'
  BY DEF IndexInv, IndexIsWhole, RowsFrom
<1>8. QED
  BY <1>2, <1>3, <1>4, <1>5, <1>6, <1>7 DEF IndexInv

LEMMA OnwardFacts ==
  ASSUME NEW r \in Request
  PROVE  /\ Onward(r) \in Request
         /\ Onward(r).kind = r.kind /\ Onward(r).job = r.job /\ Onward(r).config = r.config
         /\ Onward(r).gone = r.gone /\ Onward(r).made = r.made
         /\ Onward(r).pc = IF r.at = 1 THEN "see" ELSE "commit"
         /\ Onward(r).at = 2
<1>1. CASE r.at = 1
  <2> DEFINE q == [r EXCEPT !.pc = "see"]
             p == [q EXCEPT !.at = 2]
  <2>1. /\ q \in Request /\ q.pc = "see"
        /\ q.kind = r.kind /\ q.job = r.job /\ q.config = r.config
        /\ q.gone = r.gone /\ q.made = r.made
    BY DEF Request, PC
  <2> HIDE DEF q
  <2>2. /\ p \in Request /\ p.pc = "see" /\ p.at = 2
        /\ p.kind = r.kind /\ p.job = r.job /\ p.config = r.config
        /\ p.gone = r.gone /\ p.made = r.made
    BY <2>1 DEF Request
  <2>3. Onward(r) = p
    BY <1>1 DEF Onward, q
  <2> HIDE DEF p
  <2>4. QED
    BY <1>1, <2>2, <2>3
<1>2. CASE r.at # 1
  BY <1>2 DEF Onward, Request, PC
<1>3. QED
  BY <1>1, <1>2

(* delete_by_source takes its snapshot. *)
LEMMA SeeStep ==
  ASSUME TypeOK, IndexInv, NEW h \in Handler, See(h)
  PROVE  TypeOK' /\ IndexInv'
<1> DEFINE seen == [row \in Row |-> IF row \in RowsOf(At(req[h])) THEN rows[row] ELSE 0]
           r == [req[h] EXCEPT !.pc = "lock", !.seen = seen]
<1>1. req[h] \in Request /\ req[h].pc = "see"
  BY DEF TypeOK, See
<1>2. /\ seen \in [Row -> 0 .. MaxRequests]
      /\ \A row \in Row : seen[row] = IF row \in RowsOf(At(req[h])) THEN rows[row] ELSE 0
  BY BoundAssumption DEF TypeOK
<1>3. /\ req' = [req EXCEPT ![h] = r]
      /\ UNCHANGED <<source, jobs, rows, vectors, received, faults>>
  BY DEF See
<1> HIDE DEF seen
<1>4. /\ r \in Request /\ r.pc = "lock" /\ r.seen = seen
      /\ r.kind = req[h].kind /\ r.config = req[h].config /\ r.job = req[h].job
      /\ r.at = req[h].at /\ r.gone = req[h].gone /\ r.made = req[h].made
  BY <1>1, <1>2 DEF Request, PC
<1>5. req'[h] = r
  BY <1>3 DEF TypeOK
<1> HIDE DEF r
<1>6. At(r) = At(req[h]) /\ (Indexing(r) <=> Indexing(req[h]))
  BY <1>4 DEF At, Indexing
<1>7. TransactionInv(h)'
  BY <1>1, <1>3, <1>4, <1>5, <1>6 DEF IndexInv, TransactionInv, Held, InTransaction
<1>8. RowsOf(At(r)) \subseteq Row
  BY <1>4, AtFacts, TableFacts
<1>9. SnapshotInv(h)'
  <2>1. \A row \in RowsOf(At(r)) : rows[row] = r.seen[row]
    BY <1>2, <1>4, <1>6, <1>8
  <2>2. \A row \in Row : r.seen[row] # 0 => row \in RowsOf(At(r))
    BY <1>2, <1>4, <1>6
  <2>3. QED
    BY <1>3, <1>4, <1>5, <2>1, <2>2 DEF SnapshotInv, Held
<1>10. \A g \in Handler : g # h => Locked(g) \cap (r.gone \cup r.made) = {}
  BY <1>4 DEF IndexInv, LockInv, Locked
<1>11. \A row \in Row : r.seen[row] \in {0, rows[row]}
  BY <1>2, <1>4
<1>12. req[h].pc \in InTransaction /\ r.pc \in InTransaction
  BY <1>1, <1>4 DEF InTransaction
<1>13. QED
  BY <1>3, <1>4, <1>7, <1>9, <1>10, <1>11, <1>12, StatementStep

(* What a DELETE finds left of what it has seen is all of a table or        *)
(* nothing.                                                                 *)
LEMMA LiveIsAll ==
  ASSUME TypeOK, IndexInv, NEW h \in Handler, req[h].pc = "lock"
  PROVE  /\ Live(req[h]) \in {{}, Held(At(req[h]))}
         /\ Live(req[h]) \subseteq RowsOf(At(req[h]))
         /\ Owns(h) => Live(req[h]) = Held(At(req[h]))
<1> DEFINE r == req[h]
           t == At(req[h])
<1>1. /\ \A row \in Row : r.seen[row] # 0 => row \in RowsOf(t)
      /\ Live(r) # {} => \A row \in RowsOf(t) : rows[row] = r.seen[row]
      /\ Owns(h) => \A row \in Held(t) : rows[row] = r.seen[row]
  BY DEF IndexInv, SnapshotInv
<1>2. r \in Request /\ t \in Table /\ RowsOf(t) \subseteq Row
  BY AtFacts, TableFacts DEF TypeOK
<1> HIDE DEF r, t
<1>3. Live(r) \subseteq RowsOf(t) /\ Live(r) \subseteq Held(t)
  BY <1>1, <1>2 DEF Live, Held
<1>4. Live(r) # {} => Held(t) \subseteq Live(r)
  BY <1>1, <1>2 DEF Live, Held
<1>5. Owns(h) => Held(t) \subseteq Live(r)
  BY <1>1, <1>2 DEF Live, Held
<1>6. QED
  BY <1>3, <1>4, <1>5 DEF r, t

(* and deletes what is left of it. *)
LEMMA LockStep ==
  ASSUME TypeOK, IndexInv, NEW h \in Handler, Lock(h)
  PROVE  TypeOK' /\ IndexInv'
<1> DEFINE q == req[h]
           live == Live(req[h])
           deleted == [req[h] EXCEPT !.gone = req[h].gone \cup live, !.seen = Nothing]
           r == IF Indexing(req[h]) THEN [deleted EXCEPT !.pc = "put"] ELSE Onward(deleted)
<1>1. q \in Request /\ q.pc = "lock" /\ Blockers(h) = {}
  BY DEF TypeOK, Lock
<1>2. /\ live \in {{}, Held(At(q))} /\ live \subseteq RowsOf(At(q))
      /\ Owns(h) => live = Held(At(q))
  BY <1>1, LiveIsAll
<1>3. /\ At(q) \in Table /\ (q.at = 1 \/ q.at = 2)
      /\ At(q) = IF q.at = 1 THEN "block" ELSE "node"
      /\ RowsOf(At(q)) = IF q.at = 1 THEN BlockRow ELSE NodeRow
      /\ live \subseteq Row
  BY <1>1, <1>2, AtFacts, TableFacts
<1>4. req' = [req EXCEPT ![h] = r] /\ UNCHANGED <<source, jobs, rows, vectors, received, faults>>
  BY DEF Lock
<1>5. TransactionInv(h)
  BY DEF IndexInv
<1> HIDE DEF live
<1>6. /\ deleted \in Request /\ deleted.at = q.at /\ deleted.kind = q.kind
      /\ deleted.gone = q.gone \cup live /\ deleted.made = q.made
      /\ deleted.job = q.job /\ deleted.config = q.config
  <2>1. Nothing \in [Row -> 0 .. MaxRequests]
    BY BoundAssumption DEF Nothing
  <2>2. q.gone \cup live \in SUBSET Row
    BY <1>1, <1>3 DEF Request
  <2>3. QED
    BY <1>1, <2>1, <2>2 DEF Request
<1> HIDE DEF deleted
<1>7. /\ r \in Request /\ r.kind = q.kind /\ r.job = q.job /\ r.config = q.config
      /\ r.gone = q.gone \cup live /\ r.made = q.made
      /\ \/ Indexing(q) /\ r.pc = "put" /\ r.at = q.at
         \/ ~Indexing(q) /\ q.at = 1 /\ r.pc = "see" /\ r.at = 2
         \/ ~Indexing(q) /\ q.at = 2 /\ r.pc = "commit" /\ r.at = 2
  <2>1. CASE Indexing(q)
    <3>1. r = [deleted EXCEPT !.pc = "put"]
      BY <2>1
    <3>2. QED
      BY <1>6, <2>1, <3>1 DEF Request, PC
  <2>2. CASE ~Indexing(q)
    <3>1. r = Onward(deleted)
      BY <2>2
    <3>2. QED
      BY <1>3, <1>6, <2>2, <3>1, OnwardFacts
  <2>3. QED
    BY <2>1, <2>2
<1>8. req'[h] = r
  BY <1>4 DEF TypeOK
<1> HIDE DEF r, q
<1>9. Indexing(r) <=> Indexing(q)
  BY <1>7 DEF Indexing
<1>10. q.gone \cap RowsOf(At(q)) = {}
  BY <1>1, <1>5 DEF TransactionInv, q
<1>11. \A t \in Table : t # At(q) => RowsOf(t) \cap RowsOf(At(q)) = {}
  BY <1>3, TableFacts
<1>12. \A t \in Table : r.gone \cap RowsOf(t) \in {{}, Held(t)}
  <2>1. TAKE t \in Table
  <2>2. q.gone \cap RowsOf(t) \in {{}, Held(t)}
    BY <1>5 DEF TransactionInv, q
  <2>3. CASE t = At(q)
    <3>1. r.gone \cap RowsOf(t) = live
      BY <1>2, <1>7, <1>10, <2>3
    <3>2. QED
      BY <1>2, <2>3, <3>1
  <2>4. CASE t # At(q)
    <3>1. r.gone \cap RowsOf(t) = q.gone \cap RowsOf(t)
      BY <1>2, <1>7, <1>11, <2>4
    <3>2. QED
      BY <2>2, <3>1
  <2>5. QED
    BY <2>3, <2>4
<1>13. r.at = 1 => r.gone \subseteq BlockRow
  BY <1>2, <1>3, <1>5, <1>7 DEF TransactionInv, q
<1>14. r.pc = "see" => r.gone \cap NodeRow = {}
  BY <1>2, <1>3, <1>5, <1>7, TableFacts DEF TransactionInv, q
<1>15. r.made = IF Indexing(r) /\ r.at = 2
                THEN IF r.pc = "commit" THEN Index(r.config) ELSE Blocks(r.config)
                ELSE {}
  BY <1>1, <1>5, <1>7, <1>9 DEF TransactionInv, q
<1>16. \A row \in r.made : rows[row] # 0 => row \in r.gone
  BY <1>5, <1>7 DEF TransactionInv, q
<1>17. TransactionInv(h)'
  <2>1. RowsOf(At(r)) = IF r.at = 1 THEN BlockRow ELSE NodeRow
    BY <1>7, AtFacts
  <2>2. \A t \in Table : Held(t)' = Held(t)
    BY <1>4 DEF Held
  <2>3. QED
    BY <1>4, <1>7, <1>8, <1>9, <1>12, <1>13, <1>14, <1>15, <1>16, <2>1, <2>2
    DEF TransactionInv, InTransaction
<1>18. SnapshotInv(h)'
  <2>1. ASSUME FirstBlock \in r.gone \cup r.made, r.at = 2, r.pc \in {"put", "commit"}
        PROVE  Held("node") \subseteq r.gone
    <3>1. At(q) = "node" /\ live \subseteq NodeRow
      BY <1>2, <1>3, <1>7, <2>1
    <3>2. Owns(h)
      BY <1>7, <2>1, <3>1, TableFacts DEF Owns, Locked, q
    <3>3. QED
      BY <1>2, <1>7, <3>1, <3>2
  <2>2. Held("node")' = Held("node") /\ (Owns(h)' <=> FirstBlock \in r.gone \cup r.made)
    BY <1>4, <1>8 DEF Held, Owns, Locked
  <2>3. QED
    BY <1>7, <1>8, <2>1, <2>2 DEF SnapshotInv
<1>19. ASSUME NEW g \in Handler, g # h PROVE Locked(g) \cap (r.gone \cup r.made) = {}
  <2>1. req[g].gone \cap live = {}
    BY <1>1, <1>19 DEF Blockers, q, live
  <2>2. \A row \in req[g].made : rows[row] # 0 => row \in req[g].gone
    BY DEF IndexInv, TransactionInv
  <2>3. \A row \in live : rows[row] # 0
    BY DEF live, Live
  <2>4. Locked(g) \cap (q.gone \cup q.made) = {}
    BY <1>19 DEF IndexInv, LockInv, Locked, q
  <2>5. QED
    BY <1>7, <2>1, <2>2, <2>3, <2>4 DEF Locked
<1>20. /\ q.pc \in InTransaction /\ r.pc \in InTransaction /\ r.pc # "lock"
       /\ r.made = q.made
  BY <1>1, <1>7 DEF InTransaction
<1>21. QED
  BY <1>4, <1>7, <1>17, <1>18, <1>19, <1>20, StatementStep DEF q

(* The INSERT of replace_for_source. *)
LEMMA PutStep ==
  ASSUME TypeOK, IndexInv, NEW h \in Handler, Put(h)
  PROVE  TypeOK' /\ IndexInv'
<1>1. /\ req[h] \in Request /\ req[h].pc = "put" /\ Blockers(h) = {}
      /\ UNCHANGED <<source, jobs, rows, vectors, received, faults>>
      /\ TransactionInv(h)
  BY DEF TypeOK, Put, IndexInv
<1>2. CASE Refused(h)
  <2>1. req' = [req EXCEPT ![h] = Idle]
    BY <1>2 DEF Put
  <2>2. /\ jobs' \in [Job -> JobStatus] /\ vectors' \subseteq Indexable
        /\ ~source => \A j \in Job : jobs'[j] = "none"
        /\ faults' \in 0 .. MaxFaults
    BY <1>1 DEF TypeOK, IndexInv, SourceInv
  <2>3. QED
    BY <1>1, <2>1, <2>2, QuitStep
<1>3. CASE ~Refused(h)
  <2> DEFINE q == req[h]
             more == Made(req[h])
             put == [req[h] EXCEPT !.made = req[h].made \cup more]
             r == Onward(put)
  <2>1. q \in Request /\ q.pc = "put" /\ Indexing(q) /\ q.config \in Config
    BY <1>1 DEF TransactionInv, Request
  <2>2. /\ q.at = 1 \/ q.at = 2
        /\ RowsOf(At(q)) = IF q.at = 1 THEN BlockRow ELSE NodeRow
    BY <2>1, AtFacts
  <2>3. more = IF q.at = 1 THEN Blocks(q.config) ELSE Nodes(q.config)
    BY <2>1, <2>2, IndexFacts DEF Made
  <2>4. req' = [req EXCEPT ![h] = r]
    BY <1>3 DEF Put
  <2>5. /\ \A row \in more : rows[row] # 0 => row \in q.gone
        /\ more # {} => source
    BY <1>3 DEF Refused
  <2>6. more \subseteq Row
    BY <2>1, <2>3, IndexFacts
  <2>7. q.made = IF q.at = 2 THEN Blocks(q.config) ELSE {}
    BY <1>1, <2>1 DEF TransactionInv
  <2> HIDE DEF more
  <2>8. /\ put \in Request /\ put.at = q.at /\ put.kind = q.kind /\ put.job = q.job
        /\ put.config = q.config /\ put.gone = q.gone /\ put.made = q.made \cup more
    BY <2>1, <2>6 DEF Request
  <2> HIDE DEF put
  <2>9. /\ r \in Request /\ r.kind = q.kind /\ r.job = q.job /\ r.config = q.config
        /\ r.gone = q.gone /\ r.made = q.made \cup more /\ r.at = 2
        /\ r.pc = IF q.at = 1 THEN "see" ELSE "commit"
    BY <2>8, OnwardFacts
  <2>10. req'[h] = r
    BY <2>4 DEF TypeOK
  <2> HIDE DEF r, q
  <2>11. Indexing(r) /\ RowsOf(At(r)) = NodeRow
    BY <2>1, <2>9, AtFacts DEF Indexing
  <2>12. r.made = IF r.pc = "commit" THEN Index(r.config) ELSE Blocks(r.config)
    BY <2>1, <2>2, <2>3, <2>7, <2>9, IndexFacts
  <2>13. r.pc = "see" => r.gone \cap NodeRow = {}
    BY <1>1, <2>2, <2>9, TableFacts DEF TransactionInv, q
  <2>14. \A row \in r.made : rows[row] # 0 => row \in r.gone
    BY <1>1, <2>5, <2>9 DEF TransactionInv, q
  <2>15. \A t \in Table : Held(t)' = Held(t) /\ r.gone \cap RowsOf(t) \in {{}, Held(t)}
    BY <1>1, <2>9 DEF TransactionInv, q, Held
  <2>16. TransactionInv(h)'
    BY <1>1, <2>2, <2>9, <2>10, <2>11, <2>12, <2>13, <2>14, <2>15
    DEF TransactionInv, InTransaction
  <2>17. SnapshotInv(h)'
    <3>1. ASSUME r.pc = "commit", FirstBlock \in r.gone \cup r.made
          PROVE  Held("node") \subseteq r.gone
      <4>1. q.at = 2 /\ more \subseteq NodeRow
        BY <2>1, <2>2, <2>3, <2>9, <3>1, IndexFacts
      <4>2. Owns(h)
        BY <2>9, <3>1, <4>1, TableFacts DEF Owns, Locked, q
      <4>3. QED
        BY <2>1, <2>9, <4>1, <4>2 DEF IndexInv, SnapshotInv, q
    <3>2. Held("node")' = Held("node") /\ (Owns(h)' <=> FirstBlock \in r.gone \cup r.made)
      BY <1>1, <2>10 DEF Held, Owns, Locked
    <3>3. QED
      BY <2>9, <2>10, <3>1, <3>2 DEF SnapshotInv
  <2>18. \A g \in Handler : g # h =>
           /\ Locked(g) \cap more = {}
           /\ more # {} => req[g].pc # "cascade"
    BY <1>1 DEF Blockers, more
  <2>19. \A g \in Handler : g # h => Locked(g) \cap (r.gone \cup r.made) = {}
    BY <2>9, <2>18 DEF IndexInv, LockInv, Locked, q
  <2>20. r.made # q.made => source /\ \A g \in Handler : g # h => req[g].pc # "cascade"
    BY <2>5, <2>9, <2>18
  <2>21. q.pc \in InTransaction /\ r.pc \in InTransaction /\ r.pc # "lock"
    BY <2>1, <2>9 DEF InTransaction
  <2>22. QED
    BY <1>1, <2>4, <2>9, <2>16, <2>17, <2>19, <2>20, <2>21, StatementStep DEF q
<1>4. QED
  BY <1>2, <1>3

-----------------------------------------------------------------------------
(* The owner of the index. *)

(* Where any block is committed, the first one is.                          *)
LEMMA FirstIsHeld ==
  ASSUME TypeOK, IndexIsWhole, Held("block") # {}
  PROVE  FirstBlock \in Held("block")
<1>1. PICK row \in BlockRow : rows[row] # 0
  BY HeldFacts
<1>2. rows # Nothing /\ row \in Row
  BY <1>1, TableFacts DEF Nothing
<1>3. PICK j \in Job, c \in Config :
        /\ \A x \in Row : rows[x] \in {0, j}
        /\ RowsFrom(j) \in {Blocks(c), Index(c)}
  BY <1>2 DEF IndexIsWhole
<1>4. row \in Blocks(c)
  BY <1>1, <1>2, <1>3, IndexFacts DEF RowsFrom
<1>5. FirstBlock \in RowsFrom(j) /\ j # 0
  BY <1>3, <1>4, IndexFacts DEF Job
<1>6. QED
  BY <1>5, HeldFacts, TableFacts DEF RowsFrom

LEMMA OwnerFacts ==
  ASSUME TypeOK, IndexInv, NEW h \in Handler
  PROVE  /\ Owns(h) => Held("block") \subseteq req[h].gone
         /\ ~Owns(h) => req[h].made = {} /\ req[h].gone \cap BlockRow = {}
         /\ \A g \in Handler : g # h /\ Owns(h) => ~Owns(g)
         /\ req[h].gone \subseteq Row
         /\ \A row \in req[h].gone : rows[row] # 0
<1> DEFINE r == req[h]
<1>1. /\ r \in Request /\ r.config \in Config
      /\ r.gone \cap BlockRow \in {{}, Held("block")}
      /\ r.gone \cap NodeRow \in {{}, Held("node")}
      /\ r.made # {} => r.made \in {Blocks(r.config), Index(r.config)}
      /\ \A row \in r.made : rows[row] # 0 => row \in r.gone
  BY TableFacts DEF TypeOK, Request, IndexInv, TransactionInv
<1>2. Held("block") # {} => FirstBlock \in Held("block")
  BY FirstIsHeld DEF IndexInv
<1> HIDE DEF r
<1>3. Owns(h) => Held("block") \subseteq r.gone
  BY <1>1, <1>2, HeldFacts, TableFacts DEF Owns, Locked, r
<1>4. r.gone \cap BlockRow # {} => Owns(h)
  BY <1>1, <1>2, TableFacts DEF Owns, Locked, r
<1>5. r.made # {} => Owns(h)
  <2>1. r.made # {} => FirstBlock \in r.made
    BY <1>1, IndexFacts
  <2>2. QED
    BY <2>1 DEF Owns, Locked, r
<1>6. \A g \in Handler : g # h /\ Owns(h) => ~Owns(g)
  BY DEF IndexInv, LockInv, Owns
<1>7. r.gone \subseteq Row /\ \A row \in r.gone : rows[row] # 0
  BY <1>1, HeldFacts DEF Request
<1>8. QED
  BY <1>3, <1>4, <1>5, <1>6, <1>7 DEF r

(* What a commit makes of the rows: the owner leaves the rows it made and   *)
(* no others, and nobody else has changed any; another handler has at most  *)
(* deleted every node.                                                      *)
LEMMA CommitFacts ==
  ASSUME TypeOK, IndexInv, NEW h \in Handler, req[h].pc = "commit",
         rows' = Committed(h)
  PROVE  \/ /\ Owns(h)
            /\ \A row \in Row : rows'[row] = IF row \in req[h].made THEN req[h].job ELSE 0
            /\ \A g \in Handler : g # h => req[g].gone = {} /\ req[g].made = {}
         \/ /\ ~Owns(h) /\ req[h].made = {}
            /\ \A row \in BlockRow : rows'[row] = rows[row]
            /\ \/ \A row \in NodeRow : rows'[row] = rows[row]
               \/ /\ \A row \in NodeRow : rows'[row] = 0
                  /\ \A g \in Handler : g # h => req[g].gone \cap NodeRow = {}
<1>1. \A row \in Row : rows'[row] = IF row \in req[h].made THEN req[h].job
                                    ELSE IF row \in req[h].gone THEN 0 ELSE rows[row]
  BY DEF Committed
<1>2. /\ req[h].at = 2
      /\ Owns(h) => Held("node") \subseteq req[h].gone
      /\ req[h].gone \cap NodeRow \in {{}, Held("node")}
  BY TableFacts DEF IndexInv, TransactionInv, SnapshotInv
<1>3. \A g \in Handler : g # h => req[g].gone \cap req[h].gone = {}
  BY DEF IndexInv, LockInv, Locked
<1>4. \A g \in Handler : req[g].gone \cap NodeRow \in {{}, Held("node")}
  BY TableFacts DEF IndexInv, TransactionInv
<1>5. CASE Owns(h)
  <2>1. Held("block") \subseteq req[h].gone
    BY <1>5, OwnerFacts
  <2>2. \A row \in Row : rows[row] # 0 => row \in req[h].gone
    BY <1>2, <1>5, <2>1, HeldFacts
  <2>3. ASSUME NEW g \in Handler, g # h PROVE req[g].gone = {} /\ req[g].made = {}
    <3>1. ~Owns(g)
      BY <1>5, <2>3, OwnerFacts
    <3>2. req[g].gone \subseteq req[h].gone
      BY <2>2, OwnerFacts
    <3>3. QED
      BY <1>3, <2>3, <3>1, <3>2, OwnerFacts
  <2>4. QED
    BY <1>1, <1>5, <2>2, <2>3
<1>6. CASE ~Owns(h)
  <2>1. req[h].made = {} /\ req[h].gone \cap BlockRow = {}
    BY <1>6, OwnerFacts
  <2>2. \A row \in BlockRow : rows'[row] = rows[row]
    BY <1>1, <2>1, TableFacts
  <2>3. CASE req[h].gone \cap NodeRow = {}
    <3>1. \A row \in NodeRow : rows'[row] = rows[row]
      BY <1>1, <2>1, <2>3, TableFacts
    <3>2. QED
      BY <1>6, <2>1, <2>2, <3>1
  <2>4. CASE req[h].gone \cap NodeRow = Held("node")
    <3>1. \A row \in NodeRow : rows'[row] = 0
      BY <1>1, <2>1, <2>4, HeldFacts, TableFacts
    <3>2. \A g \in Handler : g # h => req[g].gone \cap NodeRow = {}
      BY <1>3, <1>4, <2>4
    <3>3. QED
      BY <1>6, <2>1, <2>2, <3>1, <3>2
  <2>5. QED
    BY <1>2, <2>3, <2>4
<1>7. QED
  BY <1>5, <1>6

(* COMMIT, after which the handler holds nothing. *)
LEMMA CommitStep ==
  ASSUME TypeOK, IndexInv, NEW h \in Handler, NEW r \in Request,
         req[h].pc = "commit",
         req' = [req EXCEPT ![h] = r],
         rows' = Committed(h),
         UNCHANGED <<source, vectors, received, faults>>,
         jobs' \in [Job -> JobStatus],
         ~source => \A j \in Job : jobs'[j] = "none",
         r.pc \in {"idle", "source"}, ~Indexing(r), r.kind # "stage",
         r.gone = {}, r.made = {}, r.at = 1
  PROVE  TypeOK' /\ IndexInv'
<1>1. req'[h] = r /\ \A g \in Handler : g # h => req'[g] = req[g]
  BY DEF TypeOK
<1>2. \/ /\ Owns(h)
         /\ \A row \in Row : rows'[row] = IF row \in req[h].made THEN req[h].job ELSE 0
         /\ \A g \in Handler : g # h => req[g].gone = {} /\ req[g].made = {}
      \/ /\ ~Owns(h) /\ req[h].made = {}
         /\ \A row \in BlockRow : rows'[row] = rows[row]
         /\ \/ \A row \in NodeRow : rows'[row] = rows[row]
            \/ /\ \A row \in NodeRow : rows'[row] = 0
               /\ \A g \in Handler : g # h => req[g].gone \cap NodeRow = {}
  BY CommitFacts
<1>3. /\ req[h] \in Request /\ req[h].config \in Config /\ req[h].at = 2
      /\ req[h].made = IF Indexing(req[h]) THEN Index(req[h].config) ELSE {}
  BY DEF TypeOK, Request, IndexInv, TransactionInv
<1>4. /\ rows \in [Row -> 0 .. MaxRequests] /\ rows' \in [Row -> 0 .. MaxRequests]
      /\ req[h].job \in 0 .. MaxRequests
      /\ \A row \in Row : rows'[row] \in {0, rows[row], req[h].job}
  BY <1>3, BoundAssumption DEF TypeOK, Committed, Request
<1>5. TypeOK'
  BY <1>4 DEF TypeOK, received
<1>6. \A row \in Row : row \in BlockRow \/ row \in NodeRow
  BY HeldFacts
<1>7. ASSUME NEW g \in Handler, g # h PROVE TransactionInv(g)' /\ SnapshotInv(g)'
  <2>0. PICK q \in Request : q = req[g]
    BY DEF TypeOK
  <2>1. /\ req[g] = q /\ req'[g] = q /\ TransactionInv(g) /\ SnapshotInv(g)
        /\ At(q) \in Table /\ RowsOf(At(q)) \subseteq Row
        /\ At(q) = "block" \/ At(q) = "node"
    BY <2>0, <1>1, <1>7, AtFacts, TableFacts DEF IndexInv
  <2>2. Live(q)' = {row \in Row : q.seen[row] # 0 /\ rows'[row] = q.seen[row]}
    BY DEF Live
  <2>3. (Owns(g)' <=> Owns(g)) /\ q.gone \subseteq Row
    BY <2>1 DEF Owns, Locked, Request
  <2>4. CASE Owns(h)
    <3>1. /\ q.gone = {} /\ q.made = {} /\ ~Owns(g)
          /\ \A row \in Row : rows'[row] = IF row \in req[h].made THEN req[h].job ELSE 0
      BY <2>0, <1>2, <1>7, <2>4, OwnerFacts
    <3>2. TransactionInv(g)'
      BY <2>0, <2>1, <3>1 DEF TransactionInv
    <3>3. q.pc = "lock" => Live(q)' = {}
      <4>1. ASSUME q.pc = "lock", NEW row \in Row, q.seen[row] # 0, rows'[row] = q.seen[row]
            PROVE  FALSE
        <5>1. Indexing(req[h]) /\ q.seen[row] = req[h].job
          BY <1>3, <3>1, <4>1
        <5>2. QED
          BY <2>0, <4>1, <5>1 DEF IndexInv, JobInv
      <4>2. QED
        BY <2>2, <4>1
    <3>4. SnapshotInv(g)'
      BY <2>0, <2>1, <2>3, <3>1, <3>3 DEF SnapshotInv
    <3>5. QED
      BY <3>2, <3>4
  <2>5. CASE ~Owns(h)
    <3>1. /\ \A row \in BlockRow : rows'[row] = rows[row]
          /\ \/ \A row \in NodeRow : rows'[row] = rows[row]
             \/ /\ \A row \in NodeRow : rows'[row] = 0
                /\ q.gone \cap NodeRow = {}
      BY <2>0, <1>2, <1>7, <2>5
    <3>2. \A row \in Row : rows'[row] # 0 => rows'[row] = rows[row]
      BY <1>6, <3>1
    <3>3. q.gone \cap BlockRow \in {{}, Held("block")} /\ q.gone \cap NodeRow \in {{}, Held("node")}
      BY <2>0, <2>1, TableFacts DEF TransactionInv
    <3>4. Held("block")' = Held("block") /\ Held("node")' \subseteq Held("node")
      BY <3>1, <3>2, TableFacts DEF Held
    <3>5. q.gone \cap NodeRow \in {{}, Held("node")'}
      <4>1. CASE \A row \in NodeRow : rows'[row] = rows[row]
        <5>1. Held("node")' = Held("node")
          BY <4>1, TableFacts DEF Held
        <5>2. QED
          BY <3>3, <5>1
      <4>2. CASE q.gone \cap NodeRow = {}
        BY <4>2
      <4>3. QED
        BY <3>1, <4>1, <4>2
    <3>6. \A t \in Table : q.gone \cap RowsOf(t) \in {{}, Held(t)'}
      BY <3>3, <3>4, <3>5, TableFacts
    <3>7. \A row \in q.made : rows'[row] # 0 => row \in q.gone
      <4>1. q.made \subseteq Row
        BY <2>1 DEF Request
      <4>2. QED
        BY <2>0, <2>1, <3>2, <4>1 DEF TransactionInv
    <3>8. TransactionInv(g)'
      BY <2>0, <2>1, <3>6, <3>7 DEF TransactionInv
    <3>9. ASSUME q.pc = "lock"
          PROVE  /\ Live(q)' # {} => \A row \in RowsOf(At(q)) : rows'[row] = q.seen[row]
                 /\ Owns(g) => \A row \in Held(At(q))' : rows'[row] = q.seen[row]
      <4>1. /\ \A row \in Row : q.seen[row] # 0 => row \in RowsOf(At(q))
            /\ Live(q) # {} => \A row \in RowsOf(At(q)) : rows[row] = q.seen[row]
            /\ Owns(g) => \A row \in Held(At(q)) : rows[row] = q.seen[row]
        BY <2>0, <2>1, <3>9 DEF SnapshotInv
      <4>2. \/ \A row \in RowsOf(At(q)) : rows'[row] = rows[row]
            \/ \A row \in RowsOf(At(q)) : rows'[row] = 0
        BY <2>1, <3>1, TableFacts
      <4>3. Live(q)' \subseteq Live(q)
        BY <2>2, <3>2 DEF Live
      <4>4. (\A row \in RowsOf(At(q)) : rows'[row] = 0) => Live(q)' = {}
        BY <2>2, <4>1
      <4>5. Live(q)' # {} => \A row \in RowsOf(At(q)) : rows'[row] = q.seen[row]
        BY <4>1, <4>2, <4>3, <4>4
      <4>6. \A row \in Held(At(q))' : row \in Held(At(q)) /\ rows'[row] = rows[row]
        BY <2>1, <3>2 DEF Held
      <4>7. QED
        BY <4>1, <4>5, <4>6
    <3>10. Owns(g) /\ q.at = 2 /\ q.pc \in {"put", "commit"} => Held("node")' \subseteq q.gone
      BY <2>0, <2>1, <3>4 DEF SnapshotInv
    <3>11. SnapshotInv(g)'
      BY <2>0, <2>1, <2>3, <3>9, <3>10 DEF SnapshotInv
    <3>12. QED
      BY <3>8, <3>11
  <2>6. QED
    BY <2>4, <2>5
<1>8. TransactionInv(h)' /\ SnapshotInv(h)'
  <2>1. TransactionInv(h)'
    BY <1>1 DEF TransactionInv, Indexing
  <2>2. SnapshotInv(h)'
    BY <1>1 DEF SnapshotInv
  <2>3. QED
    BY <2>1, <2>2
<1>9. JobInv'
  <2>1. requests' = requests /\ requests \in Nat
    BY BoundAssumption DEF received, TypeOK
  <2>2. \A row \in Row : rows'[row] \in {0, rows[row]} \/ (Indexing(req[h]) /\ rows'[row] = req[h].job)
    BY <1>2, <1>3, <1>6
  <2>3. \A row \in Row : rows'[row] <= requests
    <3>1. Indexing(req[h]) => req[h].job <= requests
      BY <2>1 DEF IndexInv, JobInv
    <3>2. QED
      BY <2>1, <2>2, <3>1 DEF IndexInv, JobInv
  <2>4. \A f \in Handler : /\ Indexing(req'[f]) => f # h /\ Indexing(req[f]) /\ req'[f] = req[f]
                           /\ req'[f].pc = "lock" => f # h /\ req'[f] = req[f]
    BY <1>1
  <2>5. ASSUME NEW f \in Handler, Indexing(req'[f]), NEW row \in Row
        PROVE  rows'[row] # req'[f].job
    <3>1. /\ req[f].job \in 1 .. requests /\ rows[row] # req[f].job
          /\ Indexing(req[h]) => req[h].job # req[f].job
      BY <2>4, <2>5 DEF IndexInv, JobInv
    <3>2. QED
      BY <2>1, <2>2, <2>4, <2>5, <3>1
  <2>6. ASSUME NEW f \in Handler, Indexing(req'[f])
        PROVE  /\ req'[f].job \in 1 .. requests
               /\ \A g \in Handler :
                    /\ g # f /\ Indexing(req'[g]) => req'[g].job # req'[f].job
                    /\ req'[g].pc = "lock" => \A row \in Row : req'[g].seen[row] # req'[f].job
    BY <2>4, <2>6 DEF IndexInv, JobInv
  <2>7. \A g \in Handler : req'[g].pc = "lock" => \A row \in Row : req'[g].seen[row] <= requests
    BY <2>4 DEF IndexInv, JobInv
  <2>8. \A f \in Handler : Indexing(req[f])' <=> Indexing(req'[f])
    BY DEF Indexing
  <2>9. QED
    BY <2>1, <2>3, <2>5, <2>6, <2>7, <2>8 DEF JobInv
<1>10. LockInv'
  BY <1>1 DEF IndexInv, LockInv, Locked
<1>11. SourceInv'
  <2>1. /\ ~SharesSource(h)'
        /\ \A g \in Handler : g # h => (SharesSource(g)' <=> SharesSource(g))
    BY <1>1 DEF SharesSource
  <2>2. ~source => rows' = Nothing
    <3>1. ASSUME ~source PROVE rows' = Nothing
      <4>1. rows = Nothing /\ req[h].made = {}
        BY <3>1 DEF IndexInv, SourceInv, SharesSource
      <4>2. QED
        BY <4>1 DEF Committed, Nothing
    <3>2. QED
      BY <3>1
  <2>3. \A g \in Handler : req'[g].pc = "cascade" => g # h /\ req'[g] = req[g]
    BY <1>1
  <2>4. \A g \in Handler : req'[g].pc = "cascade" =>
          /\ source
          /\ \A e \in Handler : e # g => ~SharesSource(e)' /\ req'[e].pc # "cascade"
    BY <1>1, <2>1, <2>3 DEF IndexInv, SourceInv
  <2>5. ~source => \A g \in Handler : ~SharesSource(g)'
    BY <2>1 DEF IndexInv, SourceInv
  <2>6. QED
    BY <2>2, <2>4, <2>5 DEF SourceInv
<1>12. IndexIsWhole'
  <2>1. CASE Owns(h)
    <3>1. \A row \in Row : rows'[row] = IF row \in req[h].made THEN req[h].job ELSE 0
      BY <1>2, <2>1
    <3>2. CASE Indexing(req[h])
      <4>1. req[h].job \in Job /\ req[h].job # 0
        BY <3>2, BoundAssumption DEF IndexInv, JobInv, Job, TypeOK
      <4>2. \A row \in Row : rows'[row] \in {0, req[h].job}
        BY <3>1
      <4>3. {row \in Row : rows'[row] = req[h].job} = Index(req[h].config)
        BY <1>3, <3>1, <3>2, <4>1, IndexFacts
      <4>4. PICK j \in Job, c \in Config : j = req[h].job /\ c = req[h].config
        BY <1>3, <4>1
      <4>5. RowsFrom(j)' = Index(c)
        BY <4>3, <4>4 DEF RowsFrom
      <4>6. QED
        BY <4>2, <4>4, <4>5 DEF IndexIsWhole
    <3>3. CASE ~Indexing(req[h])
      <4>1. rows' = Nothing
        BY <1>3, <1>4, <3>1, <3>3 DEF Nothing
      <4>2. QED
        BY <4>1 DEF IndexIsWhole
    <3>4. QED
      BY <3>2, <3>3
  <2>2. CASE ~Owns(h) /\ \A row \in NodeRow : rows'[row] = rows[row]
    <3>1. \A row \in Row : rows'[row] = rows[row]
      BY <1>2, <1>6, <2>2
    <3>2. rows' = rows
      BY <1>4, <3>1
    <3>3. QED
      BY <3>2 DEF IndexInv, IndexIsWhole, RowsFrom
  <2>3. CASE ~Owns(h) /\ \A row \in NodeRow : rows'[row] = 0
    <3>1. \A row \in BlockRow : rows'[row] = rows[row]
      BY <1>2, <2>3
    <3>2. CASE rows = Nothing
      <4>1. \A row \in Row : rows'[row] = 0
        BY <1>6, <2>3, <3>1, <3>2, TableFacts DEF Nothing
      <4>2. rows' = Nothing
        BY <1>4, <4>1 DEF Nothing
      <4>3. QED
        BY <4>2 DEF IndexIsWhole
    <3>3. CASE rows # Nothing
      <4>1. PICK j \in Job, c \in Config :
              /\ \A row \in Row : rows[row] \in {0, j}
              /\ RowsFrom(j) \in {Blocks(c), Index(c)}
        BY <3>3 DEF IndexInv, IndexIsWhole
      <4>2. j # 0
        BY DEF Job
      <4>3. \A row \in Row : rows'[row] = IF row \in BlockRow THEN rows[row] ELSE 0
        BY <1>6, <2>3, <3>1
      <4>4. RowsFrom(j) \cap BlockRow = Blocks(c)
        BY <4>1, IndexFacts
      <4>5. {row \in Row : rows'[row] = j} = {row \in Row : rows[row] = j} \cap BlockRow
        BY <4>2, <4>3
      <4>6. RowsFrom(j)' = Blocks(c)
        BY <4>4, <4>5 DEF RowsFrom
      <4>7. \A row \in Row : rows'[row] \in {0, j}
        BY <4>1, <4>3
      <4>8. QED
        BY <4>6, <4>7 DEF IndexIsWhole
    <3>4. QED
      BY <3>2, <3>3
  <2>4. QED
    BY <1>2, <2>1, <2>2, <2>3
<1>13. QED
  BY <1>5, <1>7, <1>8, <1>9, <1>10, <1>11, <1>12 DEF IndexInv

LEMMA CommitIndexStep ==
  ASSUME TypeOK, IndexInv, NEW h \in Handler, CommitIndex(h)
  PROVE  TypeOK' /\ IndexInv'
<1>1. /\ UNCHANGED <<source, vectors, received, faults>>
      /\ req[h].pc = "commit" /\ Indexing(req[h])
      /\ req' = [req EXCEPT ![h] = Idle]
      /\ vectors' \subseteq Indexable /\ faults' \in 0 .. MaxFaults
  BY DEF CommitIndex, TypeOK
<1>2. req[h].job \in Job
  BY <1>1, BoundAssumption DEF IndexInv, JobInv, Job, TypeOK
<1>3. CASE UNCHANGED <<rows, jobs>>
  <2>1. /\ jobs' \in [Job -> JobStatus]
        /\ ~source => \A j \in Job : jobs'[j] = "none"
    BY <1>3 DEF TypeOK, IndexInv, SourceInv
  <2>2. QED
    BY <1>1, <1>3, <2>1, QuitStep
<1>4. CASE /\ req[h].kind = "job" => jobs[req[h].job] # "none"
           /\ rows' = Committed(h)
           /\ jobs' = [jobs EXCEPT ![req[h].job] = "succeeded"]
  <2>1. source
    <3>1. ASSUME ~source PROVE FALSE
      <4>1. jobs[req[h].job] = "none" /\ ~SharesSource(h)
        BY <1>2, <3>1 DEF IndexInv, SourceInv
      <4>2. QED
        BY <1>1, <1>4, <4>1 DEF Indexing, SharesSource
    <3>2. QED
      BY <3>1
  <2>2. jobs' \in [Job -> JobStatus]
    BY <1>4 DEF TypeOK, JobStatus
  <2>3. ~Indexing(Idle)
    BY IdleFacts DEF Indexing
  <2>4. QED
    BY <1>1, <1>4, <2>1, <2>2, <2>3, IdleFacts, CommitStep
<1>5. QED
  BY <1>3, <1>4 DEF CommitIndex

LEMMA CommitClearStep ==
  ASSUME TypeOK, IndexInv, NEW h \in Handler, CommitClear(h)
  PROVE  TypeOK' /\ IndexInv'
<1>1. /\ UNCHANGED <<source, jobs, vectors, received, faults>>
      /\ req[h].pc = "commit" /\ rows' = Committed(h)
      /\ jobs' \in [Job -> JobStatus]
      /\ ~source => \A j \in Job : jobs'[j] = "none"
  BY DEF CommitClear, TypeOK, IndexInv, SourceInv
<1>2. PICK r : r \in {Idle, [Idle EXCEPT !.kind = "remove", !.pc = "source"]}
               /\ req' = [req EXCEPT ![h] = r]
  BY DEF CommitClear
<1>3. /\ r \in Request /\ r.pc \in {"idle", "source"} /\ r.kind \in {"clear", "remove"}
      /\ r.gone = {} /\ r.made = {} /\ r.at = 1
  <2>1. [Idle EXCEPT !.kind = "remove"] \in Request
    BY IdleFacts DEF Request, AllKinds
  <2>2. [[Idle EXCEPT !.kind = "remove"] EXCEPT !.pc = "source"] \in Request
    BY <2>1 DEF Request, PC
  <2>3. CASE r = Idle
    BY <2>3, IdleFacts
  <2>4. CASE r = [Idle EXCEPT !.kind = "remove", !.pc = "source"]
    <3>1. r = [[Idle EXCEPT !.kind = "remove"] EXCEPT !.pc = "source"]
      BY <2>4
    <3>2. /\ r.pc = "source" /\ r.kind = "remove"
          /\ r.gone = {} /\ r.made = {} /\ r.at = 1
      BY <2>4, IdleFacts DEF Request
    <3>3. QED
      BY <2>2, <3>1, <3>2
  <2>5. QED
    BY <1>2, <2>3, <2>4
<1>4. ~Indexing(r) /\ r.kind # "stage"
  BY <1>3 DEF Indexing
<1>5. QED
  BY <1>1, <1>2, <1>3, <1>4, CommitStep

(* The cascade waits until nobody holds a row, so it rolls nobody's work    *)
(* back and the others find nothing left.                                   *)
LEMMA CascadeStep ==
  ASSUME TypeOK, IndexInv, NEW h \in Handler, Cascade(h)
  PROVE  TypeOK' /\ IndexInv'
<1>1. /\ req[h].pc = "cascade" /\ Blockers(h) = {}
      /\ source' = FALSE /\ rows' = Nothing
      /\ jobs' = [j \in Job |-> "none"]
      /\ req' = [req EXCEPT ![h] = Idle]
      /\ UNCHANGED <<vectors, received, faults>>
  BY DEF Cascade, TypeOK
<1>2. req'[h] = Idle /\ \A g \in Handler : g # h => req'[g] = req[g]
  BY <1>1, IdleFacts DEF TypeOK
<1>3. \A row \in Row : rows'[row] = 0
  BY <1>1 DEF Nothing
<1>4. TypeOK'
  <2>1. Nothing \in [Row -> 0 .. MaxRequests]
    BY BoundAssumption DEF Nothing
  <2>2. jobs' \in [Job -> JobStatus]
    BY <1>1 DEF JobStatus
  <2>3. req' \in [Handler -> Request]
    BY <1>1, IdleFacts DEF TypeOK
  <2>4. QED
    BY <1>1, <2>1, <2>2, <2>3 DEF TypeOK, received
<1>5. ASSUME NEW g \in Handler, g # h
      PROVE  /\ req[g].gone = {} /\ req[g].made = {}
             /\ ~SharesSource(g) /\ req[g].pc # "cascade"
  <2>1. ~SharesSource(g) /\ req[g].pc # "cascade"
    BY <1>1, <1>5 DEF IndexInv, SourceInv
  <2>2. Locked(g) \cap {row \in Row : rows[row] # 0} = {}
    BY <1>1, <1>5 DEF Blockers
  <2>3. req[g].gone \subseteq {row \in Row : rows[row] # 0}
    BY OwnerFacts
  <2>4. QED
    BY <2>1, <2>2, <2>3 DEF Locked, SharesSource
<1>6. ASSUME NEW g \in Handler PROVE TransactionInv(g)' /\ SnapshotInv(g)'
  <2>1. CASE g = h
    <3>1. req'[g] = Idle
      BY <1>2, <2>1
    <3>2. QED
      BY <3>1, IdleFacts DEF TransactionInv, SnapshotInv, InTransaction, Indexing
  <2>2. CASE g # h
    <3>0. PICK q \in Request : q = req[g]
      BY DEF TypeOK
    <3>1. /\ req'[g] = q /\ q.gone = {} /\ q.made = {} /\ TransactionInv(g) /\ SnapshotInv(g)
          /\ RowsOf(At(q)) \subseteq Row
      BY <3>0, <1>2, <1>5, <2>2, AtFacts, TableFacts DEF IndexInv
    <3>2. TransactionInv(g)'
      BY <3>0, <3>1 DEF TransactionInv
    <3>3. Live(q)' = {}
      BY <1>3 DEF Live
    <3>4. ~Owns(g)'
      BY <3>1 DEF Owns, Locked
    <3>5. SnapshotInv(g)'
      BY <3>0, <3>1, <3>3, <3>4 DEF SnapshotInv
    <3>6. QED
      BY <3>2, <3>5
  <2>3. QED
    BY <2>1, <2>2
<1>7. JobInv'
  <2>1. requests' = requests /\ requests \in Nat
    BY <1>1, BoundAssumption DEF received, TypeOK
  <2>2. \A f \in Handler : /\ Indexing(req'[f]) => f # h /\ Indexing(req[f]) /\ req'[f] = req[f]
                           /\ req'[f].pc = "lock" => f # h /\ req'[f] = req[f]
    BY <1>2, IdleFacts DEF Indexing
  <2>3. ASSUME NEW f \in Handler, Indexing(req'[f])
        PROVE  /\ req'[f].job \in 1 .. requests
               /\ \A row \in Row : rows'[row] # req'[f].job
               /\ \A g \in Handler :
                    /\ g # f /\ Indexing(req'[g]) => req'[g].job # req'[f].job
                    /\ req'[g].pc = "lock" => \A row \in Row : req'[g].seen[row] # req'[f].job
    BY <1>3, <2>1, <2>2, <2>3 DEF IndexInv, JobInv
  <2>4. \A f \in Handler : Indexing(req[f])' <=> Indexing(req'[f])
    BY DEF Indexing
  <2>5. \A g \in Handler : req'[g].pc = "lock" => \A row \in Row : req'[g].seen[row] <= requests
    BY <2>2 DEF IndexInv, JobInv
  <2>6. \A row \in Row : rows'[row] <= requests
    BY <1>3, <2>1
  <2>7. QED
    BY <2>1, <2>3, <2>4, <2>5, <2>6 DEF JobInv
<1>8. LockInv'
  BY <1>2, IdleFacts DEF IndexInv, LockInv, Locked
<1>9. SourceInv'
  <2>1. \A g \in Handler : ~SharesSource(g)' /\ req'[g].pc # "cascade"
    BY <1>2, <1>5, IdleFacts DEF SharesSource
  <2>2. QED
    BY <1>1, <2>1 DEF SourceInv
<1>10. IndexIsWhole'
  BY <1>1 DEF IndexIsWhole
<1>11. QED
  BY <1>4, <1>6, <1>7, <1>8, <1>9, <1>10 DEF IndexInv

-----------------------------------------------------------------------------
(* The invariant of every behaviour, and what follows from it. *)

LEMMA IndexStep ==
  ASSUME TypeOK, IndexInv, [Next]_vars
  PROVE  TypeOK' /\ IndexInv'
<1>1. CASE UNCHANGED vars
  <2>1. UNCHANGED <<source, jobs, rows, vectors, req, requests, cleared, faults>>
    BY <1>1 DEF vars, received
  <2>2. \A h \in Handler : TransactionInv(h)' /\ SnapshotInv(h)'
    BY <2>1 DEF IndexInv, TransactionInv, SnapshotInv, Owns, Locked, Held, Live
  <2>3. JobInv' /\ LockInv' /\ SourceInv' /\ IndexIsWhole'
    BY <2>1 DEF IndexInv, JobInv, LockInv, Locked, SourceInv, SharesSource, IndexIsWhole,
                RowsFrom, Indexing
  <2>4. TypeOK'
    BY <2>1 DEF TypeOK
  <2>5. QED
    BY <2>2, <2>3, <2>4 DEF IndexInv
<1>2. CASE Next
  <2>1. PICK h \in Handler :
          \/ Begin(h) \/ Check(h) \/ CreateJob(h) \/ IndexVectors(h) \/ IndexingFails(h)
          \/ MarkJobFailed(h) \/ DeleteVectors(h) \/ OpenStage(h) \/ See(h) \/ Lock(h)
          \/ Put(h) \/ CommitIndex(h) \/ CommitClear(h) \/ LockSource(h) \/ Cascade(h)
          \/ BreakDeadlock(h) \/ Lost(h)
    BY <1>2 DEF Next
  <2>2. QED
    BY <2>1, BeginStep, CheckStep, CreateJobStep, VectorsStep, MarkJobFailedStep,
       OpenStageStep, SeeStep, LockStep, PutStep, CommitIndexStep, CommitClearStep,
       LockSourceStep, CascadeStep, StopStep
<1>3. QED
  BY <1>1, <1>2

(* In every behaviour the transactions delete whole tables, know what they  *)
(* have seen of them and own the index alone while they change it.          *)
THEOREM IndexInvariant == Spec => [](TypeOK /\ IndexInv)
<1>1. Init => TypeOK /\ IndexInv
  BY InitIndex
<1>2. (TypeOK /\ IndexInv) /\ [Next]_vars => (TypeOK /\ IndexInv)'
  BY IndexStep
<1>3. QED
  BY <1>1, <1>2, PTL DEF Spec

(* Every variable keeps its type whatever the requests do to the source.    *)
THEOREM IndexTypeCorrect == Spec => []TypeOK
BY IndexInvariant, PTL

(* Whatever requests replace, clear and remove the index at the same time,  *)
(* the committed rows are always those of one job, and its nodes never come *)
(* without its blocks.                                                      *)
THEOREM IndexIsAlwaysWhole == Spec => []IndexIsWhole
<1>1. TypeOK /\ IndexInv => IndexIsWhole
  BY DEF IndexInv
<1>2. QED
  BY <1>1, IndexInvariant, PTL

(* A job becomes succeeded only when its own commit leaves exactly its own  *)
(* rows as the index of the source.                                         *)
THEOREM SucceededJobsAreTheIndex == Spec => SucceededJobIsTheIndex
<1>1. ASSUME TypeOK, IndexInv, [Next]_vars PROVE [SucceedsWhole]_vars
  <2>1. SUFFICES ASSUME Next, NEW h \in Handler, Indexing(req[h]),
                        jobs[req[h].job] # "succeeded", jobs'[req[h].job] = "succeeded",
                        BlocksOf[req[h].config] # {}
                 PROVE  \A row \in Row :
                          rows'[row] = IF row \in Index(req[h].config) THEN req[h].job ELSE 0
    BY <1>1 DEF SucceedsWhole
  <2>2. req[h].job \in Job /\ req[h].config \in Config
    BY <1>1, <2>1, BoundAssumption DEF IndexInv, JobInv, Job, TypeOK, Request
  <2>3. PICK g \in Handler :
          \/ UNCHANGED jobs
          \/ CreateJob(g) \/ MarkJobFailed(g) \/ CommitIndex(g) \/ Cascade(g)
    BY <2>1 DEF Next, Begin, Check, IndexVectors, IndexingFails, DeleteVectors, OpenStage,
                See, Lock, Put, CommitClear, LockSource, BreakDeadlock, Lost
  <2>4. jobs \in [Job -> JobStatus]
    BY <1>1 DEF TypeOK
  <2>5. ~UNCHANGED jobs
    BY <2>1
  <2>6. ~CreateJob(g)
    BY <2>1, <2>2, <2>4 DEF CreateJob
  <2>7. ~MarkJobFailed(g)
    BY <2>1, <2>2, <2>4 DEF MarkJobFailed
  <2>8. ~Cascade(g)
    BY <2>1, <2>2, <2>4 DEF Cascade
  <2>9. /\ req[g].pc = "commit" /\ Indexing(req[g]) /\ rows' = Committed(g)
        /\ jobs' = [jobs EXCEPT ![req[g].job] = "succeeded"]
    BY <2>3, <2>5, <2>6, <2>7, <2>8 DEF CommitIndex
  <2>10. g = h
    <3>1. req[g].job = req[h].job
      BY <2>1, <2>2, <2>4, <2>9
    <3>2. QED
      BY <1>1, <2>1, <2>9, <3>1 DEF IndexInv, JobInv
  <2>11. req[h].made = Index(req[h].config)
    BY <1>1, <2>1, <2>9, <2>10 DEF IndexInv, TransactionInv
  <2>12. Owns(h)
    <3>1. PICK b : b \in BlocksOf[req[h].config]
      BY <2>1
    <3>2. FirstBlock \in Index(req[h].config)
      BY <2>2, <3>1, FirstBlockAssumption DEF FirstBlock, Blocks, Index
    <3>3. QED
      BY <2>11, <3>2 DEF Owns, Locked
  <2>13. \A row \in Row : rows'[row] = IF row \in req[h].made THEN req[h].job ELSE 0
    BY <1>1, <2>9, <2>10, <2>12, CommitFacts
  <2>14. QED
    BY <2>11, <2>13
<1>2. QED
  BY <1>1, IndexInvariant, PTL DEF Spec, SucceededJobIsTheIndex

-----------------------------------------------------------------------------
(* The points of the nodes. *)

(* A step of a request that indexes takes no point away and does not change *)
(* what it indexes; it goes past the collection only with its points there. *)
LEMMA PointsStep ==
  ASSUME TypeOK, IndexInv, PointsInv, ~cleared', NEW h \in Handler,
         \/ Begin(h) \/ Check(h) \/ CreateJob(h) \/ IndexVectors(h) \/ IndexingFails(h)
         \/ MarkJobFailed(h) \/ DeleteVectors(h) \/ OpenStage(h) \/ See(h) \/ Lock(h)
         \/ Put(h) \/ CommitIndex(h) \/ CommitClear(h) \/ LockSource(h) \/ Cascade(h)
         \/ BreakDeadlock(h) \/ Lost(h)
  PROVE  /\ ~cleared /\ vectors \subseteq vectors'
         /\ \E r \in Request :
              /\ req' = [req EXCEPT ![h] = r]
              /\ r.pc # "idle" => Indexing(r)
              /\ r.pc \in {"open"} \cup InTransaction =>
                   NodesOf[r.config] \cap Indexable \subseteq vectors'
<1>0. PICK q \in Request : q = req[h]
  BY DEF TypeOK
<1>1. ~cleared
  BY DEF Begin, Check, CreateJob, IndexVectors, IndexingFails, MarkJobFailed, DeleteVectors,
         OpenStage, See, Lock, Put, CommitIndex, CommitClear, LockSource, Cascade,
         BreakDeadlock, Lost, received
<1>2. /\ q.pc # "idle" => Indexing(q)
      /\ q.pc \in {"open"} \cup InTransaction => NodesOf[q.config] \cap Indexable \subseteq vectors
  BY <1>0, <1>1 DEF PointsInv
<1>3. TypeOK'
  <2>1. [Next]_vars
    BY DEF Next
  <2>2. QED
    BY <2>1, IndexStep
<1>4. req'[h] \in Request /\ req' = [req EXCEPT ![h] = req'[h]]
  <2>1. \A g \in Handler : g # h => req'[g] = req[g]
    BY DEF TypeOK, Begin, Check, CreateJob, IndexVectors, IndexingFails, MarkJobFailed,
           DeleteVectors, OpenStage, See, Lock, Put, CommitIndex, CommitClear, LockSource,
           Cascade, BreakDeadlock, Lost
  <2>2. QED
    BY <1>3, <2>1 DEF TypeOK
<1>5. CASE Begin(h)
  <2>1. PICK kind \in Kinds, c \in Config :
          /\ req'[h] = Serve(kind, c, requests + 1)
          /\ cleared' = (cleared \/ kind \in {"clear", "remove"})
    BY <1>5 DEF Begin, TypeOK
  <2>2. kind \in {"job", "stage"} /\ vectors' = vectors
    BY <1>5, <2>1, KindsAssumption DEF AllKinds, Begin
  <2>3. requests + 1 \in 0 .. MaxRequests
    BY <1>5, BoundAssumption DEF Begin, TypeOK
  <2>4. req'[h].pc = "check" /\ req'[h].kind = kind
    BY <2>1, <2>3, IdleFacts, KindsAssumption
  <2>5. QED
    BY <1>1, <1>4, <2>2, <2>4 DEF Indexing, InTransaction
<1>6. CASE req'[h] = Idle
  <2>1. vectors \subseteq vectors'
    BY <1>0, <1>2 DEF Begin, Check, CreateJob, IndexVectors, IndexingFails, MarkJobFailed,
           DeleteVectors, OpenStage, See, Lock, Put, CommitIndex, CommitClear, LockSource,
           Cascade, BreakDeadlock, Lost, Upsert
  <2>2. QED
    BY <1>1, <1>4, <1>6, <2>1, IdleFacts DEF InTransaction
<1>7. CASE IndexVectors(h) \/ IndexingFails(h)
  <2>1. /\ vectors \subseteq vectors'
        /\ IndexVectors(h) => NodesOf[q.config] \cap Indexable \subseteq vectors'
    BY <1>0, <1>7 DEF IndexVectors, IndexingFails, Upsert
  <2>2. /\ req'[h].pc # "idle" => req'[h].kind = q.kind /\ Indexing(q)
        /\ req'[h].pc \in {"open"} \cup InTransaction =>
             IndexVectors(h) /\ req'[h].config = q.config
    BY <1>0, <1>7, IdleFacts DEF IndexVectors, IndexingFails, InTransaction, TypeOK, Request
  <2>3. QED
    BY <1>1, <1>4, <2>1, <2>2 DEF Indexing
<1>8. CASE /\ req'[h] # Idle
           /\ \/ Check(h) \/ CreateJob(h) \/ OpenStage(h) \/ See(h) \/ Lock(h) \/ Put(h)
              \/ LockSource(h)
  <2>1. /\ req'[h].kind = q.kind /\ req'[h].config = q.config /\ vectors' = vectors
        /\ q.pc # "idle"
        /\ req'[h].pc \in InTransaction => q.pc \in {"open"} \cup InTransaction
        /\ req'[h].pc # "open"
    <3>1. CASE Lock(h)
      BY <1>0, <1>8, <3>1 DEF Lock, Onward, InTransaction, TypeOK, Request
    <3>2. CASE Put(h)
      BY <1>0, <1>8, <3>2 DEF Put, Onward, InTransaction, TypeOK, Request
    <3>3. CASE See(h)
      BY <1>0, <1>8, <3>3 DEF See, InTransaction, TypeOK, Request
    <3>4. CASE Check(h) \/ CreateJob(h) \/ OpenStage(h) \/ LockSource(h)
      BY <1>0, <1>8, <3>4 DEF Check, CreateJob, OpenStage, LockSource, InTransaction,
                              TypeOK, Request
    <3>5. QED
      BY <1>8, <3>1, <3>2, <3>3, <3>4
  <2>2. QED
    BY <1>1, <1>2, <1>4, <2>1 DEF Indexing
<1>9. ~CommitClear(h) /\ ~DeleteVectors(h)
  BY <1>0, <1>2 DEF CommitClear, DeleteVectors
<1>10. MarkJobFailed(h) \/ CommitIndex(h) \/ Cascade(h) \/ BreakDeadlock(h) \/ Lost(h)
       => req'[h] = Idle
  BY DEF TypeOK, MarkJobFailed, CommitIndex, Cascade, BreakDeadlock, Lost
<1>11. QED
  BY <1>5, <1>6, <1>7, <1>8, <1>9, <1>10

(* As long as an index is only replaced, every committed node that is to be *)
(* found has its point, whichever of several requests wins.                 *)
THEOREM NodesAreAlwaysSearchable == Spec => []NodesAreSearchable
<1>1. Init => PointsInv /\ NodesAreSearchable
  <2>1. ASSUME Init PROVE PointsInv /\ NodesAreSearchable
    <3>1. \A h \in Handler : req[h].pc = "idle"
      BY <2>1, IdleFacts DEF Init
    <3>2. \A n \in Indexable : <<"node", n>> \in Row
      BY IndexAssumption, TableFacts DEF NodeRow
    <3>3. \A n \in Indexable : rows[<<"node", n>>] = 0
      BY <2>1, <3>2 DEF Init, Nothing
    <3>4. QED
      BY <3>1, <3>3 DEF PointsInv, NodesAreSearchable, InTransaction
  <2>2. QED
    BY <2>1
<1>2. ASSUME TypeOK, IndexInv, PointsInv, NodesAreSearchable, [Next]_vars
      PROVE  PointsInv' /\ NodesAreSearchable'
  <2>1. CASE UNCHANGED vars
    BY <1>2, <2>1 DEF vars, received, PointsInv, NodesAreSearchable, Indexing
  <2>2. CASE Next
    <3>1. SUFFICES ASSUME ~cleared' PROVE PointsInv' /\ NodesAreSearchable'
      BY DEF PointsInv, NodesAreSearchable
    <3>2. PICK h \in Handler :
            \/ Begin(h) \/ Check(h) \/ CreateJob(h) \/ IndexVectors(h) \/ IndexingFails(h)
            \/ MarkJobFailed(h) \/ DeleteVectors(h) \/ OpenStage(h) \/ See(h) \/ Lock(h)
            \/ Put(h) \/ CommitIndex(h) \/ CommitClear(h) \/ LockSource(h) \/ Cascade(h)
            \/ BreakDeadlock(h) \/ Lost(h)
      BY <2>2 DEF Next
    <3>3. ~cleared /\ vectors \subseteq vectors'
      BY <1>2, <3>1, <3>2, PointsStep
    <3>4. PICK r \in Request :
            /\ req' = [req EXCEPT ![h] = r]
            /\ r.pc # "idle" => Indexing(r)
            /\ r.pc \in {"open"} \cup InTransaction =>
                 NodesOf[r.config] \cap Indexable \subseteq vectors'
      BY <1>2, <3>1, <3>2, PointsStep
    <3>5. PointsInv'
      <4>1. ASSUME NEW g \in Handler
            PROVE  /\ req'[g].pc # "idle" => Indexing(req'[g])
                   /\ req'[g].pc \in {"open"} \cup InTransaction =>
                        NodesOf[req'[g].config] \cap Indexable \subseteq vectors'
        BY <1>2, <3>3, <3>4 DEF TypeOK, PointsInv
      <4>2. QED
        BY <4>1 DEF PointsInv, Indexing
    <3>6. ASSUME NEW n \in Indexable, rows'[<<"node", n>>] # 0 PROVE n \in vectors'
      <4>1. <<"node", n>> \in Row
        BY IndexAssumption, TableFacts DEF NodeRow
      <4>2. \/ rows' = rows \/ rows' = Nothing
            \/ rows' = Committed(h) /\ req[h].pc = "commit"
        BY <3>2 DEF Begin, Check, CreateJob, IndexVectors, IndexingFails, MarkJobFailed,
             DeleteVectors, OpenStage, See, Lock, Put, CommitIndex, CommitClear, LockSource,
             Cascade, BreakDeadlock, Lost
      <4>3. CASE rows[<<"node", n>>] # 0
        BY <1>2, <3>3, <4>3 DEF NodesAreSearchable
      <4>4. CASE rows[<<"node", n>>] = 0
        <5>1. rows' = Committed(h) /\ req[h].pc = "commit" /\ <<"node", n>> \in req[h].made
          BY <3>6, <4>1, <4>2, <4>4 DEF Committed, Nothing
        <5>2. req[h].made = Index(req[h].config)
          BY <1>2, <5>1 DEF IndexInv, TransactionInv
        <5>3. n \in NodesOf[req[h].config]
          BY <5>1, <5>2 DEF Index, Nodes, Blocks
        <5>4. NodesOf[req[h].config] \cap Indexable \subseteq vectors
          BY <1>2, <3>3, <5>1 DEF PointsInv, InTransaction
        <5>5. QED
          BY <3>3, <5>3, <5>4
      <4>5. QED
        BY <4>3, <4>4
    <3>7. QED
      BY <3>5, <3>6 DEF NodesAreSearchable
  <2>3. QED
    BY <1>2, <2>1, <2>2
<1>3. QED
  BY <1>1, <1>2, IndexInvariant, PTL DEF Spec

-----------------------------------------------------------------------------
(* Deadlocks. *)

(* Without a cascade, a handler that waits and is waited for is in the      *)
(* middle of a replacement or a deletion,                                   *)
LEMMA WaitingIsInTransaction ==
  ASSUME TypeOK, IndexInv, \A g \in Handler : req[g].pc # "cascade",
         NEW h \in Handler, Blockers(h) # {},
         NEW w \in Handler, h \in Blockers(w)
  PROVE  req[h].pc \in {"lock", "put"}
<1>1. req[h].pc \in {"lock", "put", "source"}
  BY DEF Blockers
<1>2. req[h].gone # {} \/ req[h].made # {} \/ SharesSource(h)
  BY DEF Blockers, Locked
<1>3. TransactionInv(h)
  BY DEF IndexInv
<1>4. req[h].pc # "source"
  BY <1>2, <1>3 DEF TransactionInv, InTransaction, SharesSource
<1>5. QED
  BY <1>1, <1>4

(* and if the other one is too, it has the index: the deletion of nodes     *)
(* alone never waits after it has some.                                     *)
LEMMA WaitingOwns ==
  ASSUME TypeOK, IndexInv, \A g \in Handler : req[g].pc # "cascade",
         NEW h \in Handler, Blockers(h) # {},
         NEW w \in Handler, h \in Blockers(w), req[w].pc \in {"lock", "put"}
  PROVE  Owns(h)
<1>0. PICK q \in Request : q = req[h]
  BY DEF TypeOK
<1>1. q.pc \in {"lock", "put"}
  BY <1>0, WaitingIsInTransaction
<1>2. q.gone # {} \/ q.made # {}
  BY <1>0 DEF Blockers, Locked
<1>3. /\ q.config \in Config
      /\ RowsOf(At(q)) = IF q.at = 1 THEN BlockRow ELSE NodeRow
      /\ q.at = 1 \/ q.at = 2
  BY AtFacts DEF Request
<1>4. SUFFICES ASSUME ~Owns(h) PROVE FALSE
  OBVIOUS
<1>5. q.made = {} /\ q.gone \cap BlockRow = {} /\ q.gone \subseteq Row
  BY <1>0, <1>4, OwnerFacts
<1>6. /\ q.at = 1 => q.gone \subseteq BlockRow
      /\ q.pc = "lock" => q.gone \cap RowsOf(At(q)) = {}
      /\ q.pc = "put" => Indexing(q)
      /\ q.made = IF Indexing(q) /\ q.at = 2 THEN Blocks(q.config) ELSE {}
  BY <1>0, <1>1 DEF IndexInv, TransactionInv
<1>7. q.at = 2 /\ q.gone \cap NodeRow # {}
  BY <1>2, <1>3, <1>5, <1>6, TableFacts
<1>8. q.pc = "put" /\ Blocks(q.config) = {}
  BY <1>1, <1>3, <1>5, <1>6, <1>7
<1>9. Made(q) = {}
  BY <1>3, <1>7, <1>8, IndexFacts DEF Made
<1>10. QED
  BY <1>0, <1>8, <1>9 DEF Blockers

(* Requests only ever wait for each other in a circle while one of them is  *)
(* removing the source: replacing and clearing an index cannot deadlock.    *)
THEOREM OnlyRemovalsDeadlock == Spec => []OnlyRemovalDeadlocks
<1>1. ASSUME TypeOK, IndexInv PROVE OnlyRemovalDeadlocks
  <2>1. SUFFICES ASSUME NEW h \in Handler, Deadlocked(h),
                        \A g \in Handler : req[g].pc # "cascade"
                 PROVE  FALSE
    BY DEF OnlyRemovalDeadlocks
  <2>2. PICK S \in SUBSET Handler :
          /\ h \in S
          /\ \A g \in S : /\ Blockers(g) \cap S # {}
                          /\ \E w \in S : g \in Blockers(w)
    BY <2>1 DEF Deadlocked
  <2>3. \A g \in S : req[g].pc \in {"lock", "put"}
    BY <1>1, <2>1, <2>2, WaitingIsInTransaction
  <2>4. \A g \in S : Owns(g)
    BY <1>1, <2>1, <2>2, <2>3, WaitingOwns
  <2>5. PICK g \in S : g \in Blockers(h)
    BY <2>2
  <2>6. g # h
    BY <2>2, <2>3, <2>5 DEF Blockers
  <2>7. QED
    BY <1>1, <2>2, <2>4, <2>6, OwnerFacts
<1>2. QED
  BY <1>1, IndexInvariant, PTL

-----------------------------------------------------------------------------
(* Removal. *)

(* Requests are served one at a time. *)
OneAtATime == \A g, h \in Handler : g = h

(* Only the start of a request that indexes, which finds the source, gets   *)
(* past its check and to the collection.                                    *)
LEMMA RemovalStep ==
  ASSUME OneAtATime, TypeOK, IndexInv, RemovalInv, [Next]_vars
  PROVE  RemovalInv'
<1>1. CASE UNCHANGED vars
  BY <1>1 DEF vars, received, RemovalInv, Indexing
<1>2. CASE Next
  <2>1. PICK h \in Handler :
          \/ Begin(h) \/ Check(h) \/ CreateJob(h) \/ IndexVectors(h) \/ IndexingFails(h)
          \/ MarkJobFailed(h) \/ DeleteVectors(h) \/ OpenStage(h) \/ See(h) \/ Lock(h)
          \/ Put(h) \/ CommitIndex(h) \/ CommitClear(h) \/ LockSource(h) \/ Cascade(h)
          \/ BreakDeadlock(h) \/ Lost(h)
    BY <1>2 DEF Next
  <2>2. \A g \in Handler : g = h
    BY DEF OneAtATime
  <2>3. PICK q \in Request : q = req[h]
    BY DEF TypeOK
  <2>4. /\ ~Indexing(q) /\ q.pc \notin {"idle", "check", "vectors"} => vectors = {}
        /\ q.pc \in {"source", "cascade"} => ~Indexing(q)
        /\ ~source => vectors = {} /\ q.pc \in {"idle", "check"}
    BY <2>3 DEF RemovalInv
  <2>5. SUFFICES /\ ~Indexing(req'[h]) /\ req'[h].pc \notin {"idle", "check", "vectors"} =>
                      vectors' = {}
                 /\ req'[h].pc \in {"source", "cascade"} => ~Indexing(req'[h])
                 /\ ~source' => vectors' = {} /\ req'[h].pc \in {"idle", "check"}
    BY <2>2 DEF RemovalInv, Indexing
  <2>6. CASE Begin(h)
    <3>1. req'[h].pc = "check" /\ vectors' = vectors /\ source' = source
      BY <2>6 DEF Begin, TypeOK, Serve
    <3>2. QED
      BY <2>4, <3>1
  <2>7. CASE req'[h] = Idle
    <3>1. ~source' => vectors' = {}
      BY <2>1, <2>3, <2>4, <2>7 DEF Begin, Check, CreateJob, IndexVectors, IndexingFails,
           MarkJobFailed, DeleteVectors, OpenStage, See, Lock, Put, CommitIndex, CommitClear,
           LockSource, Cascade, BreakDeadlock, Lost, Remaining
    <3>2. QED
      BY <2>7, <3>1, IdleFacts
  <2>8. CASE /\ req'[h] # Idle
             /\ \/ Check(h) \/ CreateJob(h) \/ IndexVectors(h) \/ IndexingFails(h)
                \/ OpenStage(h) \/ LockSource(h)
    <3>1. /\ req'[h].kind = q.kind /\ source
          /\ vectors' = vectors \/ Indexing(q)
          /\ q.pc \in {"idle", "check", "vectors"} /\ ~Indexing(q) =>
               req'[h].pc \in {"idle", "check", "vectors"}
          /\ req'[h].pc \in {"source", "cascade"} => q.pc \in {"source", "cascade"}
      BY <2>3, <2>4, <2>8 DEF Check, CreateJob, IndexVectors, IndexingFails, OpenStage,
                              LockSource, TypeOK, Request, Indexing
    <3>2. source' = source
      BY <2>8 DEF Check, CreateJob, IndexVectors, IndexingFails, OpenStage, LockSource
    <3>3. QED
      BY <2>4, <3>1, <3>2 DEF Indexing
  <2>9. CASE DeleteVectors(h)
    <3>1. vectors' = {} \/ req'[h] = Idle
      BY <2>9 DEF DeleteVectors, Remaining, TypeOK
    <3>2. req'[h] # Idle => req'[h].pc = "see"
      BY <2>9 DEF DeleteVectors, TypeOK, Request
    <3>3. source
      BY <2>3, <2>4, <2>9 DEF DeleteVectors
    <3>4. source' = source
      BY <2>9 DEF DeleteVectors
    <3>5. QED
      BY <2>7, <3>1, <3>2, <3>3, <3>4
  <2>10. CASE See(h) \/ Lock(h) \/ Put(h)
    <3>1. /\ q.pc \in {"see", "lock", "put"} /\ UNCHANGED <<source, vectors>>
      BY <2>3, <2>10 DEF See, Lock, Put
    <3>2. CASE req'[h] # Idle
      <4>1. req'[h].kind = q.kind /\ req'[h].pc \in InTransaction
        <5>1. CASE See(h)
          BY <2>3, <5>1 DEF See, TypeOK, Request, InTransaction
        <5>2. CASE Lock(h)
          BY <2>3, <5>2 DEF Lock, Onward, TypeOK, Request, InTransaction
        <5>3. CASE Put(h)
          BY <2>3, <3>2, <5>3 DEF Put, Onward, TypeOK, Request, InTransaction
        <5>4. QED
          BY <2>10, <5>1, <5>2, <5>3
      <4>2. QED
        BY <2>4, <3>1, <4>1 DEF Indexing, InTransaction
    <3>3. QED
      BY <2>7, <3>2
  <2>11. CASE CommitClear(h)
    <3>1. /\ q.pc = "commit" /\ ~Indexing(q) /\ UNCHANGED <<source, vectors>>
          /\ \/ req'[h] = Idle
             \/ req'[h] = [Idle EXCEPT !.kind = "remove", !.pc = "source"]
      BY <2>3, <2>11 DEF CommitClear, TypeOK
    <3>2. [Idle EXCEPT !.kind = "remove", !.pc = "source"].kind = "remove"
      BY IdleFacts DEF Request
    <3>3. QED
      BY <2>4, <2>7, <3>1, <3>2 DEF Indexing
  <2>12. MarkJobFailed(h) \/ CommitIndex(h) \/ Cascade(h) \/ BreakDeadlock(h) \/ Lost(h)
         => req'[h] = Idle
    BY DEF TypeOK, MarkJobFailed, CommitIndex, Cascade, BreakDeadlock, Lost
  <2>13. QED
    BY <2>1, <2>6, <2>7, <2>8, <2>9, <2>10, <2>11, <2>12
<1>3. QED
  BY <1>1, <1>2

(* With requests that are served one at a time, a source that was removed   *)
(* leaves no point, no row and no job behind, even if requests are lost.    *)
THEOREM SourcesAreRemovedWithoutTrace ==
  ASSUME OneAtATime
  PROVE  Spec => []RemovedWithoutTrace
<1>1. Init => RemovalInv
  BY IdleFacts DEF Init, RemovalInv
<1>2. TypeOK /\ IndexInv /\ RemovalInv /\ [Next]_vars => RemovalInv'
  BY RemovalStep
<1>3. TypeOK /\ IndexInv /\ RemovalInv => RemovedWithoutTrace
  BY DEF RemovalInv, IndexInv, SourceInv, RemovedWithoutTrace
<1>4. QED
  BY <1>1, <1>2, <1>3, IndexInvariant, PTL DEF Spec
=============================================================================
