---------------------------- MODULE SourceIndex ----------------------------
(***************************************************************************)
(* The index of one source: its index_blocks and index_nodes rows in       *)
(* PostgreSQL, the points of its nodes in Qdrant, and the requests that    *)
(* replace or delete them.                                                 *)
(*                                                                         *)
(* The transactions run under READ COMMITTED and nothing in the code locks *)
(* the source, so a step here is one statement.  A DELETE works on the     *)
(* rows that were committed when it began and waits for those another      *)
(* transaction has locked; an INSERT waits for a row of the same key that  *)
(* is being inserted or deleted, and is refused if such a row is committed.*)
(***************************************************************************)
EXTENDS Integers, Sequences

CONSTANTS
  Handler,        (* Requests that may be served at the same time.          *)
  Kinds,          (* The kinds of requests that are made.                   *)
  Config,         (* Choices of a parser and a chunker.                     *)
  Block,          (* Numbers of blocks: a block's id is made from its       *)
                  (* number in the document, whatever parser made it.       *)
  Node,           (* Node ids.                                              *)
  BlocksOf,       (* The blocks a configuration parses the source into.     *)
  NodesOf,        (* The nodes it chunks them into.                         *)
  Indexable,      (* The nodes that get a point: those with text that are   *)
                  (* not a parent section.                                  *)
  MaxRequests,    (* Bound: requests received in a behaviour.               *)
  MaxFaults       (* Bound: requests lost on the way.                       *)

(* Requests:                                                                *)
(*   "job"     run_index_job                                                *)
(*   "stage"   the vectorize stage of a pipeline run                        *)
(*   "clear"   delete_source_index                                          *)
(*   "remove"  delete_source                                                *)
AllKinds == {"job", "stage", "clear", "remove"}

ASSUME KindsAssumption  == Kinds \subseteq AllKinds
ASSUME BoundAssumption  == MaxRequests \in Nat /\ MaxFaults \in Nat
ASSUME ConfigAssumption == Config # {}
ASSUME IndexAssumption  ==
  /\ BlocksOf \in [Config -> SUBSET Block]
  /\ NodesOf \in [Config -> SUBSET Node]
  /\ Indexable \subseteq Node

(* Every document that has blocks has a first one, and only such a document *)
(* has nodes.                                                               *)
ASSUME FirstBlockAssumption ==
  /\ 1 \in Block
  /\ \A c \in Config : /\ BlocksOf[c] # {} => 1 \in BlocksOf[c]
                       /\ NodesOf[c] # {} => BlocksOf[c] # {}

VARIABLES
  source,         (* The sources row exists.                                *)
  jobs,           (* Per request, the index_jobs row it made.               *)
  rows,           (* The committed rows: the job each is from, 0 for none.  *)
  vectors,        (* The nodes that have a point in the collection.         *)
  req,            (* Per handler, the request it serves and where it is.    *)
  requests,       (* Requests received so far.                              *)
  cleared,        (* History: one of them clears or removes the index.      *)
  faults          (* Requests lost so far.                                  *)

received == <<requests, cleared>>
vars == <<source, jobs, rows, vectors, req, received, faults>>

-----------------------------------------------------------------------------
Job       == 1 .. MaxRequests
JobStatus == {"none", "running", "succeeded", "failed"}

Table     == {"block", "node"}
BlockRow  == {"block"} \X Block
NodeRow   == {"node"} \X Node
Row       == BlockRow \cup NodeRow
RowsOf(t) == IF t = "block" THEN BlockRow ELSE NodeRow

(* The rows that an index of a configuration consists of. *)
Blocks(c) == {"block"} \X BlocksOf[c]
Nodes(c)  == {"node"} \X NodesOf[c]
Index(c)  == Blocks(c) \cup Nodes(c)

OrderNodesFirst(kind) ==
  IF kind \in {"clear", "remove"} THEN <<"node", "block">> ELSE <<"block", "node">>
OrderReplaceNodesFirst(kind) ==
  IF kind \in {"job", "stage"} THEN <<"node", "block">> ELSE <<"block", "node">>

(* The order in which a request works on the two tables. *)
Order(kind) == <<"block", "node">>

(* pc is the next call or statement:                                        *)
(*   check                  the source is read                              *)
(*   create vectors failed  the job row, the collection, the job's failure  *)
(*   open see lock put      statements on the table Order(kind)[at]:        *)
(*                          DELETE takes its snapshot and then the rows,    *)
(*                          INSERT                                          *)
(*   commit                 COMMIT                                          *)
(*   source cascade         DELETE of the source, and of what refers to it  *)
PC == {"idle", "check", "create", "vectors", "failed", "open", "see", "lock",
       "put", "commit", "source", "cascade"}

(* seen are the rows of the DELETE in progress with the jobs they were from; *)
(* gone and made are the rows the open transaction has deleted and inserted. *)
Request == [pc: PC, kind: AllKinds, config: Config, job: 0 .. MaxRequests, at: 1 .. 2,
            seen: [Row -> 0 .. MaxRequests],
            gone: SUBSET Row, made: SUBSET Row]

Nothing == [r \in Row |-> 0]

Serve(kind, c, job) ==
  [pc |-> "check", kind |-> kind, config |-> c, job |-> job, at |-> 1,
   seen |-> Nothing, gone |-> {}, made |-> {}]

(* An answer, an exception or a lost connection: no transaction is open.    *)
AnyConfig == CHOOSE c \in Config : TRUE
Idle == [Serve("clear", AnyConfig, 0) EXCEPT !.pc = "idle"]

Indexing(r) == r.kind \in {"job", "stage"}
At(r)       == Order(r.kind)[r.at]
Made(r)     == Index(r.config) \cap RowsOf(At(r))

(* The rows a DELETE has seen and that are still those it saw.              *)
Live(r) == {row \in Row : r.seen[row] # 0 /\ rows[row] = r.seen[row]}

-----------------------------------------------------------------------------
(* Locks. *)

(* Rows with an uncommitted change of h. *)
Locked(h) == req[h].gone \cup req[h].made

(* The foreign keys of inserted rows share the source row until the end.    *)
SharesSource(h) ==
  \/ req[h].made # {}
  \/ req[h].kind = "stage" /\ req[h].pc \in {"see", "lock", "put", "commit"}

(* The handlers that h's next statement has to wait for.                    *)
Blockers(h) ==
  LET r == req[h]
      others == Handler \ {h}
      Holding(R) == {g \in others : Locked(g) \cap R # {}}
      Deleting == {g \in others : req[g].pc = "cascade"}
  IN  CASE r.pc = "lock"    -> {g \in others : req[g].gone \cap Live(r) # {}}
        [] r.pc = "put"     -> IF Made(r) = {} THEN {} ELSE Holding(Made(r)) \cup Deleting
        [] r.pc \in {"create", "open", "failed"} -> Deleting
        [] r.pc = "commit"  -> IF Indexing(r) THEN Deleting ELSE {}
        [] r.pc = "source"  -> {g \in others : SharesSource(g)} \cup Deleting
        [] r.pc = "cascade" -> Holding({row \in Row : rows[row] # 0})
        [] OTHER            -> {}

(* h is one of a set of handlers who wait for each other. *)
Deadlocked(h) ==
  \E S \in SUBSET Handler :
    /\ h \in S
    /\ \A g \in S : /\ Blockers(g) \cap S # {}
                    /\ \E w \in S : g \in Blockers(w)

-----------------------------------------------------------------------------
Init ==
  /\ source = TRUE
  /\ jobs = [j \in Job |-> "none"]
  /\ rows = Nothing
  /\ vectors = {}
  /\ req = [h \in Handler |-> Idle]
  /\ requests = 0
  /\ cleared = FALSE
  /\ faults = 0

Begin(h) ==
  /\ req[h].pc = "idle"
  /\ requests < MaxRequests
  /\ requests' = requests + 1
  /\ \E kind \in Kinds, c \in Config :
       /\ kind \in {"clear", "remove"} => c = AnyConfig
       /\ req' = [req EXCEPT ![h] = Serve(kind, c, requests + 1)]
       /\ cleared' = (cleared \/ kind \in {"clear", "remove"})
  /\ UNCHANGED <<source, jobs, rows, vectors, faults>>

(* _get_source_or_raise. *)
Check(h) ==
  /\ req[h].pc = "check"
  /\ \/ source /\ req' = [req EXCEPT ![h].pc =
                               IF req[h].kind = "job" THEN "create" ELSE "vectors"]
     \/ ~source /\ req' = [req EXCEPT ![h] = Idle]
  /\ UNCHANGED <<source, jobs, rows, vectors, received, faults>>

(* run_index_job's first transaction. *)
CreateJob(h) ==
  /\ req[h].pc = "create"
  /\ Blockers(h) = {}
  /\ \/ /\ source
        /\ jobs' = [jobs EXCEPT ![req[h].job] = "running"]
        /\ req' = [req EXCEPT ![h].pc = "vectors"]
     \/ /\ ~source
        /\ req' = [req EXCEPT ![h] = Idle]
        /\ UNCHANGED jobs
  /\ UNCHANGED <<source, rows, vectors, received, faults>>

UpsertReplacing(c) == NodesOf[c] \cap Indexable

(* upsert_nodes: a node's point id is made from its node id, other points   *)
(* of the source stay.                                                      *)
Upsert(c) == vectors \cup (NodesOf[c] \cap Indexable)

(* _index_vectors_if_enabled, in the try block of a job or a stage's payload.*)
IndexVectors(h) ==
  /\ req[h].pc = "vectors"
  /\ Indexing(req[h])
  /\ vectors' = Upsert(req[h].config)
  /\ req' = [req EXCEPT ![h].pc = IF req[h].kind = "stage" THEN "open" ELSE "see"]
  /\ UNCHANGED <<source, jobs, rows, received, faults>>

(* The parser, the chunker, the embeddings or the collection fail; the last *)
(* possibly after the points were written.                                  *)
IndexingFails(h) ==
  /\ req[h].pc = "vectors"
  /\ Indexing(req[h])
  /\ vectors' \in {vectors, Upsert(req[h].config)}
  /\ req' = [req EXCEPT ![h] = IF @.kind = "job" THEN [@ EXCEPT !.pc = "failed"]
                                                 ELSE Idle]
  /\ UNCHANGED <<source, jobs, rows, received, faults>>

(* The job is marked failed, if the source and the job with it still exist. *)
MarkJobFailed(h) ==
  /\ req[h].pc = "failed"
  /\ Blockers(h) = {}
  /\ jobs' = [jobs EXCEPT ![req[h].job] = IF @ = "none" THEN @ ELSE "failed"]
  /\ req' = [req EXCEPT ![h] = Idle]
  /\ UNCHANGED <<source, rows, vectors, received, faults>>

RemainingOfUnlisted == vectors \ {n \in Node : rows[<<"node", n>>] # 0}

(* delete_source of the vector index: every point with this source's id.    *)
Remaining == {}

(* _delete_vectors_if_enabled. *)
DeleteVectors(h) ==
  /\ req[h].pc = "vectors"
  /\ ~Indexing(req[h])
  /\ \/ /\ vectors' = Remaining
        /\ req' = [req EXCEPT ![h].pc = "see"]
     \/ /\ vectors' \in {vectors, Remaining}
        /\ req' = [req EXCEPT ![h] = Idle]
  /\ UNCHANGED <<source, jobs, rows, received, faults>>

-----------------------------------------------------------------------------
(* The transactions that replace or delete the rows. *)

(* A stage's job is inserted with the first statement of its transaction.   *)
OpenStage(h) ==
  /\ req[h].pc = "open"
  /\ Blockers(h) = {}
  /\ req' = [req EXCEPT ![h] = IF source THEN [@ EXCEPT !.pc = "see"] ELSE Idle]
  /\ UNCHANGED <<source, jobs, rows, vectors, received, faults>>

(* delete_by_source takes its snapshot, *)
See(h) ==
  /\ req[h].pc = "see"
  /\ req' = [req EXCEPT ![h].pc = "lock",
                        ![h].seen = [row \in Row |->
                           IF row \in RowsOf(At(req[h])) THEN rows[row] ELSE 0]]
  /\ UNCHANGED <<source, jobs, rows, vectors, received, faults>>

OnwardPastLast(r) == [r EXCEPT !.pc = "see", !.at = @ + 1]

(* The next table, or the end of the transaction. *)
Onward(r) ==
  IF r.at = 1 THEN [r EXCEPT !.pc = "see", !.at = 2] ELSE [r EXCEPT !.pc = "commit"]

(* and deletes what is left of it. *)
Lock(h) ==
  LET r == req[h]
      deleted == [r EXCEPT !.gone = @ \cup Live(r), !.seen = Nothing]
  IN  /\ r.pc = "lock"
      /\ Blockers(h) = {}
      /\ req' = [req EXCEPT ![h] = IF Indexing(r) THEN [deleted EXCEPT !.pc = "put"]
                                                  ELSE Onward(deleted)]
      /\ UNCHANGED <<source, jobs, rows, vectors, received, faults>>

RefusedWithoutSource(h) == Made(req[h]) # {} /\ ~source

(* A row that is inserted has the key of a committed one, or no source.     *)
Refused(h) ==
  \/ \E row \in Made(req[h]) : rows[row] # 0 /\ row \notin req[h].gone
  \/ Made(req[h]) # {} /\ ~source

(* The INSERT of replace_for_source. *)
Put(h) ==
  LET r == req[h] IN
  /\ r.pc = "put"
  /\ Blockers(h) = {}
  /\ req' = [req EXCEPT ![h] = IF Refused(h) THEN Idle
                               ELSE Onward([r EXCEPT !.made = @ \cup Made(r)])]
  /\ UNCHANGED <<source, jobs, rows, vectors, received, faults>>

(* The rows once h's transaction is committed. *)
Committed(h) ==
  [row \in Row |-> IF row \in req[h].made THEN req[h].job
                   ELSE IF row \in req[h].gone THEN 0 ELSE rows[row]]

(* The job succeeds with the commit, if it is still there.                  *)
CommitIndex(h) ==
  LET r == req[h] IN
  /\ r.pc = "commit"
  /\ Indexing(r)
  /\ Blockers(h) = {}
  /\ \/ /\ r.kind = "job" => jobs[r.job] # "none"
        /\ rows' = Committed(h)
        /\ jobs' = [jobs EXCEPT ![r.job] = "succeeded"]
     \/ /\ r.kind = "job" /\ jobs[r.job] = "none"
        /\ UNCHANGED <<rows, jobs>>
  /\ req' = [req EXCEPT ![h] = Idle]
  /\ UNCHANGED <<source, vectors, received, faults>>

(* delete_source goes on to the source. *)
CommitClear(h) ==
  /\ req[h].pc = "commit"
  /\ ~Indexing(req[h])
  /\ rows' = Committed(h)
  /\ req' = [req EXCEPT ![h] = IF @.kind = "remove" THEN [Idle EXCEPT !.kind = "remove", !.pc = "source"]
                                                    ELSE Idle]
  /\ UNCHANGED <<source, jobs, vectors, received, faults>>

(* delete_source locks the sources row, *)
LockSource(h) ==
  /\ req[h].pc = "source"
  /\ Blockers(h) = {}
  /\ req' = [req EXCEPT ![h] = IF source THEN [@ EXCEPT !.pc = "cascade"] ELSE Idle]
  /\ UNCHANGED <<source, jobs, rows, vectors, received, faults>>

(* and the foreign keys take everything that refers to it along.            *)
Cascade(h) ==
  /\ req[h].pc = "cascade"
  /\ Blockers(h) = {}
  /\ source' = FALSE
  /\ jobs' = [j \in Job |-> "none"]
  /\ rows' = Nothing
  /\ req' = [req EXCEPT ![h] = Idle]
  /\ UNCHANGED <<vectors, received, faults>>

(* The database ends one of the transactions that wait for each other.      *)
BreakDeadlock(h) ==
  /\ Deadlocked(h)
  /\ req' = [req EXCEPT ![h] = Idle]
  /\ UNCHANGED <<source, jobs, rows, vectors, received, faults>>

(* The process dies, the task is cancelled or a transaction is refused: the *)
(* code goes nowhere from there, and an open transaction is rolled back.    *)
Lost(h) ==
  /\ faults < MaxFaults
  /\ req[h].pc # "idle"
  /\ req' = [req EXCEPT ![h] = Idle]
  /\ faults' = faults + 1
  /\ UNCHANGED <<source, jobs, rows, vectors, received>>

Next ==
  \E h \in Handler :
    \/ Begin(h)
    \/ Check(h)
    \/ CreateJob(h)
    \/ IndexVectors(h)
    \/ IndexingFails(h)
    \/ MarkJobFailed(h)
    \/ DeleteVectors(h)
    \/ OpenStage(h)
    \/ See(h)
    \/ Lock(h)
    \/ Put(h)
    \/ CommitIndex(h)
    \/ CommitClear(h)
    \/ LockSource(h)
    \/ Cascade(h)
    \/ BreakDeadlock(h)
    \/ Lost(h)

Spec == Init /\ [][Next]_vars

-----------------------------------------------------------------------------
(* Properties. *)

TypeOK ==
  /\ source \in BOOLEAN
  /\ jobs \in [Job -> JobStatus]
  /\ rows \in [Row -> 0 .. MaxRequests]
  /\ vectors \subseteq Indexable
  /\ req \in [Handler -> Request]
  /\ requests \in 0 .. MaxRequests
  /\ cleared \in BOOLEAN
  /\ faults \in 0 .. MaxFaults

(* The committed rows that are from a job. *)
RowsFrom(j) == {row \in Row : rows[row] = j}

(* However requests interleave, the rows are those of one job, and its nodes *)
(* never come without the blocks they were chunked from and cite.           *)
IndexIsWhole ==
  \/ rows = Nothing
  \/ \E j \in Job, c \in Config :
       /\ \A row \in Row : rows[row] \in {0, j}
       /\ RowsFrom(j) \in {Blocks(c), Index(c)}

(* A job is reported as succeeded when exactly its own rows are the index.  *)
SucceedsWhole ==
  \A h \in Handler :
    LET r == req[h] IN
    /\ Indexing(r)
    /\ jobs[r.job] # "succeeded" /\ jobs'[r.job] = "succeeded"
    /\ BlocksOf[r.config] # {}
    => \A row \in Row : rows'[row] = IF row \in Index(r.config) THEN r.job ELSE 0

SucceededJobIsTheIndex == [][SucceedsWhole]_vars

(* All transactions take blocks before nodes and the source last: only the  *)
(* removal of the source, whose cascade comes back to the rows, can be part *)
(* of a deadlock.                                                           *)
OnlyRemovalDeadlocks ==
  \A h \in Handler : Deadlocked(h) => \E g \in Handler : req[g].pc = "cascade"

(* As long as an index is only replaced, every persisted node that is to be *)
(* found has its point in the collection, whichever of several requests wins.*)
NodesAreSearchable ==
  ~cleared => \A n \in Indexable : rows[<<"node", n>>] # 0 => n \in vectors

(* Once everything is quiet, nothing is left of a source that was removed:  *)
(* delete_source clears its index and its points before the source itself.  *)
(* That takes requests that are served one at a time, but also holds if one *)
(* of them is lost on the way.                                              *)
RemovedWithoutTrace ==
  ~source /\ (\A h \in Handler : req[h].pc = "idle") =>
    /\ vectors = {}
    /\ rows = Nothing
    /\ \A j \in Job : jobs[j] = "none"

-----------------------------------------------------------------------------
(* Inductive invariant: what makes the index whole after a step.            *)

InTransaction == {"see", "lock", "put", "commit"}

(* The committed rows of a table. *)
Held(t) == {row \in RowsOf(t) : rows[row] # 0}

(* Every index that is not empty has the first block, so whoever deletes or *)
(* inserts one locks that row and has the index to himself.                 *)
FirstBlock == <<"block", 1>>
Owns(h)    == FirstBlock \in Locked(h)

(* What a transaction has done: it deletes a table as a whole or not at all, *)
(* and inserts the rows of its configuration table by table.                *)
TransactionInv(h) ==
  LET r == req[h] IN
  /\ r.pc = "idle" => ~Indexing(r)
  /\ r.pc = "put" => Indexing(r)
  /\ r.pc \notin InTransaction => r.gone = {} /\ r.at = 1
  /\ r.pc = "commit" => r.at = 2
  /\ r.at = 1 => r.gone \subseteq BlockRow
  /\ r.pc \in {"see", "lock"} => r.gone \cap RowsOf(At(r)) = {}
  /\ \A t \in Table : r.gone \cap RowsOf(t) \in {{}, Held(t)}
  /\ r.made = IF Indexing(r) /\ r.at = 2
              THEN IF r.pc = "commit" THEN Index(r.config) ELSE Blocks(r.config)
              ELSE {}
  /\ \A row \in r.made : rows[row] # 0 => row \in r.gone

(* What a DELETE has seen of a table is all of it, or none of it is left;   *)
(* the owner of the index misses none of its nodes.                         *)
SnapshotInv(h) ==
  LET r == req[h] IN
  /\ r.pc = "lock" =>
       /\ \A row \in Row : r.seen[row] # 0 => row \in RowsOf(At(r))
       /\ Live(r) # {} => \A row \in RowsOf(At(r)) : rows[row] = r.seen[row]
       /\ Owns(h) => \A row \in Held(At(r)) : rows[row] = r.seen[row]
  /\ Owns(h) /\ r.at = 2 /\ r.pc \in {"put", "commit"} => Held("node") \subseteq r.gone

(* The rows a handler is going to insert are from a job of its own.         *)
JobInv ==
  /\ \A row \in Row : rows[row] <= requests
  /\ \A h \in Handler : req[h].pc = "lock" =>
       \A row \in Row : req[h].seen[row] <= requests
  /\ \A h \in Handler : Indexing(req[h]) =>
       /\ req[h].job \in 1 .. requests
       /\ \A row \in Row : rows[row] # req[h].job
       /\ \A g \in Handler : /\ g # h /\ Indexing(req[g]) => req[g].job # req[h].job
                             /\ req[g].pc = "lock" =>
                                  \A row \in Row : req[g].seen[row] # req[h].job

(* A row is locked by one transaction. *)
LockInv == \A g, h \in Handler : g # h => Locked(g) \cap Locked(h) = {}

(* Who removes the source has it alone, and nothing refers to a removed one. *)
SourceInv ==
  /\ \A h \in Handler : req[h].pc = "cascade" =>
       /\ source
       /\ \A g \in Handler : g # h => ~SharesSource(g) /\ req[g].pc # "cascade"
  /\ ~source => /\ rows = Nothing
                /\ \A j \in Job : jobs[j] = "none"
                /\ \A h \in Handler : ~SharesSource(h)

IndexInv ==
  /\ \A h \in Handler : TransactionInv(h) /\ SnapshotInv(h)
  /\ JobInv
  /\ LockInv
  /\ SourceInv
  /\ IndexIsWhole

(* Every index request that has gone on from the collection has its points  *)
(* there, as long as nobody has cleared it.                                 *)
PointsInv ==
  ~cleared => \A h \in Handler :
    LET r == req[h] IN
    /\ r.pc # "idle" => Indexing(r)
    /\ r.pc \in {"open"} \cup InTransaction => NodesOf[r.config] \cap Indexable \subseteq vectors

(* A request that clears the index, alone, has emptied the collection once  *)
(* it goes on to the rows.                                                  *)
RemovalInv ==
  /\ \A h \in Handler :
       /\ ~Indexing(req[h]) /\ req[h].pc \notin {"idle", "check", "vectors"} => vectors = {}
       /\ req[h].pc \in {"source", "cascade"} => ~Indexing(req[h])
  /\ ~source => vectors = {} /\ \A h \in Handler : req[h].pc \in {"idle", "check"}
=============================================================================
