--------------------------- MODULE IndexPipeline ---------------------------
(***************************************************************************)
(* One indexing pipeline run of one source, as IndexingService executes it *)
(* over PostgreSQL and the artifact directory.                             *)
(*                                                                         *)
(* A run has a row of its own and, for each of five stages, the attempts   *)
(* at that stage: stage_runs rows numbered by sequence_no.  A handler is   *)
(* one HTTP request being served.  Each handler works through a stage in   *)
(* several database transactions with file and provider calls in between,  *)
(* and nothing locks the run: two handlers may work on it at once.         *)
(*                                                                         *)
(* A step is one transaction (or, where the code decides on a value it     *)
(* read earlier, one half of it) or one call on the artifact store.        *)
(***************************************************************************)
EXTENDS Integers, Sequences

CONSTANTS
  Handler,        (* Requests that may be served at the same time.          *)
  Asked,          (* What requests may ask for: pairs of a mode and a stage.*)
  MaxRequests,    (* Bound: requests received in a behaviour.               *)
  MaxFaults       (* Bound: lost handlers and refused transactions.         *)


VARIABLES
  run,            (* index_pipeline_runs.status of the run.                 *)
  attempts,       (* Per stage, its stage_runs rows by sequence_no.         *)
  index,          (* The attempts the source's blocks and nodes are from.   *)
  req,            (* Per handler, the request it serves and where it is.    *)
  requests,       (* Requests received so far.                              *)
  faults          (* Faults suffered so far.                                *)

vars == <<run, attempts, index, req, requests, faults>>

-----------------------------------------------------------------------------
(* Stages, in INDEXING_STAGE_ORDER. *)

SOURCE         == 1
PARSE_BLOCKS   == 2
CHUNK_NODES    == 3
QUALITY_ENRICH == 4
VECTORIZE      == 5

Stage == SOURCE .. VECTORIZE

(* The stages whose latest artifacts a stage's payload reads, in ascending  *)
(* order.  The source and parse stages work from the source row instead.    *)
Inputs(s) ==
  CASE s = CHUNK_NODES    -> {PARSE_BLOCKS}
    [] s = QUALITY_ENRICH -> {PARSE_BLOCKS, CHUNK_NODES}
    [] s = VECTORIZE      -> {PARSE_BLOCKS, QUALITY_ENRICH}
    [] OTHER              -> {}

Status == {"pending", "running", "succeeded", "failed"}

(* Which attempt at each input an artifact was made from; 0 is "none".      *)
Basis   == [Stage -> Nat]
NoBasis == [s \in Stage |-> 0]

(* A stage_runs row, with the number of manifest batches that reference it  *)
(* and the artifact files in the directory named after it.                  *)
Attempt == [status: Status, stale: BOOLEAN, manifests: Nat,
            stored: BOOLEAN, from: Basis]

NewAttempt(status) ==
  [status |-> status, stale |-> FALSE, manifests |-> 0,
   stored |-> FALSE, from |-> NoBasis]

Latest(s) == attempts[s][Len(attempts[s])]

FreshIgnoringStale(s) == Latest(s).status = "succeeded"
FreshUnlessFailed(s)  == Latest(s).status # "failed" /\ ~Latest(s).stale

(* What _ensure_stage_dependencies asks of the latest attempt at a stage.   *)
Fresh(s) == Latest(s).status = "succeeded" /\ ~Latest(s).stale

-----------------------------------------------------------------------------
(* Requests.                                                                *)
(*   "stage"    execute_pipeline_stage: one stage                           *)
(*   "all"      execute_pipeline_run: every stage, in order                 *)
(*   "capture"  run_index_job_with_artifacts: creates the run, then "all",  *)
(*              then reads the job back; an exception marks the run failed  *)
(*              and the source is indexed by run_index_job, outside the run *)
(* pc is the next transaction or call:                                      *)
(*   deps  start  read  persist  write  commit  fail                        *)
(*   result  mark_failed  fallback                                          *)

Mode == {"stage", "all", "capture"}

(* Every request the API accepts: a whole run begins at the first stage.    *)
AnyRequest == {<<"stage", s>> : s \in Stage}
                \cup {<<mode, SOURCE>> : mode \in {"all", "capture"}}

ASSUME AskedAssumption  == Asked \subseteq AnyRequest
ASSUME BoundsAssumption == MaxRequests \in Nat /\ MaxFaults \in Nat

PC   == {"idle", "deps", "start", "read", "persist", "write", "commit",
         "fail", "result", "mark_failed", "fallback"}

Request == [pc: PC, mode: Mode, stage: Stage, dep: Stage, seq: Nat,
            reuse: BOOLEAN, wasStale: BOOLEAN, from: Basis]

EnterStage(mode, s) ==
  [pc |-> "deps", mode |-> mode, stage |-> s, dep |-> SOURCE, seq |-> 0,
   reuse |-> FALSE, wasStale |-> FALSE, from |-> NoBasis]

Idle == [EnterStage("stage", SOURCE) EXCEPT !.pc = "idle"]

(* Where an exception outside the payload's try block takes a handler.      *)
Raised(r) == IF r.mode = "capture" THEN [r EXCEPT !.pc = "mark_failed"] ELSE Idle

(* The pcs inside that try block.                                           *)
InPayload == {"read", "persist", "write", "commit"}

Unread(r) == {i \in Inputs(r.stage) : r.from[i] = 0}

AfterReadsCommitFirst(s) == IF s = VECTORIZE THEN "persist" ELSE "commit"

(* A handler that has started an attempt and not yet decided its outcome.   *)
Working(h) == req[h].pc \in InPayload \cup {"fail"}

(* The first step of a stage's payload once its inputs have been read.      *)
AfterReads(s) == IF s = VECTORIZE THEN "persist" ELSE "write"

-----------------------------------------------------------------------------
(* create_pipeline_run: one transaction, the run and one pending attempt at *)
(* every stage.                                                             *)
Init ==
  /\ run = "pending"
  /\ attempts = [s \in Stage |-> <<NewAttempt("pending")>>]
  /\ index = NoBasis
  /\ req = [h \in Handler |-> Idle]
  /\ requests = 0
  /\ faults = 0

Begin(h) ==
  /\ req[h].pc = "idle"
  /\ requests < MaxRequests
  /\ requests' = requests + 1
  /\ \E asked \in Asked :
       /\ asked[1] = "capture" => requests = 0
       /\ req' = [req EXCEPT ![h] = EnterStage(asked[1], asked[2])]
  /\ UNCHANGED <<run, attempts, index, faults>>

(* One query of _ensure_stage_dependencies: the latest attempt at the next  *)
(* earlier stage must be fresh.                                             *)
CheckDependency(h) ==
  LET r == req[h] IN
  /\ r.pc = "deps"
  /\ r.dep < r.stage
  /\ req' = [req EXCEPT ![h] = IF Fresh(r.dep) THEN [r EXCEPT !.dep = r.dep + 1]
                                               ELSE Raised(r)]
  /\ UNCHANGED <<run, attempts, index, requests, faults>>

ReusableOrFailed(a) == a.status \in {"pending", "failed"}

(* The row that create_pipeline_run made is taken over, any other repeated. *)
Reusable(a) == a.status = "pending"

(* _start_stage_run reads the latest attempt and decides which row to use.  *)
ClaimAttempt(h) ==
  LET s == req[h].stage IN
  /\ req[h].pc = "deps"
  /\ req[h].dep = s
  /\ req' = [req EXCEPT ![h].pc = "start",
                        ![h].seq = IF Reusable(Latest(s))
                                   THEN Len(attempts[s])
                                   ELSE Len(attempts[s]) + 1,
                        ![h].reuse = Reusable(Latest(s)),
                        ![h].wasStale = Latest(s).stale]
  /\ UNCHANGED <<run, attempts, index, requests, faults>>

MarkStale(a) == [a EXCEPT !.stale = TRUE]

MarkStaleNext(s, a) ==
  [t \in Stage |-> IF t = s + 1
                   THEN [n \in 1 .. Len(a[t]) |-> MarkStale(a[t][n])]
                   ELSE a[t]]

(* mark_stale_after: every attempt at every later stage.                    *)
MarkStaleAfter(s, a) ==
  [t \in Stage |-> IF t > s
                   THEN [n \in 1 .. Len(a[t]) |-> MarkStale(a[t][n])]
                   ELSE a[t]]

(* The session writes the columns that differ from what it loaded, so a row *)
(* that was not stale when it was read is not written "not stale" again.    *)
Restart(a, wasStale) ==
  [a EXCEPT !.status = "running", !.stale = IF wasStale THEN FALSE ELSE @]

(* The attempts after _start_stage_run has written the row it decided on.   *)
StartRow(r) ==
  IF r.reuse
  THEN [attempts EXCEPT ![r.stage][r.seq] = Restart(@, r.wasStale)]
  ELSE [attempts EXCEPT ![r.stage] = Append(@, NewAttempt("running"))]

SequenceUnchecked(r) == TRUE
SequenceFreeAndNotRunning(r) ==
  Latest(r.stage).status # "running" /\ (r.reuse \/ r.seq = Len(attempts[r.stage]) + 1)

(* uq_index_stage_run_seq: the number a new row takes is still free.        *)
SequenceFree(r) == r.reuse \/ r.seq = Len(attempts[r.stage]) + 1

(* The rest of _start_stage_run: the stage's row, the stale marks and the   *)
(* run commit together, or the unique constraint refuses all of them.       *)
StartAttempt(h) ==
  LET r == req[h] IN
  /\ r.pc = "start"
  /\ \/ /\ SequenceFree(r)
        /\ attempts' = MarkStaleAfter(r.stage, StartRow(r))
        /\ run' = "running"
        /\ req' = [req EXCEPT ![h].pc = IF Inputs(r.stage) = {}
                                        THEN AfterReads(r.stage) ELSE "read"]
     \/ /\ ~SequenceFree(r)
        /\ req' = [req EXCEPT ![h] = Raised(@)]
        /\ UNCHANGED <<run, attempts>>
  /\ UNCHANGED <<index, requests, faults>>

(* _document_from_latest_artifacts, _nodes_from_latest_artifacts: the       *)
(* artifacts of the latest attempt at the next input, which must have some. *)
ReadArtifacts(h) ==
  LET r == req[h] IN
  /\ r.pc = "read"
  /\ \E i \in Unread(r) :
       /\ \A j \in Unread(r) : i <= j
       /\ \/ /\ Latest(i).manifests > 0
             /\ req' = [req EXCEPT
                  ![h].from[i] = Len(attempts[i]),
                  ![h].pc = IF Unread(r) = {i} THEN AfterReads(r.stage) ELSE @]
          \/ /\ Latest(i).manifests = 0
             /\ req' = [req EXCEPT ![h].pc = "fail"]
  /\ UNCHANGED <<run, attempts, index, requests, faults>>

(* _persist_pipeline_latest_index: a succeeded job and, for the source, the *)
(* blocks of the document and the nodes that were read.                     *)
PersistIndex(h) ==
  /\ req[h].pc = "persist"
  /\ index' = req[h].from
  /\ req' = [req EXCEPT ![h].pc = "write"]
  /\ UNCHANGED <<run, attempts, requests, faults>>

Store(a, from) == [a EXCEPT !.stored = TRUE, !.from = from]

(* write_json, write_jsonl: the path is named after the attempt's row.      *)
WriteArtifacts(h) ==
  LET r == req[h] IN
  /\ r.pc = "write"
  /\ attempts' = [attempts EXCEPT ![r.stage][r.seq] = Store(@, r.from)]
  /\ req' = [req EXCEPT ![h].pc = "commit"]
  /\ UNCHANGED <<run, index, requests, faults>>

FinishSucceeded(a, status) == [a EXCEPT !.status = "succeeded", !.stale = FALSE]

(* The row the handler kept since it started the stage goes back with a new *)
(* status: its stale flag is the one of the start, whatever happened since. *)
Finish(a, status) == [a EXCEPT !.status = status, !.stale = FALSE]

NextStagePastLast(r) ==
  IF r.mode = "stage" THEN Idle ELSE EnterStage(r.mode, r.stage + 1)

Publish(a) == [Finish(a, "succeeded") EXCEPT !.manifests = @ + 1]

(* Where a handler goes when a stage has succeeded.                         *)
NextStage(r) ==
  CASE r.mode # "stage" /\ r.stage # VECTORIZE  -> EnterStage(r.mode, r.stage + 1)
    [] r.mode = "capture" /\ r.stage = VECTORIZE -> [r EXCEPT !.pc = "result"]
    [] OTHER                                     -> Idle

RunSucceedsEarly(s) == IF s >= QUALITY_ENRICH THEN "succeeded" ELSE "running"

(* _run_with_stage_success: the last stage decides the run.                 *)
RunAfterSuccess(s) == IF s = VECTORIZE THEN "succeeded" ELSE "running"

(* The success transaction: manifests, the stage's row and the run.         *)
CommitSuccess(h) ==
  LET r == req[h] IN
  /\ r.pc = "commit"
  /\ attempts' = [attempts EXCEPT ![r.stage][r.seq] = Publish(@)]
  /\ run' = RunAfterSuccess(r.stage)
  /\ req' = [req EXCEPT ![h] = NextStage(@)]
  /\ UNCHANGED <<index, requests, faults>>

(* Any exception of the payload: a parser, a chunker, a provider, the vector*)
(* store, the file system, or a transaction inside the try block.           *)
PayloadFails(h) ==
  /\ req[h].pc \in InPayload
  /\ req' = [req EXCEPT ![h].pc = "fail"]
  /\ UNCHANGED <<run, attempts, index, requests, faults>>

(* _mark_pipeline_stage_failed, then the exception goes on.                 *)
CommitFailure(h) ==
  LET r == req[h] IN
  /\ r.pc = "fail"
  /\ attempts' = [attempts EXCEPT ![r.stage][r.seq] = Finish(@, "failed")]
  /\ run' = "failed"
  /\ req' = [req EXCEPT ![h] = Raised(@)]
  /\ UNCHANGED <<index, requests, faults>>

(* _run_index_result_from_pipeline: the job of the vectorize stage.         *)
ReadResult(h) ==
  /\ req[h].pc = "result"
  /\ req' = [req EXCEPT ![h] = Idle]
  /\ UNCHANGED <<run, attempts, index, requests, faults>>

(* _mark_pipeline_run_failed.                                               *)
MarkRunFailed(h) ==
  /\ req[h].pc = "mark_failed"
  /\ run' = "failed"
  /\ req' = [req EXCEPT ![h].pc = "fallback"]
  /\ UNCHANGED <<attempts, index, requests, faults>>

(* run_index_job replaces the source's blocks and nodes by some that are    *)
(* from no attempt of the run, or fails and leaves them.                    *)
FallBack(h) ==
  /\ req[h].pc = "fallback"
  /\ index' \in {index, NoBasis}
  /\ req' = [req EXCEPT ![h] = Idle]
  /\ UNCHANGED <<run, attempts, requests, faults>>

-----------------------------------------------------------------------------
(* Faults. *)

(* The database refuses a transaction outside the try block (a deadlock, a  *)
(* lost connection): nothing is written and the exception goes on.          *)
TransactionRefused(h) ==
  /\ faults < MaxFaults
  /\ req[h].pc \in {"deps", "start", "fail", "result", "mark_failed"}
  /\ req' = [req EXCEPT ![h] = IF @.pc = "mark_failed" THEN Idle ELSE Raised(@)]
  /\ faults' = faults + 1
  /\ UNCHANGED <<run, attempts, index, requests>>

(* The process dies or the task is cancelled (CancelledError is not an      *)
(* Exception): no handler of the code runs, what is committed stays.        *)
Crash(h) ==
  /\ faults < MaxFaults
  /\ req[h].pc # "idle"
  /\ req' = [req EXCEPT ![h] = Idle]
  /\ faults' = faults + 1
  /\ UNCHANGED <<run, attempts, index, requests>>

-----------------------------------------------------------------------------
(* What a handler does on its own once it has a request.                    *)
Work(h) ==
  \/ CheckDependency(h)
  \/ ClaimAttempt(h)
  \/ StartAttempt(h)
  \/ ReadArtifacts(h)
  \/ PersistIndex(h)
  \/ WriteArtifacts(h)
  \/ CommitSuccess(h)
  \/ PayloadFails(h)
  \/ CommitFailure(h)
  \/ ReadResult(h)
  \/ MarkRunFailed(h)
  \/ FallBack(h)

Next ==
  \E h \in Handler :
    \/ Begin(h)
    \/ Work(h)
    \/ TransactionRefused(h)
    \/ Crash(h)

Spec == Init /\ [][Next]_vars

(* Every await of a handler completes: no handler waits on another one, and *)
(* a call of the database, a parser or a provider ends in a result, in an   *)
(* error or in the timeout of its client.                                   *)
FairSpec == Spec /\ \A h \in Handler : WF_vars(Work(h))

-----------------------------------------------------------------------------
(* Properties. *)

TypeOK ==
  /\ run \in Status
  /\ attempts \in [Stage -> Seq(Attempt)]
  /\ \A s \in Stage : Len(attempts[s]) > 0
  /\ index \in Basis
  /\ req \in [Handler -> Request]
  /\ requests \in 0 .. MaxRequests
  /\ faults \in 0 .. MaxFaults

(* A result that counts as fresh was made from the latest attempts at the   *)
(* stages it reads: a superseded input is never behind a fresh result.      *)
FreshFromLatest ==
  \A s \in Stage : Fresh(s) =>
    \A i \in Inputs(s) : Latest(s).from[i] = Len(attempts[i])

(* mark_stale_after and the dependency check together keep every superseded *)
(* result out of a later stage: what counts as fresh rests on fresh earlier *)
(* stages and was made from their latest attempts.                          *)
FreshIsCurrent ==
  /\ FreshFromLatest
  /\ \A s \in Stage : Fresh(s) => \A d \in Stage : d < s => Fresh(d)

(* A run reported as succeeded has all five stages fresh, and the blocks    *)
(* and nodes persisted for the source are those its vectorize stage read.   *)
RunSucceededIsComplete ==
  run = "succeeded" =>
    /\ \A s \in Stage : Fresh(s)
    /\ index = Latest(VECTORIZE).from

(* The blocks and the nodes the run persists together come from one parse:  *)
(* the document vectorize read is the one its nodes were chunked and        *)
(* enriched from, whatever attempts failed, crashed or were repeated.       *)
CoherentIndex ==
  index # NoBasis =>
    LET parse == index[PARSE_BLOCKS]
        enriched == attempts[QUALITY_ENRICH][index[QUALITY_ENRICH]]
        chunked == attempts[CHUNK_NODES][enriched.from[CHUNK_NODES]]
    IN  enriched.from[PARSE_BLOCKS] = parse /\ chunked.from[PARSE_BLOCKS] = parse

(* The stage a handler is working on, 0 if none has started one. *)
Building ==
  IF \E h \in Handler : Working(h)
  THEN req[CHOOSE h \in Handler : Working(h)].stage
  ELSE 0

(* With one handler at a time the pipeline is an incremental build: its     *)
(* stage flags are the build's fresh results and "succeeded" its completion.*)
Build == INSTANCE StageBuild WITH
           Last     <- VECTORIZE,
           fresh    <- {s \in Stage : Fresh(s)},
           building <- Building,
           complete <- (run = "succeeded")

ImplementsBuild == Build!BuildSpec

(* A manifest never names an artifact that is not in the store: files are   *)
(* written before the transaction that makes them visible, in whatever      *)
(* order handlers interleave, fail or are lost.                             *)
ManifestsAreStored ==
  \A s \in Stage : \A n \in 1 .. Len(attempts[s]) :
    attempts[s][n].manifests > 0 => attempts[s][n].stored

(* Some attempt at a stage has published artifacts. *)
Produced(s) == \E n \in 1 .. Len(attempts[s]) : attempts[s][n].manifests > 0

(* No attempt at a stage has started before every earlier stage has         *)
(* produced artifacts at least once, however requests interleave.           *)
StagesInOrder ==
  \A s \in Stage : \A d \in 1 .. s - 1 :
    Latest(s).status # "pending" => Produced(d)

(* An attempt that took a new sequence number is worked on by one handler:  *)
(* the unique constraint decides between two that read the same latest row. *)
(* (The first attempt has no such guard: two handlers can take the same     *)
(* pending row.)                                                            *)
OneHandlerPerRetry ==
  \A g, h \in Handler :
    /\ g # h
    /\ Working(g) /\ Working(h)
    /\ req[g].stage = req[h].stage
    /\ req[g].seq = req[h].seq
    => req[g].seq = 1

(* The outcome of a repeated attempt is final: once it has succeeded or     *)
(* failed, no handler that is still running changes its status, its         *)
(* manifests or its files.                                                  *)
OutcomesKept ==
  \A s \in Stage : \A n \in 2 .. Len(attempts[s]) :
    attempts[s][n].status \in {"succeeded", "failed"} =>
      MarkStale(attempts'[s][n]) = MarkStale(attempts[s][n])

RetryOutcomeIsFinal == [][OutcomesKept]_vars

(* Crash recovery: once no further fault happens, a request that executes   *)
(* the whole run leaves it decided when no other request interferes, also   *)
(* over attempts and a run that a lost handler left "running".              *)
WholeRunIsDecided ==
  \A h \in Handler :
    (faults = MaxFaults /\ req[h].pc # "idle" /\ req[h].mode # "stage")
      ~> (req[h].pc = "idle" /\ run \in {"succeeded", "failed"})

-----------------------------------------------------------------------------
(* Inductive invariants: what makes the properties above hold after a step. *)

(* A handler's row exists, is still open if it is a repetition, and holds   *)
(* the files once they are written; a repetition takes a number above 1.    *)
ClaimInv(h) ==
  LET r == req[h] IN
  /\ Working(h) =>
       /\ r.seq \in 1 .. Len(attempts[r.stage])
       /\ attempts[r.stage][r.seq].status # "pending"
       /\ r.seq > 1 => attempts[r.stage][r.seq].status = "running"
       /\ r.pc = "commit" => attempts[r.stage][r.seq].stored
  /\ r.pc = "start" => IF r.reuse THEN r.seq = 1 ELSE r.seq > 1

(* Only the row that create_pipeline_run made can be pending.               *)
RetryIsNotPending ==
  \A s \in Stage : \A n \in 2 .. Len(attempts[s]) : attempts[s][n].status # "pending"

RowInv ==
  /\ \A h \in Handler : ClaimInv(h)
  /\ RetryIsNotPending
  /\ ManifestsAreStored
  /\ OneHandlerPerRetry

(* What a handler has seen of the earlier stages holds for good: artifacts, *)
(* once published, are never withdrawn from a run.                          *)
SeenInv(h) ==
  LET r == req[h] IN
  /\ r.pc = "deps"  => r.dep <= r.stage /\ \A d \in 1 .. r.dep - 1 : Produced(d)
  /\ r.pc = "start" => \A d \in 1 .. r.stage - 1 : Produced(d)

SuccessIsPublished ==
  \A s \in Stage : \A n \in 1 .. Len(attempts[s]) :
    attempts[s][n].status = "succeeded" => attempts[s][n].manifests > 0

AttemptsInOrder ==
  \A s \in Stage : \A n \in 1 .. Len(attempts[s]) :
    attempts[s][n].status # "pending" => \A d \in 1 .. s - 1 : Produced(d)

OrderInv ==
  /\ \A h \in Handler : SeenInv(h)
  /\ SuccessIsPublished
  /\ AttemptsInOrder

(* What one handler at a time relies on from its first check to its commit: *)
(* the earlier stages it checked are fresh, the row it works on is the      *)
(* latest of its stage, the later stages are stale, and what it has read    *)
(* are the latest attempts at its inputs.                                   *)
Alone(r) ==
  /\ r.pc \in {"deps", "start"} => r.from = NoBasis
  /\ r.pc = "deps" => \A d \in 1 .. r.dep - 1 : Fresh(d)
  /\ r.pc \in {"start", "fail"} \cup InPayload => \A d \in 1 .. r.stage - 1 : Fresh(d)
  /\ r.pc = "start" =>
       /\ r.seq = IF r.reuse THEN Len(attempts[r.stage]) ELSE Len(attempts[r.stage]) + 1
       /\ r.reuse => Latest(r.stage).status = "pending"
  /\ r.pc \in InPayload \cup {"fail"} =>
       /\ run = "running"
       /\ r.seq = Len(attempts[r.stage])
       /\ Latest(r.stage).status = "running"
       /\ \A t \in Stage : t > r.stage => Latest(t).stale
       /\ \A i \in Inputs(r.stage) : r.from[i] \in {0, Len(attempts[i])}
  /\ r.pc \in {"persist", "write", "commit"} => Unread(r) = {}
  /\ r.pc = "persist" => r.stage = VECTORIZE
  /\ r.pc = "commit" => Latest(r.stage).from = r.from
  /\ r.pc \in {"write", "commit"} /\ r.stage = VECTORIZE => index = r.from
  /\ r.pc = "fallback" => run = "failed"

(* The persisted index is from attempts that have succeeded, which no       *)
(* handler writes again.                                                    *)
SettledIndex ==
  index # NoBasis =>
    LET enriched == attempts[QUALITY_ENRICH][index[QUALITY_ENRICH]]
    IN  /\ index[QUALITY_ENRICH] \in 1 .. Len(attempts[QUALITY_ENRICH])
        /\ enriched.status = "succeeded"
        /\ enriched.from[CHUNK_NODES] \in 1 .. Len(attempts[CHUNK_NODES])
        /\ attempts[CHUNK_NODES][enriched.from[CHUNK_NODES]].status = "succeeded"

AloneIndInv ==
  /\ \A h \in Handler : Alone(req[h])
  /\ FreshIsCurrent
  /\ RunSucceededIsComplete
  /\ CoherentIndex
  /\ SettledIndex
=============================================================================
