# A TLA+ model of ragmax

ragmax is a retrieval-augmented question answering service: sources are uploaded,
parsed, chunked, enriched, embedded and indexed in PostgreSQL and Qdrant, and
questions are answered from what the search finds. This directory holds TLA+
modules of its state machines, the TLC configurations that check them and proofs
of the theorems that hold for every instance. Paths below are relative to
`src/src/ragmax/` unless they begin with `src/`.

| module | what it is |
|---|---|
| `IndexPipeline` | one pipeline run of one source, with concurrent requests |
| `StageBuild` | the abstract incremental build that a run implements |
| `SourceIndex` | blocks, nodes and points of one source, statement by statement |
| `AnswerStream` | one streamed answer over an index that changes meanwhile |
| `AnswerProtocol` | what the client of a streamed answer is promised |
| `RetrievalOps` | merging, fusion, reranking and citing as operators |
| `Lists` | lists in ascending order, selections and lists put together |
| `RefreshSessions` | logins, refreshes and logouts of a user's browsers |
| `DatasetFiles` | the requests that change one dataset |
| `SourceFiles` | uploaded files, artifacts and their rows |
| `RuntimeSettings` | the configuration row, a provider, its models and their bindings |
| `Chunking` | the chunkers, block by block |
| `Markdown` | the walk over the tokens of a markdown document |
| `MineruTask` | a document parsed by a remote task that is polled |
| `EmbeddingBatches` | texts embedded in batches, with the fallback to single texts |
| `ModelLoading` | loading and sharing the cross encoder |
| `EvaluationVersions` | versions of an evaluation dataset and their comparison |
| `MCIndexPipeline`, `MCSourceIndex`, `MCAnswerStream` | instances of one module for TLC |
| `MCRecords`, `MCWorkers` | instances of the small modules, several in one run |
| `IndexPipelineProofs`, `SourceIndexProofs` | theorems about the two indexes, and that a run is a `StageBuild` |
| `RefreshSessionsProofs`, `RecordsProofs` | theorems about the records |
| `AnswerStreamProofs` | theorems about answers, and that a stream keeps to `AnswerProtocol` |
| `WorkersProofs` | theorems about batches, models, versions and the remote task |
| `ChunkingProofs` | theorems about the chunkers |
| `ListsProofs` | what the operators of `Lists` return, and induction |

`tlc -config PipelineSerial.cfg MCIndexPipeline` checks a run; `tlapm
IndexPipelineProofs.tla` checks the proofs of a module.

## The system

The service is one or more asyncio processes behind FastAPI. Nothing is kept in
memory between requests except a loaded reranker model; everything else is in
PostgreSQL, in Qdrant and in two directories (uploads and artifacts). Two requests
interact only through those. There is no job queue: a request executes its work
itself, and a process that dies takes the requests it was serving with it. No
sweep repairs rows at startup.

| component | state | operations | what is hard | what makes it correct |
|---|---|---|---|---|
| Indexing pipeline runs (`application/indexing/service.py`) | rows of runs, stage attempts, manifests; artifact files | create a run, execute a stage, execute all stages, index with artifacts | several transactions per stage, with parser and provider calls between them; requests for one run overlap; failures and lost processes at each step | stages in order; a fresh stage was built from the latest inputs; a succeeded run is complete; manifests name existing files; retries do not share a row |
| Source index (`service.py`, `infrastructure/db/repositories/indexing.py`, `infrastructure/qdrant/vector_index_writer.py`) | `index_jobs`, `index_blocks`, `index_nodes`, points in Qdrant | index job, vectorize stage, clear the index, remove the source | delete-and-insert under READ COMMITTED, two stores without a common transaction, cascades | the index is that of one job; nodes have points; nothing is left of a removed source |
| Sources API and upload storage | `sources` rows, files | upload, create, delete | file and row written apart | a row's file exists |
| Parsers (`infrastructure/indexing/parsers/`) | none (MinerU: a remote task being polled) | parse | polling against a timeout; rendering nested structures with a few variables | every text of a document in a block, under its headings |
| Chunkers, chunk quality (`infrastructure/indexing/chunkers/`) | none | windows, sections, tables, pages, metrics | boundaries of windows, groups and budgets | no text lost, ids unique, sections right |
| Enrichment and vision models | none | enrich nodes, describe pictures | partial failure | one result per input |
| Embedding providers | the switch from batched to single requests | embed | a batch the server answers with nothing | one vector per text, in order |
| Qdrant searchers, sparse encoding | none | search | numeric encoding | - |
| Retrieval search (`application/retrieval/service.py`) | none | query variants, fusion, hydration, top k, context selection | stale points, merges, an index that changes between reads | what is quoted was live; what is there is found |
| Answering and streaming (`api/v1/retrieval.py`) | none | answer, stream events | failure after the first event | stages in order, one end, citations of shown contexts |
| Fusion, rerankers, query transformation | the loaded cross encoders, their locks | fuse, rerank, transform | models shared by requests whose own locks exclude nobody | one prediction at a time |
| Authentication sessions | `refresh_sessions` rows | login, refresh, logout | two refreshes with one cookie | a revoked session stays revoked |
| Datasets | dataset rows and their files | create, update, add and remove files | check-then-insert, read-modify-write | counts and members agree |
| Runtime settings | model configurations, bindings, one global row | edit, bind, resolve | creation on first use | one default per kind |
| Evaluation (`evaluation/repository.py`) | datasets, their versions and test cases; experiments | create, copy, edit, compare | the identity of a case over copies of copies | a comparison tells what happened to each case |
| Database models and sessions | the schema | - | partial column updates, unique constraints | - |
| API layer, command line, web frontend | none | parse requests, build services | - | - |

The components, with their files and what is modelled of each, and the
hazards of the code at their lines, are listed in `PROJECT.json`.

How they interact: the sources API and the indexing API call the indexing
service; its pipeline and its direct jobs share the persisting of blocks and nodes
and the points; retrieval reads points, then rows, and drops points without rows;
evaluation calls retrieval and answering; every provider is resolved from the
runtime settings when a request begins.

## IndexPipeline

One run, of one source, from the moment `create_pipeline_run` has committed it.
Runs share only the source's persisted index, so one run is enough for all
properties about stages.

**State.** `run` is the run's status. `attempts[s]` is the sequence of
`index_stage_runs` rows of stage `s`, indexed by `sequence_no`, with status, stale
flag, number of manifest batches, whether the files exist, and `from`, the attempts
whose artifacts were read (a history of the data, not a column). `index` says which
attempts the source's blocks and nodes are from. `req[h]` is what handler `h` has in
its local variables: where it is (`pc`), the request, and the row it holds.

**Steps.** Each unit of work of the code opens a session and a transaction of its
own, and commits before the next await of something else. So one step is one
transaction or one call of the artifact store:

| action | code |
|---|---|
| `CheckDependency` | one iteration of `_ensure_stage_dependencies` |
| `ClaimAttempt`, `StartAttempt` | the read and the write half of `_start_stage_run` |
| `ReadArtifacts` | `_document_from_latest_artifacts`, `_nodes_from_latest_artifacts` |
| `PersistIndex` | `_persist_pipeline_latest_index` |
| `WriteArtifacts` | the stage's `write_json` and `write_jsonl` calls |
| `CommitSuccess` | the success transaction of `_execute_pipeline_stage` |
| `PayloadFails`, `CommitFailure` | an exception in the try block, `_mark_pipeline_stage_failed` |
| `ReadResult`, `MarkRunFailed`, `FallBack` | the end of `run_index_job_with_artifacts` and its fallback |
| `TransactionRefused`, `Crash` | a database error outside the try block; a lost process or a cancelled task |

`_start_stage_run` is one transaction, but what it writes depends on what it read,
and READ COMMITTED lets another transaction commit in between; it is therefore two
steps. The other transactions read and write the row they decide on without such a
window on the columns modelled, so they are one step each.

The session is created with `expire_on_commit=False`, and SQLAlchemy writes the
columns that differ from what it loaded. Two consequences are in the model: a row
that is restarted is written "not stale" only if it was read as stale (`Restart`),
while the success and failure transactions load the row anew and put back the record
the handler has held since the start, stale flag included (`Finish`).

**What is abstracted.** Parsers, chunkers, embeddings and Qdrant are calls that
return or raise (`PayloadFails` at any point of the payload). A stage that writes
several files does so in one step: a partial set is never visible, because the
manifests that name them come in a later transaction. Contents are represented by
the attempts they were made from. The summary of a run is left out. A capture is only
the first request, since it creates its run.

**Properties.** `FreshIsCurrent`, `RunSucceededIsComplete`, `CoherentIndex` and the
refinement `ImplementsBuild` hold when requests are served one at a time, with any
failures and losses, but not in general when two overlap: `pipeline_stale` shows that in
its smallest form. `ManifestsAreStored`, `StagesInOrder`,
`OneHandlerPerRetry` and `RetryOutcomeIsFinal` hold for any number of overlapping
requests. The last two are about attempts above the first: the unique constraint on
the sequence number gives a repetition one owner, but nothing guards the pending row
that `create_pipeline_run` made, and two handlers can both take it.

**Liveness.** `WholeRunIsDecided`: after the last fault, a request that executes the
whole run leaves it succeeded or failed, even over rows that a lost handler left
running. The fairness is weak fairness of each handler's own steps: no handler waits
for another one (nothing in this component holds a lock across an await), and every
call ends in a result, an exception or its client's timeout. Nothing is assumed of
`Begin`, of faults, or of which way a call ends.

### StageBuild

What the pipeline promises in terms a user would use: an incremental build over
ordered stages. Starting a stage needs every earlier stage fresh and makes its own
result and all later ones out of date; the build is complete only when the last
stage is built on fresh results. `IndexPipeline` implements it with `fresh` the
stages whose latest attempt is succeeded and not stale, `building` the stage a
handler is working on, and `complete` the status `succeeded` (`ImplementsBuild`, one
handler).

## SourceIndex

All requests that touch the blocks, the nodes and the points of one source:
`run_index_job`, the transaction of the vectorize stage, `delete_source_index` and
`delete_source`. Here a step is one SQL statement, because the interesting question is
what READ COMMITTED does with delete-and-insert.

**State.** `rows` maps every possible block and node row to the job whose it is, 0
when it is not there. `vectors` are the nodes that have a point. `jobs` is the status
of each request's job row. `source` says whether the source row exists. `req[h]` holds
the open transaction: its snapshot (`seen`), its deletions (`gone`) and insertions
(`made`).

**Statements.** A DELETE takes the rows committed when it begins (`See`), waits for
those that another open transaction has deleted, and deletes the ones that are still
as it saw them (`Lock`); rows committed after its snapshot escape it. An INSERT waits
for an uncommitted row of the same key and for a source that is being deleted, and is
refused if a row of the key is committed or the source is gone (`Put`, `Refused`). An
insert holds the source row against deletion until its transaction ends. `Cascade`
deletes what refers to the source. `BreakDeadlock` is PostgreSQL ending one of a set of
transactions that wait for each other. These lock rules belong to PostgreSQL, not to
the repository; the definitions that state them are marked external.

Keys: a block's id is made from its source and its number, whichever parser made it,
so any two non-empty documents of a source share block 1 (`FirstBlockAssumption`); a
node's id is made from the source, the chunker, its blocks and its text, so two
configurations share some nodes and not others. Nodes that are parent sections, or not
text, get no point (`Indexable`).

**Properties.** `IndexIsWhole`: the committed rows are those of one job, with its
nodes or without, never nodes without their blocks. What prevents a mixture of two jobs
is the shared id of the first block, together with the order of the statements; what
prevents nodes without blocks when the index is cleared at the same time is that
blocks go first. `SucceededJobIsTheIndex`: the step in which a job becomes succeeded
makes exactly its rows the index. `OnlyRemovalDeadlocks`: every transaction takes
blocks before nodes, and only the cascade of a removal comes back to the rows after the
source. `NodesAreSearchable`: as long as no request has cleared the index (`cleared`,
a history variable), nodes have their points, however requests that replace it overlap. `RemovedWithoutTrace`: with requests one at a time, nothing is left of a removed
source, even if a request is lost half-way; with two, points can be left
(`source_removed`).

**What is abstracted.** A DELETE or INSERT takes all its rows in one step; between the
rows of one statement only more deadlocks among transactions in the same table could
appear. A Qdrant call is atomic, and a failing upsert may have written. A source is not
created again. Deleting the files of a removed source is at best effort in the code and
not part of the state. A deployment without an embedding provider behaves like this one
without `vectors`.

## AnswerStream

A question to a dataset with two sources, from the request to the last event of its
stream, while index requests change the points and the rows it reads.

**State.** `points` and `rows` are the nodes with a point and with a row, `files` the
sources of the dataset, `indexing` the index request under way: it writes points before
its rows replace the old ones, and deletes points before rows (the statements in
between are `SourceIndex`). `ask` is the question: what it does next, the hits so far per
searcher and variant, the results, their parents, the contexts, and `said`, the last
event. `relevance` is what the vectors, the words and the models make of the question:
scores are data, their order is what matters. `lived` and `disturbed` are history.

**Steps.** `ReadDataset` (`_source_ids_for_dataset`, its own transaction), `Prepare` (the
checks of `answer_stream` up to the first event), `Transform`, one `SearchVectors` and
`SearchWords` per variant, `Fuse`, `Hydrate` and `ReadParents` (two transactions),
`Rerank` with its stages, `Generate`, `Delta`, `Done`. `AskPlainly` and `Answered` are the
same question without a stream (`answer`, which an evaluation calls for each test case,
without a dataset). `Fail` is a failure of any call:
what the service raises as its own error becomes the event `error`, other exceptions
break the stream. What is computed on the hits is in `RetrievalOps`, as operators over
sequences: `MergedVariants`, `Fused` (reciprocal ranks as whole numbers),
`KeywordReranked`, `CrossReranked`, `Assembled`, `Contexts` and `Used`, the citations of
an answer. They are written with sets of places and a ranking (`RankedBy`: the place of a
hit is the number of hits that are not after it), so that they can be proved about.

**Properties.** `OnlyLiveContexts`: what is quoted had a row at some time since the
question came, and is of a source of the dataset, also if points are left over or a parent
is replaced between the two reads. `SearchIsComplete`: if points and rows agree and
nothing changes, a search finds as many nodes as it was asked for, each once, and what
only one variant finds is not lost to earlier variants. `ImplementsProtocol`: the stream
refines `AnswerProtocol`, the client's view: stages in their order, contexts before words,
only shown contexts cited and each once, one end.

## The records

Four small machines, each about the rows of one kind, that share no state. `MCRecords`
runs them together; `part` says which one a behaviour is about.

`RefreshSessions`. Login, refresh and logout in `api/v1/auth.py`, by statement (`Find`,
`ReadUser`, `CommitCall`, `Answer`), with two requests of a browser under way, lost requests
and answers, expired sessions and a user who is deactivated. `StaysSignedIn`: refreshes
that race with one cookie do not sign the browser out. `OneSessionPerLogin`: with one
request at a time a login has at most one session alive; two overlapping refreshes do
leave two, which is why the property excludes them.

`DatasetFiles`. The requests that change a dataset, by statement, with the locks of
PostgreSQL. The commit is a step of its own because `get_dataset_service` commits after
the answer is out. `AddsAreComplete`: a request that commits leaves all sources of its
list in the dataset. `UpdatesKeepOtherFields`: an update reads the row, writes all fields,
and SQLAlchemy sends those that differ from a second reading; it can only take back what
committed between its two readings.

`SourceFiles`. Uploads, artifacts of a capture, and removals, step by step, each of which
may fail or be the last. `RowHasItsFile`: a source that can be indexed has its file, as
long as no id is used twice. `NothingLeftBehind`: without failures and without a request
that writes artifacts while its source is removed, quiet means clean.

`RuntimeSettings`. The configuration row that whoever finds none creates, a provider, its
models, their bindings to tasks, and what a request resolves from them in two statements.
A request assigns its keys to the object that it read, and SQLAlchemy writes
the columns that differ from that reading (`Differs`, `Written`): what another request has
committed since stays, also under a key that is sent again with the value it had.
`KeysKeepTheLastWord`: a key has the value of a committed request, and whoever read the row
after that one and committed did not give the key; nobody's value is lost to a
request that was not given the key, and none to one that came later but was
read earlier and sent the old value. The answer to the request is built from its own object
and may show another request's key as it was; nothing depends on it and it is not in the
model. `TasksGetFittingModels`, for the two tasks of language models, embeddings and
reranking: the check when a binding is made is not enough, since models and providers
change later; what a task is given in the end fits all the same.

## The workers

Six algorithms that a document or a question passes through. `MCWorkers` runs each by
itself; the others stay in one state.

`Chunking`. The loop of a chunker over the blocks, one block per step. A text is the
sequence of its pieces `<<block, number>>` (tokens, or lines of a table), so that loss,
repetition and origin of every piece can be seen. `path` and `group` are the local
variables `section_path` and `section_blocks` (`text_group`). A heading's level is what
`_heading_level` reads in its text. All five chunkers: windows with overlap
(`fixed_token`), parents and children of sections (`section_aware`), tables split into
rows under their header (`table_aware`), pages (`ocr_page`), and `semantic_vector`, which
stops at its first text: it calls `run_until_complete` on the event loop that is running
it. The sentence splitter of LlamaIndex is taken as windows of the size
and overlap it is given (`SplitText`). What the code computes with a loop of its own is a recursive function over initial
segments (`Costs`, `RowGroups`, `Chain`), so that it can be proved about. A size is at
least 1 here; the code does not validate it, and a window of size 0 makes nothing. The
properties: `ContentIsKept`, `WindowsOverlapAsAsked`, `NodesKeepTheirSection`,
`TableRowsOnce`, `NodeIdsDiffer`. The rows of a table are counted one by one and joined by
line breaks that the budget does not know (`Tokens` and `LineBreak` against `Cost`), so a
part of many short rows may be over the size; `TableRowsOnce` says by how much: what its
line breaks have more than the margin of 50 tokens. The tokens of a text are taken to be
those of its rows and line breaks; an encoder that joins them across a break has fewer. The
text of a window is taken to be its tokens, also when decoding would split a character at
its edge. Two of the properties have conditions that say what the code does
not guard. Ids are made from the first 160 characters, so they differ only if headings or
a header in front leave room for the text itself and a block does not repeat itself
(`IdsHaveRoom`; equal ids make the database refuse the index). And only blocks of the
types in `Served` become text: `fixed_token` and `section_aware` make nothing of lists,
code, quotes and equations, which the markdown parser tells apart.

`Markdown`. `markdown_to_blocks` token by token, with the renderings of lists, tables and
quotes as steps on `render`; `PassToken` and `PassInside` pass over whatever token the code
does not name. `FlatTextsAreKept`: without nested lists the blocks have the texts
of headings, paragraphs, items, cells and quotes and the fenced code outside lists and
quotes, each once and in order, nothing else, under their headings. With nested lists they have
not (`nested_lists`). The renderings of lists and quotes take inline texts only, so fenced
code in an item or a quote is in no block, although the docstring names code blocks among
what is preserved; indented code, html and rules are taken over nowhere.
Cells without text are dropped and the row filled up at its end, so later cells move to
the left; the property is about texts, not columns.

`MineruTask`. `submit`, `poll`, `sleep`, `download`, with a clock. The service makes the
task (`Accept`) and puts its state into an answer (`Serve`) some time before the parser
has the response. A request takes at most `Slow`, which stands for the timeouts of the HTTP
client; they bound each operation of a request, so `Slow` is what they come to together.
`DoneTaskIsTaken`: a task is given up only if it was not done one interval and one slow
request before the timeout, counted from the first poll; polling ends; and a block stands under the last heading before it, or
under none if there is none. One request that fails ends the parsing, whatever the
task comes to: the code does not ask again.

`EmbeddingBatches`. Batches in order, a batch that is answered with nothing and asked
again text by text at the same time, and the switch that stays. `EveryTextHasItsVector`:
whoever pairs nodes with vectors by place pairs them right, whatever a service leaves out
at the beginning or end of its answers.

`ModelLoading`. Requests that load the same model at the same time, and the lock per
model. `PredictsOneAtATime`, and nobody waits for a lock that no predicting request has.

`EvaluationVersions`. Datasets, copies of copies, edits and a comparison by `get_base_id`.
Clients choose the ids of new cases (`Given`), may put a `_v` into them, and may give an id
again that was deleted; only the primary key refuses one that is there. That a row is
inserted is taken as working. `ComparisonCountsEachCase` compares the numbers with what
happened to every new case and its copies (`origin`, a history variable). It does not
always hold: two cases of a version whose ids have the same part before a `_v` are one in
the dict that a comparison makes, an id with a `_v` of its own or one that is given again
beside its copy. `ComparisonIsRight` says when it holds: if the cases that the two
versions come from were given ids with different base ids.

## Runs

| run | checks | bounds |
|---|---|---|
| `pipeline_serial` | `TypeOK`, `FreshIsCurrent`, `RunSucceededIsComplete`, `CoherentIndex`, `ImplementsBuild` | 1 handler, 4 requests of any kind, 1 fault |
| `pipeline_concurrent` | `ManifestsAreStored`, `StagesInOrder` | 2 handlers, 2 requests of any kind, 1 fault |
| `pipeline_retries` | `OneHandlerPerRetry`, `RetryOutcomeIsFinal` | 2 handlers, 4 requests for the first two stages, 1 fault |
| `pipeline_liveness` | `WholeRunIsDecided` | 1 handler, 3 requests, 1 fault |
| `pipeline_stale` | `FreshFromLatest` is violated | 2 handlers, 2 requests |
| `source_concurrent` | `NodesAreSearchable`, `IndexIsWhole`, `OnlyRemovalDeadlocks`, `SucceededJobIsTheIndex` | 2 handlers, 4 requests of any kind, 3 configurations, 1 fault |
| `source_serial` | `TypeOK`, `RemovedWithoutTrace` | 1 handler, 5 requests of any kind, 1 fault |
| `source_removed` | `RemovedWithoutTrace` is violated | 2 handlers, 2 requests |
| `answers` | `OnlyLiveContexts`, `SearchIsComplete`, `ImplementsProtocol` | 1 question, 1 index request, 4 nodes, 2 variants, top 1 and 2 |
| `records` | the eight properties of the records | 4 requests and 1 mishap of a browser; 3 requests for a dataset with 2 sources; 4 uploads or removals and 1 failure; 3 changes of settings |
| `workers` | the ten properties of the workers | documents of 4 blocks of 11 kinds under 10 configurations; 3 markdown elements of 11 kinds; 18 ticks; 5 texts in batches of up to 3, 2 calls; 3 requests for 2 models, 2 failures; 3 versions, 3 ids with 2 base ids, 4 operations |
| `nested_lists` | `ListItemsAreKept` is violated | as `workers`, 1 operation |

Why the bounds are enough. The pipeline has five stages and all of them are kept. With
four requests a whole run can be followed by a repetition of an early stage, by one of a
later stage, and by another whole run, with failures at any step of each. Two requests
at a time already interleave every pair of transactions; a third handler meets the same
row in the same way, and the theorems cover any number. Four requests on two stages let
each of two handlers repeat a stage that the other has just repeated. For the source,
one fault and four requests allow an index, two requests that replace it at the same
time and one that clears or removes it meanwhile; the three configurations give a
document that shrinks, one that grows and one without blocks. An answer with two variants,
two searchers and a limit below the number of nodes has cuts, ties and merges in every
list; the index request beside it builds or clears either source at any point. A browser's
four requests are a login, two refreshes at once and one that follows. Four blocks are a
heading, two that are gathered and one that ends the group, or two headings with a text
after each; table budgets are such that a table of eleven lines needs several parts, has a
row above the budget, or stays whole, and a line break has as many tokens as a short
line, so that a part of a few lines is already over the size. A timeout of 7 ticks leaves
room for several polls at an interval of 2, and answers of up to 3 ticks are longer than a
sleep; the bound of `DoneTaskIsTaken` is met exactly. Five texts in batches of up to three end in a full
or a short batch. Three versions are an original, a copy and a copy of the copy; of three ids one
looks like the copy of another. Three changes of settings are two requests that overlap and
one that commits between their readings; two values, one of them "unset", are enough to
send the same again or another.

Handlers are interchangeable, so runs of invariants use them as a symmetry set; the
liveness run does not. The configurations set `CHECK_DEADLOCK FALSE` because a behaviour
ends when its requests are served. `faults` counts losses, so that the bound also makes
them stop. Only `pipeline_liveness` assumes fairness.

### Disagreements with the code's own words

- `pipeline_stale`. `_ensure_stage_dependencies` refuses a stage without "fresh
  successful" inputs, and `src/tests/test_indexing_pipeline.py:119` asserts it. When an
  earlier stage is repeated while a later one runs, the later one is marked stale, and
  its success transaction then writes the row back with `stale=False`: a result of
  superseded inputs counts as fresh, and later stages accept it.
- `source_removed`. `delete_source` deletes "associated index data first", but a request
  that is indexing the source at the time writes its points after they were deleted, is
  then refused by the database, and leaves the points. No request can delete them
  afterwards, since `delete_source_index` refuses a source that does not exist.
- `nested_lists`. `markdown_to_blocks` "preserves document structure by identifying"
  lists, "ordered/unordered/nested". `_render_list_as_text` has one `item_content` for all
  levels: opening a nested item discards the text of the item above it, and when that one
  closes, the last nested item's text is written again in its place. The tests look only
  for the nested items and those after them.

## Proofs

TLC checks the properties on small instances, the theorems state them for every value
of the constants. They are about the same specifications the runs use (`Spec`,
`AuthSpec`, `DatasetSpec`, ...); the temporal step is always that of an invariant that
the initial states satisfy and every step keeps. The invariants stand in the modules
they are about, after the properties, and each was checked by TLC on an instance before
it was proved.

| theorem | states | assumes of the constants |
|---|---|---|
| `TypeCorrect` | `TypeOK` of a run | |
| `ManifestsAlwaysStored` | `ManifestsAreStored` | |
| `RetriesAreExclusive` | `OneHandlerPerRetry` | |
| `RetryOutcomesAreFinal` | `RetryOutcomeIsFinal`, of steps | |
| `StagesAlwaysInOrder` | `StagesInOrder` | |
| `FreshIsAlwaysCurrent` | `FreshIsCurrent` | one handler |
| `SucceededRunsAreComplete` | `RunSucceededIsComplete` | one handler |
| `IndexIsAlwaysCoherent` | `CoherentIndex` | one handler |
| `PipelineIsABuild` | `ImplementsBuild`, a refinement | one handler |
| `IndexTypeCorrect` | `TypeOK` of a source's index | |
| `IndexIsAlwaysWhole` | `IndexIsWhole` | |
| `SucceededJobsAreTheIndex` | `SucceededJobIsTheIndex`, of steps | |
| `NodesAreAlwaysSearchable` | `NodesAreSearchable` | |
| `OnlyRemovalsDeadlock` | `OnlyRemovalDeadlocks` | |
| `SourcesAreRemovedWithoutTrace` | `RemovedWithoutTrace` | one handler |
| `OneSessionIsKept` | `OneSessionPerLogin` | a browser |
| `RacingRefreshesStaySignedIn` | `StaysSignedIn` | a browser |
| `AddsAreAlwaysComplete` | `AddsAreComplete`, of steps | lists of sources |
| `UpdatesAlwaysKeepOtherFields` | `UpdatesKeepOtherFields`, of steps | lists of sources |
| `RowsHaveTheirFiles` | `RowHasItsFile` | an id |
| `NothingIsLeftBehind` | `NothingLeftBehind` | an id |
| `KeysAlwaysKeepTheLastWord` | `KeysKeepTheLastWord` | |
| `TasksAlwaysGetFittingModels` | `TasksGetFittingModels`, of steps | |
| `TextsAlwaysHaveTheirVectors` | `EveryTextHasItsVector` | |
| `ModelsPredictOneAtATime` | `PredictsOneAtATime` | `None` is no request |
| `ComparedRightly` | `ComparisonIsRight` | given ids are not empty |
| `DoneTasksAreTaken` | `DoneTaskIsTaken` | times are natural, contents are lists of items |
| `ChunksWellTyped` | `ChunkTypeOK`, the types of the chunkers' state | blocks and settings are such |
| `EveryPieceIsKept` | `ContentIsKept` | the same |
| `WindowsShareWhatWasAsked` | `WindowsOverlapAsAsked` | the same |
| `PathsAreTheirSections` | `NodesKeepTheirSection` | the same |
| `TablesAreSplitOnce` | `TableRowsOnce` | the same |
| `NodesHaveTheirOwnIds` | `NodeIdsDiffer` | the same |
| `NothingStaleIsShown` | `OnlyLiveContexts` | nodes, indexes, modes, relevances |
| `QuietSearchIsComplete` | `SearchIsComplete` | the same |
| `StreamKeepsToTheProtocol` | `ImplementsProtocol`, a refinement | the same |

**Assumptions.** Bounds are natural numbers, everywhere. `IndexPipeline` assumes that
requests are of the kinds the API accepts (`AskedAssumption`), `SourceIndex` that two
documents of a source share their first block (`FirstBlockAssumption`, see above).
`OneAtATime`, where it appears, is the condition under which the code keeps the property
at all: `pipeline_stale` and `source_removed` are the counterexamples with two requests.
The others only say that the constants are what their comments call them: lists are
sequences of sources (`ListsAreSources`), `None` is not a request, there is a browser, an
id; nodes are numbers whose parents are nodes of the same source (`NodesAssumption`), an
index of a source consists of its nodes (`BuildsAssumption`), modes are modes with limits
above 0, as the API's models demand (`ModesAssumption`), a question has at least one
variant and both searchers get the same ones (`RelevancesAssumption`); the blocks of
documents and the settings of chunkers have the fields and values that the code reads,
with a chunk size of at least 1 (`ChunksAssumption`).

**Rows of a run** (`IndexPipelineProofs`, from its beginning). None of the invariants is
inductive alone. A manifest is published with files because the handler that publishes
wrote them, so what the handler knows has to be part of the invariant: `ClaimInv` says
that the row a handler works on exists, is no longer pending, is still running if it is a
repetition, and holds files when the handler is about to commit. A row that is inserted
gets the number after the last, hence one that no working handler has
(`RetryIsNotPending`, `OneHandlerPerRetry`); a row that is taken over is number 1.
`RowInv` with `TypeOK` is inductive: lemmas say what each kind of write does to the rows
(`UpdateRow`, `InsertRow`, `MarkStaleRows`), then one lemma per group of actions, then
`RowsInductive`. The action property uses the same invariant: only the owner of a
repetition writes it, and its owner finds it running.

**Order of stages.** A handler checks the earlier stages one by one and starts its own
much later. That is sound for "has produced artifacts", although not for "is fresh",
because artifacts are never withdrawn: `SeenInv` says that what a handler has checked is
still produced, `SuccessIsPublished` that a succeeded attempt has manifests, and
`AttemptsInOrder` generalises the property to all attempts. Their conjunction `OrderInv`
is inductive relative to `RowInv`.

**One request at a time.** `Alone` says what a handler may rely on from its checks to
its commit: the stages it checked are fresh, its row is the latest of its stage, later
stages are stale, and what it has read are the latest attempts at its inputs. It is the
part that a second handler breaks, and the reason that `_start_stage_run` marks the later
stages stale before the payload and not after it. `AloneIndInv` adds the three properties
and `SettledIndex`, that the attempts the index came from have been decided.
`PipelineIsABuild` then maps each step: starting a stage needs the earlier ones fresh
(`Alone`), a commit finishes the stage under construction, and a run becomes succeeded
only when the last stage does.

**The index of a source** (`SourceIndexProofs`). `IndexIsWhole` holds because the first
block is a lock that nobody wrote as one. `TransactionInv` and `SnapshotInv` say that
open transactions have deleted whole tables or nothing of them, and that a snapshot of a
table is of one job; whoever has deleted or inserted the first block owns the index
(`OwnerFacts`), since a second one waits for it (`LockInv`, no row is changed by two
transactions). `CommitFacts` concludes that the owner's commit leaves the rows it made
and no others. `JobInv` keeps the numbers of jobs apart, `SourceInv` that a cascade is
alone. For `OnlyRemovalsDeadlock`, who waits and is waited for without a cascade owns the
index, and only one can. `PointsInv` says that a request that has gone on from the
collection has its points there, `RemovalInv` that one that clears has emptied it.

**Sessions** (`RefreshSessionsProofs`). `BookInv` says where cookies come from: a session
a request carries was made for the same browser, by a request that has been answered, and
goes back to a login. On it rest two inductions. For a browser that never overlapped,
`RotationInv`: its only request carries the cookie in the jar, and the session it read is
the only one of its login alive, so that revoking it and adding one leaves one. For
refreshes that race, `StayInv`: a session that is revoked was revoked by a request that
brings the browser another, which is the jar's, or on its way.

**Datasets** (`RecordsProofs`, like the next two). `PutInv`: no two transactions have put the same
source, nor one that is in the dataset; with `ListInv`, that a request has put or found
every source it has gone through, a commit completes the list. `DirtyInv` and `LockInv`:
what an update sends are the fields that differ from its second reading, under a row lock
that no one else has.

**Files.** `UploadInv`: while every id is used once, a source has
one upload, its file is there before its row, and goes after it. `CleanInv`: without a
failure, a file without a row has a request that is about to insert the one or delete the
other. `NothingLeftBehind` is this with no request under way.

**Settings.** `LastWordInv` adds to the property what a request has in its hands: for each
key, the row still has the value that it read, or somebody who committed after that
reading has the last word (`UpToDate`). So a key that it does not write is either as it was or
somebody's last word, and one that it writes becomes its own; `SavedInv` keeps the counts of
commits in order. `ModelsInv`: an enabled model exists and its
provider too, kept by the deletions that take models and bindings along. That a binding
exists is not enough for `TasksGetFittingModels`, and `_apply_model_binding` does not ask
whether the model exists; it asks whether it is enabled, and `ModelsInv` makes that
sufficient.

**Answers** (`AnswerStreamProofs`). First what the operators of `RetrievalOps` return, for
every list of hits: the nodes of `FirstHits`, `MergedVariants`, `Fused`, `Reranked` and
`Assembled` are nodes of what they are given, each once, and as many as the limit allows.
`RankedBy` gives each hit the number of those not after it, and `RanksArePlaces` shows that
these numbers are the places of a list. Then `AnswerInv`. `ReadsLive` is why nothing stale
is shown: results are hits that were found among the rows, a parent comes from a row too,
and a row is of the node's own source. `CompleteSoFar` is why a search that is not
disturbed is complete: the hits of the variants so far are enough nodes that match
(`Merging`), and a node that one variant puts above all hits of all variants is the first
of its copies with that variant's score, hence is neither lost to a merge nor cut off. It needs
`points = rows \cap Indexable` from the request on, which an index request in between
breaks. `InStep` ties what was said to the step the question is at; with it each step of
the stream is a step of `AnswerProtocol` or changes nothing the client sees.

**Batches** (`WorkersProofs`, like the next three). `BatchesInv`: before a batch, the vectors are
those of the texts before it, each at its place; while single texts are asked for, each
answer is under its own text. That the gathered answers are in the order of the texts
(`InOrder`, by cardinalities of initial segments) is proved as a lemma of its own.

**Models**. `GuardInv`: one request at a time looks for the lock
of a model, so a lock that is in the table is the only one of its model; `HolderInv`:
different models have different locks, and the holder of a lock is predicting.

**Versions.** `VersionsInv`: a row keeps the base id of the id that its new case was given,
and a version has one row at most of each new case, since the operations that made two of
them differ, or the ids that one of them gave. If the cases of two versions are given
apart, base ids are one for one with origins (`CasesApart`, `ByTheirBaseIds`), whatever
row of a version the dict keeps, and each number of a comparison counts a set that is in
bijection with the one it should count (`SameSize`).

**The remote task.** `ParseInv` follows the clock: a request is sent before the timeout and
ends within `Slow`; the state in an answer is not older than its request, so a parser that
sleeps knows that the task was not done when it last asked (`NotDoneBefore`). The
third part is about what `BlocksOf` computes for every content, by induction over its
items (`SetInduction`).

**Chunkers** (`ChunkingProofs`, on `ListsProofs`). `ChunkInv` is one invariant for all
five. `InHand`: what is gathered and the path are in the order of the document, before the
next block. `NodesFromBlocks`: nodes are made of blocks that were passed and are no longer
held, so that nodes of a later step cite other blocks, which is what `NodeIdsDiffer` needs
across steps. `KeptSoFar` is `ContentIsKept` in the middle of a document: a block is in the
hands or, piece by piece, in nodes. `InSection`: under headings that skip no level, the
path is the chain of headings above the next block, and no heading lies between a
gathered block and it. `TablesTogether`: the nodes of a table are those that `SplitRows`
made, one after the other. The last three properties are part of `ChunkInv` themselves;
`ContentIsKept` and `TableRowsOnce` follow from it.

A step adds nodes of one kind, and `StepOK` collects what the properties need to know of
them: sound (only their blocks and headings), nothing of what leaves the hands is lost,
their paths, windows and ids. Each way of making nodes has a lemma that says so
(`WindowNodes`, `PagesFlushed`, `SectionFlushed`, `RowParts`); `EachStep` is their sum, and
one lemma per conjunct of `ChunkInv` (`HandStep`, `KeptStep`, `SectionStep`, ...) uses no
other fact about the action. Beneath are three computations. Windows: with `Count` windows
of `Step` tokens the last one ends with the text and the one before does not
(`WindowPlaces`, from what division leaves, `Ceiling`), and therefore neighbours share the
overlap. Rows: after each row the groups put together are the rows so far, and a group
over the budget has one row (`RowsGrouped`, by induction over the rows; `CostOfJoined` adds
the header, and the line breaks are counted apart: `NotTooLong`). Paths: pushing a heading cuts the path where the headings above the new one
end (`PushedHeadings`, with `Cardinality` of chains).

**Lists** (`ListsProofs`). The induction theorems of the library take a predicate as a
parameter, which the provers cannot instantiate; `SetInduction` takes a set instead and
follows from the well-foundedness of the numbers. With it, for every list: `Ascending` has
each number once and in order, `Picked` and `Among` keep the order and the elements of
what they select from, and what is put together by `Chain` has the pieces of its parts
and no others, differs where a part differs, and ends where its parts end.

**Model-checked only.** `WholeRunIsDecided` is liveness, which is beyond the prover,
like `ENABLED`. `FlatTextsAreKept` says for a document that is known element by element
what a walk over its tokens makes of it, and would need an invariant that knows how far
the walk is inside each kind of element, hence one that restates the parser.
The three runs that expect a violation have nothing to prove.

## Plan

What is left, in order:

1. `Markdown`: a proof of `FlatTextsAreKept`, with an invariant about the walk inside an
   element.
2. `RefreshSessions`: a revoked session stays revoked.
3. The chunk metrics of `quality.py`, if they come to decide anything.

## Not modelled

- Enrichment and vision models. Metadata per node, and descriptions of pictures and tables
  one after the other; a failure leaves the block as it was, and nothing is shared.
- The metrics of `quality.py`, of the evaluation and of the scores behind a search:
  floating point over finished results. The evaluator and the generator make their calls
  at the same time and leave out the results that are exceptions; what they call is
  modelled, and nothing is shared. The API's `run_experiment` does not run one.
- Sparse and hash encodings, prompts, and heuristics over single lines of text
  (`block_parsing.py`, `_heading_level`, normalisation of questions): conversions of
  strings that no property distinguishes.
- LlamaParse and the plain reader: calls of a library whose text goes through the same
  walk as any markdown.
- Request parsing, construction of services, migrations, the command line and the web
  frontend: no state that another component depends on.
