---------------------------- MODULE AnswerStream ----------------------------
(***************************************************************************)
(* One question to a dataset, from the request to the last event of its    *)
(* stream, while index requests change the points and the rows that it     *)
(* reads: the points of a source are written before its rows are replaced, *)
(* and deleted before them; the question reads the dataset, the points     *)
(* (once per query variant and searcher), the nodes and their parents at   *)
(* different times.                                                        *)
(***************************************************************************)
EXTENDS Integers, Sequences, FiniteSets, RetrievalOps

CONSTANTS
  Node,           (* The nodes of all documents: numbers from 1.            *)
  SourceOf,       (* The source of a node.                                  *)
  ParentOf,       (* The section a node is part of, 0 for none.             *)
  Builds,         (* Per source, the sets of nodes its indexes consist of.  *)
  Relevances,     (* What the models make of the question; see Relevance.   *)
  Modes,          (* The settings: see Mode.                                *)
  MaxContexts,    (* The most contexts that a mode allows.                  *)
  MaxIndexings,   (* Bound: index requests.                                 *)
  MaxDeltas       (* Bound: pieces of an answer that cite.                  *)

VARIABLES
  points,         (* The nodes that have a point in the collection.         *)
  rows,           (* The nodes that have a row.                             *)
  files,          (* The sources of the dataset.                            *)
  indexing,       (* The index request that is under way.                   *)
  indexings,      (* Index requests so far.                                 *)
  mode,           (* The settings of the question's service,                *)
  relevance,      (* and its relevance.                                     *)
  ask,            (* The question.                                          *)
  lived,          (* History: nodes with a row at some time since it came.  *)
  disturbed       (* History: points and rows changed, or were not the same *)
                  (* nodes, since it came.                                  *)

indexVars == <<points, rows, files, indexing, indexings>>
asked     == <<mode, relevance>>
vars      == <<indexVars, asked, ask, lived, disturbed>>

-----------------------------------------------------------------------------
Source == {SourceOf[n] : n \in Node}
Of(s)  == {n \in Node : SourceOf[n] = s}

(* Sections that are only parents have no points.                           *)
Indexable == {n \in Node : \A c \in Node : ParentOf[c] # n}

(* hybrid: both searchers and their fusion; stages of the reranking; the    *)
(* limits of the two searches, of the reranking and of the contexts.        *)
Limit == Nat \ {0}
Mode  == [hybrid : BOOLEAN, stages : SUBSET {"coarse", "fine"}, top : Limit, sparseTop : Limit,
          coarseTop : Limit, rerankTop : Limit, most : Nat]

(* Scores per variant of the query (bm25: 0 is no hit), the overlap with    *)
(* the words of the query, and the judgement of the cross encoder.  A query *)
(* has at least one variant, and the same ones for both searchers.          *)
Relevance == {r \in [vector : Seq([Node -> Nat]), bm25 : Seq([Node -> Nat]),
                     overlap : [Node -> Nat], cross : [Node -> Nat]] :
                r.vector # <<>> /\ Len(r.bm25) = Len(r.vector)}

(* A parent is a node of the same source; an index of a source consists of  *)
(* its nodes; no mode shows more contexts than MaxContexts.                 *)
ASSUME NodesAssumption ==
  /\ IsFiniteSet(Node) /\ Node \subseteq Nat \ {0}
  /\ ParentOf \in [Node -> Node \cup {0}]
  /\ \A n \in Node : ParentOf[n] # 0 => SourceOf[ParentOf[n]] = SourceOf[n]
ASSUME BuildsAssumption == \A s \in Source : \A build \in Builds[s] : build \subseteq Of(s)
ASSUME ModesAssumption ==
  MaxContexts \in Nat /\ \A m \in Modes : m \in Mode /\ m.most <= MaxContexts
ASSUME RelevancesAssumption == \A r \in Relevances : r \in Relevance

Variants == DOMAIN relevance.vector

(* pc is what is done next.  vector and sparse are the hits so far and      *)
(* variant, sparseVariant the variants that are done.  plain is a question  *)
(* that is answered by answer, which takes the same way without a stream:   *)
(* said is then how far it has come.                                        *)
Step == {"dataset", "prepare", "transform", "search", "hydrate", "parents", "rerank", "contexts",
         "stream", "over"}

Question ==
  [pc |-> "dataset", plain |-> FALSE, said |-> "asked", sources |-> {}, variant |-> 0, sparseVariant |-> 0,
   vector |-> <<>>, sparse |-> <<>>, hits |-> <<>>, found |-> {}, results |-> <<>>,
   parents |-> <<>>, contexts |-> <<>>, mentions |-> <<>>, cited |-> <<>>]

-----------------------------------------------------------------------------
Init ==
  /\ files \in SUBSET Source
  /\ \E build \in [Source -> UNION {Builds[s] : s \in Source}] :
       /\ \A s \in Source : build[s] \in Builds[s]
       /\ rows = UNION {build[s] : s \in Source}
  /\ \E stale \in SUBSET (Indexable \ rows) : points = (rows \cap Indexable) \cup stale
  /\ indexing = [pc |-> "idle", nodes |-> {}]
  /\ indexings = 0
  /\ mode \in Modes
  /\ relevance \in Relevances
  /\ ask = Question
  /\ lived = rows
  /\ disturbed = (points # rows \cap Indexable)

(* Index requests, one at a time: a job upserts its points and commits its  *)
(* rows; a source is cleared the other way round.                           *)
Changed ==
  /\ lived' = IF ask.pc = "dataset" THEN rows' ELSE lived \cup rows'
  /\ disturbed' = (ask.pc # "dataset" \/ points' # rows' \cap Indexable)
  /\ UNCHANGED <<files, asked, ask>>

StartIndexing(s, build) ==
  /\ indexing.pc = "idle" /\ indexings < MaxIndexings
  /\ points' = points \cup (build \cap Indexable)
  /\ indexing' = [pc |-> s, nodes |-> build]
  /\ indexings' = indexings + 1
  /\ UNCHANGED rows
  /\ Changed

StartClearing(s) ==
  /\ indexing.pc = "idle" /\ indexings < MaxIndexings
  /\ points' = points \ Of(s)
  /\ indexing' = [pc |-> s, nodes |-> {}]
  /\ indexings' = indexings + 1
  /\ UNCHANGED rows
  /\ Changed

CommitRows(s) ==
  /\ indexing.pc = s
  /\ rows' = (rows \ Of(s)) \cup indexing.nodes
  /\ indexing' = [pc |-> "idle", nodes |-> {}]
  /\ UNCHANGED <<points, indexings>>
  /\ Changed

-----------------------------------------------------------------------------
Reading == UNCHANGED <<indexVars, asked, lived, disturbed>>

(* _source_ids_for_dataset: a dataset that is unknown or empty is refused.  *)
ReadDataset ==
  /\ ask.pc = "dataset"
  /\ ask' = IF files = {} THEN [ask EXCEPT !.pc = "over", !.said = "refused"]
            ELSE [ask EXCEPT !.pc = "prepare", !.said = "accepted", !.sources = files]
  /\ Reading

(* answer is called for a test case of an evaluation, with no sources: the  *)
(* search does without the filter.                                          *)
AskPlainly ==
  /\ ask.pc = "dataset"
  /\ ask' = [ask EXCEPT !.pc = "prepare", !.said = "accepted", !.sources = Source, !.plain = TRUE]
  /\ Reading

(* The query is normalized and the limits are resolved.                     *)
Prepare ==
  /\ ask.pc = "prepare"
  /\ ask' = [ask EXCEPT !.pc = "transform", !.said = "searching"]
  /\ Reading

(* The variants, if a transformer is configured, come from a model.         *)
Transform ==
  /\ ask.pc = "transform"
  /\ ask' = [ask EXCEPT !.pc = "search"]
  /\ Reading

Searchable == {n \in points : SourceOf[n] \in ask.sources}

(* A searcher's answer: the best nodes that match, the best first.          *)
Hits(score, nodes, limit) ==
  LET order == Ascending(nodes)
  IN  Best([i \in DOMAIN order |-> [node |-> order[i], score |-> score[order[i]]]], limit)

(* One variant is embedded and searched for after the other,                *)
SearchVectors ==
  /\ ask.pc = "search"
  /\ ask.variant < Len(relevance.vector)
  /\ LET v == ask.variant + 1 IN
       ask' = [ask EXCEPT !.variant = v,
                 !.vector = @ \o Hits(relevance.vector[v], Searchable, mode.top)]
  /\ Reading

(* and, at the same time, by the words.                                     *)
SearchWords ==
  /\ ask.pc = "search" /\ mode.hybrid
  /\ ask.sparseVariant < Len(relevance.bm25)
  /\ LET v == ask.sparseVariant + 1
         matching == {n \in Searchable : relevance.bm25[v][n] > 0}
     IN  ask' = [ask EXCEPT !.sparseVariant = v,
                   !.sparse = @ \o Hits(relevance.bm25[v], matching, mode.sparseTop)]
  /\ Reading

(* The unit of a score, 1 in the code.                                      *)
Unit ==
  IF mode.hybrid THEN Scale(60, IF mode.top < mode.sparseTop THEN mode.sparseTop ELSE mode.top) ELSE 1

Found(vector, sparse) ==
  LET vectors == MergedVariants(vector, mode.top)
      words   == MergedVariants(sparse, mode.sparseTop)
  IN  IF mode.hybrid THEN Fused(vectors, words, 60, Unit, mode.top) ELSE vectors

Fuse ==
  /\ ask.pc = "search"
  /\ ask.variant = Len(relevance.vector)
  /\ mode.hybrid => ask.sparseVariant = Len(relevance.bm25)
  /\ ask' = [ask EXCEPT !.pc = "hydrate", !.hits = Found(ask.vector, ask.sparse),
                        !.vector = <<>>, !.sparse = <<>>]
  /\ Reading

(* _hydrate_nodes and, in another transaction, _hydrate_parent_contexts.    *)
Hydrate ==
  /\ ask.pc = "hydrate"
  /\ ask' = [ask EXCEPT !.pc = "parents", !.found = NodesIn(ask.hits) \cap rows]
  /\ Reading

Parents(found) ==
  [n \in {n \in found : ParentOf[n] \in rows} |-> ParentOf[n]]

Overlap == [n \in Node |-> Unit * relevance.overlap[n]]

(* Results with the nodes they are shown as.                                *)
ReadParents ==
  /\ ask.pc = "parents"
  /\ ask' = [ask EXCEPT !.pc = "rerank", !.said = "reranking",
                        !.results = Assembled(ask.hits, ask.found, mode.top),
                        !.parents = Parents(ask.found)]
  /\ Reading

Rerank ==
  /\ ask.pc = "rerank"
  /\ LET reranked == Reranked(ask.results, mode.stages, Overlap, relevance.cross,
                              mode.coarseTop, mode.rerankTop)
     IN  ask' = [ask EXCEPT !.pc = "contexts", !.said = "contexts",
                   !.contexts = Contexts(reranked, ask.parents, mode.most),
                   !.hits = <<>>, !.found = {}, !.results = <<>>, !.parents = <<>>]
  /\ Reading

Generate ==
  /\ ask.pc = "contexts"
  /\ ask' = [ask EXCEPT !.pc = "stream", !.said = "generating"]
  /\ Reading

(* A piece of the answer with a number in brackets; a generator cites what  *)
(* it likes.                                                                *)
Delta ==
  /\ ask.pc = "stream" /\ Len(ask.mentions) < MaxDeltas
  /\ \E mention \in 1 .. (mode.most + 1) : ask' = [ask EXCEPT !.mentions = Append(@, mention)]
  /\ Reading

Done ==
  /\ ask.pc = "stream" /\ ~ask.plain
  /\ ask' = [ask EXCEPT !.pc = "over", !.said = "done", !.cited = Used(ask.mentions, ask.contexts)]
  /\ Reading

(* The plain answer collects the numbers in a set, which has no order.      *)
Answered ==
  /\ ask.pc = "stream" /\ ask.plain
  /\ \E cited \in SetToSeqs(ToSet(Used(ask.mentions, ask.contexts))) :
       ask' = [ask EXCEPT !.pc = "over", !.said = "done", !.cited = cited]
  /\ Reading

(* Every call may fail.  What the service raises itself becomes the event   *)
(* error, an exception of a client library, of the database or of a closed  *)
(* connection breaks the stream; a plain answer raises either.              *)
Raised(step) ==
  CASE step = "prepare" -> {"error", "broken"}
    [] step \in {"search", "rerank"} -> {"error", "broken"}
    [] OTHER -> {"broken"}

Fail ==
  /\ ask.pc \notin {"dataset", "over"}
  /\ \E end \in Raised(ask.pc) : ask' = [ask EXCEPT !.pc = "over", !.said = end]
  /\ Reading

Next ==
  \/ ReadDataset
  \/ AskPlainly
  \/ Prepare
  \/ Transform
  \/ SearchVectors
  \/ SearchWords
  \/ Fuse
  \/ Hydrate
  \/ ReadParents
  \/ Rerank
  \/ Generate
  \/ Delta
  \/ Done
  \/ Answered
  \/ Fail
  \/ \E s \in Source :
       \/ \E build \in Builds[s] : StartIndexing(s, build)
       \/ StartClearing(s)
       \/ CommitRows(s)

Spec == Init /\ [][Next]_vars

-----------------------------------------------------------------------------
(* Nothing is answered from outside the dataset, nor from nodes that had no *)
(* row since the question came, whatever is left in the collection and      *)
(* whenever index requests come: a cleared or replaced index is not quoted. *)
OnlyLiveContexts ==
  \A i \in DOMAIN ask.contexts :
    LET context == ask.contexts[i] IN
    /\ {context.matched, context.node} \subseteq lived
    /\ {SourceOf[context.matched], SourceOf[context.node]} \subseteq ask.sources

(* A variant of the query has a node before everything that any variant     *)
(* finds, and no earlier variant has found it.                              *)
OutstandingIn(n, v) ==
  /\ \A m \in Searchable \ {n}, w \in Variants : relevance.vector[v][n] > relevance.vector[w][m]
  /\ \A w \in 1 .. (v - 1) :
       Cardinality({m \in Searchable : relevance.vector[w][m] > relevance.vector[w][n]}) >= mode.top

(* If every point has its row, and no index request comes in between, a     *)
(* search finds as many of the nodes that match as it was asked for, each   *)
(* only once, and what one variant of the query alone finds is not lost to  *)
(* the hits of the variants before it.                                      *)
Complete(hits) ==
  /\ Len(hits) = Least(mode.top, Cardinality(Searchable))
  /\ Cardinality(NodesIn(hits)) = Len(hits)
  /\ ~mode.hybrid =>
       \A n \in Searchable, v \in Variants : OutstandingIn(n, v) => n \in NodesIn(hits)

SearchIsComplete == ask.pc = "rerank" /\ ~disturbed => Complete(ask.results)

(* The stream keeps to the protocol: its stages in their order, contexts    *)
(* before words, and only shown contexts cited, each once.                  *)
Protocol == INSTANCE AnswerProtocol WITH
  stage <- ask.said, shown <- Len(ask.contexts), cited <- ask.cited
ImplementsProtocol == Protocol!ProtocolSpec

-----------------------------------------------------------------------------
(* What the proofs rest on.                                                 *)
Hit   == [node : Node, score : Nat]
Asked == [pc : Step, plain : BOOLEAN, said : Protocol!Stage, sources : SUBSET Source,
          variant : Nat, sparseVariant : Nat, vector : Seq(Hit), sparse : Seq(Hit), hits : Seq(Hit),
          found : SUBSET Node, results : Seq(Hit), parents : UNION {[D -> Node] : D \in SUBSET Node},
          contexts : Seq([matched : Node, node : Node]), mentions : Seq(Nat), cited : Seq(Nat)]

TypeOK ==
  /\ {points, rows, lived} \subseteq SUBSET Node /\ files \in SUBSET Source
  /\ indexing \in [pc : Source \cup {"idle"}, nodes : SUBSET Node]
  /\ mode \in Modes /\ relevance \in Relevances
  /\ ask \in Asked /\ disturbed \in BOOLEAN

(* Everything read lies in the sources, and what came from rows has lived.  *)
InSources(hits) == \A i \in DOMAIN hits : SourceOf[hits[i].node] \in ask.sources

ReadsLive ==
  /\ ask.pc = "dataset" => ask = Question
  /\ rows \subseteq lived /\ ask.found \subseteq lived
  /\ InSources(ask.vector) /\ InSources(ask.sparse) /\ InSources(ask.hits) /\ InSources(ask.results)
  /\ NodesIn(ask.results) \subseteq lived
  /\ \A n \in DOMAIN ask.parents : ask.parents[n] \in lived /\ SourceOf[ask.parents[n]] = SourceOf[n]

(* What was said tells where the question is, but for the steps of the      *)
(* search, and nothing is shown or cited before its time.                   *)
Saying == [dataset |-> "asked", prepare |-> "accepted", transform |-> "searching",
           search |-> "searching", hydrate |-> "searching", parents |-> "searching",
           rerank |-> "reranking", contexts |-> "contexts", stream |-> "generating"]

InStep ==
  /\ IF ask.pc = "over" THEN ask.said \in Protocol!Ends ELSE ask.said = Saying[ask.pc]
  /\ ask.pc \notin {"contexts", "stream", "over"} => ask.contexts = <<>>
  /\ ask.pc # "over" => ask.cited = <<>>

(* The hits of the first v variants: enough nodes that match, and each      *)
(* outstanding one where its variant found it and nowhere before.           *)
Merging(hits, v) ==
  /\ NodesIn(hits) \subseteq Searchable
  /\ \A i \in DOMAIN hits : \E w \in 1 .. v : hits[i].score = relevance.vector[w][hits[i].node]
  /\ v > 0 => Cardinality(NodesIn(hits)) >= Least(mode.top, Cardinality(Searchable))
  /\ \A n \in Searchable, w \in Variants : OutstandingIn(n, w) =>
       IF w > v THEN n \notin NodesIn(hits)
       ELSE \E i \in DOMAIN hits : /\ hits[i] = [node |-> n, score |-> relevance.vector[w][n]]
                                   /\ \A j \in DOMAIN hits : j < i => hits[j].node # n

CompleteSoFar ==
  ~disturbed =>
    /\ points = rows \cap Indexable
    /\ ask.pc \in {"dataset", "prepare", "transform"} =>
         ask.vector = <<>> /\ ask.sparse = <<>> /\ ask.variant = 0
    /\ ask.pc = "search" =>
         /\ ask.variant <= Len(relevance.vector) /\ Merging(ask.vector, ask.variant)
         /\ NodesIn(ask.sparse) \subseteq Searchable
    /\ ask.pc \in {"hydrate", "parents"} => Complete(ask.hits) /\ NodesIn(ask.hits) \subseteq Searchable
    /\ ask.pc = "parents" => ask.found = NodesIn(ask.hits)

AnswerInv == TypeOK /\ ReadsLive /\ InStep /\ OnlyLiveContexts /\ CompleteSoFar /\ SearchIsComplete
=============================================================================
