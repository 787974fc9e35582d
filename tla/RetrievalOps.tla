---------------------------- MODULE RetrievalOps ----------------------------
(***************************************************************************)
(* What a search does with lists of hits, from the merging of the variants *)
(* of a query to the citations of an answer.  A node is a number, as the   *)
(* ids of nodes decide ties; a hit is a node and a score.                  *)
(***************************************************************************)
EXTENDS Integers, Sequences, FiniteSets, SequencesExt, Lists

Take(s, k) == SubSeq(s, 1, IF k < Len(s) THEN k ELSE Len(s))

NodesIn(hits) == {hits[i].node : i \in DOMAIN hits}

(* A stable sort of s by the score of each place: the higher first, equal   *)
(* ones as they were.                                                       *)
NotAfter(score, i) ==
  {j \in DOMAIN score : score[j] > score[i] \/ (score[j] = score[i] /\ j <= i)}
RankedBy(s, score) ==
  [k \in DOMAIN s |-> s[CHOOSE i \in DOMAIN s : Cardinality(NotAfter(score, i)) = k]]

ScoresOf(hits) == [i \in DOMAIN hits |-> hits[i].score]

(* Each node or number only where it is first.                              *)
Firsts(key)      == {i \in DOMAIN key : \A j \in DOMAIN key : j < i => key[j] # key[i]}
FirstHits(hits)  == Picked(hits, Firsts([i \in DOMAIN hits |-> hits[i].node]))
FirstOf(numbers) == Picked(numbers, Firsts(numbers))

(* _vector_search_with_variants and _bm25_search_with_variants: the hits of *)
(* the variants, one variant after the other; a node keeps the score of the *)
(* first variant that found it.                                             *)
Best(hits, k) == Take(RankedBy(hits, ScoresOf(hits)), k)
MergedVariantsCutFirst(hits, k) == LET some == FirstHits(Take(hits, k)) IN RankedBy(some, ScoresOf(some))
MergedVariants(hits, k) == Best(FirstHits(hits), k)

-----------------------------------------------------------------------------
(* RRFFuser.fuse, with scores in units of 1 / Scale(k, n), n at least the   *)
(* length of the longer list, so that they are whole numbers.               *)
Scale(k, n) == LET s[i \in 0 .. n] == IF i = 0 THEN 1 ELSE s[i - 1] * (k + i) IN s[n]

(* The last rank counts, the lists having no node twice; 0 for no rank.     *)
RankIn(hits, node) ==
  LET at == {i \in DOMAIN hits : hits[i].node = node}
  IN  IF at = {} THEN 0 ELSE CHOOSE i \in at : \A j \in at : j <= i

Fused(vector, bm25, k, unit, top) ==
  LET Part(rank) == IF rank = 0 THEN 0 ELSE unit \div (k + rank)
      nodes == Ascending(NodesIn(vector) \cup NodesIn(bm25))
  IN  Best([i \in DOMAIN nodes |->
              [node |-> nodes[i],
               score |-> Part(RankIn(vector, nodes[i])) + Part(RankIn(bm25, nodes[i]))]], top)

-----------------------------------------------------------------------------
(* The end of search: hits without a row are dropped.                       *)
AssembledAll(hits, rows, top) == Take(FirstHits(hits), top)
Assembled(hits, rows, top) ==
  LET first == FirstHits(hits)
  IN  Take(Picked(first, {i \in DOMAIN first : first[i].node \in rows}), top)

(* ScoreKeywordReranker.rerank: three quarters of the score and one quarter *)
(* of the share of the query's words that the node has, which is given in   *)
(* the units of the score.                                                  *)
KeywordReranked(results, overlap, top) ==
  Take(RankedBy(results, [i \in DOMAIN results |-> 3 * results[i].score + overlap[results[i].node]]), top)

(* BGECrossEncoderReranker.rerank *)
CrossReranked(results, relevance, top) ==
  Take(RankedBy(results, [i \in DOMAIN results |-> relevance[results[i].node]]), top)

Least(a, b) == IF a < b THEN a ELSE b

(* _rerank_answer_nodes; no stage at all is refused.                        *)
Reranked(results, stages, overlap, relevance, coarseTop, top) ==
  LET coarse == IF "coarse" \in stages
                THEN KeywordReranked(results, overlap, Least(coarseTop, Len(results)))
                ELSE results
  IN  IF "fine" \in stages THEN CrossReranked(coarse, relevance, Least(top, Len(coarse)))
                           ELSE Take(coarse, top)

(* _context_items_from_reranked: a context is the parent of the node that   *)
(* was found, if it has one, and is cited by its place.                     *)
Contexts(reranked, parents, most) ==
  LET items == Take(reranked, most)
  IN  [i \in DOMAIN items |->
        LET node == items[i].node IN
        [matched |-> node, node |-> IF node \in DOMAIN parents THEN parents[node] ELSE node]]

(* _used_context_ids_from_answer: of the numbers in brackets, those of      *)
(* contexts, each where it is first.                                        *)
UsedEvery(mentions, contexts) ==
  Picked(mentions, {i \in DOMAIN mentions : mentions[i] \in DOMAIN contexts})
Used(mentions, contexts) ==
  FirstOf(Picked(mentions, {i \in DOMAIN mentions : mentions[i] \in DOMAIN contexts}))
=============================================================================
