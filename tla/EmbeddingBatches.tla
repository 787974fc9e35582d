--------------------------- MODULE EmbeddingBatches ---------------------------
(***************************************************************************)
(* embed_texts: the vectors of a list of texts, a batch per request, or a  *)
(* text per request once the service has answered a batch with nothing.    *)
(* A vector is known by the text it was made from.                         *)
(***************************************************************************)
EXTENDS Integers, Sequences, FiniteSets

CONSTANTS
  MaxTexts,       (* Bound: texts of a call.                                *)
  MaxBatch,       (* Bound: the batch size that is configured.              *)
  MaxCalls        (* Bound: calls of one provider.                          *)

VARIABLES
  texts,          (* How many texts the call has; they are numbered.        *)
  batchSize,
  start,          (* The place before the batch that is next.               *)
  forceSingle,    (* The provider's _force_single_input.                    *)
  embedded,       (* The vectors so far,                                    *)
  singles,        (* and those of the requests for single texts, by text.   *)
  phase,          (* What the call does next.                               *)
  calls

embeddingVars == <<texts, batchSize, start, forceSingle, embedded, singles, phase, calls>>

-----------------------------------------------------------------------------
Batch == {n \in 1 .. texts : start < n /\ n <= start + batchSize}

InOrder(answer) ==
  [k \in 1 .. Cardinality(DOMAIN answer) |->
     answer[CHOOSE n \in DOMAIN answer : Cardinality({m \in DOMAIN answer : m <= n}) = k]]

EmbeddingInit ==
  /\ texts \in 1 .. MaxTexts
  /\ batchSize \in 1 .. MaxBatch
  /\ start = 0 /\ forceSingle = FALSE
  /\ embedded = <<>> /\ singles = <<>>
  /\ phase = "batch" /\ calls = 1

(* A batch of several is requested at once, unless single inputs are forced. *)
AsksForBatch == phase = "batch" /\ Batch # {} /\ ~forceSingle /\ Cardinality(Batch) > 1

CountUnchecked(vectors, expected) == vectors # <<>>
CountChecked(vectors, expected)   == Len(vectors) = expected

BatchAnswered(vectors) ==
  /\ AsksForBatch /\ vectors # <<>>
  /\ IF CountChecked(vectors, Cardinality(Batch))
     THEN embedded' = embedded \o vectors /\ start' = start + batchSize /\ phase' = "batch"
     ELSE phase' = "failed" /\ UNCHANGED <<embedded, start>>
  /\ UNCHANGED <<texts, batchSize, forceSingle, singles, calls>>

(* No data at all: this batch and all later ones are requested one by one,  *)
BatchEmpty ==
  /\ AsksForBatch
  /\ forceSingle' = TRUE /\ phase' = "singles"
  /\ UNCHANGED <<texts, batchSize, start, embedded, singles, calls>>

AskSingly ==
  /\ phase = "batch" /\ Batch # {} /\ ~AsksForBatch
  /\ phase' = "singles"
  /\ UNCHANGED <<texts, batchSize, start, forceSingle, embedded, singles, calls>>

(* at the same time, so that the answers come in any order,                 *)
SingleAnswered(n) ==
  /\ phase = "singles" /\ n \in Batch \ DOMAIN singles
  /\ singles' = [m \in DOMAIN singles \cup {n} |-> IF m = n THEN n ELSE singles[m]]
  /\ UNCHANGED <<texts, batchSize, start, forceSingle, embedded, phase, calls>>

(* and are gathered in the order of the texts.                              *)
SinglesGathered ==
  /\ phase = "singles" /\ DOMAIN singles = Batch
  /\ embedded' = embedded \o InOrder(singles)
  /\ start' = start + batchSize
  /\ singles' = <<>> /\ phase' = "batch"
  /\ UNCHANGED <<texts, batchSize, forceSingle, calls>>

(* Any request may fail, or answer a single text with other than one vector. *)
RequestFails ==
  /\ AsksForBatch \/ (phase = "singles" /\ DOMAIN singles # Batch)
  /\ phase' = "failed"
  /\ UNCHANGED <<texts, batchSize, start, forceSingle, embedded, singles, calls>>

Return ==
  /\ phase = "batch" /\ Batch = {}
  /\ phase' = "returned"
  /\ UNCHANGED <<texts, batchSize, start, forceSingle, embedded, singles, calls>>

(* The provider serves the next call, and remembers what it learned.        *)
NextCall ==
  /\ phase \in {"returned", "failed"} /\ calls < MaxCalls
  /\ texts' \in 1 .. MaxTexts
  /\ start' = 0 /\ embedded' = <<>> /\ singles' = <<>> /\ phase' = "batch"
  /\ calls' = calls + 1
  /\ UNCHANGED <<batchSize, forceSingle>>

(* The service leaves vectors out, or adds one, but keeps their order.      *)
Answers ==
  LET batch == InOrder([n \in Batch |-> n]) IN
  {SubSeq(batch, 1, k) : k \in 1 .. Len(batch)} \cup {SubSeq(batch, 2, Len(batch)), batch \o <<1>>}

EmbeddingNext ==
  \/ \E vectors \in Answers : BatchAnswered(vectors)
  \/ BatchEmpty
  \/ AskSingly
  \/ \E n \in 1 .. MaxTexts : SingleAnswered(n)
  \/ SinglesGathered
  \/ RequestFails
  \/ Return
  \/ NextCall

EmbeddingSpec == EmbeddingInit /\ [][EmbeddingNext]_embeddingVars

-----------------------------------------------------------------------------
(* A call that returns has the vector of each text at the text's place,     *)
(* whatever the service leaves out and however a batch falls back: nodes    *)
(* and vectors are paired by place, and a shift would go unnoticed.         *)
EveryTextHasItsVector == phase = "returned" => embedded = [n \in 1 .. texts |-> n]

-----------------------------------------------------------------------------
(* Inductive invariant: the vectors of the texts before the next batch, and *)
(* of some of its own when they are asked for one by one.                   *)
Last(n) == IF n < texts THEN n ELSE texts

EmbeddingTypeOK ==
  /\ texts \in Nat \ {0} /\ batchSize \in Nat \ {0} /\ start \in Nat
  /\ phase \in {"batch", "singles", "returned", "failed"}
  /\ embedded \in Seq(Nat)

BatchesInv ==
  phase # "failed" =>
    /\ Len(embedded) = Last(start)
    /\ \A n \in 1 .. Len(embedded) : embedded[n] = n
    /\ DOMAIN singles \subseteq Batch /\ \A n \in DOMAIN singles : singles[n] = n
    /\ phase # "singles" => DOMAIN singles = {}
    /\ phase = "singles" => Batch # {}
    /\ phase = "returned" => start >= texts

EmbeddingInv == EmbeddingTypeOK /\ BatchesInv
=============================================================================
