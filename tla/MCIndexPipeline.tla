-------------------------- MODULE MCIndexPipeline --------------------------
(* Instances of IndexPipeline for TLC. *)
EXTENDS IndexPipeline, TLC

HandlerSymmetry == Permutations(Handler)

(* Requests about the first two stages only: enough for two handlers to     *)
(* meet at the same attempt and to repeat it, in a space that leaves room   *)
(* for many requests.                                                       *)
FirstStages == {<<"stage", s>> : s \in {SOURCE, PARSE_BLOCKS}}
=============================================================================
