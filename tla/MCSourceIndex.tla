--------------------------- MODULE MCSourceIndex ---------------------------
(* Instances of SourceIndex for TLC. *)
EXTENDS SourceIndex, TLC

CONSTANTS long, short, empty

HandlerSymmetry == Permutations(Handler)

(* Two configurations that share a block id and a node id, and a document   *)
(* in which a parser finds nothing.  Node 3 is a parent section.            *)
SomeBlocks == [c \in Config |-> IF c = long THEN {1, 2} ELSE IF c = short THEN {1} ELSE {}]
SomeNodes  == [c \in Config |-> IF c = long THEN {1, 2, 3} ELSE IF c = short THEN {2} ELSE {}]

Everything == AllKinds
=============================================================================
