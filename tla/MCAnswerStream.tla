--------------------------- MODULE MCAnswerStream ---------------------------
(***************************************************************************)
(* Two sources: the first has two nodes, 1 and 2, in the section 4; the    *)
(* second has the single node 3.                                           *)
(***************************************************************************)
EXTENDS AnswerStream

CONSTANTS a, b

SomeNodes    == 1 .. 4
SomeSources  == [n \in SomeNodes |-> IF n = 3 THEN b ELSE a]
SomeParents  == [n \in SomeNodes |-> IF n \in {1, 2} THEN 4 ELSE 0]

(* The document with and without its section, and no index at all.          *)
SomeBuilds == [s \in {a, b} |-> IF s = a THEN {{}, {1, 2}, {1, 2, 4}} ELSE {{}, {3}}]

(* A score per node of the two sources; sections are never hits.            *)
Scores(x, y, z) == <<x, y, z, 0>>

SomeRelevances ==
  {[vector |-> q[1], bm25 |-> q[2], overlap |-> Scores(0, 1, 0), cross |-> Scores(1, 3, 2)] :
     q \in {<< <<Scores(3, 1, 2)>>, <<Scores(0, 2, 1)>> >>,
            << <<Scores(1, 2, 3), Scores(4, 3, 3)>>, <<Scores(0, 0, 1), Scores(2, 1, 0)>> >>,
            << <<Scores(1, 3, 2), Scores(2, 1, 3)>>, <<Scores(0, 2, 1), Scores(0, 0, 1)>> >>}}

Mode1(hybrid, stages, top) ==
  [hybrid |-> hybrid, stages |-> stages, top |-> top, sparseTop |-> 2, coarseTop |-> 2,
   rerankTop |-> 2, most |-> 2]

SomeModes == {Mode1(FALSE, {"coarse"}, 2), Mode1(TRUE, {"coarse", "fine"}, 2),
              Mode1(TRUE, {"fine"}, 1)}
=============================================================================
