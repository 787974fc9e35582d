------------------------------ MODULE Chunking ------------------------------
(***************************************************************************)
(* The chunkers: how the nodes of an index are made from the blocks of a   *)
(* parsed document, one block after the other.  A text is the sequence of  *)
(* its pieces <<block, number>>: tokens, or the lines of a table.          *)
(***************************************************************************)
EXTENDS Integers, Sequences, FiniteSets, Functions, Lists

CONSTANTS
  Kinds,          (* The blocks a document may have; see Block.             *)
  MaxBlocks,      (* Bound: blocks of a document.                           *)
  Settings,       (* The chunkers and their configurations; see Setting.    *)
  IdLength,       (* The pieces of a text that count for a node's id.       *)
  LineBreak       (* The tokens of a line break between two rows.           *)

VARIABLES
  document,       (* The blocks.                                            *)
  setting,        (* The chunker and its configuration.                     *)
  at,             (* The block that is next.                                *)
  path,           (* The headings above it,                                 *)
  group,          (* and the blocks gathered for the next nodes.            *)
  nodes,          (* The nodes so far.                                      *)
  outcome

chunkVars == <<document, setting, at, path, group, nodes, outcome>>

-----------------------------------------------------------------------------
(* level is what _heading_level reads in a heading's text, cost the tokens  *)
(* of each piece, hint the section that a parser gave.                      *)
Block   == [type : {"heading", "text", "ocr", "table", "list"}, level : 1 .. 6,
            cost : Seq(Nat), hint : Seq(Nat), page : Nat, markdown : BOOLEAN]
Setting == [chunker : {"fixed_token", "section_aware", "table_aware", "ocr_page", "semantic_vector"},
            size : Nat \ {0}, overlap : Nat, parents : BOOLEAN, repeat : BOOLEAN]

ASSUME ChunksAssumption ==
  Kinds \subseteq Block /\ Settings \subseteq Setting /\ {MaxBlocks, IdLength, LineBreak} \subseteq Nat

Least(a, b) == IF a < b THEN a ELSE b

Of(types)   == {b \in DOMAIN document : document[b].type \in types}
IsEmpty(b)  == document[b].cost = <<>>
Text(b)     == [i \in DOMAIN document[b].cost |-> <<b, i>>]
Joined(bs)  == Chained([k \in DOMAIN bs |-> Text(bs[k])])
Costs(text) ==
  LET sum[n \in 0 .. Len(text)] ==
        IF n = 0 THEN 0 ELSE sum[n - 1] + document[text[n][1]].cost[text[n][2]]
  IN  sum
Cost(text)  == Costs(text)[Len(text)]

(* The rows of a table are counted one by one, but joined by line breaks.   *)
Tokens(text) == IF text = <<>> THEN 0 ELSE Cost(text) + LineBreak * (Len(text) - 1)

PushHeading(b) == Append(SubSeq(path, 1, Least(document[b].level - 1, Len(path))), b)

MakeNode(type, blocks, text, here, parent) ==
  LET hint == document[blocks[1]].hint IN
  [type |-> type, blocks |-> blocks, text |-> text, parent |-> parent,
   path |-> IF hint # <<>> THEN hint ELSE here]

NodeIdOfBlocks(node) == <<node.type, node.blocks>>
NodeId(node) == <<node.type, node.blocks, SubSeq(node.text, 1, Least(IdLength, Len(node.text)))>>

(* _split_by_tokens: windows of size tokens, until one reaches the end.     *)
Step(size, overlap) ==
  IF size > overlap THEN size - overlap ELSE IF size < 2 THEN 1 ELSE size \div 2

CountByStarts(length, size, step) == (length + step - 1) \div step
Count(length, size, step) == 1 + (length - size + step - 1) \div step

SplitByTokens(text, size, overlap) ==
  LET step == Step(size, overlap)
      Window(k) == SubSeq(text, k * step + 1, Least(k * step + size, Len(text)))
  IN  CASE text = <<>>       -> <<>>
        [] Len(text) \in 1 .. size -> <<text>>
        [] Len(text) > size  -> [k \in 1 .. Count(Len(text), size, step) |-> Window(k - 1)]

(* The sentence splitter of a library: its windows keep to the size, and    *)
(* share what was asked (it refuses an overlap above the size).             *)
SplitText(text) == SplitByTokens(text, setting.size, setting.overlap)

(* Rows are put together until the budget is used up.                       *)
Fits(row, rows, budget) == rows = <<>> \/ Cost(rows) + Cost(<<row>>) <= budget

WithRowLosing(groups, row, budget) ==
  IF Fits(row, groups[Len(groups)], budget) THEN [groups EXCEPT ![Len(groups)] = Append(@, row)]
  ELSE Append(groups, <<>>)

WithRow(groups, row, budget) ==
  IF Fits(row, groups[Len(groups)], budget) THEN [groups EXCEPT ![Len(groups)] = Append(@, row)]
  ELSE Append(groups, <<row>>)

RowGroups(rows, budget) ==
  LET groups[n \in 0 .. Len(rows)] ==
        IF n = 0 THEN <<<<>>>> ELSE WithRow(groups[n - 1], rows[n], budget)
  IN  groups

(* _split_table_with_header_recovery: a short table stays whole.            *)
Header(b) == IF setting.repeat /\ document[b].markdown THEN SubSeq(Text(b), 1, 2) ELSE <<>>
Margin    == 50
Budget(b) == setting.size - Tokens(Header(b)) - Margin

SplitRows(b) ==
  IF Len(Text(b)) <= 8 \/ Budget(b) < 50 THEN <<Text(b)>>
  ELSE LET rows   == SubSeq(Text(b), Len(Header(b)) + 1, Len(Text(b)))
           groups == RowGroups(rows, Budget(b))[Len(rows)]
       IN  [k \in DOMAIN groups |-> Header(b) \o groups[k]]

-----------------------------------------------------------------------------
Nodes(type, blocks, texts, here, parent) ==
  [k \in DOMAIN texts |-> MakeNode(type, blocks, texts[k], here, parent)]

(* flush_section: a parent, if asked for, its texts, and its tables.        *)
SectionNodes(here) ==
  LET texts    == Among(group, Of({"text", "ocr"}))
      tables   == Among(group, Of({"table"}))
      whole    == IF setting.parents /\ texts # <<>> THEN <<Joined(here) \o Joined(texts)>> ELSE <<>>
      parents  == Nodes("section", group, whole, here, <<>>)
      parent   == IF parents = <<>> THEN <<>> ELSE NodeId(parents[1])
      prefix   == IF parents = <<>> THEN Joined(here) ELSE <<>>
      chunks   == SplitText(Joined(texts))
      children == Nodes("paragraph", texts, [k \in DOMAIN chunks |-> prefix \o chunks[k]], here, parent)
  IN  parents \o children
        \o [k \in DOMAIN tables |->
              MakeNode("table", <<tables[k]>>, prefix \o Text(tables[k]), here, parent)]

OnPage(p) == Among(group, {b \in DOMAIN document : document[b].page = p})

PageNodes ==
  LET pages == Ascending({document[b].page : b \in Range(group)})
  IN  Chained([k \in DOMAIN pages |->
        Nodes("ocr", OnPage(pages[k]), SplitText(Joined(OnPage(pages[k]))), <<>>, <<>>)])

Flushed(here) ==
  CASE setting.chunker = "section_aware" -> SectionNodes(here)
    [] setting.chunker = "table_aware"   -> Nodes("paragraph", group, SplitText(Joined(group)), here, <<>>)
    [] setting.chunker = "ocr_page"      -> PageNodes
    [] OTHER                             -> <<>>

-----------------------------------------------------------------------------
ChunkInit ==
  /\ document \in UNION {[1 .. n -> Kinds] : n \in 1 .. MaxBlocks}
  /\ setting \in Settings
  /\ at = 1 /\ path = <<>> /\ group = <<>> /\ nodes = <<>>
  /\ outcome = "chunking"

More == outcome = "chunking" /\ at <= Len(document)

Passed(made, gathered, here) ==
  /\ nodes' = nodes \o made
  /\ group' = gathered
  /\ path' = here
  /\ at' = at + 1
  /\ UNCHANGED <<document, setting, outcome>>

(* Chunkers that keep the sections end one with a heading.                  *)
PassHeadingFirst ==
  /\ More /\ at \in Of({"heading"}) /\ setting.chunker # "ocr_page"
  /\ Passed(Flushed(PushHeading(at)), <<>>, PushHeading(at))

PassHeading ==
  /\ More /\ at \in Of({"heading"}) /\ setting.chunker # "ocr_page"
  /\ Passed(Flushed(path), <<>>, PushHeading(at))

(* The types of blocks that chunkers gather, cut by tokens, keep whole,     *)
(* split into rows, or cut by the meaning of sentences.                     *)
Gathered == CASE setting.chunker = "section_aware" -> {"text", "ocr", "table", "list"}
              [] setting.chunker = "table_aware"   -> {"text", "ocr", "list"}
              [] setting.chunker = "ocr_page"      -> {"text", "ocr"}
              [] OTHER                             -> {}

Gather ==
  /\ More /\ at \in Of(Gathered) /\ ~IsEmpty(at)
  /\ Passed(<<>>, Append(group, at), path)

Cut ==
  /\ More /\ at \in Of({"text", "ocr"}) /\ ~IsEmpty(at) /\ setting.chunker = "fixed_token"
  /\ Passed(Nodes("paragraph", <<at>>, SplitByTokens(Text(at), setting.size, setting.overlap), path, <<>>),
            <<>>, path)

KeepTable ==
  /\ More /\ at \in Of({"table"}) /\ ~IsEmpty(at)
  /\ setting.chunker \in {"fixed_token", "semantic_vector"}
  /\ Passed(<<MakeNode("table", <<at>>, Text(at), path, <<>>)>>, <<>>, path)

SplitTable ==
  /\ More /\ at \in Of({"table"}) /\ setting.chunker = "table_aware"
  /\ Passed(Flushed(path) \o Nodes("table", <<at>>, SplitRows(at), path, <<>>), <<>>, path)

(* The semantic chunker runs its coroutine on the event loop that is        *)
(* running the request: the loop refuses, and no text is ever chunked.      *)
BreakOff ==
  /\ More /\ at \in Of({"text", "ocr"}) /\ ~IsEmpty(at) /\ setting.chunker = "semantic_vector"
  /\ outcome' = "failed"
  /\ UNCHANGED <<document, setting, at, path, group, nodes>>

PassOver ==
  /\ More
  /\ CASE setting.chunker = "table_aware" -> IsEmpty(at) /\ at \notin Of({"heading", "table"})
       [] setting.chunker = "section_aware" -> IsEmpty(at) /\ at \notin Of({"heading"})
       [] setting.chunker = "ocr_page" -> IsEmpty(at) \/ at \notin Of({"text", "ocr"})
       [] OTHER -> at \notin Of({"heading"}) /\ (IsEmpty(at) \/ at \in Of({"list"}))
  /\ Passed(<<>>, group, path)

FinishForgetful ==
  /\ outcome = "chunking" /\ at > Len(document)
  /\ outcome' = "chunked"
  /\ UNCHANGED <<document, setting, at, path, group, nodes>>

Finish ==
  /\ outcome = "chunking" /\ at > Len(document)
  /\ nodes' = nodes \o Flushed(path)
  /\ group' = <<>>
  /\ outcome' = "chunked"
  /\ UNCHANGED <<document, setting, at, path>>

ChunkNext ==
  \/ PassHeading
  \/ Gather
  \/ Cut
  \/ KeepTable
  \/ SplitTable
  \/ BreakOff
  \/ PassOver
  \/ Finish

ChunkSpec == ChunkInit /\ [][ChunkNext]_chunkVars

-----------------------------------------------------------------------------
PlacesOf(b) == {k \in DOMAIN nodes : b \in Range(nodes[k].blocks) /\ nodes[k].type # "section"}
NodesOf(b)  == Picked(nodes, PlacesOf(b))

(* Nothing of a block that its chunker serves is lost, wherever it is in    *)
(* the document, and a node has no text but that of the blocks it cites and *)
(* of headings.                                                             *)
Served == IF setting.chunker = "table_aware" THEN {"text", "ocr", "table", "list"}
          ELSE IF setting.chunker = "ocr_page" THEN {"text", "ocr"} ELSE {"text", "ocr", "table"}

ContentIsKept ==
  /\ outcome = "chunked" =>
       \A b \in Of(Served) : Range(Text(b)) \subseteq UNION {Range(n.text) : n \in Range(NodesOf(b))}
  /\ \A n \in Range(nodes) :
       {p[1] : p \in Range(n.text)} \subseteq Range(n.blocks) \cup Of({"heading"})

(* Nodes are in the order of the blocks.  The windows of a text are as long  *)
(* as asked, share exactly the overlap (if it is less than a window), leave *)
(* nothing out, and none of them lies within the one before.                *)
Overlapping(this, next) ==
  LET last == this[Len(this)][2]
  IN  /\ Len(this) = setting.size /\ Len(next) <= setting.size
      /\ next[Len(next)][2] > last
      /\ IF setting.overlap < setting.size
         THEN next[1][2] = last - setting.overlap + 1
         ELSE next[1][2] <= last + 1

WindowsOverlapAsAsked ==
  setting.chunker = "fixed_token" =>
    \A k \in 1 .. Len(nodes) - 1 :
      LET this == nodes[k]
          next == nodes[k + 1]
      IN  \/ this.blocks[1] < next.blocks[1]
          \/ this.blocks[1] = next.blocks[1] /\ Overlapping(this.text, next.text)

(* In a document whose headings skip no level, a node's path is the chain   *)
(* of headings that its first block is under, or what the parser says; no   *)
(* section's text gets the path of the next.                                *)
HeadingsAbove(b) ==
  {h \in Of({"heading"}) : h < b /\
     \A g \in Of({"heading"}) : h < g /\ g < b => document[g].level > document[h].level}

WellNested ==
  \A h \in Of({"heading"}) : document[h].level = Cardinality(HeadingsAbove(h) \
    {g \in HeadingsAbove(h) : document[g].level >= document[h].level}) + 1

NodesKeepTheirSection ==
  WellNested => \A n \in Range(nodes) :
    LET hint == document[n.blocks[1]].hint IN
    n.path = IF hint # <<>> THEN hint
             ELSE IF setting.chunker = "ocr_page" THEN <<>>
             ELSE Ascending(HeadingsAbove(n.blocks[1]))

(* A table that is split has each row in one node, in order, each node with *)
(* the header.  A node of several rows is over the size at most by what the *)
(* line breaks of its rows have more tokens than the margin.                *)
TableRowsOnce ==
  setting.chunker = "table_aware" =>
    \A b \in Of({"table"}) :
      LET parts == NodesOf(b)
          start == Len(Header(b)) + 1
      IN  Len(parts) > 1 =>
            /\ \A k \in DOMAIN parts : SubSeq(parts[k].text, 1, Len(Header(b))) = Header(b)
            /\ Text(b) = Header(b) \o
                 Chained([k \in DOMAIN parts |-> SubSeq(parts[k].text, start, Len(parts[k].text))])
            /\ \A k \in DOMAIN parts :
                 LET rows == Len(parts[k].text) - Len(Header(b)) IN
                 rows = 1 \/ Tokens(parts[k].text) <= setting.size + LineBreak * rows - Margin

(* The rows of an index have different ids, and a child names its parent,   *)
(* as long as what nodes repeat in front of their own text (headings, the    *)
(* header of a table) leaves room for it in what an id is made from, and no *)
(* two pieces of a block are the same text.                                 *)
IdsHaveRoom ==
  /\ Len(Joined(Ascending(Of({"heading"})))) < IdLength
  /\ \A b \in Of({"table"}) : Len(Header(b)) < IdLength

NodeIdsDiffer ==
  IdsHaveRoom =>
    /\ \A j, k \in DOMAIN nodes : j # k => NodeId(nodes[j]) # NodeId(nodes[k])
    /\ \A n \in Range(nodes) : n.parent # <<>> =>
         \E p \in Range(nodes) : p.type = "section" /\ NodeId(p) = n.parent
                                   /\ Range(n.blocks) \subseteq Range(p.blocks)

-----------------------------------------------------------------------------
(* What the proofs rest on.                                                 *)
Pieces   == Nat \X Nat
ParentId == {"section"} \X Seq(Nat) \X Seq(Pieces)
Node     == [type : {"section", "paragraph", "table", "ocr"}, blocks : Seq(Nat), text : Seq(Pieces),
             parent : {<<>>} \cup ParentId, path : Seq(Nat)]

ChunkTypeOK ==
  /\ document \in Seq(Block) /\ setting \in Setting /\ at \in 1 .. Len(document) + 1
  /\ path \in Seq(Nat) /\ group \in Seq(Nat) /\ nodes \in Seq(Node)
  /\ outcome \in {"chunking", "chunked", "failed"}

(* What the loop has in its hands is in the order of the document.          *)
Ascends(list) == \A j, k \in DOMAIN list : j < k => list[j] < list[k]

InHand ==
  /\ Ascends(path) /\ \A k \in DOMAIN path : path[k] \in Of({"heading"}) /\ path[k] < at
  /\ Ascends(group) /\ \A k \in DOMAIN group : group[k] \in Of(Gathered) /\ group[k] < at
  /\ outcome = "chunked" => at > Len(document) /\ group = <<>>

(* A node is of blocks that the loop has passed and does not hold any more, *)
(* and has no other text but that of headings.                              *)
NodesFromBlocks ==
  \A k \in DOMAIN nodes :
    /\ nodes[k].blocks # <<>>
    /\ \A j \in DOMAIN nodes[k].blocks :
         nodes[k].blocks[j] \in 1 .. at - 1 /\ nodes[k].blocks[j] \notin Range(group)
    /\ \A j \in DOMAIN nodes[k].text :
         nodes[k].text[j][1] \in Range(nodes[k].blocks) \cup Of({"heading"})

(* What was passed is in the hands or in a node.                            *)
Holds(made, p) ==
  \E k \in DOMAIN made : /\ made[k].type # "section" /\ p[1] \in Range(made[k].blocks)
                         /\ p \in Range(made[k].text)
KeptSoFar ==
  \A b \in Of(Served) : b < at => \/ b \in Range(group)
                                  \/ \A i \in DOMAIN Text(b) : Holds(nodes, <<b, i>>)

(* The path is that of the next block, and of those in the hands.           *)
InSection ==
  WellNested /\ setting.chunker # "ocr_page" =>
    /\ Range(path) = HeadingsAbove(at)
    /\ \A k \in DOMAIN group : \A h \in Of({"heading"}) : h < at => h < group[k]

(* The parts of a table stay together.                                      *)
TablesTogether ==
  setting.chunker = "table_aware" =>
    \A b \in Of({"table"}) : b < at =>
      \E from \in 0 .. Len(nodes) :
        /\ PlacesOf(b) = from + 1 .. from + Len(SplitRows(b))
        /\ \A k \in DOMAIN SplitRows(b) : nodes[from + k].text = SplitRows(b)[k]

ChunkInv == /\ ChunkTypeOK /\ InHand /\ NodesFromBlocks /\ KeptSoFar /\ InSection /\ TablesTogether
            /\ NodesKeepTheirSection /\ WindowsOverlapAsAsked /\ NodeIdsDiffer
=============================================================================
