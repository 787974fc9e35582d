------------------------------ MODULE MCWorkers ------------------------------
(***************************************************************************)
(* The workers that documents and questions pass through, each on its own  *)
(* and all in one run: part names the one a behaviour is about, the others *)
(* stay in one state.                                                      *)
(***************************************************************************)
EXTENDS Chunking, EmbeddingBatches, ModelLoading, EvaluationVersions, MineruTask

CONSTANTS r1, r2, r3, k1, k2, x1, x2

VARIABLES
  stream, i, section, blocks, render,
  part

markdownVars == <<stream, i, section, blocks, render>>
vars == <<chunkVars, markdownVars, mineruVars, embeddingVars, loadVars, versionVars, part>>

-----------------------------------------------------------------------------
(* Chunking: a table's line has 20 tokens, but for one with 200; a hint is  *)
(* a heading of no document.                                                *)
Plain(type, level, cost) ==
  [type |-> type, level |-> level, cost |-> cost, hint |-> <<>>, page |-> 1, markdown |-> FALSE]

LongTable == Plain("table", 1, [n \in 1 .. 11 |-> IF n = 6 THEN 200 ELSE 20])

SomeBlocks ==
  { Plain("heading", 1, <<1>>), Plain("heading", 2, <<1>>),
    Plain("text", 1, <<>>), Plain("text", 1, <<1, 1, 1, 1, 1>>),
    [Plain("text", 1, <<1, 1>>) EXCEPT !.hint = <<9>>],
    [Plain("ocr", 1, <<1, 1>>) EXCEPT !.page = 2],
    Plain("list", 1, <<1>>),
    Plain("table", 1, <<>>), Plain("table", 1, <<20, 20, 20>>),
    LongTable, [LongTable EXCEPT !.markdown = TRUE] }

Configured(chunker, size, overlap, parents, repeat) ==
  [chunker |-> chunker, size |-> size, overlap |-> overlap, parents |-> parents, repeat |-> repeat]

SomeSettings ==
  { Configured("fixed_token", 2, 0, FALSE, FALSE), Configured("fixed_token", 3, 1, FALSE, FALSE),
    Configured("fixed_token", 2, 3, FALSE, FALSE), Configured("section_aware", 2, 1, TRUE, FALSE),
    Configured("section_aware", 2, 0, FALSE, FALSE), Configured("table_aware", 210, 0, FALSE, TRUE),
    Configured("table_aware", 210, 0, FALSE, FALSE), Configured("table_aware", 2, 0, FALSE, TRUE),
    Configured("ocr_page", 2, 1, FALSE, FALSE), Configured("semantic_vector", 2, 0, FALSE, FALSE) }

-----------------------------------------------------------------------------
(* Markdown: the tokens of headings, paragraphs, code, html, rules, a flat  *)
(* list with code and a quote in its items, a nested list, tables with and  *)
(* without text, and a quote with code, a quote and a list in it.           *)
Mark(type)    == [type |-> type, level |-> 0, filled |-> FALSE, ordered |-> FALSE]
Filled(type)  == [Mark(type) EXCEPT !.filled = TRUE]
Inline(has)   == IF has THEN Filled("inline") ELSE Mark("inline")
Title(level)  == <<[Mark("heading_open") EXCEPT !.level = level], Inline(TRUE), Mark("heading_close")>>
Par(has)      == <<Mark("paragraph_open"), Inline(has), Mark("paragraph_close")>>
Code          == <<Filled("fence")>>
Quote(in)     == <<Mark("quote_open")>> \o in \o <<Mark("quote_close")>>
ListItem(in)  == <<Mark("item_open")>> \o in \o <<Mark("item_close")>>
List(o, in)   == <<[Mark("list_open") EXCEPT !.ordered = o]>> \o in
                   \o <<[Mark("list_close") EXCEPT !.ordered = o]>>
Data(has)     == <<Mark("td_open"), Inline(has), Mark("td_close")>>
Row(one, two) == <<Mark("tr_open")>> \o Data(one) \o Data(two) \o <<Mark("tr_close")>>
Table(in)     == <<Mark("table_open")>> \o in \o <<Mark("table_close")>>

SomeElements ==
  { Title(1), Title(2), Par(TRUE), Par(FALSE), Code,
    <<Filled("html_block"), Mark("hr"), Filled("code_block")>>,
    List(TRUE, ListItem(Par(TRUE) \o Code) \o ListItem(Code) \o ListItem(Par(TRUE) \o Quote(Title(1)))),
    List(FALSE, ListItem(Par(TRUE) \o List(TRUE, ListItem(Par(TRUE)))) \o ListItem(Par(TRUE))),
    Table(Row(TRUE, TRUE) \o Row(FALSE, TRUE)), Table(Row(FALSE, FALSE)),
    Quote(Par(TRUE) \o Code \o Quote(Title(1)) \o List(FALSE, ListItem(Par(TRUE))) \o Par(FALSE)) }

Parser == INSTANCE Markdown WITH Elements <- SomeElements, MaxElements <- 3

-----------------------------------------------------------------------------
(* MinerU: results with every kind of item, and one that comes to nothing.  *)
Piece(type, level, filled) == [type |-> type, level |-> level, filled |-> filled]

SomeContents ==
  { <<Piece("text", 1, TRUE), Piece("text", 2, TRUE), Piece("table", 0, FALSE),
      Piece("text", 2, FALSE), Piece("image", 0, TRUE), Piece("text", 1, TRUE), Piece("text", 0, TRUE)>>,
    <<Piece("equation", 0, TRUE), Piece("code", 0, TRUE), Piece("text", 3, TRUE), Piece("image", 0, FALSE)>>,
    <<Piece("text", 0, FALSE)>> }

-----------------------------------------------------------------------------
(* Evaluation: ids that clients give, one of them with a "_v2" of its own.  *)
SomeIds == {<<x1>>, <<x2>>, <<x1, 2>>}

-----------------------------------------------------------------------------
(* The state of a part that a behaviour is not about.                       *)
NoChunking   == document = <<Plain("list", 1, <<1>>)>> /\ setting.chunker = "ocr_page"
NoMarkdown ==
  /\ stream = <<>> /\ i = <<>> /\ section = <<>> /\ blocks = <<>>
  /\ render = <<>>
NoMineru     == Len(content) = 1
NoEmbedding  == texts = 1 /\ batchSize = 1
NoModels     == \A r \in Request : key[r] = k1

Init ==
  /\ part \in {"chunking", "markdown", "mineru", "embedding", "models", "evaluation"}
  /\ ChunkInit /\ (part # "chunking" => NoChunking)
  /\ IF part = "markdown" THEN Parser!MarkdownInit ELSE NoMarkdown
  /\ ParseInit /\ (part # "mineru" => NoMineru)
  /\ EmbeddingInit /\ (part # "embedding" => NoEmbedding)
  /\ LoadInit /\ (part # "models" => NoModels)
  /\ VersionsInit

Next ==
  \/ /\ part = "chunking" /\ ChunkNext
     /\ UNCHANGED <<markdownVars, mineruVars, embeddingVars, loadVars, versionVars, part>>
  \/ /\ part = "markdown" /\ Parser!MarkdownNext
     /\ UNCHANGED <<chunkVars, mineruVars, embeddingVars, loadVars, versionVars, part>>
  \/ /\ part = "mineru" /\ ParseNext
     /\ UNCHANGED <<chunkVars, markdownVars, embeddingVars, loadVars, versionVars, part>>
  \/ /\ part = "embedding" /\ EmbeddingNext
     /\ UNCHANGED <<chunkVars, markdownVars, mineruVars, loadVars, versionVars, part>>
  \/ /\ part = "models" /\ LoadNext
     /\ UNCHANGED <<chunkVars, markdownVars, mineruVars, embeddingVars, versionVars, part>>
  \/ /\ part = "evaluation" /\ VersionsNext
     /\ UNCHANGED <<chunkVars, markdownVars, mineruVars, embeddingVars, loadVars, part>>

Spec == Init /\ [][Next]_vars

-----------------------------------------------------------------------------
(* Markdown without nested lists becomes blocks with the texts that are     *)
(* served, in order and under their headings.                               *)
FlatTextsAreKept       == part = "markdown" => Parser!FlatTextsAreKept

(* Every item of a list, also of a nested one, is in the list's block.      *)
ListItemsAreKept       == part = "markdown" => Parser!ListItemsAreKept
=============================================================================
