------------------------------ MODULE Markdown ------------------------------
(***************************************************************************)
(* markdown_to_blocks: the walk over the tokens that a markdown parser     *)
(* made of a document, and the rendering of its lists, tables and quotes.  *)
(* A text is known by the position of its token.                           *)
(***************************************************************************)
EXTENDS Integers, Sequences, FiniteSets
LOCAL INSTANCE SequencesExt
LOCAL INSTANCE Functions

CONSTANTS
  Elements,       (* What documents are made of: sequences of tokens.       *)
  MaxElements     (* Bound: elements of a document.                         *)

VARIABLES
  stream,         (* The tokens of the document.                            *)
  i,              (* The token that is next.                                *)
  section,        (* The headings above it.                                 *)
  blocks,         (* The blocks so far.                                     *)
  render          (* The list, table or quote that is rendered; see Render. *)

vars == <<stream, i, section, blocks, render>>

-----------------------------------------------------------------------------
(* The tokens; td also stands for th, the head and body of a table are left *)
(* out.                                                                     *)
Types == {"heading_open", "heading_close", "paragraph_open", "paragraph_close", "inline",
          "fence", "code_block", "html_block", "hr", "list_open", "list_close", "item_open", "item_close",
          "table_open", "table_close", "tr_open", "tr_close", "td_open", "td_close",
          "quote_open", "quote_close"}

(* The level of a heading; filled: the token has a text; ordered: a list.   *)
Token == [type : Types, level : 0 .. 6, filled : BOOLEAN, ordered : BOOLEAN]

(* depth of nested lists or quotes, the numbers of the items, the list's order, the   *)
(* item, row or quote under way, and the lines that are done.               *)
Render(kind, ordered) ==
  [kind |-> kind, depth |-> 1, numbers |-> <<1>>, ordered |-> ordered, inItem |-> FALSE,
   texts |-> <<>>, lines |-> <<>>]

Line(indent, number, texts) == [indent |-> indent, number |-> number, texts |-> texts]

Update(path, level, heading) ==
  Append(SubSeq(path, 1, IF level - 1 < Len(path) THEN level - 1 ELSE Len(path)), heading)

Add(type, lines, hint) == Append(blocks, [type |-> type, lines |-> lines, hint |-> hint])

At(kind, types) == i <= Len(stream) /\ render.kind = kind /\ stream[i].type \in types

-----------------------------------------------------------------------------
MarkdownInit ==
  /\ stream \in {FlattenSeq(es) : es \in UNION {[1 .. n -> Elements] : n \in 1 .. MaxElements}}
  /\ i = 1 /\ section = <<>> /\ blocks = <<>>
  /\ render = Render("none", FALSE)

Heading ==
  /\ At("none", {"heading_open"})
  /\ section' = Update(section, stream[i].level, i + 1)
  /\ blocks' = Add("heading", <<Line(0, 0, <<i + 1>>)>>, section')
  /\ i' = i + 3
  /\ UNCHANGED <<stream, render>>

Fence ==
  /\ At("none", {"fence"})
  /\ blocks' = Add("code", <<Line(0, 0, <<i>>)>>, section)
  /\ i' = i + 1
  /\ UNCHANGED <<stream, section, render>>

Paragraph ==
  /\ At("none", {"paragraph_open"})
  /\ blocks' = IF stream[i + 1].filled THEN Add("text", <<Line(0, 0, <<i + 1>>)>>, section) ELSE blocks
  /\ i' = i + 3
  /\ UNCHANGED <<stream, section, render>>

Open ==
  /\ At("none", {"list_open", "table_open", "quote_open"})
  /\ render' = Render(CASE stream[i].type = "list_open" -> "list"
                        [] stream[i].type = "table_open" -> "table"
                        [] OTHER -> "quote", stream[i].ordered)
  /\ i' = i + 1
  /\ UNCHANGED <<stream, section, blocks>>

(* Tokens without a case of their own: indented code, html and rules are    *)
(* not taken over.                                                          *)
PassToken ==
  /\ At("none", Types \ {"heading_open", "fence", "paragraph_open", "list_open", "table_open", "quote_open"})
  /\ i' = i + 1
  /\ UNCHANGED <<stream, section, blocks, render>>

Rendered(to) ==
  /\ render' = to
  /\ i' = i + 1
  /\ UNCHANGED <<stream, section, blocks>>

(* Only a rendering with a text becomes a block.                            *)
Close(kind, type) ==
  /\ At(kind, {type}) /\ render.depth = 1
  /\ blocks' = IF \E k \in DOMAIN render.lines : render.lines[k].texts # <<>>
               THEN Add(kind, render.lines, section) ELSE blocks
  /\ render' = Render("none", FALSE)
  /\ i' = i + 1
  /\ UNCHANGED <<stream, section>>

-----------------------------------------------------------------------------
(* _render_list_as_text                                                     *)
OpenItemKeeping == At("list", {"item_open"}) /\ Rendered([render EXCEPT !.inItem = TRUE])

OpenItem == At("list", {"item_open"}) /\ Rendered([render EXCEPT !.inItem = TRUE, !.texts = <<>>])

CloseItem ==
  /\ At("list", {"item_close"})
  /\ LET last   == Len(render.numbers)
         number == IF render.ordered THEN render.numbers[last] ELSE 0
         closed == [render EXCEPT !.inItem = FALSE]
     IN  Rendered(IF render.texts = <<>> THEN closed
                  ELSE [closed EXCEPT !.lines = Append(@, Line(render.depth - 1, number, render.texts)),
                                      !.numbers[last] = IF render.ordered THEN @ + 1 ELSE @])

OpenNested ==
  /\ At("list", {"list_open"})
  /\ Rendered([render EXCEPT !.depth = @ + 1,
                             !.numbers = IF stream[i].ordered THEN Append(@, 1) ELSE @])

CloseNested ==
  /\ At("list", {"list_close"}) /\ render.depth > 1
  /\ Rendered([render EXCEPT !.depth = @ - 1,
                 !.numbers = IF stream[i].ordered /\ Len(@) > 1 THEN SubSeq(@, 1, Len(@) - 1) ELSE @])

ItemText ==
  /\ At("list", {"inline"})
  /\ Rendered(IF render.inItem /\ stream[i].filled THEN [render EXCEPT !.texts = Append(@, i)] ELSE render)

(* _render_table_as_markdown: rows are filled up to the header's cells.     *)
OpenRow == At("table", {"tr_open"}) /\ Rendered([render EXCEPT !.texts = <<>>])

Cell ==
  /\ At("table", {"inline"})
  /\ Rendered(IF stream[i].filled THEN [render EXCEPT !.texts = Append(@, i)] ELSE render)

Padded(row) ==
  LET cells == IF render.lines = <<>> THEN 0 ELSE Len(render.lines[1].texts)
  IN  IF Len(row) >= cells THEN row ELSE row \o [k \in 1 .. cells - Len(row) |-> 0]

CloseRow ==
  /\ At("table", {"tr_close"})
  /\ Rendered(IF render.texts = <<>> THEN render
              ELSE [render EXCEPT !.lines = Append(@, Line(0, 0, Padded(render.texts))), !.texts = <<>>])

QuoteText ==
  /\ At("quote", {"inline"})
  /\ Rendered(IF stream[i].filled THEN [render EXCEPT !.lines = Append(@, Line(0, 0, <<i>>))] ELSE render)

(* Quotes in a quote count for its end.                                     *)
OpenQuote  == At("quote", {"quote_open"}) /\ Rendered([render EXCEPT !.depth = @ + 1])
CloseQuote == At("quote", {"quote_close"}) /\ render.depth > 1 /\ Rendered([render EXCEPT !.depth = @ - 1])

(* The renderings pass over any token that they do not name, also one that  *)
(* has a text.                                                              *)
Named == [list  |-> {"list_open", "list_close", "item_open", "item_close", "inline"},
          table |-> {"table_close", "tr_open", "tr_close", "inline"},
          quote |-> {"quote_open", "quote_close", "inline"}]

PassInside == \E kind \in DOMAIN Named : At(kind, Types \ Named[kind]) /\ Rendered(render)

MarkdownNext ==
  \/ Heading
  \/ Fence
  \/ Paragraph
  \/ Open
  \/ PassToken
  \/ OpenItem
  \/ CloseItem
  \/ OpenNested
  \/ CloseNested
  \/ ItemText
  \/ OpenRow
  \/ Cell
  \/ CloseRow
  \/ QuoteText
  \/ OpenQuote
  \/ CloseQuote
  \/ PassInside
  \/ Close("list", "list_close")
  \/ Close("table", "table_close")
  \/ Close("quote", "quote_close")

-----------------------------------------------------------------------------
Parsed == i > Len(stream)

(* The texts of a block in their order, without the cells that fill up.     *)
TextsOf(block) == SelectSeq(FlattenSeq([k \in DOMAIN block.lines |-> block.lines[k].texts]), LAMBDA t : t # 0)

(* How many lists, or lists and quotes, a token is in.                      *)
Nesting(p, opening, closing) ==
  Cardinality({q \in 1 .. p : stream[q].type \in opening})
    - Cardinality({q \in 1 .. p : stream[q].type \in closing})

Depth(p) == Nesting(p, {"list_open"}, {"list_close"})
AtTop(p) == Nesting(p, {"list_open", "quote_open"}, {"list_close", "quote_close"}) = 0

HasText(p, types) == stream[p].type \in types /\ stream[p].filled

Served(p) == HasText(p, {"inline"}) \/ (HasText(p, {"fence"}) /\ AtTop(p))

Flat == \A p \in DOMAIN stream : Depth(p) <= 1

(* A document without nested lists becomes blocks with the texts of its     *)
(* headings, paragraphs, items, cells and quotes and with the code that is  *)
(* in no list and no quote: each once and in order, nothing else, under the *)
(* headings that they are under, and with the items of its ordered lists    *)
(* numbered from 1.                                                         *)
Headings == {h \in DOMAIN stream : stream[h].type = "heading_open" /\ AtTop(h)}

HeadingsOver(p) ==
  {h \in Headings : h < p /\ \A g \in Headings : h < g /\ g < p => stream[g].level > stream[h].level}

NoLevelSkipped ==
  \A h \in Headings :
    stream[h].level = Cardinality({g \in HeadingsOver(h) : stream[g].level < stream[h].level}) + 1

FlatTextsAreKept ==
  Parsed /\ Flat =>
    /\ FlattenSeq([k \in DOMAIN blocks |-> TextsOf(blocks[k])])
         = SelectSeq([p \in DOMAIN stream |-> p], Served)
    /\ NoLevelSkipped => \A k \in DOMAIN blocks :
         Range(blocks[k].hint) = {h + 1 : h \in HeadingsOver(TextsOf(blocks[k])[1])}
    /\ \A k \in DOMAIN blocks : \A n \in DOMAIN blocks[k].lines :
         blocks[k].lines[n].number \in {0, n}

Once(p) ==
  Cardinality({<<k, n>> \in (DOMAIN blocks) \X (1 .. Len(stream)) :
    n \in DOMAIN TextsOf(blocks[k]) /\ TextsOf(blocks[k])[n] = p}) = 1

(* "Preserves document structure by identifying (...) Lists                 *)
(* (ordered/unordered/nested)": each item of a list, also of nested ones,   *)
(* is in the list's block, once.                                            *)
ListItemsAreKept ==
  Parsed => \A p \in DOMAIN stream : HasText(p, {"inline"}) /\ Depth(p) > 0 => Once(p)
=============================================================================
