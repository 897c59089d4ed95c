------------------------------ MODULE Chunking ------------------------------
(***************************************************************************)
(* From a parsed document to the chunks that are embedded: MinerU's items  *)
(* (mineru.client.ts fetchAndMap) or the lines of a markdown file          *)
(* (text-parser.ts parseMarkdown) to blocks, and blocks to parents and     *)
(* children (chunker.ts).  Characters are numbers, no two alike, 0 is a    *)
(* line break; a text is a sequence of paragraphs.  Pages, boxes, the HTML *)
(* of tables, the words after a fence and blank lines within code, at      *)
(* which chunker.ts would split as well, are left out.                     *)
(***************************************************************************)
EXTENDS Integers, Sequences, FiniteSets, SequencesExt

CONSTANTS ParentMax, ChildMax, Overlap, \* parentMax, childMax, overlapChars
          MaxItems,  \* bound: items of a parsed document
          MaxLines   \* bound: lines of a markdown file

\* with an overlap of 0 slice(-0) would keep the whole of what comes before
ASSUME ChunkingAssumption ==
  /\ ParentMax \in Nat \ {0} /\ ChildMax \in Nat \ {0} /\ Overlap \in Nat \ {0}
  /\ MaxItems \in Nat /\ MaxLines \in Nat

VARIABLES items, lines

chunkVars == <<items, lines>>

\* text, heading (level and text), blank text, table with and without a body,
\* equation, image, noise; length: characters of each paragraph
Item ==
  [type : {"text"}, level : {0}, length : {<<1>>, <<3>>, <<2, 2>>, <<>>}]
  \union [type : {"text"}, level : 1..3, length : {<<1>>}]
  \union [type : {"table"}, level : {0}, length : {<<2>>, <<>>}]
  \union [type : {"equation", "image", "footer"}, level : {0}, length : {<<1>>}]
\* a separator is a row like |---|
Line == {"fence", "heading1", "heading2", "row", "separator", "blank", "text"}

ChunkingInit ==
  \/ items \in UNION {[1..n -> Item] : n \in 0..MaxItems} /\ lines = <<>>
  \/ lines \in UNION {[1..n -> Line] : n \in 0..MaxLines} /\ items = <<>>
ChunkingSpec == ChunkingInit /\ [][FALSE]_chunkVars
-----------------------------------------------------------------------------
(* texts *)

Break == <<0, 0>>
Join(text) == FoldLeft(LAMBDA acc, p : IF acc = <<>> THEN p ELSE acc \o Break \o p, <<>>, text)
\* the i-th source of a document, in paragraphs of these lengths
Text(i, lengths) ==
  [p \in DOMAIN lengths |-> [c \in 1..lengths[p] |-> 100 * i + 10 * p + c]]
\* slice(-n)
Last_(t, n) == SubSeq(t, IF Len(t) > n THEN Len(t) - n + 1 ELSE 1, Len(t))
\* trim(), of a text and of its last paragraphs
Stripped(t) ==
  LET inked == {i \in DOMAIN t : t[i] # 0} IN
  IF inked = {} THEN <<>> ELSE SubSeq(t, Min(inked), Max(inked))
Trimmed(text) == SubSeq(text, 1, Max({0} \union {p \in DOMAIN text : text[p] # <<>>}))
Chars(t) == SelectSeq(t, LAMBDA c : c # 0)
Flatten(seqs) == FoldLeft(LAMBDA acc, s : acc \o s, <<>>, seqs)
-----------------------------------------------------------------------------
(* mineru.client.ts *)

Block(type, level, text) == [type |-> type, level |-> level, text |-> text]

\* one item: a block or nothing
MapItem(i, item) ==
  LET text == Text(i, item.length) IN
  CASE item.type = "text" /\ item.length # <<>> /\ item.level # 0 -> <<Block("heading", item.level, text)>>
    [] item.type = "text" /\ item.length # <<>> /\ item.level = 0 -> <<Block("paragraph", 0, text)>>
    [] item.type = "table" /\ item.length # <<>> -> <<Block("table", 0, text)>>
    [] item.type = "equation" -> <<Block("formula", 0, text)>>
    [] item.type = "image" -> <<Block("figure", 0, text)>>
    [] OTHER -> <<>>
fetchAndMap == Flatten([i \in DOMAIN items |-> MapItem(i, items[i])])
-----------------------------------------------------------------------------
(* text-parser.ts *)

Parsing == [blocks |-> <<>>, para |-> <<>>, rows |-> <<>>, code |-> <<>>, inCode |-> FALSE]

flushPara(s)  == IF s.para = <<>> THEN s
                 ELSE [s EXCEPT !.blocks = Append(@, Block("paragraph", 0, <<s.para>>)), !.para = <<>>]
\* the header, whatever it is, and the rows that separate nothing
mdTableToHtml(rows) == <<Head(rows)>> \o SelectSeq(Tail(rows), LAMBDA n : lines[n] # "separator")
flushTable(s) == IF s.rows = <<>> THEN s
                 ELSE [s EXCEPT !.blocks = Append(@, Block("table", 0, <<mdTableToHtml(s.rows)>>)), !.rows = <<>>]
CodeBlock(s)  == [s EXCEPT !.blocks = Append(@, Block("paragraph", 0, <<s.code>>)),
                           !.code = <<>>, !.inCode = FALSE]

\* line n of the file; its text is one character
ParseLine(s, n) ==
  LET line == lines[n] IN
  CASE line = "fence" /\ s.inCode  -> CodeBlock(s)
    [] line = "fence" /\ ~s.inCode -> [flushTable(flushPara(s)) EXCEPT !.inCode = TRUE]
    [] line = "blank" /\ s.inCode  -> s
    [] line \notin {"fence", "blank"} /\ s.inCode -> [s EXCEPT !.code = Append(@, n)]
    [] line \in {"heading1", "heading2"} /\ ~s.inCode ->
         [flushTable(flushPara(s)) EXCEPT
            !.blocks = Append(@, Block("heading", IF line = "heading1" THEN 1 ELSE 2, <<<<n>>>>))]
    [] line \in {"row", "separator"} /\ ~s.inCode -> [flushPara(s) EXCEPT !.rows = Append(@, n)]
    [] line = "blank" /\ ~s.inCode -> flushPara(flushTable(s))
    [] OTHER                       -> [flushTable(s) EXCEPT !.para = Append(@, n)]

parseMarkdown ==
  LET s == FoldLeft(ParseLine, Parsing, [n \in DOMAIN lines |-> n])
      t == IF s.inCode THEN CodeBlock(s) ELSE s IN
  flushTable(flushPara(t)).blocks

blocks == IF items # <<>> THEN fetchAndMap ELSE parseMarkdown
-----------------------------------------------------------------------------
(* chunker.ts *)

\* mutant of splitChildren: the flush forgets the last buffer
splitChildrenCut(text) ==
  IF Len(Join(text)) <= ChildMax THEN <<Join(text)>>
  ELSE FoldLeft(LAMBDA s, p :
         IF s.buffer # <<>> /\ Len(s.buffer \o Break \o p) > ChildMax
           THEN [children |-> Append(s.children, s.buffer), buffer |-> Last_(s.buffer, Overlap) \o Break \o p]
           ELSE [s EXCEPT !.buffer = Join(IF @ = <<>> THEN <<p>> ELSE <<@, p>>)],
         [children |-> <<>>, buffer |-> <<>>], text).children

\* what is gathered becomes a child, unless it is blank
Flush(children, buffer) ==
  IF Stripped(buffer) = <<>> THEN children ELSE Append(children, Stripped(buffer))

\* paragraphs are gathered up to ChildMax, each child begins with the end of
\* the one before
splitChildren(text) ==
  IF Len(Join(text)) <= ChildMax THEN <<Join(text)>>
  ELSE LET s == FoldLeft(LAMBDA s, p :
             IF s.buffer # <<>> /\ Len(s.buffer \o Break \o p) > ChildMax
               THEN [children |-> Flush(s.children, s.buffer), buffer |-> Last_(s.buffer, Overlap) \o Break \o p]
               ELSE [s EXCEPT !.buffer = Join(IF @ = <<>> THEN <<p>> ELSE <<@, p>>)],
             [children |-> <<>>, buffer |-> <<>>], text)
       IN Flush(s.children, s.buffer)

\* emitParent: empty text is none
Parents(text, path) ==
  IF Chars(Join(text)) = <<>> THEN <<>>
  ELSE <<[text |-> Trimmed(text), path |-> path, children |-> splitChildren(Trimmed(text))]>>

\* flushBuffer: what is gathered under a heading, split over ParentMax
flushBuffer(s) ==
  LET t == FoldLeft(LAMBDA a, part :
        IF Join(a.acc) = <<>> THEN [a EXCEPT !.acc = part]
        ELSE IF Len(Join(a.acc \o part)) > ParentMax
          THEN [out |-> a.out \o Parents(a.acc, s.path), acc |-> part]
          ELSE [a EXCEPT !.acc = @ \o part],
        [out |-> s.out, acc |-> <<>>], s.buffer)
  IN [s EXCEPT !.out = t.out \o Parents(t.acc, s.path), !.buffer = <<>>]

\* a heading cuts the path above its level; levels left out are holes, 0
PutHeading(path, level, title) ==
  [l \in 1..level |-> IF l = level THEN title ELSE IF l <= Len(path) THEN path[l] ELSE 0]

ChunkBlock(s, block) ==
  IF block.type = "heading"
    THEN [flushBuffer(s) EXCEPT !.path = PutHeading(@, block.level, Head(Head(block.text)))]
  ELSE IF block.type = "table"
    THEN LET f == flushBuffer(s) IN [f EXCEPT !.out = @ \o Parents(block.text, s.path)]
  ELSE IF block.type = "figure" THEN s
  ELSE [s EXCEPT !.buffer = Append(@, block.text)]

chunk(bs) == flushBuffer(FoldLeft(ChunkBlock, [out |-> <<>>, path |-> <<>>, buffer |-> <<>>], bs)).out
-----------------------------------------------------------------------------
(* Properties *)

\* the reference: what of the document is text, in its order
LineTexts ==
  LET inCode(n) == Cardinality({m \in 1..(n - 1) : lines[m] = "fence"}) % 2 = 1
      header(n) == n = 1 \/ lines[n - 1] \notin {"row", "separator"} IN
  SelectSeq([n \in DOMAIN lines |-> n],
    LAMBDA n : IF inCode(n) THEN lines[n] \notin {"fence", "blank"}
               ELSE lines[n] \in {"row", "text"} \/ (lines[n] = "separator" /\ header(n)))
ItemTexts ==
  Flatten([i \in DOMAIN items |->
    IF (items[i].type = "text" /\ items[i].level = 0) \/ items[i].type \in {"table", "equation"}
      THEN Chars(Join(Text(i, items[i].length))) ELSE <<>>])

\* the headings a character stands under: those before it that no later one
\* of the same or a higher rank has closed
Open(c) ==
  LET At(b) == Chars(Join(blocks[b].text))
      here == CHOOSE b \in DOMAIN blocks : c \in ToSet(At(b)) IN
  {Head(At(h)) : h \in {g \in 1..here : /\ blocks[g].type = "heading"
      /\ \A k \in (g + 1)..here : blocks[k].type = "heading" => blocks[k].level > blocks[g].level}}

Segment(t, u) == \E i \in 0..(Len(u) - Len(t)) : t = SubSeq(u, i + 1, i + Len(t))
\* one paragraph, with no more before it than the overlap and a break
OneParagraph(kid, text) ==
  \E p \in ToSet(text) :
    \/ kid = p
    \/ Len(kid) <= Overlap + 2 + Len(p) /\ Last_(kid, 2 + Len(p)) = Break \o p

\* The text of a document reaches its chunks: the parents hold every
\* paragraph, table row and formula once, in the document's order, each under
\* the headings that are open where it stands; children are segments of
\* their parent that leave nothing of it out.  A child is longer than the
\* setting only if it is a single paragraph with the overlap before it, which
\* is then not counted (chunker.ts:34 "CHILD_CHUNK_SIZE + overlap").
TextIsKept ==
  LET parents == chunk(blocks) IN
  /\ Flatten([p \in DOMAIN parents |-> Chars(Join(parents[p].text))]) = ItemTexts \o LineTexts
  /\ \A p \in DOMAIN parents :
       LET text == Join(parents[p].text)
           kids == parents[p].children IN
       /\ \A c \in ToSet(Chars(text)) : ToSet(parents[p].path) \ {0} = Open(c)
       /\ ToSet(Chars(text)) = UNION {ToSet(Chars(kids[k])) : k \in DOMAIN kids}
       /\ \A k \in DOMAIN kids :
            /\ Segment(kids[k], text)
            /\ Len(kids[k]) <= ChildMax \/ OneParagraph(kids[k], parents[p].text)
=============================================================================
