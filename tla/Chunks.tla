------------------------------- MODULE Chunks -------------------------------
(***************************************************************************)
(* The text units (pipeline/normalize, pipeline/chunk): the views of a     *)
(* text with the offsets between them, and how a canonical document is cut *)
(* into chunks.                                                            *)
(***************************************************************************)
EXTENDS Calls, Integers, SequencesExt, FiniteSetsExt

-----------------------------------------------------------------------------
(***************************************************************************)
(* The views of a text and the offsets between them                        *)
(* (pipeline/normalize/text).  A text is a sequence of the classes of      *)
(* characters that normalization tells apart: "x" a letter, "w" one that   *)
(* normalization or case folding makes two of, "c" a mark that composes    *)
(* with a letter before it, "m" one that does not, "r" and "n" carriage    *)
(* return and line feed, "d" what is dropped, "_" a space.                 *)
(***************************************************************************)

Marks == {"c", "m"}

\* _emit_canonical: what is taken in one go, a cluster or CR LF.
Attaches(piece, char) ==
  \/ piece = <<"r">> /\ char = "n"
  \/ char \in Marks /\ piece[1] \notin {"r", "d", "_"}

\* search_view: white space is taken in one go.
Spaces(piece, char) == piece[1] = "_" /\ char = "_"

Cut(text, Joint(_, _)) ==
  LET add(pieces, char) ==
        IF pieces # <<>> /\ Joint(Last(pieces), char)
        THEN Append(Front(pieces), Append(Last(pieces), char))
        ELSE Append(pieces, <<char>>)
  IN  FoldLeft(add, <<>>, text)

\* The characters that a piece contributes to the canonical view.
Composed(piece) ==
  CASE piece[1] = "d" -> 0
    [] piece[1] = "r" -> 1
    [] piece[1] = "w" -> Len(piece) + 1
    [] piece[1] = "x" /\ Len(piece) > 1 /\ piece[2] = "c" -> Len(piece) - 1
    [] OTHER -> Len(piece)

CanonicalPieces(text) ==
  LET pieces == Cut(text, Attaches)
  IN  [k \in DOMAIN pieces |-> [reads |-> Len(pieces[k]), writes |-> Composed(pieces[k])]]

\* White space is kept as one space, and only between words.
SearchPieces(text) ==
  LET pieces == Cut(text, Spaces)
      writes(k) == IF pieces[k][1] = "_" THEN IF k \in {1, Len(pieces)} THEN 0 ELSE 1
                   ELSE IF pieces[k][1] = "w" THEN 2 ELSE 1
  IN  [k \in DOMAIN pieces |-> [reads |-> Len(pieces[k]), writes |-> writes(k)]]

-----------------------------------------------------------------------------
(* The runs of an OffsetMap: [ss, se) of the source made [ts, te).         *)

Aligned(run) == run.se - run.ss = run.te - run.ts

Joins(before, run) == Aligned(before) /\ Aligned(run) /\ before.se = run.ss

NoRuns == [runs |-> <<>>, read |-> 0, written |-> 0]

\* _Builder.emit.
EmitPiece(builder, piece) ==
  LET run == [ss |-> builder.read, se |-> builder.read + piece.reads,
              ts |-> builder.written, te |-> builder.written + piece.writes]
      runs == builder.runs
  IN  [read |-> run.se, written |-> run.te,
       runs |-> IF piece.writes = 0 THEN runs
                ELSE IF runs # <<>> /\ Joins(Last(runs), run)
                THEN Append(Front(runs), [Last(runs) EXCEPT !.se = run.se, !.te = run.te])
                ELSE Append(runs, run)]

OffsetRuns(pieces) == FoldLeft(EmitPiece, NoRuns, pieces).runs

ToSource(runs, index) ==
  LET n == Cardinality({k \in DOMAIN runs : runs[k].ts <= index})
  IN  IF runs = <<>> THEN 0
      ELSE IF n = 0 THEN runs[1].ss
      ELSE IF index >= runs[n].te THEN runs[n].se
      ELSE IF Aligned(runs[n]) THEN runs[n].ss + (index - runs[n].ts)
      ELSE runs[n].ss

ToTarget(runs, index) ==
  LET n == Cardinality({k \in DOMAIN runs : runs[k].ss <= index})
  IN  IF n = 0 THEN 0
      ELSE IF index >= runs[n].se THEN runs[n].te
      ELSE IF Aligned(runs[n]) THEN runs[n].ts + (index - runs[n].ss)
      ELSE runs[n].ts

AskView(pieces) == Ask([op |-> "view", pieces |-> pieces, runs |-> OffsetRuns(pieces)])

-----------------------------------------------------------------------------

\* Where piece k begins in the source and in the target.
Reads(pieces, k) == FoldLeft(LAMBDA n, p : n + p.reads, 0, SubSeq(pieces, 1, k - 1))
Writes(pieces, k) == FoldLeft(LAMBDA n, p : n + p.writes, 0, SubSeq(pieces, 1, k - 1))

\* What a chunk of the view is said to come from is what it comes from: the
\* region begins where its first piece does and ends behind its last one, not
\* beyond what was dropped there; and the way back finds the piece.
SpansCover ==
  call.op = "view" =>
    LET ps == call.pieces
        kept == {k \in DOMAIN ps : ps[k].writes > 0}
    IN  \A k \in kept :
          LET begins == Reads(ps, k)
              ends == ToSource(call.runs, Writes(ps, k + 1))
              later == {Reads(ps, j) : j \in {i \in kept : i > k}}
          IN  /\ ToSource(call.runs, Writes(ps, k)) = begins
              /\ ToTarget(call.runs, begins) = Writes(ps, k)
              /\ ends >= Reads(ps, k + 1) /\ \A n \in later : ends <= n

-----------------------------------------------------------------------------
(***************************************************************************)
(* How a canonical document is cut into chunks (pipeline/chunk: blocks,    *)
(* assemble, tables).  Offsets count from 0, a span is [from, to).  The    *)
(* text of a prose block is a sequence of "x" and "_", white space, with   *)
(* the offsets where its sentences begin; a document is a sequence of      *)
(* lines of the kinds that segmentation tells apart.                       *)
(***************************************************************************)

CONSTANTS
  MinChars, TargetChars, MaxChars,    \* ChunkPolicy
  MaxDocumentChunks

ASSUME ChunkPolicyAssumption ==
  /\ {MinChars, TargetChars, MaxChars, MaxDocumentChunks} \subseteq Nat \ {0}
  /\ MinChars <= TargetChars /\ TargetChars <= MaxChars

-----------------------------------------------------------------------------
(* Prose: assemble._prose_chunks.                                          *)

IsSpace(text, i) == text[i + 1] = "_"

Trimmed(text, from, to) ==
  <<from, Max({from} \cup {i + 1 : i \in {j \in from .. to - 1 : ~IsSpace(text, j)}})>>

\* _split_point: behind the last space that fits.
SplitPoint(text, from) ==
  LET fits == {i \in from + 1 .. from + MaxChars : IsSpace(text, i - 1)}
  IN  IF fits = {} THEN from + MaxChars ELSE Max(fits)

\* _bounded, of one sentence.
Bounded(text, from, to) ==
  LET rest[i \in from .. to] ==
        IF to - i > MaxChars
        THEN <<<<i, SplitPoint(text, i)>>>> \o rest[SplitPoint(text, i)]
        ELSE IF to > i THEN <<<<i, to>>>> ELSE <<>>
  IN  rest[from]

\* The sentences, each in pieces that fit a chunk.
Sentences(text, begins) ==
  LET starts == SetToSortSeq({0} \cup begins, <)
      ends == Append(Tail(starts), Len(text))
  IN  FlattenSeq([k \in DOMAIN starts |-> Bounded(text, starts[k], ends[k])])

Overlap(group, n) == SubSeq(group, Len(group) - Min({n, Len(group)}) + 1, Len(group))

KeptOverlap(group, n, span) ==
  LET kept == Overlap(group, n)
  IN  IF kept # <<>> /\ span[2] - kept[1][1] > MaxChars THEN <<>> ELSE kept

Close(text, group) == Trimmed(text, group[1][1], Last(group)[2])

AddSentence(text, n, packed, span) ==
  IF packed.group # <<>> /\ span[2] - packed.group[1][1] > TargetChars
  THEN [chunks |-> Append(packed.chunks, Close(text, packed.group)),
        group |-> Append(KeptOverlap(packed.group, n, span), span)]
  ELSE [packed EXCEPT !.group = Append(@, span)]

\* Mutant: a short tail is left away.
DropTail(text, chunks) ==
  IF Len(chunks) < 2 \/ Last(chunks)[2] - Last(chunks)[1] >= MinChars THEN chunks ELSE Front(chunks)

MergeTail(text, chunks) ==
  LET last == Last(chunks)
      previous == chunks[Len(chunks) - 1]
  IN  IF \/ Len(chunks) < 2
         \/ last[2] - last[1] >= MinChars
         \/ last[2] - previous[1] > MaxChars
      THEN chunks
      ELSE Append(Front(Front(chunks)), Trimmed(text, previous[1], last[2]))

ProseChunks(text, begins, n) ==
  LET packed == FoldLeft(LAMBDA p, span : AddSentence(text, n, p, span),
                         [chunks |-> <<>>, group |-> <<>>], Sentences(text, begins))
  IN  MergeTail(text, IF packed.group = <<>> THEN packed.chunks
                      ELSE Append(packed.chunks, Close(text, packed.group)))

AskProse(text, begins, n) ==
  Ask([op |-> "prose", text |-> text, overlap |-> n, chunks |-> ProseChunks(text, begins, n)])

-----------------------------------------------------------------------------
(* Tables: a row is its length, 0 for a rule between header and body.      *)

HeaderRows(rows) ==
  LET rules == {k \in DOMAIN rows : rows[k] = 0}
  IN  IF rules # {} THEN Min(rules) - 1 ELSE IF Len(rows) < 2 THEN 0 ELSE 1
BodyRows(rows) ==
  SubSeq(rows, HeaderRows(rows) + IF \E k \in DOMAIN rows : rows[k] = 0 THEN 2 ELSE 1, Len(rows))

\* The header, its lines joined, stands before the rows of every chunk.
Budget(rows) ==
  LET n == HeaderRows(rows)
      prefix == FoldLeft(LAMBDA m, r : m + r + 1, 0, SubSeq(rows, 1, n))
  IN  Max({TargetChars - (IF n = 0 THEN 0 ELSE prefix - 1), MinChars})

SizeAnew(packed, row) == row + 1

AddRow(budget, packed, row) ==
  IF packed.group # <<>> /\ packed.size + row + 1 > budget
  THEN [groups |-> Append(packed.groups, packed.group), group |-> <<row>>,
        size |-> SizeAnew(packed, row)]
  ELSE [packed EXCEPT !.group = Append(@, row), !.size = @ + row + 1]

\* The rows of each chunk; a header alone is one chunk, with its rule.
TableChunks(rows) ==
  LET packed == FoldLeft(LAMBDA p, row : AddRow(Budget(rows), p, row),
                         [groups |-> <<>>, group |-> <<>>, size |-> 0], BodyRows(rows))
  IN  IF BodyRows(rows) = <<>> THEN <<rows>> ELSE Append(packed.groups, packed.group)

AskTable(rows) == Ask([op |-> "table", rows |-> rows, groups |-> TableChunks(rows)])

-----------------------------------------------------------------------------
(* Documents: lines are "blank", "cells", "text" or headings 1 and 2.      *)

TableMinRows == 2
Level(line) == IF line = "head1" THEN 1 ELSE IF line = "head2" THEN 2 ELSE 0

\* _paragraphs: the first and last lines of what stands between blank lines.
Paragraphs(lines) ==
  LET blank(k) == k \notin DOMAIN lines \/ lines[k] = "blank"
      spans == {s \in (DOMAIN lines) \X (DOMAIN lines) :
                  /\ s[1] <= s[2] /\ blank(s[1] - 1) /\ blank(s[2] + 1)
                  /\ \A k \in s[1] .. s[2] : ~blank(k)}
  IN  SetToSortSeq(spans, LAMBDA s, t : s[1] < t[1])

IsTable(lines, s) ==
  LET rows == s[2] - s[1] + 1
  IN  Cardinality({k \in s[1] .. s[2] : lines[k] = "cells"}) >= Max({TableMinRows, (rows + 1) \div 2})

Block(kind, from, to) == [kind |-> kind, from |-> from, to |-> to]

HeadingFirst(lines, s) ==
  IF s[1] = s[2] THEN <<Block("heading", s[1], s[2])>>
  ELSE <<Block("heading", s[1], s[1]), Block("prose", s[1] + 1, s[2])>>

\* _classify.
Classify(lines, s) ==
  IF IsTable(lines, s) THEN <<Block("table", s[1], s[2])>>
  ELSE IF Level(lines[s[1]]) > 0 THEN HeadingFirst(lines, s)
  ELSE <<Block("prose", s[1], s[2])>>

BlocksOf(lines) ==
  LET spans == Paragraphs(lines)
  IN  FlattenSeq([k \in DOMAIN spans |-> Classify(lines, spans[k])])

Outside(lines, open, level) == SelectSeq(open, LAMBDA k : Level(lines[k]) < level)

\* chunk_document: a block is cut into n chunks, and none is begun at the
\* limit.  The open headings are given by their lines, outermost first.
AddBlock(lines, n, doc, block) ==
  IF doc.truncated THEN doc
  ELSE IF Len(doc.chunks) >= MaxDocumentChunks THEN [doc EXCEPT !.truncated = TRUE]
  ELSE IF block.kind = "heading"
  THEN [doc EXCEPT !.open = Append(Outside(lines, @, Level(lines[block.from])), block.from)]
  ELSE [doc EXCEPT !.chunks = @ \o [k \in 1 .. n |-> [block |-> block, path |-> doc.open]]]

ChunkDocument(lines, n) ==
  LET doc == FoldLeft(LAMBDA d, b : AddBlock(lines, n, d, b),
                      [chunks |-> <<>>, open |-> <<>>, truncated |-> FALSE], BlocksOf(lines))
  IN  [chunks |-> doc.chunks, truncated |-> doc.truncated,
       refused |-> doc.chunks = <<>> /\ \E k \in DOMAIN lines : lines[k] # "blank"]

AskDocument(lines, n) ==
  Ask([op |-> "document", lines |-> lines, answer |-> ChunkDocument(lines, n)])

-----------------------------------------------------------------------------
(* Properties.                                                             *)

\* No visible character of a block is lost between its chunks, and they follow
\* each other (a chunk may be empty, where white space follows a word that
\* fills the one before).
ProseKept ==
  call.op = "prose" =>
    /\ \A i \in 0 .. Len(call.text) - 1 :
         IsSpace(call.text, i) \/ \E k \in DOMAIN call.chunks : i \in call.chunks[k][1] .. call.chunks[k][2] - 1
    /\ \A k \in 2 .. Len(call.chunks) :
         call.chunks[k - 1][1] <= call.chunks[k][1] /\ call.chunks[k - 1][2] <= call.chunks[k][2]

\* No chunk of prose is longer than max_chars: neither the overlap nor a
\* merged tail takes it over the limit, and without overlap nothing is twice.
ProseBounded ==
  call.op = "prose" =>
    \A k \in DOMAIN call.chunks :
      /\ call.chunks[k][2] - call.chunks[k][1] <= MaxChars
      /\ call.overlap = 0 /\ k > 1 => call.chunks[k - 1][2] <= call.chunks[k][1]

\* The chunks of a table are its rows, in order, each as many as the budget
\* takes: one at least, and the first row of the next did not fit.
TablePacked ==
  call.op = "table" =>
    LET size(g) == FoldLeft(LAMBDA m, r : m + r + 1, 0, g)
        body == BodyRows(call.rows)
    IN  body # <<>> =>
          /\ FlattenSeq(call.groups) = body
          /\ \A k \in DOMAIN call.groups :
               /\ Len(call.groups[k]) = 1 \/ size(call.groups[k]) <= Budget(call.rows)
               /\ k < Len(call.groups) =>
                    size(call.groups[k]) + call.groups[k + 1][1] + 1 > Budget(call.rows)

\* Every line is in a chunk or a heading of its own, unless the document says
\* that it is truncated or has nothing but headings.
LinesKept ==
  call.op = "document" =>
    LET a == call.answer
        chunked == UNION {a.chunks[k].block.from .. a.chunks[k].block.to : k \in DOMAIN a.chunks}
        rest == {k \in DOMAIN call.lines : call.lines[k] # "blank"} \ chunked
    IN  ~a.truncated => \A k \in rest : Level(call.lines[k]) > 0

\* The section path of a chunk is the headings it stands under: those that no
\* heading of their level or above follows before the chunk.
SectionsEnclose ==
  call.op = "document" =>
    LET blocks == BlocksOf(call.lines)
        heads == {b.from : b \in {c \in Range(blocks) : c.kind = "heading"}}
        level(k) == Level(call.lines[k])
    IN  \A c \in Range(call.answer.chunks) :
          LET before == {h \in heads : h < c.block.from}
          IN  c.path = SetToSortSeq({h \in before : \A g \in before : g > h => level(g) > level(h)}, <)

\* From its canonical view to its chunks a text keeps its characters, its
\* places and the sections they are in, in pieces of bounded size.
ChunksHold ==
  /\ SpansCover
  /\ ProseKept
  /\ ProseBounded
  /\ TablePacked
  /\ LinesKept
  /\ SectionsEnclose
=============================================================================
