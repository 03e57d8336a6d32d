-------------------------- MODULE DocumentChunking --------------------------
(***************************************************************************)
(* How a normalised document is cut into the passages that are embedded    *)
(* and cited, and how a detector's hit is located in it.                   *)
(*                                                                         *)
(* The chunker decides by the lengths of lines and by what kind of line    *)
(* each is, so a document is a sequence of lines: text, blank, a Markdown  *)
(* heading of some depth and title, or a fence with its marker. Positions  *)
(* are character offsets as in the source, from 0, and a span contains its *)
(* start and not its end. Every character but the newline is taken as      *)
(* visible. The document grows a line at a time; it is cut afresh in every *)
(* state.                                                                  *)
(***************************************************************************)
EXTENDS Integers, FiniteSets, Sequences

CONSTANTS
  Lines,          \* the lines a document may have
  MaxLines,       \* bound on the lines of a document
  CharsPerToken, TargetTokens, OverlapTokens, MinTokens, MaxTokens

VARIABLE doc      \* the lines so far

\* The sizes are dataclass defaults, 600, 80, 100 and 1024 tokens of 4
\* characters, and no caller passes others.
ASSUME SizesAssumption ==
  /\ CharsPerToken \in Nat \ {0} /\ MaxTokens \in Nat \ {0} /\ MaxLines \in Nat
  /\ TargetTokens \in Nat /\ OverlapTokens \in Nat /\ MinTokens \in Nat
  /\ OverlapTokens <= MaxTokens

\* Only a blank line is empty, and a heading has one # or more.
ASSUME LinesAssumption ==
  \A line \in Lines :
    /\ line.len \in Nat
    /\ line.kind = "blank" <=> line.len = 0
    /\ line.kind = "heading" => line.tag \in Nat \ {0}

TargetChars  == TargetTokens * CharsPerToken
OverlapChars == OverlapTokens * CharsPerToken
MinChars     == MinTokens * CharsPerToken
MaxChars     == MaxTokens * CharsPerToken

Least(a, b)    == IF a < b THEN a ELSE b
Greatest(a, b) == IF a > b THEN a ELSE b

\* normalise() strips newlines at both ends.
Normalised(d) == d # <<>> => d[1].kind # "blank" /\ d[Len(d)].kind # "blank"

----------------------------------------------------------------------------
(* Positions *)

\* _line_starts: where each line begins; one more for the end.
LineStarts(d) ==
  LET at[i \in 1 .. Len(d) + 1] ==
        IF i = 1 THEN 0 ELSE at[i - 1] + d[i - 1].len + 1
  IN  at

TextLen(d) == IF d = <<>> THEN 0 ELSE LineStarts(d)[Len(d) + 1] - 1

Newlines(d) == LET at == LineStarts(d) IN {at[i + 1] - 1 : i \in 1 .. Len(d) - 1}

Visible(d) == (0 .. TextLen(d) - 1) \ Newlines(d)

Span(s) == s.start .. (s.end - 1)

HasText(d, s) == ~(Span(s) \subseteq Newlines(d))

\* What has no text is left out of the lists.
Adding(d, list, s) == IF HasText(d, s) THEN Append(list, s) ELSE list

----------------------------------------------------------------------------
(* Sections and paragraphs *)

NoFence == "none"

\* A fence opens a block, and only its own marker closes it.
FenceAfter(fence, line) ==
  IF line.kind # "fence" THEN fence
  ELSE IF fence = NoFence THEN line.tag
  ELSE IF fence = line.tag THEN NoFence ELSE fence

\* A heading drops the path from its depth on, and levels skipped are empty.
Descend(path, line) ==
  [i \in 1 .. line.tag |-> IF i = line.tag THEN line.title
                           ELSE IF i <= Len(path) THEN path[i] ELSE ""]

\* The walk over the lines: where the section they are in begins and what it
\* is filed under, the fence that is open, and the sections that are done.
AtTop == [path |-> <<>>, start |-> 0, fence |-> NoFence, out |-> <<>>]

Leave(d, s, end) ==
  IF s.start < end
  THEN Adding(d, s.out, [path |-> s.path, start |-> s.start, end |-> end])
  ELSE s.out

Enter(d, s, line, at) ==
  [path |-> Descend(s.path, line), start |-> at, fence |-> NoFence,
   out |-> Leave(d, s, at)]

\* Mutant: a comment in a shell example is a heading.
OpensSectionAnywhere(s, line) == line.kind = "heading"

OpensSection(s, line) == line.kind = "heading" /\ s.fence = NoFence

AfterLine(d, s, line, at) ==
  IF OpensSection(s, line) THEN Enter(d, s, line, at)
  ELSE [s EXCEPT !.fence = FenceAfter(s.fence, line)]

SectionWalk(d) ==
  LET at == LineStarts(d)
      walk[i \in 0 .. Len(d)] ==
        IF i = 0 THEN AtTop ELSE AfterLine(d, walk[i - 1], d[i], at[i])
  IN  walk

\* _sections: split at headings that are not inside a fenced block.
Sections(d) == Leave(d, SectionWalk(d)[Len(d)], TextLen(d))

Blank == [kind |-> "blank", len |-> 0, tag |-> 0, title |-> ""]

\* A blank line outside a fence ends a paragraph, unless nothing is in it.
NextParagraph(d, s, line, at) ==
  LET breaks == line.kind = "blank" /\ s.fence = NoFence /\ at > s.block
  IN  [fence |-> FenceAfter(s.fence, line),
       block |-> IF breaks THEN at + 1 ELSE s.block,
       spans |-> IF breaks THEN Adding(d, s.spans, [start |-> s.block, end |-> at])
                 ELSE s.spans]

\* Over the lines of a section. One that another follows ends with an empty
\* line in the source, which makes no difference to the last paragraph.
ParagraphWalk(d, section) ==
  LET at == LineStarts(d)
      walk[i \in 0 .. Len(d)] ==
        IF i = 0 THEN [fence |-> NoFence, block |-> section.start, spans |-> <<>>]
        ELSE IF at[i] \in Span(section) THEN NextParagraph(d, walk[i - 1], d[i], at[i])
        ELSE walk[i - 1]
  IN  walk

\* _paragraph_spans: split a section at blank lines outside fenced blocks.
ParagraphSpans(d, section) ==
  LET s == ParagraphWalk(d, section)[Len(d)]
  IN  IF s.block < section.end
      THEN Adding(d, s.spans, [start |-> s.block, end |-> section.end])
      ELSE s.spans

----------------------------------------------------------------------------
(* chunk_document *)

Buffer(b, path) == [path |-> path, start |-> b.start, end |-> b.end]

\* A paragraph joins the buffer up to the target; else the buffer is emitted
\* and the next one steps back from its end by the overlap.
Gather(b, p, path) ==
  IF b.start = -1 THEN [b EXCEPT !.start = p.start, !.end = p.end]
  ELSE IF p.end - b.start <= TargetChars THEN [b EXCEPT !.end = p.end]
  ELSE [start |-> Least(Greatest(b.start, b.end - OverlapChars), p.start),
        end |-> p.end, out |-> Append(b.out, Buffer(b, path))]

Emptied(b, path) == IF b.start = -1 THEN b.out ELSE Append(b.out, Buffer(b, path))

GatherWalk(paragraphs, path) ==
  LET walk[i \in 0 .. Len(paragraphs)] ==
        IF i = 0 THEN [start |-> -1, end |-> 0, out |-> <<>>]
        ELSE Gather(walk[i - 1], paragraphs[i], path)
  IN  walk

Gathered(d, section) ==
  LET paragraphs == ParagraphSpans(d, section)
  IN  Emptied(GatherWalk(paragraphs, section.path)[Len(paragraphs)], section.path)

GatheredAll(d, sections) ==
  LET all[i \in 0 .. Len(sections)] ==
        IF i = 0 THEN <<>> ELSE all[i - 1] \o Gathered(d, sections[i])
  IN  all

\* Mutant: the remainder after the last whole piece is dropped.
WholePieces(c) ==
  [k \in 1 .. Greatest(1, (c.end - c.start) \div MaxChars) |->
     [path |-> c.path, start |-> c.start + (k - 1) * MaxChars,
      end |-> Least(c.end, c.start + k * MaxChars)]]

\* What is over the ceiling is cut at the ceiling.
Bounded(c) ==
  [k \in 1 .. (c.end - c.start + MaxChars - 1) \div MaxChars |->
     [path |-> c.path, start |-> c.start + (k - 1) * MaxChars,
      end |-> Least(c.end, c.start + k * MaxChars)]]

BoundedAll(chunks) ==
  LET all[i \in 0 .. Len(chunks)] ==
        IF i = 0 THEN <<>> ELSE all[i - 1] \o Bounded(chunks[i])
  IN  all

\* An undersized chunk joins the one before it under the same heading.
Joins(before, c) ==
  /\ c.end - c.start < MinChars
  /\ before.path = c.path
  /\ c.end - before.start <= MaxChars

Merge(out, c) ==
  IF out # <<>> /\ Joins(out[Len(out)], c)
  THEN [out EXCEPT ![Len(out)] = [path |-> c.path, start |-> @.start, end |-> c.end]]
  ELSE Append(out, c)

MergedAll(chunks) ==
  LET all[i \in 0 .. Len(chunks)] ==
        IF i = 0 THEN <<>> ELSE Merge(all[i - 1], chunks[i])
  IN  all

\* content.strip("\n"), and the offsets of what is left.
Stripped(d, c) ==
  LET shown == Span(c) \ Newlines(d)
  IN  [path |-> c.path, start |-> CHOOSE p \in shown : \A q \in shown : p <= q,
       end |-> 1 + CHOOSE p \in shown : \A q \in shown : q <= p]

\* The source falls back on the whole text when it has no chunk, which never
\* happens: they hold every visible character.
ChunkDocument(d) ==
  LET sections == Sections(d)
      gathered == GatheredAll(d, sections)[Len(sections)]
      bounded  == BoundedAll(gathered)[Len(gathered)]
      merged   == MergedAll(bounded)[Len(bounded)]
  IN  {Stripped(d, merged[i]) : i \in {j \in DOMAIN merged : HasText(d, merged[j])}}

\* The injection-shaped hits: in a line tagged so, the line and its tail.
Hits(d) ==
  LET at == LineStarts(d)
  IN  {[start |-> at[i] + skip, end |-> at[i] + d[i].len] :
         i \in {j \in 1 .. Len(d) : d[j].kind = "text" /\ d[j].tag = "hit"}, skip \in {0, 1}}

\* The chunks _persist flags for them.
Overlaps(hit, c) == hit.start < c.end /\ c.start < hit.end

FlaggedChunks(chunks, hits) ==
  {c \in chunks : \E hit \in hits : Overlaps(hit, c)}

----------------------------------------------------------------------------
GrowInit == doc = <<>>

Write(line) ==
  /\ Len(doc) < MaxLines
  /\ doc = <<>> => line.kind # "blank"
  /\ doc' = Append(doc, line)

GrowNext == \E line \in Lines : Write(line)

GrowSpec == GrowInit /\ [][GrowNext]_doc

----------------------------------------------------------------------------
(* Properties *)

DocumentTypeOK == doc \in Seq(Lines) /\ Len(doc) <= MaxLines

Kept(d, chunks, hits) ==
  /\ Visible(d) \subseteq UNION {Span(c) : c \in chunks}
  /\ \A hit \in hits : Span(hit) \subseteq UNION {Span(c) : c \in FlaggedChunks(chunks, hits)}

\* Whatever the headings, fences, overlaps, cuts and merges, every visible
\* character of the document is in some chunk - what is in none can be neither
\* found nor cited - and every character of an injection-shaped hit is in one
\* that is flagged (chunking.py:191-260, ingest.py:700-703).
NothingIsLost ==
  Normalised(doc) => Kept(doc, ChunkDocument(doc), Hits(doc))

\* The headings in force at a line, said without walking the sections: of each
\* depth the last heading that no shallower one has followed, if it has a title.
Fences(d) ==
  LET fence[i \in 0 .. Len(d)] ==
        IF i = 0 THEN NoFence ELSE FenceAfter(fence[i - 1], d[i])
  IN  fence

Openings(d, n) ==
  LET fence == Fences(d)
  IN  {i \in 1 .. n : d[i].kind = "heading" /\ fence[i - 1] = NoFence}

InForce(d, n) ==
  LET above == Openings(d, n)
  IN  {<<d[i].tag, d[i].title>> :
         i \in {i \in above : d[i].title # "" /\ \A j \in above : j > i => d[j].tag > d[i].tag}}

\* The titles of a chunk's path that are not empty, each with its depth.
Label(path) == {<<k, path[k]>> : k \in {k \in DOMAIN path : path[k] # ""}}

FiledTogether(d, chunks, at) ==
  \A c \in chunks, n \in 1 .. Len(d) :
    Overlaps(c, [start |-> at[n], end |-> at[n] + d[n].len]) => Label(c.path) = InForce(d, n)

\* A chunk is filed under the headings in force where its text is, all of it:
\* the label a citation shows is the section the passage comes from
\* (chunking.py:109-159, 233-244).
FiledUnderItsHeading ==
  Normalised(doc) => FiledTogether(doc, ChunkDocument(doc), LineStarts(doc))

=============================================================================
