------------------------------ MODULE Segmenter ------------------------------
(***************************************************************************)
(* segment_markdown (harness/ingest/segmenter.py): one walk over the lines *)
(* of a policy builds blocks under a stack of open headings, and each      *)
(* block becomes clauses.                                                  *)
(*                                                                         *)
(* A line is its kind and its depth (the level of a heading, the indent of *)
(* a list marker); a numbered item is a bullet here, and the marker of a   *)
(* blockquote is gone before anything is decided. The words of line i are  *)
(* the number i, so that the text of a clause is the sequence of the lines *)
(* it was made of, and the size of a text is their number. Markup inside a *)
(* line is stripped and adds no word.                                      *)
(***************************************************************************)
EXTENDS Integers, Sequences, FiniteSets, SequencesExt

CONSTANTS
  Levels,              \* heading levels
  Indents,             \* indents of list markers
  MaxLines,            \* bound on the lines of a policy
  MaxClauseTokens,     \* MAX_CLAUSE_TOKENS, 400, in lines
  FallbackChunkTokens  \* FALLBACK_CHUNK_TOKENS, 320, in lines

ASSUME SizesAssumption ==
  /\ Levels \subseteq Nat /\ Indents \subseteq Nat /\ MaxLines \in Nat
  /\ FallbackChunkTokens \in 1..MaxClauseTokens

Line(kind, depth) == [kind |-> kind, depth |-> depth]

\* "delim" is the row of dashes under a table's header, "rule" a horizontal rule.
Lines == {Line("heading", n) : n \in Levels} \cup {Line("bullet", n) : n \in Indents}
           \cup {Line(k, 0) : k \in {"text", "row", "delim", "blank", "rule", "fence"}}

\* Lines that say something: the others normalise to nothing.
Worded(line) == line.kind \in {"heading", "bullet", "text", "row"}

VARIABLES
  lines,     \* the policy as far as it has been read
  walk,      \* the locals of the walk over it
  segments,  \* what segment_markdown returned
  phase      \* "reading" or "segmented"

segmenterVars == <<lines, walk, segments, phase>>

(***************************************************************************)
(* The structural pass. A block is the lines it holds and its heading path,*)
(* each as line numbers.                                                   *)
(***************************************************************************)
NoWalk == [stack |-> <<>>, blocks |-> <<>>, current |-> <<>>, path |-> <<>>, in_fence |-> FALSE]

\* close_block: what is not empty is kept, and the next block lies under the open headings.
CloseBlock(w) ==
  [w EXCEPT !.blocks  = IF \E i \in DOMAIN w.current : lines[w.current[i]].kind # "blank"
                        THEN Append(@, [lines |-> w.current, path |-> w.path]) ELSE @,
            !.current = <<>>,
            !.path    = w.stack]

\* Wrong variant: a heading closes only deeper ones.
OpenHeadingBeside(w, i, level) ==
  LET kept == {k \in DOMAIN w.stack : lines[w.stack[k]].depth <= level}
      open == Append(SubSeq(w.stack, 1, Max(kept \cup {0})), i)
  IN [CloseBlock(w) EXCEPT !.stack = open, !.path = open]

\* A heading pops the open ones off the end of the stack, down to the last that is above it.
OpenHeading(w, i, level) ==
  LET kept == {k \in DOMAIN w.stack : lines[w.stack[k]].depth < level}
      open == Append(SubSeq(w.stack, 1, Max(kept \cup {0})), i)
  IN [CloseBlock(w) EXCEPT !.stack = open, !.path = open]

Extend(w, i) == [w EXCEPT !.current = Append(@, i)]

\* Wrong variant: a fence swallows what it encloses.
FeedSkippingFences(w, i, line) ==
  IF line.kind = "fence" THEN [w EXCEPT !.in_fence = ~@]
  ELSE IF w.in_fence THEN w
  ELSE IF line.kind = "heading" THEN OpenHeading(w, i, line.depth)
  ELSE IF line.kind \in {"rule", "blank"} THEN CloseBlock(w)
  ELSE Extend(w, i)

\* Line i: inside a fence everything is text, and a fence closes no block.
Feed(w, i, line) ==
  IF line.kind = "fence" THEN [w EXCEPT !.in_fence = ~@]
  ELSE IF w.in_fence THEN Extend(w, i)
  ELSE IF line.kind = "heading" THEN OpenHeading(w, i, line.depth)
  ELSE IF line.kind \in {"rule", "blank"} THEN CloseBlock(w)
  ELSE Extend(w, i)

(***************************************************************************)
(* Blocks to segments.                                                     *)
(***************************************************************************)
\* The elements of a sequence that are in a set, in their order.
Only(s, S) ==
  LET kept[k \in 0..Len(s)] ==
        IF k = 0 THEN <<>>
        ELSE IF s[k] \in S THEN Append(kept[k - 1], s[k])
        ELSE kept[k - 1]
  IN kept[Len(s)]

Body(block) == Only(block.lines, {i \in DOMAIN lines : lines[i].kind # "blank"})

\* _classify: one table row makes the block a table, else its first line decides.
Kind(body) ==
  IF \E i \in DOMAIN body : lines[body[i]].kind \in {"row", "delim"} THEN "table"
  ELSE IF body # <<>> /\ lines[body[1]].kind = "bullet" THEN "list_item"
  ELSE "paragraph"

\* A line begins a group of its own, or is gathered into the last one.
Begin(groups, i) == Append(groups, <<i>>)

Gather(groups, i) == [groups EXCEPT ![Len(groups)] = Append(@, i)]

NoIndent == -1

\* Wrong variant: every marker starts an item.
PlaceDetached(split, i) ==
  IF lines[i].kind = "bullet"
  THEN [items |-> Begin(split.items, i), base |-> lines[i].depth]
  ELSE [split EXCEPT !.items = Gather(@, i)]

\* A marker as shallow as the shallowest so far starts an item; a nested one, or a line
\* without a marker, stays with the item above it.
Place(split, i) ==
  IF lines[i].kind = "bullet" /\ (split.base = NoIndent \/ lines[i].depth <= split.base)
  THEN [items |-> Begin(split.items, i), base |-> lines[i].depth]
  ELSE [split EXCEPT !.items = Gather(@, i)]

\* _split_list_block, for a block whose first line is a marker.
ListItems(body) ==
  LET split[k \in 0..Len(body)] ==
        IF k = 0 THEN [items |-> <<>>, base |-> NoIndent] ELSE Place(split[k - 1], body[k])
  IN split[Len(body)].items

Candidates(body) == IF Kind(body) = "list_item" THEN ListItems(body) ELSE <<body>>

\* The text of a candidate once it is normalised, in numbers of its lines.
Words(body) == Only(body, {i \in DOMAIN lines : Worded(lines[i])})

\* split_long_block: packed greedily up to the chunk target, nothing twice.
Pack(chunks, i) ==
  IF chunks = <<>> \/ Len(chunks[Len(chunks)]) >= FallbackChunkTokens
  THEN Begin(chunks, i) ELSE Gather(chunks, i)

Pieces(text) ==
  LET packed[k \in 0..Len(text)] == IF k = 0 THEN <<>> ELSE Pack(packed[k - 1], text[k])
  IN packed[Len(text)]

Segment(words, path, kind) == [words |-> words, path |-> path, kind |-> kind]

\* What says nothing is no clause, and what is too long is cut.
Cut(text, path, kind) ==
  IF text = <<>> THEN <<>>
  ELSE IF Len(text) <= MaxClauseTokens THEN <<Segment(text, path, kind)>>
  ELSE [k \in DOMAIN Pieces(text) |-> Segment(Pieces(text)[k], path, "split")]

SegmentsOf(block) ==
  LET body == Body(block)
  IN FlattenSeq([k \in DOMAIN Candidates(body) |->
                   Cut(Words(Candidates(body)[k]), block.path, Kind(body))])

(***************************************************************************)
(* Steps.                                                                  *)
(***************************************************************************)
ReadLine ==
  /\ phase = "reading" /\ Len(lines) < MaxLines
  /\ \E line \in Lines :
       /\ lines' = Append(lines, line)
       /\ walk' = Feed(walk, Len(lines) + 1, line)
  /\ UNCHANGED <<segments, phase>>

\* The end of the text, which may come in a fence or in the middle of a list.
EndOfText ==
  /\ phase = "reading"
  /\ walk' = CloseBlock(walk)
  /\ segments' = FlattenSeq([k \in DOMAIN walk'.blocks |-> SegmentsOf(walk'.blocks[k])])
  /\ phase' = "segmented"
  /\ UNCHANGED lines

SegmenterInit ==
  /\ lines = <<>> /\ walk = NoWalk /\ segments = <<>> /\ phase = "reading"

SegmenterNext == ReadLine \/ EndOfText

SegmenterSpec == SegmenterInit /\ [][SegmenterNext]_segmenterVars

(***************************************************************************)
(* Properties.                                                             *)
(***************************************************************************)
\* A line lies in a fence when the fence lines before it are odd in number.
Fenced(i) == Cardinality({j \in 1..(i - 1) : lines[j].kind = "fence"}) % 2 = 1

OpensSection(i) == lines[i].kind = "heading" /\ ~Fenced(i)

IsText(i) == Worded(lines[i]) /\ ~OpensSection(i)

\* The headings a reader finds above line i: those that no later heading of their level
\* or above has closed.
OpenAbove(i) ==
  {h \in 1..(i - 1) :
     /\ OpensSection(h)
     /\ \A j \in (h + 1)..(i - 1) : OpensSection(j) => lines[j].depth > lines[h].depth}

Ascending(s) == \A j, k \in DOMAIN s : j < k => s[j] < s[k]

\* Every worded line of the policy is in exactly one clause, and the clauses follow the
\* order of the text: nothing is lost to a fence, a table or a wall of text, and no
\* sentence stands in two clauses, where one edit would change two hashes and a quote
\* could verify against the wrong one (segmenter.py:122-125).
EveryWordIsInOneClause ==
  phase = "segmented" =>
    LET all == FlattenSeq([k \in DOMAIN segments |-> segments[k].words])
    IN Ascending(all) /\ ToSet(all) = {i \in DOMAIN lines : IsText(i)}

\* A clause is under the headings a reader finds above it, in their order, whatever
\* fences, rules and lists stand between (segmenter.py:290-298).
PathIsTheOpenHeadings ==
  \A k \in DOMAIN segments :
    /\ Ascending(segments[k].path)
    /\ ToSet(segments[k].path) = OpenAbove(segments[k].words[1])

\* A heading, a rule or a blank line ends a list, unless it stands in a fence.
EndsList(i) == lines[i].kind \in {"heading", "rule", "blank"} /\ ~Fenced(i)

\* The markers above line i, in its list, that are less indented.
ShallowerAbove(i) ==
  {h \in 1..(i - 1) : /\ lines[h].kind = "bullet" /\ lines[h].depth < lines[i].depth
                      /\ \A j \in (h + 1)..(i - 1) : ~EndsList(j)}

\* A sub-item is read with the item it qualifies: in a list, a marker stands in the
\* clause of the nearest less indented marker above it, and one with none above it
\* begins a clause. Only a clause that was a wall of text is cut (segmenter.py:217-235).
SubItemsStayWithTheirItem ==
  \A k \in DOMAIN segments : segments[k].kind = "list_item" =>
    LET words == segments[k].words
    IN \A i \in ToSet(words) : lines[i].kind = "bullet" =>
         IF ShallowerAbove(i) = {} THEN i = words[1] ELSE Max(ShallowerAbove(i)) \in ToSet(words)
===============================================================================
