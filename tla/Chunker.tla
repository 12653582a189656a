------------------------------- MODULE Chunker -------------------------------
(***************************************************************************)
(* chunk_text (aut-strong/chunker.py, and the same loop with other numbers *)
(* in aut-naive/chunker.py): a policy is cut into overlapping windows, one *)
(* step per window.                                                        *)
(*                                                                         *)
(* A text is its length and the offsets at which it has whitespace.        *)
(***************************************************************************)
EXTENDS Integers, Sequences

CONSTANTS
  MaxLength,     \* bound on the length of a text
  ChunkChars,    \* CHUNK_CHARS: 500, and 800 in aut-naive
  OverlapChars,  \* OVERLAP_CHARS: 300, and 150
  SnapWindow     \* SNAP_WINDOW, 60

\* chunk_text refuses an overlap as large as the window; the two agents' numbers leave
\* room for the snap as well.
ASSUME WindowAssumption ==
  /\ {MaxLength, ChunkChars, OverlapChars, SnapWindow} \subseteq Nat
  /\ OverlapChars + SnapWindow < ChunkChars

Corpora == UNION {[length : {n}, blanks : SUBSET (0..(n - 1))] : n \in 0..MaxLength}

VARIABLES
  text,     \* the policy
  cursor,   \* where the next window starts
  windows,  \* the chunks kept: start and end
  chunked   \* the loop has ended

chunkVars == <<text, cursor, windows, chunked>>

Smaller(a, b) == IF a <= b THEN a ELSE b
Greater(a, b) == IF a >= b THEN a ELSE b

\* Wrong variant: the snap may fall anywhere behind the cursor.
SnapAnywhere(end) ==
  IF end = text.length THEN {end}
  ELSE LET stops == {i \in (cursor + 1)..(end - 1) : i \in text.blanks}
       IN IF stops = {} THEN {end} ELSE {i \in stops : \A j \in stops : j <= i}

\* _snap_back: the last whitespace of the snap window, past the cursor, or the end itself.
\* A window that reaches the end of the text is not snapped.
SnapBack(end) ==
  IF end = text.length THEN {end}
  ELSE LET stops == {i \in Greater(cursor + 1, end - SnapWindow)..(end - 1) : i \in text.blanks}
       IN IF stops = {} THEN {end} ELSE {i \in stops : \A j \in stops : j <= i}

\* Whitespace only is dropped.
Keep(start, end) ==
  IF \A i \in start..(end - 1) : i \in text.blanks THEN windows
  ELSE Append(windows, [start |-> start, end |-> end])

\* Forward by at least one character.
Advance(end) == Greater(cursor + 1, end - OverlapChars)

Window ==
  /\ ~chunked /\ cursor < text.length
  /\ \E end \in SnapBack(Smaller(cursor + ChunkChars, text.length)) :
       /\ windows' = Keep(cursor, end)
       /\ IF end >= text.length
          THEN chunked' = TRUE /\ UNCHANGED cursor
          ELSE cursor' = Advance(end) /\ UNCHANGED chunked
  /\ UNCHANGED text

NoText ==
  /\ ~chunked /\ cursor >= text.length
  /\ chunked' = TRUE
  /\ UNCHANGED <<text, cursor, windows>>

ChunkInit == text \in Corpora /\ cursor = 0 /\ windows = <<>> /\ chunked = FALSE
ChunkNext == Window \/ NoText
ChunkSpec == ChunkInit /\ [][ChunkNext]_chunkVars

(***************************************************************************)
(* Properties.                                                             *)
(***************************************************************************)
Blank(lo, hi) == \A i \in lo..(hi - 1) : i \in text.blanks

Holds(window, lo, hi) == window.start <= lo /\ hi <= window.end

Whole(lo, hi) == \E k \in DOMAIN windows : Holds(windows[k], lo, hi)

\* A passage no longer than the overlap plus one is whole in some chunk, wherever it
\* lies and whatever the snaps did: "survival is guaranteed only while overlap >=
\* span_length - 1" (aut-strong/chunker.py:112-116).
SpansSurvive ==
  chunked => \A lo, hi \in 0..text.length :
    lo < hi /\ hi - lo <= OverlapChars + 1 /\ ~Blank(lo, hi) => Whole(lo, hi)
===============================================================================
