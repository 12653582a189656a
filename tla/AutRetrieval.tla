----------------------------- MODULE AutRetrieval -----------------------------
(***************************************************************************)
(* Retrieval in the agents under test over the chunks of Chunker, and the  *)
(* check of it (scripts/check_aut_retrieval.py). A query is answered from  *)
(* the CandidateK chunks nearest to it, ordered again by a cross-encoder   *)
(* and cut to TopK; the check asks whether the text that governs a probe   *)
(* was among them.                                                         *)
(*                                                                         *)
(* A chunk is its position in the windows. The two models are whatever     *)
(* order and whatever scores.                                              *)
(***************************************************************************)
EXTENDS Chunker, FiniteSets, SequencesExt

CONSTANTS
  TopK,        \* TOP_K, 8
  CandidateK,  \* CANDIDATE_K, 16
  Scores       \* scores the cross-encoder may give

\* Retriever.__init__ refuses anything else.
ASSUME DepthAssumption ==
  /\ {TopK, CandidateK} \subseteq Nat \ {0} /\ TopK < CandidateK
  /\ Scores \subseteq Int

VARIABLES
  dense,     \* the candidates, best first
  reranked,  \* what search returned
  key,       \* the governing passage: its offsets, and whether it is the target's own
  finding    \* the check's verdict on it, "none" before

retrievalVars == <<chunkVars, dense, reranked, key, finding>>

Chunks == DOMAIN windows

Orders(n) == {order \in [1..n -> Chunks] : \A i, j \in 1..n : i # j => order[i] # order[j]}

NoKey == [lo |-> 0, hi |-> 0, target |-> FALSE]
Keys  == {k \in [lo : 0..text.length, hi : 0..text.length, target : BOOLEAN] : k.lo < k.hi}

\* sorted() by falling score, which keeps dense order among equals.
Rerank(order, score) ==
  LET Ahead(i, j) == score[i] > score[j] \/ (score[i] = score[j] /\ i < j)
      ranks == SetToSortSeq(DOMAIN order, Ahead)
  IN [n \in DOMAIN order |-> order[ranks[n]]]

\* load_corpus refuses a corpus without chunks, so /chat answers 503 and there is no query.
Search ==
  /\ chunked /\ windows # <<>> /\ dense = <<>>
  /\ \E order \in Orders(Smaller(CandidateK, Len(windows))) :
     \E score \in [DOMAIN order -> Scores] :
       /\ dense' = order
       /\ reranked' = SubSeq(Rerank(order, score), 1, Smaller(TopK, Len(windows)))
  /\ UNCHANGED <<chunkVars, key, finding>>

\* Wrong variant: a chunk that touches the passage holds it.
HoldersTouching(k) ==
  {c \in Chunks : windows[c].start < k.hi /\ k.lo < windows[c].end}

\* The chunks that hold the passage whole, over the full table.
Holders(k) == {c \in Chunks : Holds(windows[c], k.lo, k.hi)}

\* cmd_check on one passage of the rule chain. A passage longer than any window, or one
\* the windows cut, is "split".
Finding(k) ==
  IF Holders(k) = {} THEN "split"
  ELSE IF Holders(k) \cap ToSet(reranked) # {} THEN "reached"
  ELSE IF Holders(k) \cap ToSet(dense) # {} THEN "dropped" ELSE "unranked"

Check ==
  /\ dense # <<>> /\ finding = "none"
  /\ key' \in Keys
  /\ finding' = Finding(key')
  /\ UNCHANGED <<chunkVars, dense, reranked>>

RetrievalInit ==
  /\ ChunkInit
  /\ dense = <<>> /\ reranked = <<>> /\ key = NoKey /\ finding = "none"

RetrievalNext ==
  \/ ChunkNext /\ UNCHANGED <<dense, reranked, key, finding>>
  \/ Search \/ Check

RetrievalSpec == RetrievalInit /\ [][RetrievalNext]_retrievalVars

(***************************************************************************)
(* Properties.                                                             *)
(***************************************************************************)
\* The exit status fails on what belongs to the target rule only.
Fails == key.target /\ finding # "reached"

\* A pass is a fact about the prompt: every character of the target's passage stands, in
\* order, in one chunk that was returned (check_aut_retrieval.py:24-31).
PassMeansReached ==
  finding # "none" /\ key.target /\ ~Fails =>
    \E c \in ToSet(reranked) : \A i \in key.lo..(key.hi - 1) :
      windows[c].start <= i /\ i < windows[c].end

\* A failure has the cause it is reported with: a passage within the overlap that the
\* prompt lacks was lost by the ranking and never by the chunk boundaries, and one the
\* reranker is said to have dropped was in its hands (check_aut_retrieval.py:373-432).
CauseIsTheCause ==
  finding # "none" /\ key.hi - key.lo <= OverlapChars + 1 /\ ~Blank(key.lo, key.hi) =>
    /\ finding # "split"
    /\ finding = "dropped" => \E c \in ToSet(dense) \ ToSet(reranked) : Holds(windows[c], key.lo, key.hi)

\* Both at once: what the check says of a passage is so.
FindingIsTrue == PassMeansReached /\ CauseIsTheCause
===============================================================================
