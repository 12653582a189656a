---------------------------- MODULE MCPolicyIngest ----------------------------
(* What becomes of a policy, each part from every state it may start in: the    *)
(* source of its text, the walk that makes clauses of it, the comparison of the *)
(* clauses with the baseline, the extraction of rules from them, and the chunks *)
(* an agent makes of the same text and retrieves. One part runs at a time.      *)
EXTENDS PolicySource, Segmenter, PolicyManifest, Extraction, AutRetrieval

MCTexts == {Text("old", "lf"), Text("old", "crlf"), Text("new", "lf")}

(* Trees of the kinds an extractor returns: a root with an exception that       *)
(* quotes nothing, the same id again for clauses of two batches, a root of no   *)
(* clause whose exception has one, and a rule it has flagged itself.            *)
Node(id, clauses, tests, span, flagged, cell) ==
  [rule_id |-> id, clause_ids |-> clauses, needs_human_review |-> flagged, cell |-> cell,
   conditions |-> {[test |-> t, source_span |-> span] : t \in tests}]

Cell1 == <<"refund", "denies">>
Cell2 == <<"refund", "grants">>

MCTrees ==
  {<<Node("a", {1}, {"opened"}, 1, FALSE, Cell1), Node("b", {1}, {"late"}, 0, FALSE, Cell2)>>,
   <<Node("a", {2, 3}, {"late"}, 3, FALSE, Cell1)>>,
   <<Node("c", {3}, {"opened"}, 3, FALSE, Cell1)>>,
   <<Node("d", {0}, {}, 0, FALSE, Cell2), Node("e", {3}, {"late"}, 3, FALSE, Cell1)>>,
   <<Node("f", {2}, {"late"}, 1, TRUE, Cell2)>>}

MCHandRules ==
  {Node("h1", {1}, {"opened"}, 1, FALSE, Cell1), Node("h2", {2}, {"late"}, 2, FALSE, Cell1),
   Node("h3", {1}, {}, 1, FALSE, Cell2)}

VARIABLE part

SourceIdle ==
  /\ served = <<[u \in Urls |-> Broken]>> /\ cached = [name \in Urls |-> NoFile]
  /\ lock = [u \in Urls |-> NoRow] /\ loaded = NoLoad
SegmenterIdle ==
  lines = <<>> /\ walk = NoWalk /\ segments = <<>> /\ phase = "idle"
ManifestIdle ==
  /\ doc = <<>> /\ baseline = NoEntry /\ pc = "none"
  /\ ingested = <<>> /\ diff = NoDiff /\ clock = 0
ExtractionIdle ==
  /\ step = "idle" /\ start = 1 /\ attempt = 1
  /\ found = <<>> /\ file = <<>> /\ hand = <<>> /\ rows = <<>>
RetrievalIdle ==
  /\ text = [length |-> 0, blanks |-> {}] /\ cursor = 0 /\ windows = <<>> /\ chunked = FALSE
  /\ dense = <<>> /\ reranked = <<>> /\ key = NoKey /\ finding = "idle"

MCInit ==
  \/ /\ part = "source" /\ SourceInit
     /\ SegmenterIdle /\ ManifestIdle /\ ExtractionIdle /\ RetrievalIdle
  \/ /\ part = "segment" /\ SegmenterInit
     /\ SourceIdle /\ ManifestIdle /\ ExtractionIdle /\ RetrievalIdle
  \/ /\ part = "manifest" /\ Init
     /\ SourceIdle /\ SegmenterIdle /\ ExtractionIdle /\ RetrievalIdle
  \/ /\ part = "extraction" /\ ExtractionInit
     /\ SourceIdle /\ SegmenterIdle /\ ManifestIdle /\ RetrievalIdle
  \/ /\ part = "retrieval" /\ RetrievalInit
     /\ SourceIdle /\ SegmenterIdle /\ ManifestIdle /\ ExtractionIdle

MCNext ==
  \/ /\ part = "source" /\ SourceNext
     /\ UNCHANGED <<segmenterVars, vars, extractionVars, retrievalVars, part>>
  \/ /\ part = "segment" /\ SegmenterNext
     /\ UNCHANGED <<sourceVars, vars, extractionVars, retrievalVars, part>>
  \/ /\ part = "manifest" /\ Next
     /\ UNCHANGED <<sourceVars, segmenterVars, extractionVars, retrievalVars, part>>
  \/ /\ part = "extraction" /\ ExtractionNext
     /\ UNCHANGED <<sourceVars, segmenterVars, vars, retrievalVars, part>>
  \/ /\ part = "retrieval" /\ RetrievalNext
     /\ UNCHANGED <<sourceVars, segmenterVars, vars, extractionVars, part>>
===============================================================================
