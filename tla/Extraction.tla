------------------------------ MODULE Extraction ------------------------------
(***************************************************************************)
(* From clauses to candidate rules (harness/extract): the extractor is     *)
(* asked for the rules of one batch of clauses after another, and what it  *)
(* returns is filtered, checked against the text, asked for once more and  *)
(* flagged. scripts/extract_and_compare.py then pairs the candidates with  *)
(* the rules written by hand.                                              *)
(*                                                                         *)
(* A tree is a rule with its exceptions, in the order of walk(), the root  *)
(* first. A clause is its ordinal; 0 is a clause, or the place of a        *)
(* quotation, that is not in the document. A cell is an entitlement and a  *)
(* polarity.                                                               *)
(***************************************************************************)
EXTENDS Integers, Sequences, FiniteSets, SequencesExt

CONSTANTS
  NumClauses,       \* clauses of the document
  ClausesPerCall,   \* CLAUSES_PER_CALL
  Trees,            \* trees the extractor may return
  MaxTrees,         \* bound on the trees of one response
  HandRules,        \* nodes of rules.lock.json
  MaxHand           \* bound on their number

ASSUME BatchAssumption ==
  NumClauses \in Nat \ {0} /\ ClausesPerCall \in Nat \ {0}

\* The nodes of the trees, and their fields.
TreeNodes == UNION {ToSet(tree) : tree \in Trees}
NodeType ==
  [rule_id : {node.rule_id : node \in TreeNodes \cup HandRules},
   clause_ids : {node.clause_ids : node \in TreeNodes \cup HandRules},
   needs_human_review : BOOLEAN,
   cell : {node.cell : node \in TreeNodes \cup HandRules},
   conditions : {node.conditions : node \in TreeNodes \cup HandRules}]

ASSUME TreesAssumption ==
  Trees \subseteq Seq(NodeType) /\ HandRules \subseteq NodeType /\ {MaxTrees, MaxHand} \subseteq Nat

VARIABLES
  step,      \* "pull", "retry", "write", "measure", "done" or "failed"
  start,     \* the first clause of the batch
  attempt,   \* pulls of this batch, the one under way included
  found,     \* all_rules
  file,      \* the trees in rules.extracted.json, once Written
  hand,      \* the nodes of the rules written by hand
  rows       \* the comparison: one row per node of hand

batchVars == <<start, attempt>>
extractionVars == <<step, batchVars, found, file, hand, rows>>

Document == 1..NumClauses
Batch    == {c \in Document : start <= c /\ c < start + ClausesPerCall}

\* A response cut short by the token limit is salvaged to a prefix, down to no rule
\* at all, which is a response too.
Responses == UNION {[1..n -> Trees] : n \in 0..MaxTrees}

(***************************************************************************)
(* What is done with a response.                                           *)
(***************************************************************************)
\* The trees whose root cites a clause of the batch.
Kept(response) ==
  LET kept[i \in 0..Len(response)] ==
        IF i = 0 THEN <<>>
        ELSE IF response[i][1].clause_ids \cap Batch # {} THEN Append(kept[i - 1], response[i])
        ELSE kept[i - 1]
  IN kept[Len(response)]

\* _walk_all.
Nodes(trees) ==
  LET walked[i \in 0..Len(trees)] == IF i = 0 THEN <<>> ELSE walked[i - 1] \o trees[i]
  IN walked[Len(trees)]

\* Every condition quotes a clause its own node cites and the document has.
Grounded(node) ==
  \A c \in node.conditions : c.source_span \in node.clause_ids \cap Document

Ungrounded(trees) ==
  {node \in UNION {ToSet(tree) : tree \in ToSet(trees)} : ~Grounded(node)}

\* GroundingReport.ok: what a reviewer has been told of does not refuse.
Refused(trees) == {node \in Ungrounded(trees) : ~node.needs_human_review}

\* Wrong variant: only roots are flagged.
FlagRoots(trees) ==
  LET violated == {node.rule_id : node \in Ungrounded(trees)}
  IN [t \in DOMAIN trees |->
       IF trees[t][1].rule_id \in violated
       THEN [trees[t] EXCEPT ![1].needs_human_review = TRUE] ELSE trees[t]]

\* By rule_id, so a grounded node that shares its id with another tree's is flagged too.
Flag(trees) ==
  LET violated == {node.rule_id : node \in Ungrounded(trees)}
  IN [t \in DOMAIN trees |-> [i \in DOMAIN trees[t] |->
       IF trees[t][i].rule_id \in violated
       THEN [trees[t][i] EXCEPT !.needs_human_review = TRUE] ELSE trees[t][i]]]

(***************************************************************************)
(* extract_rules.                                                          *)
(***************************************************************************)
NextBatch(trees) ==
  /\ found' = found \o trees
  /\ start' = start + ClausesPerCall
  /\ attempt' = 1
  /\ step' = IF start + ClausesPerCall > NumClauses THEN "write" ELSE "pull"

\* A response that refuses is thrown away whole: the retry stands for all of it.
Pull ==
  /\ step = "pull"
  /\ \E response \in Responses :
       IF Refused(Kept(response)) = {}
       THEN NextBatch(Kept(response))
       ELSE step' = "retry" /\ UNCHANGED <<batchVars, found>>
  /\ UNCHANGED <<file, hand, rows>>

Retry ==
  /\ step = "retry"
  /\ \E response \in Responses :
       NextBatch(IF Refused(Kept(response)) = {} THEN Kept(response) ELSE Flag(Kept(response)))
  /\ UNCHANGED <<file, hand, rows>>

\* ExtractorError: quota, timeout, an empty reply, rules the schema refuses. One
\* more pull of the batch, and none in place of the retry.
CallFails ==
  /\ step \in {"pull", "retry"}
  /\ IF step = "pull" /\ attempt = 1
     THEN attempt' = 2 /\ UNCHANGED step
     ELSE step' = "failed" /\ UNCHANGED attempt
  /\ UNCHANGED <<start, found, file, hand, rows>>

\* JSON that is no list of objects breaks the sanitising, outside both handlers.
SanitiseRaises ==
  /\ step \in {"pull", "retry"}
  /\ step' = "failed"
  /\ UNCHANGED <<batchVars, found, file, hand, rows>>

WriteExtracted ==
  /\ step = "write"
  /\ file' = found
  /\ step' = "measure"
  /\ UNCHANGED <<batchVars, found, hand, rows>>

(***************************************************************************)
(* compute_coverage and compare_rule_sets.                                 *)
(***************************************************************************)
\* rules_by_clause.
RulesOf(trees, clause) ==
  {node.rule_id : node \in {n \in ToSet(Nodes(trees)) : clause \in n.clause_ids}}

Tests(node) == {c.test : c \in node.conditions}

Claimed(done) == UNION {row.extracted : row \in ToSet(done)}

Pairing(h, status, extracted) == [cell |-> h.cell, status |-> status, extracted |-> extracted]

\* Wrong variant: a rule paired as "different" may be paired again.
ClaimAgain(trees, done, h) ==
  LET nodes == Nodes(trees)
      used  == Claimed(SelectSeq(done, LAMBDA row : row.status = "equivalent"))
      free  == {i \in DOMAIN nodes : nodes[i].cell = h.cell /\ nodes[i].rule_id \notin used}
      exact == {i \in free : Tests(nodes[i]) = Tests(h)}
  IN IF exact # {} THEN Pairing(h, "equivalent", {nodes[Min(exact)].rule_id})
     ELSE IF free # {} THEN Pairing(h, "different", {nodes[Min(free)].rule_id})
     ELSE Pairing(h, "missed", {})

\* The first free candidate of the cell with the same tests, or else the first free.
Claim(trees, done, h) ==
  LET nodes == Nodes(trees)
      free  == {i \in DOMAIN nodes : nodes[i].cell = h.cell /\ nodes[i].rule_id \notin Claimed(done)}
      exact == {i \in free : Tests(nodes[i]) = Tests(h)}
  IN IF exact # {} THEN Pairing(h, "equivalent", {nodes[Min(exact)].rule_id})
     ELSE IF free # {} THEN Pairing(h, "different", {nodes[Min(free)].rule_id})
     ELSE Pairing(h, "missed", {})

Comparison(trees, nodes) ==
  LET done[i \in 0..Len(nodes)] ==
        IF i = 0 THEN <<>> ELSE Append(done[i - 1], Claim(trees, done[i - 1], nodes[i]))
  IN done[Len(nodes)]

Inventions(trees, nodes) ==
  {node \in ToSet(Nodes(trees)) : \A i \in DOMAIN nodes : nodes[i].cell # node.cell}

\* The script goes on to this; `clauseguard extract` ends with the coverage. The
\* lockfile written by hand may hold anything, and is only read.
Measure ==
  /\ step = "measure"
  /\ hand' \in UNION {[1..n -> HandRules] : n \in 0..MaxHand}
  /\ rows' = Comparison(file, hand')
  /\ step' = "done"
  /\ UNCHANGED <<batchVars, found, file>>

ExtractionInit ==
  /\ step = "pull" /\ start = 1 /\ attempt = 1
  /\ found = <<>> /\ file = <<>> /\ hand = <<>> /\ rows = <<>>

ExtractionNext == Pull \/ Retry \/ CallFails \/ SanitiseRaises \/ WriteExtracted \/ Measure

ExtractionSpec == ExtractionInit /\ [][ExtractionNext]_extractionVars

(***************************************************************************)
(* Properties.                                                             *)
(***************************************************************************)
Written == step \in {"measure", "done"}

\* "Extraction that can't ground itself gets needs_human_review=True rather than being
\* silently accepted" (extractor.py:20): whatever the batches, retries and failures,
\* no node of the file, at any depth, quotes what is not there without saying so.
UngroundedIsFlagged == Written => Refused(file) = {}

InCell(nodes, cell) == {i \in DOMAIN nodes : nodes[i].cell = cell}
UniqueIds(nodes)    == \A i, j \in DOMAIN nodes : nodes[i].rule_id = nodes[j].rule_id => i = j

\* When ids are unique the comparison pairs as many rules of a cell as there are on the
\* shorter side, none of them twice: a miss is a shortage, never an artefact of the
\* order in which a greedy walk claims candidates; no invention is paired
\* (compare.py:180-233).
MissesAreShortages ==
  step = "done" /\ UniqueIds(Nodes(file)) =>
    /\ \A node \in Inventions(file, hand) : node.rule_id \notin Claimed(rows)
    /\ \A cell \in {h.cell : h \in ToSet(hand)} :
         LET paired == {i \in DOMAIN rows : rows[i].cell = cell /\ rows[i].status # "missed"}
         IN /\ Cardinality(paired) =
                 Min({Cardinality(InCell(hand, cell)), Cardinality(InCell(Nodes(file), cell))})
            /\ \A i, j \in paired : i # j => rows[i].extracted \cap rows[j].extracted = {}
===============================================================================
