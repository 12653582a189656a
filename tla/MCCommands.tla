------------------------------ MODULE MCCommands ------------------------------
(* What runs by itself, one at a time. The two deterministic layers of a run: *)
(* the oracle on a small rule book (a broad grant, exceptions and exceptions  *)
(* of exceptions to it, a tie, and a rule about another entitlement), and the *)
(* prefilter on clauses of up to three cues. And what an operator starts: a   *)
(* run, the generation of its probes, the figures of the gold labels, and the *)
(* stability experiment.                                                      *)
(*                                                                            *)
(* Generation has a rule book of its own: a grant with a window, an exception *)
(* to it, an exception to that, and a rule about another entitlement that     *)
(* cites the same clause.                                                     *)
EXTENDS ProbeGeneration, RunCommand, Metrics, JudgeStability, Prefilter

Test(attribute, op, value) == [attribute |-> attribute, op |-> op, value |-> value]

Entry(id, entitlement, polarity, precedence, conditions) ==
  [rule_id |-> id, entitlement |-> entitlement, polarity |-> polarity,
   precedence |-> precedence, conditions |-> conditions, clause_ids |-> <<1>>]

Fresh    == Test("days", "<=", <<"number", 1>>)
Intimate == Test("item", "in", <<"list", {"innerwear"}>>)
NotThat  == Test("item", "not_in", <<"list", {"innerwear"}>>)
Sale     == Test("item", "==", <<"text", "clearance">>)

OracleBook ==
  {Entry(1, "refund", "grants", 1, <<>>),
   Entry(2, "refund", "denies", 2, <<Intimate>>),
   Entry(3, "refund", "grants", 3, <<Fresh>>),
   Entry(4, "refund", "denies", 2, <<Fresh, Sale>>),
   Entry(5, "refund", "grants", 2, <<NotThat, Fresh>>),
   Entry(6, "waiver", "denies", 3, <<>>)}

GenerationBook ==
  {Entry(11, "refund", "grants", 1, <<Test("days", "<=", <<"number", 30>>)>>),
   Entry(12, "refund", "denies", 2, <<Intimate>>),
   Entry(13, "refund", "grants", 3, <<Test("sealed", "==", <<"text", "yes">>)>>),
   Entry(14, "waiver", "denies", 1, <<Test("channel", "==", <<"text", "partner shop">>)>>),
   Entry(15, "waiver", "grants", 1, <<Test("days", ">", <<"number", 3>>)>>)}

MCCatalogue == OracleBook \cup GenerationBook

MCFacts == {<<"number", 1>>, <<"number", 2>>, <<"text", "innerwear">>, <<"text", "clearance">>}

MCClauses == [cues : UNION {[1..n -> Cues] : n \in 0..3}, question : BOOLEAN]

MCBase ==
  [e \in {"refund", "waiver"} |->
     IF e = "refund"
     THEN [a \in {"days", "item", "sealed"} |->
             CASE a = "days" -> <<"number", 10>> [] a = "item" -> <<"text", "footwear">>
               [] a = "sealed" -> <<"text", "no">>]
     ELSE [a \in {"days", "channel"} |->
             IF a = "days" THEN <<"number", 10>> ELSE <<"text", "partner shop">>]]

MCNeighbour == [t \in {"innerwear"} |-> "athletic_underlayer"]

Answer(said, words) == [stance |-> said, text |-> words]

MCAnswers ==
  {Answer("grants", "x"), Answer("grants", "y"), Answer("denies", "x"), Answer(NoJudgment, "")}

VARIABLE command

\* No step reads the entitlement in question before one has set it.
GenIdle       == GenInit /\ scope = "refund"
RunIdle       == RunInit /\ wrong = {}
MetricsIdle   == MetricsInit
StabilityIdle == StabilityInit /\ deterministic /\ arms = <<"identical">>
PrefilterIdle == heard = <<>> /\ booked = NoCues /\ stance = "idle"

MCInit ==
  \/ command = "oracle"    /\ GenIdle /\ RunIdle /\ MetricsIdle /\ StabilityIdle /\ PrefilterIdle
  \/ command = "prefilter" /\ PrefilterInit /\ GenIdle /\ RunIdle /\ MetricsIdle /\ StabilityIdle
  \/ command = "generate"  /\ GenIdle /\ RunIdle /\ MetricsIdle /\ StabilityIdle /\ PrefilterIdle
  \/ command = "run"       /\ RunInit /\ GenIdle /\ MetricsIdle /\ StabilityIdle /\ PrefilterIdle
  \/ command = "metrics"   /\ MetricsInit /\ GenIdle /\ RunIdle /\ StabilityIdle /\ PrefilterIdle
  \/ command = "stability" /\ StabilityInit /\ GenIdle /\ RunIdle /\ MetricsIdle /\ PrefilterIdle

\* The oracle is asked about a product and a day, in its own book; a book to generate
\* from has three rules of the other.
OracleFacts == UNION {[A -> Facts] : A \in SUBSET {"days", "item"} \ {{}}}

Drawn(book) == \A i \in DOMAIN rules' : rules'[i].rule \in book

OracleNext ==
  \/ Write /\ Drawn(OracleBook)
  \/ pc = "authoring" /\ facts' \in OracleFacts /\ Evaluate
  \/ Skip \/ Apply \/ Raise \/ Conclude
  \/ Supply /\ facts' \in OracleFacts

MCNext ==
  \/ /\ command = "oracle" /\ OracleNext
     /\ UNCHANGED <<progress, runVars, gold_rows, stabilityVars, prefilterVars, command>>
  \/ /\ command = "prefilter" /\ PrefilterNext
     /\ UNCHANGED <<genVars, runVars, gold_rows, stabilityVars, command>>
  \/ /\ command = "generate" /\ GenNext /\ Drawn(GenerationBook) /\ Len(rules') <= 3
     /\ UNCHANGED <<runVars, gold_rows, stabilityVars, prefilterVars, command>>
  \/ /\ command = "run" /\ RunNext
     /\ UNCHANGED <<genVars, gold_rows, stabilityVars, prefilterVars, command>>
  \/ /\ command = "metrics" /\ MetricsNext
     /\ UNCHANGED <<genVars, runVars, stabilityVars, prefilterVars, command>>
  \/ /\ command = "stability" /\ StabilityNext
     /\ UNCHANGED <<genVars, runVars, gold_rows, prefilterVars, command>>
===============================================================================
