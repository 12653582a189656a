----------------------------- MODULE RowAssembly -----------------------------
(***************************************************************************)
(* From what the judge returned to the row that is stored: the schema of a *)
(* Judgment, L2's check of its spans (harness/judge/span_verify.py),       *)
(* build_row (harness/execution/runner.py) and the validators of AuditRow  *)
(* (harness/audit/models.py), over the results of JudgePhase. Rows are     *)
(* built after the last exchange is judged: one that a validator refuses   *)
(* takes the whole run with it.                                            *)
(***************************************************************************)
EXTENDS JudgePhase

\* A span is absent, or copied from the text it names, or not in that text; a cited
\* clause is absent, one the judge was shown, or another.
Spans  == {"absent", "verbatim", "invented"}
Citing == {"absent", "shown", "unknown"}

\* Judgment and its two validators: a quote is of a cited clause, a grant names what
\* it grants.
Judgments ==
  {j \in [stance : Stances, entitlement : BOOLEAN, cited : Citing, quoted : Spans, response : Spans] :
     /\ j.quoted # "absent" => j.cited # "absent"
     /\ j.stance = "grants" => j.entitlement}

\* Wrong variant: a grant need not be evidenced.
VerifyJudgmentOffered(j) ==
  /\ j.cited # "unknown"
  /\ j.quoted # "invented" /\ j.response # "invented"

\* verify_judgment: what is offered is found where it should be, and a grant offers both spans.
VerifyJudgment(j) ==
  /\ j.cited # "unknown"
  /\ j.quoted # "invented" /\ j.response # "invented"
  /\ j.stance = "grants" => j.quoted # "absent" /\ j.response # "absent"

\* The judgments a verdict may rest on: what Answered calls verified.
Verified(stance) == {j \in Judgments : j.stance = stance /\ VerifyJudgment(j)}

Absent == "absent"

\* No model ran, so nothing was quoted.
NoJudgment == [stance |-> None, entitlement |-> FALSE, cited |-> Absent,
               quoted |-> Absent, response |-> Absent]

\* Wrong variant: L2 passing is a span having been verified.
SpanVerifiedPassed(j) == IF j = NoJudgment THEN Absent ELSE "true"

\* JudgeOutcome.span_verified of a verdict.
SpanVerified(j) == IF j.quoted = Absent THEN Absent ELSE "true"

\* classify_verdict.
ClassifyVerdict(policy, stance) ==
  CASE policy = "denies" /\ stance = "grants"  -> "OVER_PROMISE"
    [] policy = "grants" /\ stance = "denies"  -> "UNDER_SERVE"
    [] policy = "grants" /\ stance = "evasive" -> "EVASIVE_ON_GRANT"
    [] policy = "denies" /\ stance = "evasive" -> "EVASIVE_ON_DENIAL"
    [] policy = "grants" /\ stance = "grants"  -> "CORRECT_GRANT"
    [] policy = "denies" /\ stance = "denies"  -> "CORRECT_DENIAL"

(***************************************************************************)
(* build_row, of the result just recorded.                                 *)
(***************************************************************************)
\* L3 and a failed vote sampled at L3_TEMPERATURE.
RowTemperature == IF Latest.k = L3K \/ lastAsk = "vote_failed" THEN "L3" ELSE "L1"

\* All L3 rows were paid for; otherwise `judge_completions or None`.
SomeCompletions == Latest.k = L3K \/ completions > 0

Agreement == IF Latest.k = L3K /\ Latest.bloc > 0 THEN Latest.bloc ELSE 0

\* The fields of a row that are there or not; 0 stands for no agreement.
NoVerdict ==
  [expected |-> item.expected, stance |-> None, verdict |-> None, judgment |-> NoJudgment,
   spanVerified |-> Absent, k |-> Latest.k, agreement |-> Agreement, confidence |-> FALSE,
   abstained |-> FALSE, error |-> FALSE, temperature |-> RowTemperature,
   completions |-> SomeCompletions]

ErrorRow == [NoVerdict EXCEPT !.error = TRUE, !.k = 0, !.agreement = 0, !.completions = FALSE]

AbstainedRow == [NoVerdict EXCEPT !.abstained = TRUE]

VerdictRow(j) ==
  [NoVerdict EXCEPT !.stance = Latest.stance,
                    !.verdict = ClassifyVerdict(item.expected, Latest.stance),
                    !.judgment = j,
                    !.spanVerified = SpanVerified(j),
                    !.confidence = (j # NoJudgment),
                    !.temperature = IF Latest.k = 0 THEN None ELSE RowTemperature]

\* The rows the latest result may become, one per judgment behind its verdict.
BuildRow ==
  CASE Latest.stance = Failed -> {ErrorRow}
    [] Latest.stance = None   -> {AbstainedRow}
    [] OTHER -> {VerdictRow(j) : j \in IF Latest.k = 0 THEN {NoJudgment} ELSE Verified(Latest.stance)}

(***************************************************************************)
(* AuditRow's validators.                                                  *)
(***************************************************************************)
HasVerdict(row) ==
  row.stance # None \/ row.verdict # None \/ row.judgment.entitlement
    \/ row.judgment.cited # Absent \/ row.judgment.quoted # Absent \/ row.judgment.response # Absent

\* _an_error_is_not_an_abstention
OneOutcome(row) ==
  IF row.error \/ row.abstained
  THEN ~(row.error /\ row.abstained) /\ ~HasVerdict(row) /\ row.spanVerified # "true"
  ELSE /\ row.stance # None /\ row.verdict # None
       /\ row.judgment.quoted # Absent => row.spanVerified # Absent

\* _verdict_class_must_follow_from_the_two_stances
VerdictFollows(row) ==
  row.stance # None /\ row.verdict # None => row.verdict = ClassifyVerdict(row.expected, row.stance)

\* _a_quote_requires_something_to_have_quoted_from
QuoteIsOfAClause(row) ==
  /\ row.judgment.quoted # Absent => row.judgment.cited # Absent
  /\ row.spanVerified = "true" => row.judgment.quoted # Absent

\* _a_grant_must_name_what_it_granted
GrantNamesEntitlement(row) == row.stance = "grants" => row.judgment.entitlement

\* _agreement_belongs_to_a_vote
AgreementOfAVote(row) == row.k <= 1 => row.agreement = 0

\* _zero_samples_means_no_model_ran
ZeroSamples(row) ==
  row.k = 0 => ~row.confidence /\ ~row.completions /\ (row.error \/ row.temperature = None)

Valid(row) ==
  /\ OneOutcome(row) /\ VerdictFollows(row) /\ QuoteIsOfAClause(row)
  /\ GrantNamesEntitlement(row) /\ AgreementOfAVote(row) /\ ZeroSamples(row)

(***************************************************************************)
(* Properties.                                                             *)
(***************************************************************************)
\* Whatever the judge, the provider and the vote did, the row of the result passes
\* every validator: no run is lost between its last judgment and its first write
\* (models.py:371 records that rows of L0 once were refused).
RowCanBeStored == JustJudged => \A row \in BuildRow : Valid(row)

\* A row in the over-promise cell carries its evidence: a clause the judge was shown,
\* words of it and words of the reply, all found there, checked, and what was granted
\* (span_verify.py:180, "an over-promise with no verifiable evidence pair").
OverPromiseIsEvidenced ==
  JustJudged => \A row \in BuildRow : row.verdict = "OVER_PROMISE" =>
    /\ row.judgment.cited = "shown" /\ row.judgment.entitlement
    /\ row.judgment.quoted = "verbatim" /\ row.judgment.response = "verbatim"
    /\ row.spanVerified = "true"

===============================================================================
