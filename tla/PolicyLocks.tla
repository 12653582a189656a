----------------------------- MODULE PolicyLocks -----------------------------
(***************************************************************************)
(* The three files an audit rests on and what ties them together           *)
(* (harness/execution/lockfiles.py, harness/execution/grounding.py): the   *)
(* policy, the rules written for it, the probes labelled by the rules.     *)
(* Authors, labellers and runs read the files one after the other and      *)
(* write them whole; people edit the policy and the rules by hand.         *)
(*                                                                         *)
(* A clause text is its words, which hashing keeps, and its marks, the     *)
(* punctuation that hashing drops and a quotation keeps. A rule has one    *)
(* cited clause and one condition: several are several rules.              *)
(***************************************************************************)
EXTENDS Integers, FiniteSets

CONSTANTS
  Jobs,          \* processes
  Words, Marks,  \* what clause texts are made of
  NumClauses,    \* clauses of the policy
  Facts,         \* the fact vectors probes are written for
  Drafts,        \* rules as an author thinks of them: [ordinal, span, flagged, grants]
  MaxEdits       \* bound on the edits by hand

Ordinals == 1..NumClauses
Plain    == "plain"                  \* a span without punctuation
Texts    == [words : Words, marks : Marks]
Spans    == [words : Words, marks : Marks \cup {Plain}]
Policies == [Ordinals -> Texts]
Clauses  == Ordinals \X Words        \* clause ids: ordinal and hash
Versions == [Ordinals -> Words]
Rules    == [clause : Clauses, span : Spans, needs_human_review : BOOLEAN, grants : SUBSET Facts]

ASSUME DraftsAssumption ==
  Drafts \subseteq [ordinal : Ordinals, span : Spans, flagged : BOOLEAN, grants : SUBSET Facts]
ASSUME MaxEditsAssumption == MaxEdits \in Nat

VARIABLES
  policy,    \* the policy document on disk
  rules,     \* rules.lock.json
  probes,    \* the probe set on disk
  job,       \* what each process does and has read
  edits      \* edits by hand so far

vars == <<policy, rules, probes, job, edits>>

(***************************************************************************)
(* What the files say.                                                     *)
(***************************************************************************)
\* policy_version: the ordered hashes, whatever the punctuation.
Version(text) == [i \in Ordinals |-> text[i].words]

\* contains_verbatim.
Contains(text, span) ==
  span.words = text.words /\ (span.marks = text.marks \/ span.marks = Plain)

ClausesOf(text) == {<<i, text[i].words>> : i \in Ordinals}

\* check_spans_grounded, of one condition: a clause the policy does not have grounds nothing.
Grounded(rule, text) ==
  rule.clause \in ClausesOf(text) /\ Contains(text[rule.clause[1]], rule.span)

AllGrounded(set, text) == \A rule \in set : rule.needs_human_review \/ Grounded(rule, text)

\* What evaluate_rules says of a fact vector.
Stance(set, fact) == IF \E rule \in set : fact \in rule.grants THEN "grants" ELSE "denies"

\* rules_digest: it tells any two rule sets apart.
Digest(set) == set

(***************************************************************************)
(* The writers.                                                            *)
(***************************************************************************)
Idle     == [kind |-> "idle"]
NoFile   == [present |-> FALSE]

Holds(j, kind, step) == job[j].kind = kind /\ job[j].step = step

\* What an author makes of the drafts, for the document it has read.
RuleOf(draft, text) ==
  [clause |-> <<draft.ordinal, text[draft.ordinal].words>>, span |-> draft.span,
   needs_human_review |-> draft.flagged, grants |-> draft.grants]

\* author_rules, author_probes and `generate` all read the policy first.
IngestPolicy(j) ==
  /\ job[j] = Idle
  /\ \E kind \in {"author", "labeller", "generator"} :
       job' = [job EXCEPT ![j] = [kind |-> kind, step |-> "read", policy |-> policy]]
  /\ UNCHANGED <<policy, rules, probes, edits>>

RulesFile(text, set) == [present |-> TRUE, version |-> Version(text), rules |-> set]

\* author_rules refuses a span its clause does not contain, flagged or not; then
\* write_rules asserts the same of those not flagged.
WriteRules(j) ==
  /\ Holds(j, "author", "read")
  /\ \E set \in SUBSET Drafts \ {{}} :
       LET text    == job[j].policy
           written == {RuleOf(draft, text) : draft \in set}
       IN /\ \A draft \in set : Contains(text[draft.ordinal], draft.span)
          /\ AllGrounded(written, text)
          /\ rules' = RulesFile(text, written)
  /\ job' = [job EXCEPT ![j] = Idle]
  /\ UNCHANGED <<policy, probes, edits>>

\* author_probes loads rules of the version it has read; `generate` takes any.
LoadRules(j) ==
  /\ job[j].kind \in {"labeller", "generator"} /\ job[j].step = "read"
  /\ rules.present
  /\ job[j].kind = "labeller" => rules.version = Version(job[j].policy)
  /\ job' = [job EXCEPT ![j] = [kind |-> job[j].kind, step |-> "loaded",
                                policy |-> job[j].policy, rules |-> rules.rules]]
  /\ UNCHANGED <<policy, rules, probes, edits>>

\* Wrong variant: the digest stamped is that of the rules as they are by now.
ProbesFileOfNow(text, set, clauses) ==
  [present |-> TRUE, version |-> Version(text), rules_digest |-> Digest(rules.rules),
   stance |-> [fact \in Facts |-> Stance(set, fact)], clauses |-> clauses, text |-> text]

\* Wrong variant: the version stamped is that of the document as it is by now.
ProbesFileStampedNow(text, set, clauses) ==
  [present |-> TRUE, version |-> Version(policy), rules_digest |-> Digest(set),
   stance |-> [fact \in Facts |-> Stance(set, fact)], clauses |-> clauses, text |-> text]

\* write_probes and the payload of cmd_generate. The last field is no field of the
\* file: it is the document the writer had before it.
ProbesFile(text, set, clauses) ==
  [present |-> TRUE, version |-> Version(text), rules_digest |-> Digest(set),
   stance |-> [fact \in Facts |-> Stance(set, fact)], clauses |-> clauses, text |-> text]

\* A probe by hand offers the judge clauses of the document, a generated one those of its rule.
WriteProbes(j) ==
  /\ job[j].kind \in {"labeller", "generator"} /\ job[j].step = "loaded"
  /\ \E clauses \in SUBSET (IF job[j].kind = "labeller" THEN ClausesOf(job[j].policy)
                            ELSE {rule.clause : rule \in job[j].rules}) \ {{}} :
       probes' = ProbesFile(job[j].policy, job[j].rules, clauses)
  /\ job' = [job EXCEPT ![j] = Idle]
  /\ UNCHANGED <<policy, rules, edits>>

\* A refusal, or a failure: nothing is written.
GiveUp(j) ==
  /\ job[j] # Idle
  /\ job' = [job EXCEPT ![j] = Idle]
  /\ UNCHANGED <<policy, rules, probes, edits>>

EditPolicy ==
  /\ edits < MaxEdits
  /\ \E i \in Ordinals, text \in Texts :
       policy[i] # text /\ policy' = [policy EXCEPT ![i] = text]
  /\ edits' = edits + 1
  /\ UNCHANGED <<rules, probes, job>>

\* Somebody opens rules.lock.json: one rule is rewritten, and the file may be stamped
\* with the version the policy has now.
EditRules ==
  /\ edits < MaxEdits
  /\ rules.present
  /\ \E rule \in rules.rules, draft \in Drafts, version \in {rules.version, Version(policy)} :
       rules' = [rules EXCEPT
         !.version = version,
         !.rules = (rules.rules \ {rule}) \cup
           {[rule EXCEPT !.span = draft.span, !.needs_human_review = draft.flagged,
                         !.grants = draft.grants]}]
  /\ edits' = edits + 1
  /\ UNCHANGED <<policy, probes, job>>

(***************************************************************************)
(* A run: cmd_run, up to phase 1.                                          *)
(***************************************************************************)
RunLoadProbes(j) ==
  /\ job[j] = Idle
  /\ probes.present
  /\ job' = [job EXCEPT ![j] = [kind |-> "run", step |-> "probes", probes |-> probes]]
  /\ UNCHANGED <<policy, rules, probes, edits>>

RunLoadRules(j) ==
  /\ Holds(j, "run", "probes")
  /\ rules.present
  /\ job' = [job EXCEPT ![j] = [kind |-> "run", step |-> "rules", probes |-> job[j].probes,
                                rules |-> rules]]
  /\ UNCHANGED <<policy, rules, probes, edits>>

\* resolve_policy re-reads the document, whatever the manifest says of it.
RunReadPolicy(j) ==
  /\ Holds(j, "run", "rules")
  /\ job' = [job EXCEPT ![j] = [kind |-> "run", step |-> "policy", probes |-> job[j].probes,
                                rules |-> job[j].rules, policy |-> policy]]
  /\ UNCHANGED <<policy, rules, probes, edits>>

\* assert_matches_policy of both files and assert_matches_rules.
Fresh(given) ==
  /\ given.probes.version = Version(given.policy)
  /\ given.rules.version = Version(given.policy)
  /\ given.probes.rules_digest = Digest(given.rules.rules)

\* The checks of cmd_run and of execute_run.
Accepted(given) ==
  /\ Fresh(given)
  /\ AllGrounded(given.rules.rules, given.policy)
  /\ given.probes.clauses \subseteq ClausesOf(given.policy)

RunStart(j) ==
  /\ Holds(j, "run", "policy")
  /\ Accepted(job[j])
  /\ job' = [job EXCEPT ![j].step = "started"]
  /\ UNCHANGED <<policy, rules, probes, edits>>

Init ==
  /\ policy \in Policies
  /\ rules = NoFile /\ probes = NoFile
  /\ job = [j \in Jobs |-> Idle]
  /\ edits = 0

Next ==
  \/ EditPolicy \/ EditRules
  \/ \E j \in Jobs :
       \/ IngestPolicy(j) \/ WriteRules(j) \/ LoadRules(j) \/ WriteProbes(j) \/ GiveUp(j)
       \/ RunLoadProbes(j) \/ RunLoadRules(j) \/ RunReadPolicy(j) \/ RunStart(j)

Spec == Init /\ [][Next]_vars

(***************************************************************************)
(* Properties.                                                             *)
(***************************************************************************)
RulesFiles == [present : {TRUE}, version : Versions, rules : SUBSET Rules]

ProbesFiles ==
  [present : {TRUE}, version : Versions, rules_digest : SUBSET Rules,
   stance : [Facts -> {"grants", "denies"}], clauses : SUBSET Clauses, text : Policies]

JobStates ==
  {Idle}
    \cup [kind : {"author", "labeller", "generator"}, step : {"read"}, policy : Policies]
    \cup [kind : {"labeller", "generator"}, step : {"loaded"}, policy : Policies, rules : SUBSET Rules]
    \cup [kind : {"run"}, step : {"probes"}, probes : ProbesFiles]
    \cup [kind : {"run"}, step : {"rules"}, probes : ProbesFiles, rules : RulesFiles]
    \cup [kind : {"run"}, step : {"policy", "started"}, probes : ProbesFiles, rules : RulesFiles,
          policy : Policies]

\* Every variable has its type.
TypeOK ==
  /\ policy \in Policies
  /\ rules \in {NoFile} \cup RulesFiles
  /\ probes \in {NoFile} \cup ProbesFiles
  /\ job \in [Jobs -> JobStates]
  /\ edits \in 0..MaxEdits

Started == {j \in Jobs : Holds(j, "run", "started")}

\* What a run holds the agent to is what the rules it has loaded say: however the files
\* were rewritten between the labelling and the run's three reads, a label is the verdict
\* of those rules (lockfiles.py:182-185).
LabelsAreOfTheRules ==
  \A j \in Started, fact \in Facts :
    job[j].probes.stance[fact] = Stance(job[j].rules.rules, fact)

\* Behind every "grants" a run holds the agent to there is a rule: the rule its labeller
\* applied, of a clause of the document the labeller had before it, quoting the document
\* the run has loaded, unless a reviewer has yet to see it. And the clauses shown to the
\* judge are of the document the labeller had. Neither an edit of punctuation, which no
\* version shows, nor an edit of the rules by hand, nor a `generate` that crosses an edit
\* with the rules of another version gets round it (grounding.py, task #47; cli.py:869).
GrantsAreBacked ==
  \A j \in Started :
    /\ \A fact \in Facts : job[j].probes.stance[fact] = "grants" =>
         \E rule \in job[j].rules.rules :
           /\ fact \in rule.grants
           /\ rule.needs_human_review \/ \E i \in Ordinals :
                /\ rule.clause = <<i, job[j].probes.text[i].words>>
                /\ Contains(job[j].policy[i], rule.span)
    /\ job[j].probes.clauses \subseteq ClausesOf(job[j].probes.text)

\* The document behind the probes says, word for word, what the run's document says.
ProbesAreOfTheText ==
  \A j \in Started : \A i \in Ordinals :
    job[j].probes.text[i].words = job[j].policy[i].words
===============================================================================
