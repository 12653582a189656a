--------------------------- MODULE PolicyLocksProofs ---------------------------
(***************************************************************************)
(* What a started run may rely on, for every document, rule set, probe set *)
(* and number of processes.                                                *)
(***************************************************************************)
EXTENDS PolicyLocks, TLAPS

(***************************************************************************)
(* Types.                                                                  *)
(***************************************************************************)
\* A document's version is a version.
LEMMA VersionType == ASSUME NEW text \in Policies PROVE Version(text) \in Versions
  BY DEF Policies, Texts, Versions, Version

\* The clause ids of a document are clause ids.
LEMMA ClausesOfType == ASSUME NEW text \in Policies PROVE ClausesOf(text) \subseteq Clauses
  BY DEF Policies, Texts, Clauses, ClausesOf

\* An author's rules are rules.
LEMMA RuleOfType ==
  ASSUME NEW text \in Policies, NEW draft \in Drafts
  PROVE  RuleOf(draft, text) \in Rules
  BY DraftsAssumption DEF Policies, Texts, Clauses, Rules, RuleOf

\* What write_probes writes is a probe set.
LEMMA ProbesFileType ==
  ASSUME NEW text \in Policies, NEW set \in SUBSET Rules, NEW clauses \in SUBSET Clauses
  PROVE  ProbesFile(text, set, clauses) \in ProbesFiles
  BY VersionType DEF ProbesFile, ProbesFiles, Stance, Digest

\* What a process has read has its type, at the steps at which it has it.
LEMMA JobFields ==
  ASSUME NEW s \in JobStates
  PROVE  /\ s.kind \in {"author", "labeller", "generator"} => s.policy \in Policies
         /\ s.kind \in {"labeller", "generator"} /\ s.step = "loaded" => s.rules \in SUBSET Rules
         /\ s.kind = "run" => s.probes \in ProbesFiles
         /\ s.kind = "run" /\ s.step \in {"rules", "policy", "started"} => s.rules \in RulesFiles
         /\ s.kind = "run" /\ s.step \in {"policy", "started"} => s.policy \in Policies
  BY DEF JobStates, Idle

\* The files are absent and every process idle at first.
LEMMA TypeInit == Init => TypeOK
<1> SUFFICES ASSUME Init PROVE TypeOK
  OBVIOUS
<1>1. Idle \in JobStates
  BY DEF JobStates
<1>2. edits \in 0..MaxEdits
  BY MaxEditsAssumption DEF Init
<1> QED BY <1>1, <1>2 DEF Init, TypeOK

\* Each step keeps the types.
LEMMA TypeNext == TypeOK /\ [Next]_vars => TypeOK'
<1> SUFFICES ASSUME TypeOK, [Next]_vars PROVE TypeOK'
  OBVIOUS
<1> USE DEF TypeOK
<1>1. CASE EditPolicy
  <2>1. policy' \in Policies
    BY <1>1 DEF EditPolicy, Policies
  <2>2. edits' \in 0..MaxEdits
    BY <1>1, MaxEditsAssumption DEF EditPolicy
  <2> QED BY <1>1, <2>1, <2>2 DEF EditPolicy
<1>2. CASE EditRules
  <2>1. edits' \in 0..MaxEdits
    BY <1>2, MaxEditsAssumption DEF EditRules
  <2>2. PICK rule \in rules.rules, draft \in Drafts, version \in {rules.version, Version(policy)} :
          rules' = [rules EXCEPT
            !.version = version,
            !.rules = (rules.rules \ {rule}) \cup
              {[rule EXCEPT !.span = draft.span, !.needs_human_review = draft.flagged,
                            !.grants = draft.grants]}]
    BY <1>2 DEF EditRules
  <2>3. rules \in RulesFiles
    BY <1>2 DEF EditRules, NoFile
  <2>4. version \in Versions
    BY <2>3, VersionType DEF RulesFiles
  <2>5. [rule EXCEPT !.span = draft.span, !.needs_human_review = draft.flagged,
                     !.grants = draft.grants] \in Rules
    BY <2>3, DraftsAssumption DEF RulesFiles, Rules
  <2>6. rules' \in RulesFiles
    BY <2>2, <2>3, <2>4, <2>5 DEF RulesFiles
  <2> QED BY <1>2, <2>1, <2>6 DEF EditRules
<1>3. ASSUME NEW j \in Jobs, IngestPolicy(j) PROVE TypeOK'
  BY <1>3 DEF IngestPolicy, JobStates
<1>4. ASSUME NEW j \in Jobs, WriteRules(j) PROVE TypeOK'
  <2>1. job[j].policy \in Policies
    BY <1>4, JobFields DEF WriteRules, Holds
  <2>2. PICK set \in SUBSET Drafts :
          rules' = RulesFile(job[j].policy, {RuleOf(draft, job[j].policy) : draft \in set})
    BY <1>4 DEF WriteRules
  <2>3. {RuleOf(draft, job[j].policy) : draft \in set} \in SUBSET Rules
    BY <2>1, RuleOfType
  <2>4. rules' \in RulesFiles
    BY <2>1, <2>2, <2>3, VersionType DEF RulesFile, RulesFiles
  <2>5. job' \in [Jobs -> JobStates]
    BY <1>4 DEF WriteRules, JobStates
  <2> QED BY <1>4, <2>4, <2>5 DEF WriteRules
<1>5. ASSUME NEW j \in Jobs, LoadRules(j) PROVE TypeOK'
  <2>1. job[j].policy \in Policies
    BY <1>5, JobFields DEF LoadRules
  <2>2. rules.rules \in SUBSET Rules
    <3>1. rules \in RulesFiles
      BY <1>5 DEF LoadRules, NoFile
    <3> QED BY <3>1 DEF RulesFiles
  <2>3. [kind |-> job[j].kind, step |-> "loaded", policy |-> job[j].policy,
         rules |-> rules.rules] \in JobStates
    BY <1>5, <2>1, <2>2 DEF LoadRules, JobStates
  <2> QED BY <1>5, <2>3 DEF LoadRules
<1>6. ASSUME NEW j \in Jobs, WriteProbes(j) PROVE TypeOK'
  <2>1. job[j].policy \in Policies /\ job[j].rules \in SUBSET Rules
    BY <1>6, JobFields DEF WriteProbes
  <2>2. PICK clauses \in SUBSET (IF job[j].kind = "labeller" THEN ClausesOf(job[j].policy)
                                 ELSE {rule.clause : rule \in job[j].rules}) :
          probes' = ProbesFile(job[j].policy, job[j].rules, clauses)
    BY <1>6 DEF WriteProbes
  <2>3. {rule.clause : rule \in job[j].rules} \subseteq Clauses
    BY <2>1 DEF Rules
  <2>4. clauses \in SUBSET Clauses
    BY <2>1, <2>3, ClausesOfType
  <2>5. probes' \in ProbesFiles
    BY <2>1, <2>2, <2>4, ProbesFileType
  <2>6. job' \in [Jobs -> JobStates]
    BY <1>6 DEF WriteProbes, JobStates
  <2> QED BY <1>6, <2>5, <2>6 DEF WriteProbes
<1>7. ASSUME NEW j \in Jobs, GiveUp(j) PROVE TypeOK'
  BY <1>7 DEF GiveUp, JobStates
<1>8. ASSUME NEW j \in Jobs, RunLoadProbes(j) PROVE TypeOK'
  <2>1. probes \in ProbesFiles
    BY <1>8 DEF RunLoadProbes, NoFile
  <2>2. [kind |-> "run", step |-> "probes", probes |-> probes] \in JobStates
    BY <2>1 DEF JobStates
  <2> QED BY <1>8, <2>2 DEF RunLoadProbes
<1>9. ASSUME NEW j \in Jobs, RunLoadRules(j) PROVE TypeOK'
  <2>1. rules \in RulesFiles /\ job[j].probes \in ProbesFiles
    BY <1>9, JobFields DEF RunLoadRules, Holds, NoFile
  <2>2. [kind |-> "run", step |-> "rules", probes |-> job[j].probes, rules |-> rules] \in JobStates
    BY <2>1 DEF JobStates
  <2> QED BY <1>9, <2>2 DEF RunLoadRules
<1>10. ASSUME NEW j \in Jobs, RunReadPolicy(j) PROVE TypeOK'
  <2>1. job[j].rules \in RulesFiles /\ job[j].probes \in ProbesFiles
    BY <1>10, JobFields DEF RunReadPolicy, Holds
  <2>2. [kind |-> "run", step |-> "policy", probes |-> job[j].probes, rules |-> job[j].rules,
         policy |-> policy] \in JobStates
    BY <2>1 DEF JobStates
  <2> QED BY <1>10, <2>2 DEF RunReadPolicy
<1>11. ASSUME NEW j \in Jobs, RunStart(j) PROVE TypeOK'
  <2>1. job[j] \in [kind : {"run"}, step : {"policy", "started"}, probes : ProbesFiles,
                    rules : RulesFiles, policy : Policies]
    BY <1>11 DEF RunStart, Holds, JobStates, Idle
  <2>2. [job[j] EXCEPT !.step = "started"] \in JobStates
    BY <2>1 DEF JobStates
  <2>3. job' \in [Jobs -> JobStates]
    BY <1>11, <2>2 DEF RunStart
  <2> QED BY <1>11, <2>3 DEF RunStart
<1>12. CASE UNCHANGED vars
  BY <1>12 DEF vars
<1> QED
  BY <1>1, <1>2, <1>3, <1>4, <1>5, <1>6, <1>7, <1>8, <1>9, <1>10, <1>11, <1>12 DEF Next

\* Every variable always has its type.
THEOREM TypeCorrect == Spec => []TypeOK
  BY TypeInit, TypeNext, PTL DEF Spec

(***************************************************************************)
(* Runs.                                                                   *)
(***************************************************************************)
\* A probe set is stamped for the document and the rules its writer had before it.
Honest(file) ==
  /\ file.version = Version(file.text)
  /\ \A fact \in Facts : file.stance[fact] = Stance(file.rules_digest, fact)

HonestFiles ==
  /\ probes.present => Honest(probes)
  /\ \A j \in Jobs : job[j].kind = "run" => Honest(job[j].probes)

\* A started run has passed the checks on what it still holds: no process hands it
\* anything after its three reads.
StartedAreAccepted == \A j \in Started : Accepted(job[j])

\* The checks alone prove nothing: they compare stamps, and a stamp has to be known to
\* be that of the labels and the document beside it.
RunInv == TypeOK /\ HonestFiles /\ StartedAreAccepted

\* A labeller stamps what it has read.
LEMMA WrittenHonest ==
  ASSUME NEW text, NEW set, NEW clauses
  PROVE  ProbesFile(text, set, clauses).present /\ Honest(ProbesFile(text, set, clauses))
  BY DEF ProbesFile, Honest, Digest

\* A step of j leaves every other process as it was.
LEMMA Untouched ==
  ASSUME NEW j \in Jobs, NEW s, TypeOK, job' = [job EXCEPT ![j] = s]
  PROVE  job'[j] = s /\ \A k \in Jobs \ {j} : job'[k] = job[k]
  BY DEF TypeOK

\* No file and no process is there at first.
LEMMA RunInvInit == Init => RunInv
<1> SUFFICES ASSUME Init PROVE RunInv
  OBVIOUS
<1>1. HonestFiles
  BY DEF Init, HonestFiles, NoFile, Idle
<1>2. StartedAreAccepted
  BY DEF Init, StartedAreAccepted, Started, Holds, Idle
<1> QED BY <1>1, <1>2, TypeInit DEF RunInv

\* The steps of a process that is not a run, and afterwards is not one either.
LEMMA NoRunStep ==
  ASSUME RunInv, NEW j \in Jobs, NEW s, s.kind # "run",
         job' = [job EXCEPT ![j] = s],
         probes' = probes \/ (probes'.present /\ Honest(probes'))
  PROVE  HonestFiles' /\ StartedAreAccepted'
<1> USE DEF RunInv
<1>1. job'[j] = s /\ \A k \in Jobs \ {j} : job'[k] = job[k]
  BY Untouched
<1>2. HonestFiles'
  BY <1>1 DEF HonestFiles, Honest, Version, Stance
<1>3. StartedAreAccepted'
  BY <1>1 DEF StartedAreAccepted, Started, Holds, Accepted, Fresh, AllGrounded, Grounded,
     ClausesOf, Version, Digest, Contains
<1> QED BY <1>2, <1>3

\* The steps of a run up to its checks: the probes it holds are honest.
LEMMA ReadingStep ==
  ASSUME RunInv, NEW j \in Jobs, NEW s, s.kind = "run", s.step # "started", Honest(s.probes),
         job' = [job EXCEPT ![j] = s], probes' = probes
  PROVE  HonestFiles' /\ StartedAreAccepted'
<1> USE DEF RunInv
<1>1. job'[j] = s /\ \A k \in Jobs \ {j} : job'[k] = job[k]
  BY Untouched
<1>2. HonestFiles'
  BY <1>1 DEF HonestFiles, Honest, Version, Stance
<1>3. StartedAreAccepted'
  BY <1>1 DEF StartedAreAccepted, Started, Holds, Accepted, Fresh, AllGrounded, Grounded,
     ClausesOf, Version, Digest, Contains
<1> QED BY <1>2, <1>3

\* Each step keeps the invariant.
LEMMA RunInvNext == RunInv /\ [Next]_vars => RunInv'
<1> SUFFICES ASSUME RunInv, [Next]_vars PROVE HonestFiles' /\ StartedAreAccepted'
  BY TypeNext DEF RunInv
<1>1. CASE EditPolicy \/ EditRules \/ UNCHANGED vars
  BY <1>1 DEF RunInv, EditPolicy, EditRules, vars, HonestFiles, StartedAreAccepted, Started, Holds
<1>2. ASSUME NEW j \in Jobs, IngestPolicy(j) PROVE HonestFiles' /\ StartedAreAccepted'
  <2>1. PICK kind \in {"author", "labeller", "generator"} :
          job' = [job EXCEPT ![j] = [kind |-> kind, step |-> "read", policy |-> policy]]
    BY <1>2 DEF IngestPolicy
  <2> QED BY <1>2, <2>1, NoRunStep DEF IngestPolicy
<1>3. ASSUME NEW j \in Jobs, WriteRules(j) \/ GiveUp(j) PROVE HonestFiles' /\ StartedAreAccepted'
  BY <1>3, NoRunStep DEF WriteRules, GiveUp, Idle
<1>4. ASSUME NEW j \in Jobs, LoadRules(j) PROVE HonestFiles' /\ StartedAreAccepted'
  BY <1>4, NoRunStep DEF LoadRules
<1>5. ASSUME NEW j \in Jobs, WriteProbes(j) PROVE HonestFiles' /\ StartedAreAccepted'
  <2>1. probes'.present /\ Honest(probes')
    BY <1>5, WrittenHonest DEF WriteProbes
  <2> QED BY <1>5, <2>1, NoRunStep DEF WriteProbes, Idle
<1>6. ASSUME NEW j \in Jobs, RunLoadProbes(j) PROVE HonestFiles' /\ StartedAreAccepted'
  <2>1. Honest(probes)
    BY <1>6 DEF RunInv, HonestFiles, RunLoadProbes
  <2> DEFINE s == [kind |-> "run", step |-> "probes", probes |-> probes]
  <2>2. s.kind = "run" /\ s.step # "started" /\ Honest(s.probes)
    BY <2>1
  <2>3. job' = [job EXCEPT ![j] = s] /\ probes' = probes
    BY <1>6 DEF RunLoadProbes
  <2> HIDE DEF s
  <2> QED BY <2>2, <2>3, ReadingStep
<1>7. ASSUME NEW j \in Jobs, RunLoadRules(j) PROVE HonestFiles' /\ StartedAreAccepted'
  <2>1. Honest(job[j].probes)
    BY <1>7 DEF RunInv, HonestFiles, RunLoadRules, Holds
  <2> DEFINE s == [kind |-> "run", step |-> "rules", probes |-> job[j].probes,
                  rules |-> rules]
  <2>2. s.kind = "run" /\ s.step # "started" /\ Honest(s.probes)
    BY <2>1
  <2>3. job' = [job EXCEPT ![j] = s] /\ probes' = probes
    BY <1>7 DEF RunLoadRules
  <2> HIDE DEF s
  <2> QED BY <2>2, <2>3, ReadingStep
<1>8. ASSUME NEW j \in Jobs, RunReadPolicy(j) PROVE HonestFiles' /\ StartedAreAccepted'
  <2>1. Honest(job[j].probes)
    BY <1>8 DEF RunInv, HonestFiles, RunReadPolicy, Holds
  <2> DEFINE s == [kind |-> "run", step |-> "policy", probes |-> job[j].probes,
                  rules |-> job[j].rules, policy |-> policy]
  <2>2. s.kind = "run" /\ s.step # "started" /\ Honest(s.probes)
    BY <2>1
  <2>3. job' = [job EXCEPT ![j] = s] /\ probes' = probes
    BY <1>8 DEF RunReadPolicy
  <2> HIDE DEF s
  <2> QED BY <2>2, <2>3, ReadingStep
<1>9. ASSUME NEW j \in Jobs, RunStart(j) PROVE HonestFiles' /\ StartedAreAccepted'
  <2>1. job[j] \in [kind : {"run"}, step : {"policy", "started"}, probes : ProbesFiles,
                    rules : RulesFiles, policy : Policies]
    BY <1>9 DEF RunInv, TypeOK, RunStart, Holds, JobStates, Idle
  <2> DEFINE s == [job[j] EXCEPT !.step = "started"]
  <2>2. s.kind = "run" /\ s.probes = job[j].probes /\ s.rules = job[j].rules /\ s.policy = job[j].policy
    BY <2>1
  <2>3. job' = [job EXCEPT ![j] = s]
    BY <1>9 DEF RunStart
  <2>4. job'[j] = s /\ \A k \in Jobs \ {j} : job'[k] = job[k]
    BY <2>3, Untouched DEF RunInv
  <2>5. Honest(s.probes)
    BY <1>9, <2>2 DEF RunInv, HonestFiles, RunStart, Holds
  <2>6. Accepted(s)
    BY <1>9, <2>2 DEF RunStart, Accepted, Fresh
  <2> HIDE DEF s
  <2>7. HonestFiles'
    BY <1>9, <2>4, <2>5 DEF RunInv, HonestFiles, RunStart
  <2>8. StartedAreAccepted'
    BY <2>4, <2>6 DEF RunInv, StartedAreAccepted, Started, Holds
  <2> QED BY <2>7, <2>8
<1> QED
  BY <1>1, <1>2, <1>3, <1>4, <1>5, <1>6, <1>7, <1>8, <1>9 DEF Next

\* The inductive invariant holds of every execution.
THEOREM RunInvariant == Spec => []RunInv
  BY RunInvInit, RunInvNext, PTL DEF Spec

\* A started run holds the agent to the verdicts of the rules it has loaded.
THEOREM RunsUseTheirRules == Spec => []LabelsAreOfTheRules
<1>1. RunInv => LabelsAreOfTheRules
  BY DEF RunInv, HonestFiles, Honest, StartedAreAccepted, Started, Holds, Accepted, Fresh, Digest,
     LabelsAreOfTheRules
<1> QED BY <1>1, RunInvariant, PTL

\* The document the probes were written for says what the run's document says.
THEOREM RunsMatchTheirProbes == Spec => []ProbesAreOfTheText
<1>1. RunInv => ProbesAreOfTheText
  <2> SUFFICES ASSUME RunInv, NEW j \in Started, NEW i \in Ordinals
               PROVE  job[j].probes.text[i].words = job[j].policy[i].words
    BY DEF ProbesAreOfTheText
  <2>1. Version(job[j].probes.text) = Version(job[j].policy)
    BY DEF RunInv, HonestFiles, Honest, StartedAreAccepted, Started, Holds, Accepted, Fresh
  <2>2. Version(job[j].probes.text)[i] = Version(job[j].policy)[i]
    BY <2>1
  <2> QED BY <2>2 DEF Version
<1> QED BY <1>1, RunInvariant, PTL

\* Behind every grant a run holds the agent to there is a rule of the labeller's, of a
\* clause the labeller had before it, that quotes the run's document: what the labeller
\* stamped, what the run checks and the equality of the two documents put together.
THEOREM GrantsRestOnTheText == Spec => []GrantsAreBacked
<1>1. RunInv /\ LabelsAreOfTheRules /\ ProbesAreOfTheText => GrantsAreBacked
  <2> SUFFICES ASSUME RunInv, LabelsAreOfTheRules, ProbesAreOfTheText, NEW j \in Started
               PROVE  /\ \A fact \in Facts : job[j].probes.stance[fact] = "grants" =>
                           \E rule \in job[j].rules.rules :
                             /\ fact \in rule.grants
                             /\ rule.needs_human_review \/ \E i \in Ordinals :
                                  /\ rule.clause = <<i, job[j].probes.text[i].words>>
                                  /\ Contains(job[j].policy[i], rule.span)
                      /\ job[j].probes.clauses \subseteq ClausesOf(job[j].probes.text)
    BY DEF GrantsAreBacked
  <2>1. Accepted(job[j])
    BY DEF RunInv, StartedAreAccepted
  <2>2. \A i \in Ordinals : job[j].probes.text[i].words = job[j].policy[i].words
    BY DEF ProbesAreOfTheText
  <2>3. ClausesOf(job[j].probes.text) = ClausesOf(job[j].policy)
    BY <2>2 DEF ClausesOf
  <2>4. ASSUME NEW fact \in Facts, job[j].probes.stance[fact] = "grants"
        PROVE  \E rule \in job[j].rules.rules :
                 /\ fact \in rule.grants
                 /\ rule.needs_human_review \/ \E i \in Ordinals :
                      /\ rule.clause = <<i, job[j].probes.text[i].words>>
                      /\ Contains(job[j].policy[i], rule.span)
    <3>1. Stance(job[j].rules.rules, fact) = "grants"
      BY <2>4 DEF LabelsAreOfTheRules
    <3>2. PICK rule \in job[j].rules.rules : fact \in rule.grants
      BY <3>1 DEF Stance
    <3>3. ASSUME ~rule.needs_human_review
          PROVE  \E i \in Ordinals : /\ rule.clause = <<i, job[j].probes.text[i].words>>
                                     /\ Contains(job[j].policy[i], rule.span)
      <4>1. Grounded(rule, job[j].policy)
        BY <2>1, <3>3 DEF Accepted, AllGrounded
      <4>2. PICK i \in Ordinals : rule.clause = <<i, job[j].policy[i].words>>
        BY <4>1 DEF Grounded, ClausesOf
      <4>3. rule.clause[1] = i
        BY <4>2
      <4>4. Contains(job[j].policy[i], rule.span)
        BY <4>1, <4>3 DEF Grounded
      <4> QED BY <2>2, <4>2, <4>4
    <3> QED BY <3>2, <3>3
  <2>5. job[j].probes.clauses \subseteq ClausesOf(job[j].policy)
    BY <2>1 DEF Accepted
  <2> QED BY <2>3, <2>4, <2>5
<1> QED BY <1>1, RunInvariant, RunsUseTheirRules, RunsMatchTheirProbes, PTL
===============================================================================
