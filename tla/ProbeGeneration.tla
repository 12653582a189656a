--------------------------- MODULE ProbeGeneration ---------------------------
(***************************************************************************)
(* generate_probes (harness/probe_gen): for every root rule and strategy,  *)
(* fact vectors that attack the rule; each is labelled by the rules engine *)
(* (the walk of RulesEngine, step by step), put into words by a model, and *)
(* kept when a check finds the facts in the words.                         *)
(*                                                                         *)
(* A rule of the catalogue has clause_ids besides. Facts whose name begins *)
(* with an underscore, which no rule asks for, are left out of the vectors *)
(* of false_premise and authority_pressure.                                *)
(***************************************************************************)
EXTENDS RulesEngine, SequencesExt

CONSTANTS
  Base,          \* ENTITLEMENT_BASES: a fact vector for each entitlement
  Booleans,      \* BOOLEAN_VALUES, which no message need state
  Phrases,       \* texts that are not one run of letters and digits
  Neighbour,     \* _SMUGGLING_MAP: a function from some of the texts
  LimitPerRule,  \* --n-per-rule
  MaxFailures    \* bound on the messages that fail

\* STRATEGY_ORDER
Strategies ==
  <<"boundary", "condition_stripping", "exception_depth", "category_smuggling",
    "false_premise", "authority_pressure", "multi_turn_drift", "cross_clause">>

StrategyNames == {Strategies[k] : k \in DOMAIN Strategies}

VARIABLES
  phase,      \* "authoring", "sampling", "labelling" or "finished"
  turn,       \* the root and strategy sampled last, counted from 1
  samples,    \* the samples of that turn not yet disposed of
  stats,      \* the Counter stats
  attempted,  \* per strategy
  passed,     \* per strategy
  last,       \* the probe generated last, NoProbe before the first
  failures    \* messages that have failed

progress == <<phase, turn, samples, stats, attempted, passed, last, failures>>
genVars  == <<vars, progress>>

NoProbe == [id |-> <<>>]

(***************************************************************************)
(* sampler.py                                                              *)
(***************************************************************************)
First(list) == CHOOSE t \in list : TRUE

\* The value base_facts gives the attribute of a condition.
Meeting(c) ==
  CASE c.op \in MembershipOps  -> <<"text", First(c.value[2])>>
    [] c.op \in {"<=", "<"}    -> <<"number", c.value[2] - 1>>
    [] c.op \in {">=", ">"}    -> <<"number", c.value[2] + 1>>
    [] OTHER                   -> c.value

\* pick_opposite
PickOpposite(c) ==
  CASE c.op \in MembershipOps  -> <<"text", "not_in_any_listed">>
    [] c.op \in {"<=", "<"}    -> <<"number", c.value[2] + 1>>
    [] c.op \in {">=", ">"}    -> <<"number", c.value[2] - 1>>
    [] OTHER                   -> <<"text", "some_other_value">>

With(given, a, fact) == [b \in DOMAIN given \cup {a} |-> IF b = a THEN fact ELSE given[b]]

\* base_facts: the entitlement's base, then the conditions of the rule in turn.
BaseFacts(rule) ==
  FoldLeft(LAMBDA given, c : With(given, c.attribute, Meeting(c)),
           Base[rule.entitlement], rule.conditions)

(***************************************************************************)
(* The strategies: sequences of turns, a turn being a fact vector.         *)
(***************************************************************************)
RootsOf(forest) ==
  SelectSeq([i \in DOMAIN forest |-> i], LAMBDA i : forest[i].parent = 0)

Roots       == RootsOf(rules)
Nodes(root) == SelectSeq([i \in Positions |-> i], LAMBDA i : root \in Path(i))

ConditionsOf(i) == rules[i].rule.conditions

IsNumeric(c) == c.value[1] = "number"

Single(vectors) == [k \in DOMAIN vectors |-> <<vectors[k]>>]

\* v-1, v and v+1 of the first numeric condition of every rule of the tree.
Boundary(root) ==
  LET base  == BaseFacts(rules[root].rule)
      edges(i) == LET numeric == SelectSeq(ConditionsOf(i), IsNumeric) IN
        IF numeric = <<>> THEN <<>>
        ELSE LET c == numeric[1] IN
             [k \in 1..3 |-> With(base, c.attribute, <<"number", c.value[2] + k - 2>>)]
      all == FlattenSeq([n \in DOMAIN Nodes(root) |-> edges(Nodes(root)[n])])
  IN Single(IF all = <<>> THEN <<base>> ELSE all)

\* Every condition of the root but one.
ConditionStripping(root) ==
  LET base == BaseFacts(rules[root].rule)
      own  == ConditionsOf(root)
  IN Single(IF own = <<>> THEN <<base>>
            ELSE [k \in DOMAIN own |-> With(base, own[k].attribute, PickOpposite(own[k]))])

\* The exceptions two levels down, or else one, or else the root itself.
ExceptionDepth(root) ==
  LET below(d) == SelectSeq(Nodes(root), LAMBDA i : Depth(i) = d)
      deepest  == IF below(2) # <<>> THEN below(2)
                  ELSE IF below(1) # <<>> THEN below(1) ELSE <<root>>
  IN Single([k \in DOMAIN deepest |-> BaseFacts(rules[deepest[k]].rule)])

TreeConditions(root) == FlattenSeq([n \in DOMAIN Nodes(root) |-> ConditionsOf(Nodes(root)[n])])

\* The neighbour of the first listed category that has one.
CategorySmuggling(root) ==
  LET base   == BaseFacts(rules[root].rule)
      listed == SelectSeq(TreeConditions(root), LAMBDA c :
                  c.op \in MembershipOps /\ c.value[2] \cap DOMAIN Neighbour # {})
  IN Single(<<IF listed = <<>> THEN base
              ELSE With(base, listed[1].attribute,
                        <<"text", Neighbour[First(listed[1].value[2] \cap DOMAIN Neighbour)]>>)>>)

\* The base, then the base with the first inequality of the tree crossed.
MultiTurnDrift(root) ==
  LET base    == BaseFacts(rules[root].rule)
      crossed == SelectSeq(TreeConditions(root), LAMBDA c : c.op \in NumericOps)
  IN <<<<base, IF crossed = <<>> THEN base
               ELSE With(base, crossed[1].attribute, PickOpposite(crossed[1]))>>>>

\* The plain facts of the root, under n framings of which the rules know nothing.
Repeated(root, n) == [k \in 1..n |-> <<BaseFacts(rules[root].rule)>>]

FalsePremise(root)      == Repeated(root, 4)
AuthorityPressure(root) == Repeated(root, 3)
CrossClause(root)       == Repeated(root, 1)

Sampled(strategy, root) ==
  CASE strategy = "boundary"            -> Boundary(root)
    [] strategy = "condition_stripping" -> ConditionStripping(root)
    [] strategy = "exception_depth"     -> ExceptionDepth(root)
    [] strategy = "category_smuggling"  -> CategorySmuggling(root)
    [] strategy = "false_premise"       -> FalsePremise(root)
    [] strategy = "authority_pressure"  -> AuthorityPressure(root)
    [] strategy = "multi_turn_drift"    -> MultiTurnDrift(root)
    [] strategy = "cross_clause"        -> CrossClause(root)

\* The loops of generate_probes: for each root, each strategy.
Turns      == Len(Roots) * Len(Strategies)
RootOf(n)  == Roots[((n - 1) \div Len(Strategies)) + 1]
StrategyOf(n) == Strategies[((n - 1) % Len(Strategies)) + 1]
Attacked   == RootOf(turn)
Strategy   == StrategyOf(turn)

(***************************************************************************)
(* generate_probes                                                         *)
(***************************************************************************)
\* The rules are written and loaded; load_rules refuses an empty or malformed set.
Author == phase = "authoring" /\ Write /\ UNCHANGED progress

LoadRules ==
  /\ phase = "authoring"
  /\ rules # <<>> /\ WellFormed
  /\ phase' = "sampling"
  /\ UNCHANGED <<vars, turn, samples, stats, attempted, passed, last, failures>>

\* Wrong variant: a drift is labelled as of its first message.
ScenarioFactsFirst(told) == told[1]

ScenarioFacts(told) == told[Len(told)]

\* results[:max_count]; a drift is one sample of two vectors.
Limited(found) == SubSeq(found, 1, IF Len(found) < LimitPerRule THEN Len(found) ELSE LimitPerRule)

\* The samples of the next root and strategy.
NextTurn ==
  /\ phase = "sampling" /\ samples = <<>> /\ turn < Turns
  /\ turn' = turn + 1
  /\ samples' = Limited(Sampled(StrategyOf(turn + 1), RootOf(turn + 1)))
  /\ UNCHANGED <<vars, phase, stats, attempted, passed, last, failures>>

Sample ==
  /\ phase = "sampling" /\ samples # <<>>
  /\ stats' = [stats EXCEPT !.sampled = @ + 1]
  /\ attempted' = [attempted EXCEPT ![Strategy] = @ + 1]
  /\ facts' = ScenarioFacts(Head(samples))
  /\ scope' = rules[Attacked].rule.entitlement
  /\ StartWalk
  /\ phase' = "labelling"
  /\ UNCHANGED <<rules, label, previous, turn, samples, passed, last, failures>>

Walk ==
  /\ phase = "labelling"
  /\ Skip \/ Apply \/ Raise \/ Conclude
  /\ UNCHANGED progress

Labelled == phase = "labelling" /\ pc = "done"

Advance == samples' = Tail(samples) /\ phase' = "sampling" /\ UNCHANGED turn

Unlabellable ==
  /\ Labelled /\ label.error # "none"
  /\ stats' = [stats EXCEPT !.unlabellable = @ + 1]
  /\ Advance
  /\ UNCHANGED <<vars, attempted, passed, last, failures>>

\* The adversary raises, in the rendering or in the rewriting.
RenderFails ==
  /\ Labelled /\ label.error = "none" /\ failures < MaxFailures
  /\ failures' = failures + 1
  /\ stats' = [stats EXCEPT !.render_error = @ + 1]
  /\ Advance
  /\ UNCHANGED <<vars, attempted, passed, last>>

\* What the oracle looks for: the facts the tree tests, of the last turn.
Checkable ==
  LET asked == {c.attribute : c \in Range(TreeConditions(Attacked))}
  IN {facts[a] : a \in {b \in asked \cap DOMAIN facts :
                          ~(facts[b][1] = "text" /\ facts[b][2] \in Booleans)}}

\* A phrase is looked for among the words of the message, and is never there.
Unstatable == {fact \in Checkable : fact[1] = "text" /\ fact[2] \in Phrases}

OracleFails ==
  /\ Labelled /\ label.error = "none"
  /\ \/ Unstatable # {} /\ UNCHANGED failures
     \/ Unstatable = {} /\ Checkable # {} /\ failures < MaxFailures /\ failures' = failures + 1
  /\ stats' = [stats EXCEPT !.oracle_failed = @ + 1]
  /\ Advance
  /\ UNCHANGED <<vars, attempted, passed, last>>

\* The ordinal of the first clause, the strategy, and how many of it have passed.
ProbeId(root, strategy) ==
  <<rules[root].rule.clause_ids[1], strategy, passed[strategy] + 1>>

StanceOf(root) == label.stance

Emit ==
  /\ Labelled /\ label.error = "none" /\ Unstatable = {}
  /\ last' = [id |-> ProbeId(Attacked, Strategy), root |-> Attacked,
              told |-> Head(samples), expected |-> StanceOf(Attacked)]
  /\ passed' = [passed EXCEPT ![Strategy] = @ + 1]
  /\ stats' = [stats EXCEPT !.oracle_passed = @ + 1]
  /\ Advance
  /\ UNCHANGED <<vars, attempted, failures>>

Finish ==
  /\ phase = "sampling" /\ samples = <<>> /\ turn = Turns
  /\ phase' = "finished"
  /\ UNCHANGED <<vars, turn, samples, stats, attempted, passed, last, failures>>

GenInit ==
  /\ Init
  /\ phase = "authoring" /\ turn = 0 /\ samples = <<>> /\ last = NoProbe /\ failures = 0
  /\ stats = [sampled |-> 0, unlabellable |-> 0, render_error |-> 0,
              oracle_failed |-> 0, oracle_passed |-> 0]
  /\ attempted = [s \in StrategyNames |-> 0]
  /\ passed = [s \in StrategyNames |-> 0]

GenNext ==
  \/ Author \/ LoadRules \/ NextTurn \/ Sample \/ Walk \/ Unlabellable
  \/ RenderFails \/ OracleFails \/ Emit \/ Finish

GenSpec == GenInit /\ [][GenNext]_genVars

(***************************************************************************)
(* Properties.                                                             *)
(***************************************************************************)
\* A rule applies to facts when it and all it is an exception of hold, from a root about
\* the entitlement.
AppliesTo(i, given, entitlement) ==
  \A j \in Path(i) :
    /\ Outcome(rules[j].rule, given) = "holds"
    /\ rules[j].parent = 0 => rules[j].rule.entitlement = entitlement

\* Commitment C1: the stance a generated probe expects is what the rules declare for the
\* facts of its last message, whichever rule it was sampled against: of the rules that
\* apply to them none outranks one of that stance and none of its rank disagrees; when
\* none applies it is a denial.
ExpectationIsDeclared ==
  last # NoProbe =>
    LET told == last.told[Len(last.told)]
        live == {i \in Positions : AppliesTo(i, told, rules[last.root].rule.entitlement)}
        top  == {i \in live : \A k \in live : rules[k].rule.precedence <= rules[i].rule.precedence}
    IN IF live = {} THEN last.expected = "denies"
       ELSE \A i \in top : rules[i].rule.polarity = last.expected
===============================================================================
