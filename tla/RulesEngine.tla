----------------------------- MODULE RulesEngine -----------------------------
(***************************************************************************)
(* evaluate_rules (harness/rules_engine/evaluate.py), the oracle that      *)
(* labels every probe: a forest of rules is walked depth first, a rule     *)
(* applies when its conditions hold and it was reached through rules that  *)
(* apply, and the applied rule of highest precedence gives the stance.     *)
(*                                                                         *)
(* rules is the forest in the order of the walk. A rule carries its parent *)
(* (0 for a root) and the rules above it, the `path` of an AppliedRule.    *)
(* Texts stand for what _norm folds together.                              *)
(***************************************************************************)
EXTENDS Integers, Sequences, FiniteSets

CONSTANTS
  Entitlements,   \* Entitlement
  Attributes,     \* keys of a fact vector
  Texts,          \* string values, up to case and outer blanks
  Facts,          \* the values a fact may have: <<"number", n>> or <<"text", t>>
  Catalogue,      \* the rules an author may write, told apart by rule_id
  MaxRules        \* bound on the rules of one set

NumericOps    == {"<=", "<", ">=", ">"}
MembershipOps == {"in", "not_in"}

Numbers == {"number"} \X Int
Strings == {"text"} \X Texts
Lists   == {"list"} \X (SUBSET Texts \ {{}})

\* Condition, after _op_and_value_are_coherent: an operand fits its operator.
Conditions ==
  [attribute : Attributes, op : NumericOps, value : Numbers]
    \cup [attribute : Attributes, op : MembershipOps, value : Lists]
    \cup [attribute : Attributes, op : {"=="}, value : Numbers \cup Strings]

Stances == {"grants", "denies"}

\* EntitlementRule without its exceptions.
Rules == [rule_id : Nat, entitlement : Entitlements, polarity : Stances,
          precedence : Int, conditions : Seq(Conditions)]

ASSUME FactsAssumption     == Facts \subseteq Numbers \cup Strings
ASSUME CatalogueAssumption == \A r \in Catalogue :
  /\ r.rule_id \in Nat /\ r.entitlement \in Entitlements /\ r.polarity \in Stances
  /\ r.precedence \in Int /\ r.conditions \in Seq(Conditions)
ASSUME MaxRulesAssumption  == MaxRules \in Nat

VARIABLES
  rules,      \* the forest: a sequence of [rule, parent, above]
  pc,         \* "authoring", "walking" or "done"
  facts,      \* the fact vector: a function from some of the attributes
  scope,      \* the entitlement in question
  cursor,     \* the next rule in walk order
  applied,    \* walk.applied: positions in rules
  label,      \* what evaluate_rules gave
  previous    \* what it gave for the same rules on fewer facts

vars == <<rules, pc, facts, scope, cursor, applied, label, previous>>

NoStance == "none"
Refusal(error)        == [stance |-> NoStance, winner |-> 0, error |-> error]
Label(stance, winner) == [stance |-> stance, winner |-> winner, error |-> "none"]
NoLabel               == Refusal("unlabelled")
NoFacts               == [a \in {} |-> 0]

Compare(op, x, y) ==
  \/ op = "<=" /\ x <= y
  \/ op = "<"  /\ x < y
  \/ op = ">=" /\ x >= y
  \/ op = ">"  /\ x > y

\* The three kinds of test; "type" when the fact is not of the kind the test compares.
TestFact(c, fact) ==
  LET truth(holds) == IF holds THEN "holds" ELSE "fails" IN
  CASE c.op \in NumericOps /\ fact[1] = "number" -> truth(Compare(c.op, fact[2], c.value[2]))
    [] c.op \in MembershipOps /\ fact[1] = "text" -> truth((fact[2] \in c.value[2]) = (c.op = "in"))
    [] c.op = "==" /\ fact[1] = c.value[1] -> truth(fact = c.value)
    [] OTHER -> "type"

\* Wrong variant: a condition on an absent attribute does not hold.
ConditionHoldsLeniently(c, given) ==
  IF c.attribute \notin DOMAIN given THEN "fails" ELSE TestFact(c, given[c.attribute])

ConditionHolds(c, given) ==
  IF c.attribute \notin DOMAIN given THEN "missing" ELSE TestFact(c, given[c.attribute])

Unevaluable == {"missing", "type"}

\* The conditions are ANDed from the left: the first that does not hold decides.
Outcome(rule, given) ==
  LET at(k) == ConditionHolds(rule.conditions[k], given)
  IN IF \A k \in DOMAIN rule.conditions : at(k) = "holds" THEN "holds"
     ELSE at(CHOOSE k \in DOMAIN rule.conditions :
               at(k) # "holds" /\ \A j \in 1..(k - 1) : at(j) = "holds")

(***************************************************************************)
(* The rule set. An author writes it in walk order: a new rule is a root   *)
(* or an exception of the last rule or of one above it. Rule ids are       *)
(* unique in a set (load_rules).                                           *)
(***************************************************************************)
Positions == 1..Len(rules)
Path(i)   == rules[i].above \cup {i}

Parents == IF rules = <<>> THEN {0} ELSE {0} \cup Path(Len(rules))

Write ==
  /\ pc = "authoring"
  /\ Len(rules) < MaxRules
  /\ \E rule \in Catalogue, parent \in Parents :
       /\ \A i \in Positions : rules[i].rule.rule_id # rule.rule_id
       /\ rules' = Append(rules,
            [rule |-> rule, parent |-> parent,
             above |-> IF parent = 0 THEN {} ELSE Path(parent)])
  /\ UNCHANGED <<pc, facts, scope, cursor, applied, label, previous>>

\* validate_rule_tree: an exception outranks its rule and concerns the same entitlement.
WellFormed ==
  \A i \in Positions : rules[i].parent # 0 =>
    LET parent == rules[rules[i].parent].rule IN
    /\ rules[i].rule.precedence > parent.precedence
    /\ rules[i].rule.entitlement = parent.entitlement

\* resolve_entitlement: the argument, or the target's, or the only one there is.
Resolve(entitlement, target) ==
  IF entitlement # "unsaid" THEN {entitlement}
  ELSE IF \E i \in Positions : rules[i].rule.rule_id = target
    THEN {rules[i].rule.entitlement : i \in {j \in Positions : rules[j].rule.rule_id = target}}
  ELSE LET present == {rules[i].rule.entitlement : i \in {j \in Positions : rules[j].parent = 0}}
       IN IF Cardinality(present) = 1 THEN present ELSE {}

StartWalk == pc' = "walking" /\ cursor' = 1 /\ applied' = {}

Refuse(error) == pc' = "done" /\ label' = Refusal(error)

Targets == {rule.rule_id : rule \in Catalogue} \cup {0}

FactVectors == UNION {[A -> Facts] : A \in SUBSET Attributes \ {{}}}

\* What the entitlement of a call may resolve to; a plain mapping has no target rule (0).
Resolutions ==
  {Resolve(entitlement, target) :
     entitlement \in Entitlements \cup {"unsaid"}, target \in Targets}

\* evaluate_rules, up to the walk.
Evaluate ==
  /\ pc = "authoring"
  /\ facts' \in FactVectors
  /\ \/ /\ ~WellFormed
        /\ Refuse("malformed")
        /\ UNCHANGED <<scope, cursor, applied>>
     \/ /\ WellFormed /\ {} \in Resolutions
        /\ Refuse("scope")
        /\ UNCHANGED <<scope, cursor, applied>>
     \/ /\ WellFormed
        /\ scope' \in UNION Resolutions
        /\ StartWalk
        /\ UNCHANGED label
  /\ UNCHANGED <<rules, previous>>

(***************************************************************************)
(* The walk: one step per rule.                                            *)
(***************************************************************************)
\* Wrong variant: exceptions are visited whether or not their rule applied.
ReachedAlways(i) == rules[i].rule.entitlement = scope

Reached(i) ==
  IF rules[i].parent = 0 THEN rules[i].rule.entitlement = scope
  ELSE rules[i].parent \in applied

Walking == pc = "walking" /\ cursor \in Positions

Skip ==
  /\ Walking
  /\ ~Reached(cursor) \/ Outcome(rules[cursor].rule, facts) = "fails"
  /\ cursor' = cursor + 1
  /\ UNCHANGED <<rules, pc, facts, scope, applied, label, previous>>

Apply ==
  /\ Walking
  /\ Reached(cursor) /\ Outcome(rules[cursor].rule, facts) = "holds"
  /\ applied' = applied \cup {cursor}
  /\ cursor' = cursor + 1
  /\ UNCHANGED <<rules, pc, facts, scope, label, previous>>

\* MissingAttributeError and FactTypeError end the walk.
Raise ==
  /\ Walking
  /\ Reached(cursor) /\ Outcome(rules[cursor].rule, facts) \in Unevaluable
  /\ Refuse(Outcome(rules[cursor].rule, facts))
  /\ UNCHANGED <<rules, facts, scope, cursor, applied, previous>>

Depth(i) == Cardinality(rules[i].above)

\* Strongest first, then deepest, then by id.
Before(i, j) ==
  LET a == rules[i].rule
      b == rules[j].rule
  IN \/ a.precedence > b.precedence
     \/ a.precedence = b.precedence /\ Depth(i) > Depth(j)
     \/ a.precedence = b.precedence /\ Depth(i) = Depth(j) /\ a.rule_id <= b.rule_id

\* Wrong variant: every rule that applies has a say.
ContendersAll(w) == {i \in applied : rules[i].rule.precedence <= rules[w].rule.precedence}

Contenders(w) == {i \in applied : rules[i].rule.precedence = rules[w].rule.precedence}

Silent == applied = {} /\ label' = Label("denies", 0)

\* The first of the ordered rules wins, unless another of its precedence disagrees.
Decide ==
  \E w \in applied :
    /\ \A i \in applied : Before(w, i)
    /\ label' = IF \A i \in Contenders(w) : rules[i].rule.polarity = rules[w].rule.polarity
                THEN Label(rules[w].rule.polarity, w) ELSE Refusal("ambiguous")

Conclude ==
  /\ pc = "walking" /\ cursor = Len(rules) + 1
  /\ Silent \/ Decide
  /\ pc' = "done"
  /\ UNCHANGED <<rules, facts, scope, cursor, applied, previous>>

\* The same rules and scope, asked again of a vector that covers one more attribute.
Supply ==
  /\ pc = "done" /\ label.error \notin {"malformed", "scope"}
  /\ \E a \in Attributes \ DOMAIN facts, fact \in Facts :
       facts' = [b \in DOMAIN facts \cup {a} |-> IF b = a THEN fact ELSE facts[b]]
  /\ StartWalk
  /\ previous' = label
  /\ UNCHANGED <<rules, scope, label>>

Init ==
  /\ rules = <<>> /\ pc = "authoring"
  /\ facts = NoFacts /\ scope \in Entitlements
  /\ cursor = 1 /\ applied = {}
  /\ label = NoLabel /\ previous = NoLabel

Next == Write \/ Evaluate \/ Skip \/ Apply \/ Raise \/ Conclude \/ Supply

Spec == Init /\ [][Next]_vars

(***************************************************************************)
(* Properties.                                                             *)
(***************************************************************************)
Errors == {"none", "unlabelled", "malformed", "scope", "missing", "type", "ambiguous"}

\* Every variable has its type, a rule is above what is written after it, and only
\* a refusal has no stance.
TypeOK ==
  /\ rules \in Seq([rule : Catalogue, parent : Nat, above : SUBSET Nat])
  /\ \A i \in Positions : rules[i].parent \in 0..(i - 1) /\ rules[i].above \subseteq 1..(i - 1)
  /\ pc \in {"authoring", "walking", "done"}
  /\ scope \in Entitlements
  /\ cursor \in 1..(Len(rules) + 1)
  /\ applied \subseteq Positions
  /\ {label, previous} \subseteq [stance : Stances \cup {NoStance}, winner : Nat, error : Errors]
  /\ \A given \in {label, previous} : given.stance = NoStance <=> given.error # "none"

\* The policy read off its text, with no walk: a rule applies when it and every
\* rule it is an exception of holds, from a root about the entitlement in question.
RootInScope(i) == rules[i].parent = 0 => rules[i].rule.entitlement = scope

Applies(i) == \A j \in Path(i) : Outcome(rules[j].rule, facts) = "holds" /\ RootInScope(j)

\* A label is what the policy declares: of the rules that apply, whatever order they
\* were written in, none outranks the winner and its equals agree with it; with none,
\* silence denies (evaluate.py DECISIONS 1 and 2).
LabelIsDeclared ==
  pc = "done" /\ label.error = "none" =>
    LET live == {i \in Positions : Applies(i)} IN
    IF label.winner = 0 THEN live = {} /\ label.stance = "denies"
    ELSE /\ label.winner \in live
         /\ \A i \in live :
              LET a == rules[i].rule
                  w == rules[label.winner].rule
              IN \/ a.precedence < w.precedence
                 \/ a.precedence = w.precedence /\ a.polarity = label.stance

\* A refusal has a reason in the policy: a rule that is an exception only of rules
\* that hold cannot be evaluated, or two rules that apply disagree and none outranks them.
RefusalIsDeclared ==
  pc = "done" =>
    /\ label.error \in Unevaluable => \E i \in Positions :
         /\ Outcome(rules[i].rule, facts) = label.error
         /\ RootInScope(i)
         /\ \A j \in rules[i].above : Outcome(rules[j].rule, facts) = "holds" /\ RootInScope(j)
    /\ label.error = "ambiguous" => \E i, j \in {k \in Positions : Applies(k)} :
         /\ rules[i].rule.polarity # rules[j].rule.polarity
         /\ rules[i].rule.precedence = rules[j].rule.precedence
         /\ \A k \in Positions : Applies(k) => rules[k].rule.precedence <= rules[i].rule.precedence

\* An exception that applies is never overruled by a rule it is an exception of
\* (DECISIONS 4).
ExceptionOverrules ==
  pc = "done" /\ label.winner # 0 => \A i \in applied : label.winner \notin rules[i].above

\* A rule about another entitlement never decides, however it is nested (DECISIONS 5).
OneEntitlement ==
  pc = "done" /\ label.winner # 0 =>
    \A i \in Path(label.winner) : rules[i].rule.entitlement = scope

\* A label given on part of the facts is the label of every fuller vector, and so is
\* every refusal but that of a missing attribute: what was not asked for cannot matter
\* (DECISIONS 3).
MoreFactsChangeNothing ==
  pc = "done" /\ previous.error \notin {"unlabelled", "missing"} => label = previous
===============================================================================
