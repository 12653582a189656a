-------------------------- MODULE RulesEngineProofs --------------------------
(***************************************************************************)
(* The label of a probe is what the policy declares, for every catalogue   *)
(* of rules, every forest of them and every fact vector; more facts change *)
(* no label, and a generated probe expects what the rules declare. The     *)
(* walk is the induction: Walked says what has been applied so far.        *)
(***************************************************************************)
EXTENDS ProbeGeneration, FiniteSetTheorems, WellFoundedInduction, TLAPS

\* The forest: the rules above a rule are its parent and the rules above that.
Forest ==
  /\ rules \in Seq([rule : Catalogue, parent : Nat, above : SUBSET Nat])
  /\ \A i \in Positions :
       /\ rules[i].parent \in 0..(i - 1)
       /\ rules[i].above \subseteq 1..(i - 1)
       /\ rules[i].above =
            IF rules[i].parent = 0 THEN {} ELSE Path(rules[i].parent)

\* The rules applied are those before the cursor that apply, each outranks the
\* rules above it, and all concern the entitlement in question.
Walked ==
  /\ cursor \in 1..(Len(rules) + 1)
  /\ applied = {i \in 1..(cursor - 1) : Applies(i)}
  /\ \A i \in applied :
       /\ \A j \in rules[i].above : rules[j].rule.precedence < rules[i].rule.precedence
       /\ \A j \in Path(i) : rules[j].rule.entitlement = scope

\* The winner comes first in the order of the audit row.
Won ==
  \/ applied = {} /\ label = Label("denies", 0)
  \/ \E w \in applied :
       /\ \A i \in applied : Before(w, i)
       /\ \A i \in Contenders(w) : rules[i].rule.polarity = rules[w].rule.polarity
       /\ label = Label(rules[w].rule.polarity, w)

\* A refusal of the walk: the rule at the cursor was reached and cannot be
\* evaluated.
Stuck ==
  /\ cursor \in Positions /\ Reached(cursor)
  /\ label.error \in Unevaluable
  /\ label = Refusal(Outcome(rules[cursor].rule, facts))

\* A refusal of the conclusion: the first in order is disagreed with by an equal.
Tied ==
  /\ label = Refusal("ambiguous")
  /\ \E w \in applied :
       /\ \A i \in applied : Before(w, i)
       /\ \E i \in Contenders(w) : rules[i].rule.polarity # rules[w].rule.polarity

\* The inductive invariant: a forest, a walk in progress or finished, and how it ended.
IInv ==
  /\ Forest
  /\ pc \in {"authoring", "walking", "done"}
  /\ pc = "authoring" => label = NoLabel
  /\ pc = "walking" => WellFormed /\ Walked
  /\ pc = "done" =>
       \/ label = Refusal("malformed")
       \/ label = Refusal("scope")
       \/ WellFormed /\ Walked /\ Stuck
       \/ WellFormed /\ Walked /\ cursor = Len(rules) + 1 /\ (Tied \/ Won)

\* An element of a sequence is of the set the sequence is over.
LEMMA ElementOfSequence ==
  ASSUME NEW S, NEW s \in Seq(S), NEW i \in 1..Len(s)
  PROVE  s[i] \in S
OBVIOUS

\* Every rule of the forest is one of the catalogue, with an integer precedence.
LEMMA FromCatalogue ==
  ASSUME Forest, NEW i \in Positions
  PROVE  rules[i].rule \in Catalogue /\ rules[i].rule.precedence \in Int
<1>1. rules[i] \in [rule : Catalogue, parent : Nat, above : SUBSET Nat]
  BY ElementOfSequence DEF Forest, Positions
<1>2. rules[i].rule \in Catalogue
  BY <1>1
<1> QED BY <1>2, CatalogueAssumption

\* A rule applies when it holds and either is a root about the entitlement in
\* question or is an exception of a rule that applies.
LEMMA AppliesByParent ==
  ASSUME Forest, NEW i \in Positions
  PROVE  Applies(i) <=> /\ Outcome(rules[i].rule, facts) = "holds"
                        /\ IF rules[i].parent = 0 THEN rules[i].rule.entitlement = scope
                           ELSE Applies(rules[i].parent)
<1>1. CASE rules[i].parent = 0
  <2>1. Path(i) = {i}
    BY <1>1 DEF Forest, Path
  <2> QED BY <1>1, <2>1 DEF Applies, RootInScope
<1>2. CASE rules[i].parent # 0
  <2>1. Path(i) = Path(rules[i].parent) \cup {i}
    BY <1>2 DEF Forest, Path
  <2>2. RootInScope(i)
    BY <1>2 DEF RootInScope
  <2> QED BY <1>2, <2>1, <2>2 DEF Applies
<1> QED BY <1>1, <1>2

\* The parent of a rule that is not a root is an earlier rule of the set.
LEMMA ParentIsEarlier ==
  ASSUME Forest, NEW i \in Positions, rules[i].parent # 0
  PROVE  rules[i].parent \in 1..(i - 1) /\ rules[i].parent \in Positions
BY DEF Forest, Positions

\* So is every rule above it.
LEMMA AboveIsEarlier ==
  ASSUME Forest, NEW i \in Positions
  PROVE  rules[i].above \subseteq Positions
<1>1. PICK n \in Nat : n = Len(rules)
  BY DEF Forest
<1>2. rules[i].above \subseteq 1..(i - 1)
  BY DEF Forest
<1>3. i \in 1..n
  BY <1>1 DEF Positions
<1>4. 1..(i - 1) \subseteq 1..n
  BY <1>3
<1> QED BY <1>1, <1>2, <1>4 DEF Positions

\* Reached says of the next rule what AppliesByParent asks of its place.
LEMMA ReachedIsApplies ==
  ASSUME Forest, Walked, cursor \in Positions
  PROVE  Applies(cursor) <=> Reached(cursor) /\ Outcome(rules[cursor].rule, facts) = "holds"
<1>1. CASE rules[cursor].parent = 0
  BY <1>1, AppliesByParent DEF Reached
<1>2. CASE rules[cursor].parent # 0
  <2>1. rules[cursor].parent \in 1..(cursor - 1)
    BY <1>2, ParentIsEarlier
  <2>2. rules[cursor].parent \in applied <=> Applies(rules[cursor].parent)
    BY <2>1 DEF Walked
  <2> QED BY <1>2, <2>2, AppliesByParent DEF Reached
<1> QED BY <1>1, <1>2

\* The empty rule set is a forest.
LEMMA InitIInv == Init => IInv
BY DEF Init, IInv, Forest, Positions, NoLabel

\* A new rule is an exception of the last rule, of one above it, or of none.
LEMMA ParentsRange ==
  ASSUME Forest, NEW parent \in Parents
  PROVE  parent \in 0..Len(rules)
<1>1. CASE rules = <<>>
  BY <1>1 DEF Parents, Forest
<1>2. CASE rules # <<>>
  <2>1. PICK n \in Nat : n = Len(rules)
    BY DEF Forest
  <2>2. n \in Positions
    BY <1>2, <2>1 DEF Forest, Positions
  <2>3. rules[n].above \subseteq 1..(n - 1)
    BY <2>2 DEF Forest
  <2>4. Path(n) \subseteq 0..n
    BY <2>1, <2>3 DEF Path
  <2> QED BY <1>2, <2>1, <2>4 DEF Parents
<1> QED BY <1>1, <1>2

\* Writing a rule keeps the forest.
LEMMA WriteKeepsForest ==
  ASSUME Forest, Write
  PROVE  Forest'
<1>1. PICK rule \in Catalogue, parent \in Parents :
        rules' = Append(rules, [rule |-> rule, parent |-> parent,
                   above |-> IF parent = 0 THEN {} ELSE Path(parent)])
  BY DEF Write
<1> DEFINE above == IF parent = 0 THEN {} ELSE Path(parent)
           node  == [rule |-> rule, parent |-> parent, above |-> above]
<1>2. Len(rules) \in Nat /\ parent \in 0..Len(rules)
  BY ParentsRange DEF Forest
<1>3. above \subseteq 1..Len(rules)
  <2>1. CASE parent = 0
    BY <2>1
  <2>2. CASE parent # 0
    <3>1. parent \in Positions
      BY <1>2, <2>2 DEF Positions
    <3>2. rules[parent].above \subseteq 1..(parent - 1)
      BY <3>1 DEF Forest
    <3>3. PICK n \in Nat : n = Len(rules)
      BY <1>2
    <3> QED BY <1>2, <2>2, <3>2, <3>3 DEF Path
  <2> QED BY <2>1, <2>2
<1>4. node \in [rule : Catalogue, parent : Nat, above : SUBSET Nat]
  BY <1>2, <1>3
<1> HIDE DEF node
<1>5. /\ rules' \in Seq([rule : Catalogue, parent : Nat, above : SUBSET Nat])
      /\ Len(rules') = Len(rules) + 1
      /\ rules'[Len(rules) + 1] = node
      /\ \A i \in Positions : rules'[i] = rules[i]
  BY <1>1, <1>4 DEF Forest, Positions, node
<1>6. \A i \in Positions' : i \in Positions \/ i = Len(rules) + 1
  BY <1>2, <1>5 DEF Positions
<1>7. ASSUME NEW i \in Positions
      PROVE  /\ rules'[i].parent \in 0..(i - 1)
             /\ rules'[i].above \subseteq 1..(i - 1)
             /\ rules'[i].above = IF rules'[i].parent = 0 THEN {} ELSE rules'[rules'[i].parent].above \cup {rules'[i].parent}
  <2>1. rules'[i] = rules[i]
    BY <1>5
  <2>2. ASSUME rules[i].parent # 0
        PROVE  rules'[rules[i].parent] = rules[rules[i].parent]
    BY <1>5, <2>2, ParentIsEarlier
  <2> QED BY <2>1, <2>2 DEF Forest, Path
<1>8. ASSUME NEW i, i = Len(rules) + 1
      PROVE  /\ rules'[i].parent \in 0..(i - 1)
             /\ rules'[i].above \subseteq 1..(i - 1)
             /\ rules'[i].above = IF rules'[i].parent = 0 THEN {} ELSE rules'[rules'[i].parent].above \cup {rules'[i].parent}
  <2>1. rules'[i].parent = parent /\ rules'[i].above = above /\ i - 1 = Len(rules)
    <3>1. node.parent = parent /\ node.above = above
      BY DEF node
    <3>2. rules'[i] = node /\ i - 1 = Len(rules)
      BY <1>2, <1>5, <1>8
    <3> QED BY <3>1, <3>2
  <2>2. ASSUME parent # 0
        PROVE  rules'[parent] = rules[parent]
    BY <1>2, <1>5, <2>2 DEF Positions
  <2> QED BY <1>2, <1>3, <2>1, <2>2 DEF Path
<1> QED BY <1>5, <1>6, <1>7, <1>8 DEF Forest, Path

\* Nothing the walk reads of the rules changes with the cursor.
LEMMA ApplyKeepsWalked ==
  ASSUME Forest, WellFormed, Walked, Apply
  PROVE  Walked'
<1>1. /\ cursor \in Positions /\ cursor' = cursor + 1 /\ applied' = applied \cup {cursor}
      /\ UNCHANGED <<rules, facts, scope>>
      /\ Reached(cursor) /\ Outcome(rules[cursor].rule, facts) = "holds"
      /\ Len(rules) \in Nat
  BY DEF Apply, Walking, Forest
<1>2. \A i : Applies(i)' <=> Applies(i)
  BY <1>1 DEF Applies, RootInScope, Path, Outcome
<1>3. Applies(cursor)
  BY <1>1, ReachedIsApplies
<1>4. cursor' \in 1..(Len(rules') + 1)
  BY <1>1 DEF Positions
<1>5. applied' = {i \in 1..(cursor' - 1) : Applies(i)'}
  <2>1. 1..(cursor' - 1) = (1..(cursor - 1)) \cup {cursor}
    BY <1>1 DEF Positions
  <2> QED BY <1>1, <1>2, <1>3, <2>1 DEF Walked
<1>6. /\ \A j \in rules[cursor].above : rules[j].rule.precedence < rules[cursor].rule.precedence
      /\ \A j \in Path(cursor) : rules[j].rule.entitlement = scope
  <2>1. CASE rules[cursor].parent = 0
    BY <1>1, <2>1 DEF Forest, Path, Reached
  <2>2. CASE rules[cursor].parent # 0
    <3> DEFINE p == rules[cursor].parent
    <3>1. p \in applied /\ p \in Positions
      BY <1>1, <2>2, ParentIsEarlier DEF Reached
    <3>2. /\ rules[p].rule.precedence < rules[cursor].rule.precedence
          /\ rules[cursor].rule.entitlement = rules[p].rule.entitlement
          /\ \A j \in Positions : rules[j].rule.precedence \in Int
          /\ rules[p].above \subseteq Positions
      <4>1. rules[cursor].rule.precedence > rules[p].rule.precedence
            /\ rules[cursor].rule.entitlement = rules[p].rule.entitlement
        BY <1>1, <2>2 DEF WellFormed
      <4>2. \A j \in Positions : rules[j].rule.precedence \in Int
        BY FromCatalogue
      <4>3. rules[p].above \subseteq Positions
        BY <3>1, AboveIsEarlier
      <4>4. rules[p].rule.precedence \in Int /\ rules[cursor].rule.precedence \in Int
        BY <1>1, <3>1, FromCatalogue
      <4>5. rules[p].rule.precedence < rules[cursor].rule.precedence
        BY <4>1, <4>4
      <4> QED BY <4>1, <4>2, <4>3, <4>5
    <3>3. rules[cursor].above = rules[p].above \cup {p}
      <4>1. rules[cursor].above = Path(p)
        BY <1>1, <2>2 DEF Forest
      <4> QED BY <4>1 DEF Path
    <3>4. \A j \in rules[p].above : rules[j].rule.precedence < rules[p].rule.precedence
      BY <3>1 DEF Walked
    <3>5. \A j \in Path(p) : rules[j].rule.entitlement = scope
      BY <3>1 DEF Walked
    <3>6. \A j \in rules[cursor].above : rules[j].rule.precedence < rules[cursor].rule.precedence
      <4> SUFFICES ASSUME NEW j \in rules[p].above
                   PROVE  rules[j].rule.precedence < rules[cursor].rule.precedence
        BY <3>2, <3>3
      <4>0. j \in Positions
        BY <3>2
      <4>1. rules[j].rule.precedence < rules[p].rule.precedence
        BY <3>4
      <4>2. rules[p].rule.precedence < rules[cursor].rule.precedence
        BY <3>2
      <4>3. {rules[j].rule.precedence, rules[p].rule.precedence, rules[cursor].rule.precedence} \subseteq Int
        BY <1>1, <3>1, <3>2, <4>0
      <4> QED BY <4>1, <4>2, <4>3
    <3>7. \A j \in Path(cursor) : rules[j].rule.entitlement = scope
      BY <3>2, <3>3, <3>5 DEF Path
    <3> QED BY <3>6, <3>7
  <2> QED BY <2>1, <2>2
<1>7. \A i \in applied' :
        /\ \A j \in rules'[i].above : rules'[j].rule.precedence < rules'[i].rule.precedence
        /\ \A j \in Path(i)' : rules'[j].rule.entitlement = scope'
  BY <1>1, <1>6 DEF Walked, Path
<1> QED BY <1>4, <1>5, <1>7 DEF Walked

\* A rule that was not reached or does not hold is passed over.
LEMMA SkipKeepsWalked ==
  ASSUME Forest, Walked, Skip
  PROVE  Walked'
<1>1. /\ cursor \in Positions /\ cursor' = cursor + 1
      /\ UNCHANGED <<rules, facts, scope, applied>>
      /\ ~Reached(cursor) \/ Outcome(rules[cursor].rule, facts) = "fails"
      /\ Len(rules) \in Nat
  BY DEF Skip, Walking, Forest
<1>2. \A i : Applies(i)' <=> Applies(i)
  BY <1>1 DEF Applies, RootInScope, Path, Outcome
<1>3. ~Applies(cursor)
  BY <1>1, ReachedIsApplies
<1>4. 1..(cursor' - 1) = (1..(cursor - 1)) \cup {cursor}
  BY <1>1 DEF Positions
<1>5. applied' = {i \in 1..(cursor' - 1) : Applies(i)'}
  BY <1>1, <1>2, <1>3, <1>4 DEF Walked
<1>6. cursor' \in 1..(Len(rules') + 1)
  BY <1>1 DEF Positions
<1> QED BY <1>1, <1>5, <1>6 DEF Walked, Path

\* What has been applied depends on nothing but the rules, the facts and the scope.
LEMMA StutterKeepsWalked ==
  ASSUME Walked, UNCHANGED <<rules, facts, scope, cursor, applied>>
  PROVE  Walked'
<1>1. \A i : Applies(i)' <=> Applies(i)
  BY DEF Applies, RootInScope, Path, Outcome
<1> QED BY <1>1 DEF Walked, Path

\* A walk begins with nothing applied.
LEMMA StartIsWalked ==
  ASSUME Forest', StartWalk
  PROVE  Walked'
BY DEF StartWalk, Walked, Forest

\* The step that ends the walk picks the winner by the order of the audit row, or
\* finds it contradicted.
LEMMA ConcludeDecides ==
  ASSUME Walked, Conclude
  PROVE  Won' \/ Tied'
<1>1. UNCHANGED <<rules, applied, cursor>>
  BY DEF Conclude
<1>2. CASE Silent
  BY <1>1, <1>2 DEF Won, Silent, Label
<1>3. CASE Decide
  <2>1. PICK w \in applied :
          /\ \A i \in applied : Before(w, i)
          /\ label' = IF \A i \in Contenders(w) : rules[i].rule.polarity = rules[w].rule.polarity
                      THEN Label(rules[w].rule.polarity, w) ELSE Refusal("ambiguous")
    BY <1>3 DEF Decide
  <2>2. w \in applied' /\ \A i \in applied' : Before(w, i)'
    BY <1>1, <2>1 DEF Before, Depth
  <2>3. Contenders(w)' = Contenders(w) /\ \A i : rules'[i] = rules[i]
    BY <1>1 DEF Contenders
  <2>4. CASE \A i \in Contenders(w) : rules[i].rule.polarity = rules[w].rule.polarity
    <3>1. label' = Label(rules'[w].rule.polarity, w)
      BY <2>1, <2>3, <2>4
    <3> QED BY <2>2, <2>3, <2>4, <3>1 DEF Won, Label
  <2>5. CASE ~\A i \in Contenders(w) : rules[i].rule.polarity = rules[w].rule.polarity
    <3>1. label' = Refusal("ambiguous")
      BY <2>1, <2>5
    <3> QED BY <2>2, <2>3, <2>5, <3>1 DEF Tied, Refusal
  <2> QED BY <2>4, <2>5
<1> QED BY <1>2, <1>3 DEF Conclude

\* The invariant is preserved by every step.
LEMMA NextIInv == IInv /\ [Next]_vars => IInv'
<1> SUFFICES ASSUME IInv, [Next]_vars
             PROVE  IInv'
  OBVIOUS
<1>1. ASSUME UNCHANGED rules
      PROVE  Forest' /\ (WellFormed => WellFormed')
  <2>1. Forest'
    BY <1>1 DEF IInv, Forest, Positions, Path
  <2>2. WellFormed => WellFormed'
    BY <1>1 DEF WellFormed, Positions
  <2> QED BY <2>1, <2>2
<1>2. CASE Write
  <2>1. Forest'
    BY <1>2, WriteKeepsForest DEF IInv
  <2> QED BY <1>2, <2>1 DEF IInv, Write, NoLabel
<1>3. CASE Evaluate
  <2>1. UNCHANGED rules /\ pc = "authoring"
    BY <1>3 DEF Evaluate
  <2>2. \/ pc' = "done" /\ label' = Refusal("malformed")
        \/ pc' = "done" /\ label' = Refusal("scope")
        \/ WellFormed /\ StartWalk
    BY <1>3 DEF Evaluate, Refuse
  <2>3. CASE WellFormed /\ StartWalk
    BY <1>1, <2>1, <2>3, StartIsWalked DEF IInv, StartWalk
  <2> QED BY <1>1, <2>1, <2>2, <2>3 DEF IInv
<1>4. CASE Skip
  <2>1. UNCHANGED <<rules, pc>> /\ pc = "walking"
    BY <1>4 DEF Skip, Walking
  <2>2. Walked'
    BY <1>4, <2>1, SkipKeepsWalked DEF IInv
  <2> QED BY <1>1, <2>1, <2>2 DEF IInv
<1>5. CASE Apply
  <2>1. UNCHANGED <<rules, pc>> /\ pc = "walking"
    BY <1>5 DEF Apply, Walking
  <2>2. Walked'
    BY <1>5, <2>1, ApplyKeepsWalked DEF IInv
  <2> QED BY <1>1, <2>1, <2>2 DEF IInv
<1>6. CASE Raise
  <2>1. UNCHANGED <<rules, facts, scope, cursor, applied>> /\ pc = "walking" /\ pc' = "done"
    BY <1>6 DEF Raise, Walking, Refuse
  <2>2. Walked'
    BY <2>1, StutterKeepsWalked DEF IInv
  <2>3. /\ cursor \in Positions /\ Reached(cursor)
        /\ Outcome(rules[cursor].rule, facts) \in Unevaluable
        /\ label' = Refusal(Outcome(rules[cursor].rule, facts))
    BY <1>6 DEF Raise, Walking, Refuse
  <2>4. cursor' \in Positions' /\ Reached(cursor)'
    BY <2>1, <2>3 DEF Reached, Positions
  <2>5. label' = Refusal(Outcome(rules'[cursor'].rule, facts')) /\ label'.error \in Unevaluable
    <3>1. Outcome(rules'[cursor'].rule, facts') = Outcome(rules[cursor].rule, facts)
      BY <2>1
    <3> QED BY <2>3, <3>1 DEF Refusal
  <2>6. Stuck'
    BY <2>1, <2>4, <2>5 DEF Stuck, Reached
  <2> QED BY <1>1, <2>1, <2>2, <2>6 DEF IInv
<1>7. CASE Conclude
  <2>1. /\ UNCHANGED <<rules, facts, scope, cursor, applied>>
        /\ pc = "walking" /\ pc' = "done" /\ cursor = Len(rules) + 1
    BY <1>7 DEF Conclude
  <2>2. Walked'
    BY <2>1, StutterKeepsWalked DEF IInv
  <2>3. Won' \/ Tied'
    BY <1>7, <2>1, ConcludeDecides DEF IInv
  <2> QED BY <1>1, <2>1, <2>2, <2>3 DEF IInv
<1>8. CASE Supply
  <2>1. /\ UNCHANGED <<rules, label>> /\ pc = "done" /\ pc' = "walking"
        /\ label.error \notin {"malformed", "scope"} /\ StartWalk
    BY <1>8 DEF Supply, StartWalk
  <2>2. WellFormed
    BY <2>1 DEF IInv, Refusal
  <2> QED BY <1>1, <2>1, <2>2, StartIsWalked DEF IInv
<1>9. CASE UNCHANGED vars
  <2>1. UNCHANGED <<rules, pc, facts, scope, cursor, applied, label>>
    BY <1>9 DEF vars
  <2>2. Walked => Walked'
    BY <2>1, StutterKeepsWalked
  <2>3. (Won => Won') /\ (Tied => Tied')
    BY <2>1 DEF Won, Tied, Contenders, Before, Depth
  <2>4. Stuck => Stuck'
    <3>1. Outcome(rules[cursor].rule, facts)' = Outcome(rules[cursor].rule, facts)
      BY <2>1 DEF Outcome
    <3> QED BY <2>1, <3>1 DEF Stuck, Reached, Positions
  <2> QED BY <1>1, <2>1, <2>2, <2>3, <2>4 DEF IInv
<1> QED BY <1>2, <1>3, <1>4, <1>5, <1>6, <1>7, <1>8, <1>9 DEF Next

\* The invariant holds of every behaviour.
THEOREM WalkInvariant == Spec => []IInv
BY InitIInv, NextIInv, PTL DEF Spec

\* What the three properties have in common: a label comes from a finished walk.
LEMMA LabelledIsWalked ==
  ASSUME IInv, pc = "done", label.error = "none"
  PROVE  Walked /\ cursor = Len(rules) + 1 /\ Won /\ applied = {i \in Positions : Applies(i)}
<1>1. Walked /\ cursor = Len(rules) + 1 /\ Won /\ Len(rules) \in Nat
  BY DEF IInv, Refusal, Forest, Stuck, Tied, Unevaluable
<1>2. cursor - 1 = Len(rules)
  BY <1>1
<1> QED BY <1>1, <1>2 DEF Walked, Positions

\* Only a label has a winner.
LEMMA WinnerIsWalked ==
  ASSUME IInv, pc = "done", label.winner # 0
  PROVE  Walked /\ Won /\ applied = {i \in Positions : Applies(i)}
<1>1. label.error = "none"
  BY DEF IInv, Refusal, Won, Label, Stuck, Tied
<1> QED BY <1>1, LabelledIsWalked

\* A label is what the policy declares, whatever the rules, their order and the facts.
THEOREM LabelsAreDeclared == Spec => []LabelIsDeclared
<1>1. IInv => LabelIsDeclared
  <2> SUFFICES ASSUME IInv, pc = "done", label.error = "none"
               PROVE  LET live == {i \in Positions : Applies(i)} IN
                      IF label.winner = 0 THEN live = {} /\ label.stance = "denies"
                      ELSE /\ label.winner \in live
                           /\ \A i \in live :
                                LET a == rules[i].rule
                                    w == rules[label.winner].rule
                                IN \/ a.precedence < w.precedence
                                   \/ a.precedence = w.precedence /\ a.polarity = label.stance
    BY DEF LabelIsDeclared
  <2>1. Won /\ applied = {i \in Positions : Applies(i)}
    BY LabelledIsWalked
  <2>2. CASE applied = {} /\ label = Label("denies", 0)
    BY <2>1, <2>2 DEF Label
  <2>3. ASSUME NEW w \in applied,
               \A i \in applied : Before(w, i),
               \A i \in Contenders(w) : rules[i].rule.polarity = rules[w].rule.polarity,
               label = Label(rules[w].rule.polarity, w)
        PROVE  /\ label.winner # 0
               /\ label.winner \in applied
               /\ \A i \in applied :
                    \/ rules[i].rule.precedence < rules[label.winner].rule.precedence
                    \/ /\ rules[i].rule.precedence = rules[label.winner].rule.precedence
                       /\ rules[i].rule.polarity = label.stance
    <3>1. label.winner = w /\ label.stance = rules[w].rule.polarity
      BY <2>3 DEF Label
    <3>2. w # 0
      BY <2>1 DEF Positions
    <3>3. ASSUME NEW i \in applied
          PROVE  \/ rules[i].rule.precedence < rules[w].rule.precedence
                 \/ /\ rules[i].rule.precedence = rules[w].rule.precedence
                    /\ rules[i].rule.polarity = rules[w].rule.polarity
      <4>1. rules[i].rule.precedence \in Int /\ rules[w].rule.precedence \in Int
        BY <2>1, FromCatalogue DEF IInv
      <4>2. Before(w, i)
        BY <2>3
      <4>3. rules[i].rule.precedence = rules[w].rule.precedence => i \in Contenders(w)
        BY DEF Contenders
      <4> QED BY <2>3, <4>1, <4>2, <4>3 DEF Before
    <3> QED BY <3>1, <3>2, <3>3
  <2> QED BY <2>1, <2>2, <2>3 DEF Won
<1> QED BY <1>1, WalkInvariant, PTL

\* An exception that applies is never overruled by a rule it is an exception of.
THEOREM ExceptionsOverrule == Spec => []ExceptionOverrules
<1>1. IInv => ExceptionOverrules
  <2> SUFFICES ASSUME IInv, pc = "done", label.winner # 0, NEW i \in applied,
                      label.winner \in rules[i].above
               PROVE  FALSE
    BY DEF ExceptionOverrules
  <2>1. Walked /\ Won /\ applied = {j \in Positions : Applies(j)}
    BY WinnerIsWalked
  <2>2. rules[label.winner].rule.precedence < rules[i].rule.precedence
    BY <2>1 DEF Walked
  <2>3. label.winner \in applied /\ Before(label.winner, i)
    BY <2>1 DEF Won, Label
  <2>4. rules[i].rule.precedence \in Int /\ rules[label.winner].rule.precedence \in Int
    BY <2>1, <2>3, FromCatalogue DEF IInv
  <2> QED BY <2>2, <2>3, <2>4 DEF Before
<1> QED BY <1>1, WalkInvariant, PTL

\* A rule about another entitlement never decides.
THEOREM OneEntitlementDecides == Spec => []OneEntitlement
<1>1. IInv => OneEntitlement
  <2> SUFFICES ASSUME IInv, pc = "done", label.winner # 0
               PROVE  \A j \in Path(label.winner) : rules[j].rule.entitlement = scope
    BY DEF OneEntitlement
  <2>1. Walked /\ Won
    BY WinnerIsWalked
  <2>2. label.winner \in applied
    BY <2>1 DEF Won, Label
  <2> QED BY <2>1, <2>2 DEF Walked
<1> QED BY <1>1, WalkInvariant, PTL

\* A refusal has a reason in the policy.
THEOREM RefusalsAreDeclared == Spec => []RefusalIsDeclared
<1>1. ASSUME IInv, pc = "done", label.error \in Unevaluable
      PROVE  \E i \in Positions :
               /\ Outcome(rules[i].rule, facts) = label.error
               /\ RootInScope(i)
               /\ \A j \in rules[i].above : Outcome(rules[j].rule, facts) = "holds" /\ RootInScope(j)
  <2>1. Forest /\ Walked /\ Stuck
    BY <1>1 DEF IInv, Tied, Won, Refusal, Label, Unevaluable
  <2>2. cursor \in Positions /\ Outcome(rules[cursor].rule, facts) = label.error
    BY <2>1 DEF Stuck, Refusal
  <2>3. RootInScope(cursor)
    BY <2>1 DEF Stuck, Reached, RootInScope
  <2>4. \A j \in rules[cursor].above : Outcome(rules[j].rule, facts) = "holds" /\ RootInScope(j)
    <3>1. CASE rules[cursor].parent = 0
      BY <2>1, <2>2, <3>1 DEF Forest
    <3>2. CASE rules[cursor].parent # 0
      <4>1. Applies(rules[cursor].parent)
        BY <2>1, <3>2 DEF Stuck, Reached, Walked
      <4>2. rules[cursor].above = Path(rules[cursor].parent)
        BY <2>1, <2>2, <3>2 DEF Forest
      <4> QED BY <4>1, <4>2 DEF Applies
    <3> QED BY <3>1, <3>2
  <2> QED BY <2>2, <2>3, <2>4
<1>2. ASSUME IInv, pc = "done", label.error = "ambiguous"
      PROVE  \E i, j \in {k \in Positions : Applies(k)} :
               /\ rules[i].rule.polarity # rules[j].rule.polarity
               /\ rules[i].rule.precedence = rules[j].rule.precedence
               /\ \A k \in Positions : Applies(k) => rules[k].rule.precedence <= rules[i].rule.precedence
  <2>1. Walked /\ Tied /\ cursor = Len(rules) + 1 /\ Forest
    BY <1>2, CatalogueAssumption DEF IInv, Stuck, Won, Refusal, Label, Unevaluable
  <2>2. applied = {k \in Positions : Applies(k)}
    <3>1. Len(rules) \in Nat
      BY <2>1 DEF Forest
    <3> QED BY <2>1, <3>1 DEF Walked, Positions
  <2>3. PICK w \in applied :
          /\ \A i \in applied : Before(w, i)
          /\ \E i \in Contenders(w) : rules[i].rule.polarity # rules[w].rule.polarity
    BY <2>1 DEF Tied
  <2>4. PICK j \in applied :
          /\ rules[j].rule.precedence = rules[w].rule.precedence
          /\ rules[j].rule.polarity # rules[w].rule.polarity
    BY <2>3 DEF Contenders
  <2>5. \A k \in Positions : Applies(k) => rules[k].rule.precedence <= rules[w].rule.precedence
    <3> SUFFICES ASSUME NEW k \in applied
                 PROVE  rules[k].rule.precedence <= rules[w].rule.precedence
      BY <2>2
    <3>1. rules[k].rule.precedence \in Int /\ rules[w].rule.precedence \in Int
      BY <2>1, <2>2, FromCatalogue
    <3>2. Before(w, k)
      BY <2>3
    <3> QED BY <3>1, <3>2 DEF Before
  <2> QED BY <2>2, <2>4, <2>5
<1>3. IInv => RefusalIsDeclared
  BY <1>1, <1>2 DEF RefusalIsDeclared
<1> QED BY <1>3, WalkInvariant, PTL

(***************************************************************************)
(* What was not asked for cannot matter. The walk has no memory, so the    *)
(* end of one is written as a function of the rules, the scope and the     *)
(* vector: that end is unique, and a vector that covers more attributes    *)
(* keeps it unless it was the refusal of a missing one.                    *)
(***************************************************************************)
\* The policy read on a vector that need not be the one of the walk: a rule applies,
\* was reached, and could be evaluated or was never asked.
AppliesOn(i, given) ==
  \A j \in Path(i) : Outcome(rules[j].rule, given) = "holds" /\ RootInScope(j)

ReachedOn(i, given) ==
  IF rules[i].parent = 0 THEN rules[i].rule.entitlement = scope
  ELSE AppliesOn(rules[i].parent, given)

SettledOn(i, given) ==
  ReachedOn(i, given) => Outcome(rules[i].rule, given) \in {"holds", "fails"}

\* How a walk over the vector ends: at the first rule it cannot evaluate, or with the
\* stance of the rules that apply.
StopsOn(given, answer) ==
  \E i \in Positions :
    /\ \A j \in 1..(i - 1) : SettledOn(j, given)
    /\ ReachedOn(i, given) /\ Outcome(rules[i].rule, given) \in Unevaluable
    /\ answer = Refusal(Outcome(rules[i].rule, given))

Answered(live, w) ==
  IF \A i \in live : rules[i].rule.precedence = rules[w].rule.precedence =>
                       rules[i].rule.polarity = rules[w].rule.polarity
  THEN Label(rules[w].rule.polarity, w) ELSE Refusal("ambiguous")

Concluded(live, answer) ==
  \/ live = {} /\ answer = Label("denies", 0)
  \/ \E w \in live : (\A i \in live : Before(w, i)) /\ answer = Answered(live, w)

Live(given) == {i \in Positions : AppliesOn(i, given)}

EndsOn(given, answer) ==
  \/ StopsOn(given, answer)
  \/ (\A j \in Positions : SettledOn(j, given)) /\ Concluded(Live(given), answer)

OneIdEach == \A i, j \in Positions : rules[i].rule.rule_id = rules[j].rule.rule_id => i = j

\* What a walk remembers of the one before it: the answer to a part of the facts is
\* the one that the walk over all of them will end with.
Remembers ==
  /\ OneIdEach
  /\ pc = "authoring" => previous = NoLabel
  /\ pc = "walking" \/ (pc = "done" /\ label.error \notin {"malformed", "scope"}) =>
       \A j \in 1..(cursor - 1) : SettledOn(j, facts)
  /\ previous.error \notin {"unlabelled", "missing"} =>
       pc # "authoring" /\ label.error \notin {"malformed", "scope"} /\ EndsOn(facts, previous)

Fuller(given, more) ==
  DOMAIN given \subseteq DOMAIN more /\ \A a \in DOMAIN given : more[a] = given[a]

\* A set of positions has a least one, the one up to which the set is smallest.
LEMMA LeastOf ==
  ASSUME NEW n \in Nat, NEW S, S \subseteq 1..n, S # {}
  PROVE  \E m \in S : \A k \in 1..(m - 1) : k \notin S
<1> DEFINE UpTo(i) == {j \in S : j <= i}
           T == {UpTo(i) : i \in S}
<1>1. IsFiniteSet(1..n)
  <2>1. 1 \in Int /\ n \in Int
    OBVIOUS
  <2> QED BY <2>1, FS_Interval
<1>2. T \subseteq FiniteSubsetsOf(S) /\ T # {}
  <2>1. IsFiniteSet(S)
    BY <1>1, FS_Subset
  <2>2. \A i \in S : UpTo(i) \subseteq S /\ IsFiniteSet(UpTo(i))
    BY <2>1, FS_Subset
  <2>3. \A V \in T : V \subseteq S /\ IsFiniteSet(V)
    BY <2>2
  <2>4. PICK i \in S : TRUE
    OBVIOUS
  <2>5. UpTo(i) \in T
    BY <2>4
  <2> QED BY <2>3, <2>5 DEF FiniteSubsetsOf
<1>3. PICK W \in T : \A V \in T : ~ (<<V, W>> \in StrictSubsetOrdering(S))
  <2>1. IsFiniteSet(S)
    BY <1>1, FS_Subset
  <2>2. IsWellFoundedOn(StrictSubsetOrdering(S), FiniteSubsetsOf(S))
    BY <2>1, FS_StrictSubsetOrderingWellFounded
  <2> HIDE DEF T
  <2> QED BY <1>2, <2>2, WFMin
<1>4. PICK m \in S : W = UpTo(m)
  OBVIOUS
<1>5. ASSUME NEW k \in 1..(m - 1), k \in S
      PROVE  FALSE
  <2>1. m \in 1..n /\ k \in 1..n /\ k < m
    BY <1>5
  <2>2. \A x \in S : x <= k => x <= m
    BY <2>1
  <2>3. m <= m /\ ~(m <= k)
    BY <2>1
  <2>4. UpTo(k) \subseteq UpTo(m) /\ m \in UpTo(m) /\ m \notin UpTo(k)
    BY <2>2, <2>3
  <2>5. UpTo(k) \in T /\ UpTo(k) \subseteq S /\ UpTo(m) \subseteq S
    BY <1>5
  <2>6. <<UpTo(k), UpTo(m)>> \in StrictSubsetOrdering(S)
    BY <2>4, <2>5 DEF StrictSubsetOrdering
  <2> QED BY <1>3, <1>4, <2>5, <2>6
<1> QED BY <1>5

\* The first condition that does not hold decides.
LEMMA FirstDecides ==
  ASSUME NEW rule, NEW n \in Nat, DOMAIN rule.conditions = 1..n, NEW given, NEW m \in 1..n,
         ConditionHolds(rule.conditions[m], given) # "holds",
         \A j \in 1..(m - 1) : ConditionHolds(rule.conditions[j], given) = "holds"
  PROVE  Outcome(rule, given) = ConditionHolds(rule.conditions[m], given)
<1> DEFINE at(k) == ConditionHolds(rule.conditions[k], given)
           Decides(k) == at(k) # "holds" /\ \A j \in 1..(k - 1) : at(j) = "holds"
<1>1. Decides(m)
  OBVIOUS
<1>2. ASSUME NEW k \in 1..n, Decides(k)
      PROVE  k = m
  <2>1. ~(m \in 1..(k - 1)) /\ ~(k \in 1..(m - 1))
    BY <1>1, <1>2
  <2> QED BY <2>1
<1>3. Outcome(rule, given) = at(CHOOSE k \in 1..n : Decides(k))
  BY DEF Outcome
<1> HIDE DEF Decides
<1>4. (CHOOSE k \in 1..n : Decides(k)) = m
  BY <1>1, <1>2
<1> QED BY <1>3, <1>4

\* A rule answered on part of the facts is answered alike on more of them.
LEMMA FullerOutcome ==
  ASSUME NEW rule, NEW n \in Nat, DOMAIN rule.conditions = 1..n, NEW given, NEW more,
         Fuller(given, more), Outcome(rule, given) # "missing"
  PROVE  Outcome(rule, more) = Outcome(rule, given)
<1> DEFINE at(k) == ConditionHolds(rule.conditions[k], given)
           on(k) == ConditionHolds(rule.conditions[k], more)
           S == {k \in 1..n : at(k) # "holds"}
<1>1. \A k \in 1..n : at(k) # "missing" => on(k) = at(k)
  BY DEF ConditionHolds, Fuller
<1>2. CASE S = {}
  <2>1. \A k \in 1..n : at(k) = "holds" /\ on(k) = "holds"
    BY <1>1, <1>2
  <2> QED BY <2>1 DEF Outcome
<1>3. CASE S # {}
  <2>1. PICK m \in S : \A k \in 1..(m - 1) : k \notin S
    <3>1. S \subseteq 1..n
      OBVIOUS
    <3> HIDE DEF S
    <3> QED BY <1>3, <3>1, LeastOf
  <2>2. m \in 1..n /\ at(m) # "holds" /\ \A k \in 1..(m - 1) : at(k) = "holds"
    BY <2>1
  <2>3. Outcome(rule, given) = at(m)
    BY <2>2, FirstDecides
  <2>4. on(m) = at(m) /\ \A k \in 1..(m - 1) : on(k) = "holds"
    BY <1>1, <2>2, <2>3
  <2>5. Outcome(rule, more) = on(m)
    BY <2>2, <2>4, FirstDecides
  <2> QED BY <2>3, <2>4, <2>5
<1> QED BY <1>2, <1>3

LEMMA FullerRule ==
  ASSUME Forest, NEW i \in Positions, NEW given, NEW more, Fuller(given, more),
         Outcome(rules[i].rule, given) # "missing"
  PROVE  Outcome(rules[i].rule, more) = Outcome(rules[i].rule, given)
<1>1. rules[i].rule.conditions \in Seq(Conditions)
  BY FromCatalogue, CatalogueAssumption
<1>2. PICK n \in Nat : DOMAIN rules[i].rule.conditions = 1..n
  BY <1>1
<1> QED BY <1>2, FullerOutcome

\* AppliesByParent, on any vector.
LEMMA AppliesIfReached ==
  ASSUME Forest, NEW i \in Positions, NEW given
  PROVE  AppliesOn(i, given) <=>
           Outcome(rules[i].rule, given) = "holds" /\ ReachedOn(i, given)
<1>1. CASE rules[i].parent = 0
  <2>1. Path(i) = {i}
    BY <1>1 DEF Forest, Path
  <2> QED BY <1>1, <2>1 DEF AppliesOn, RootInScope, ReachedOn
<1>2. CASE rules[i].parent # 0
  <2>1. Path(i) = Path(rules[i].parent) \cup {i}
    BY <1>2 DEF Forest, Path
  <2>2. RootInScope(i)
    BY <1>2 DEF RootInScope
  <2> QED BY <1>2, <2>1, <2>2 DEF AppliesOn, ReachedOn
<1> QED BY <1>1, <1>2

\* As far as the walk over part of the facts came, the same rules are reached and apply.
LEMMA FullerWalk ==
  ASSUME Forest, NEW given, NEW more, Fuller(given, more), NEW n \in 0..Len(rules),
         \A j \in 1..n : SettledOn(j, given)
  PROVE  /\ \A i \in 1..n : AppliesOn(i, more) <=> AppliesOn(i, given)
         /\ \A i \in 1..(n + 1) \cap Positions : ReachedOn(i, more) <=> ReachedOn(i, given)
         /\ \A i \in 1..n : SettledOn(i, more)
<1> DEFINE Same(i) == AppliesOn(i, more) <=> AppliesOn(i, given)
           S == {i \in 1..n : ~Same(i)}
<1>0. Len(rules) \in Nat /\ n \in Nat /\ 1..n \subseteq Positions
  BY DEF Forest, Positions
<1>1. ASSUME NEW i \in Positions, \A k \in 1..(i - 1) : Same(k)
      PROVE  ReachedOn(i, more) <=> ReachedOn(i, given)
  <2>1. rules[i].parent # 0 => Same(rules[i].parent)
    BY <1>1, ParentIsEarlier
  <2> QED BY <2>1 DEF ReachedOn
<1>2. ASSUME NEW i \in 1..n, ReachedOn(i, given)
      PROVE  Outcome(rules[i].rule, more) = Outcome(rules[i].rule, given)
  <2>1. Outcome(rules[i].rule, given) \in {"holds", "fails"}
    BY <1>2 DEF SettledOn
  <2> QED BY <1>0, <2>1, FullerRule
<1>3. S = {}
  <2> SUFFICES ASSUME S # {} PROVE FALSE
    OBVIOUS
  <2>1. PICK i \in S : \A k \in 1..(i - 1) : k \notin S
    <3>1. S \subseteq 1..n
      OBVIOUS
    <3> HIDE DEF S
    <3> QED BY <1>0, <3>1, LeastOf
  <2>2. i \in 1..n /\ i \in Positions /\ ~Same(i)
    BY <1>0, <2>1
  <2>3. \A k \in 1..(i - 1) : Same(k)
    <3>1. 1..(i - 1) \subseteq 1..n
      BY <2>2, <1>0
    <3> QED BY <2>1, <3>1
  <2>4. ReachedOn(i, more) <=> ReachedOn(i, given)
    BY <1>1, <2>2, <2>3
  <2> HIDE DEF Same
  <2>5. Same(i)
    BY <1>2, <2>2, <2>4, AppliesIfReached DEF Same
  <2> QED BY <2>2, <2>5
<1>4. \A i \in 1..n : Same(i)
  BY <1>3
<1>5. ASSUME NEW i \in 1..(n + 1) \cap Positions
      PROVE  ReachedOn(i, more) <=> ReachedOn(i, given)
  <2>1. 1..(i - 1) \subseteq 1..n
    BY <1>0, <1>5
  <2> QED BY <1>1, <1>4, <1>5, <2>1
<1>6. ASSUME NEW i \in 1..n
      PROVE  SettledOn(i, more)
  <2>1. i \in 1..(n + 1) \cap Positions
    BY <1>0
  <2>2. ReachedOn(i, more) <=> ReachedOn(i, given)
    BY <1>5, <2>1
  <2> QED BY <1>2, <2>2 DEF SettledOn
<1> QED BY <1>4, <1>5, <1>6

\* So the end of a walk is the end of the walk over every fuller vector.
LEMMA FullerEnd ==
  ASSUME Forest, NEW given, NEW more, Fuller(given, more), NEW answer,
         EndsOn(given, answer), answer.error # "missing"
  PROVE  EndsOn(more, answer)
<1>0. Len(rules) \in Nat
  BY DEF Forest
<1>1. CASE StopsOn(given, answer)
  <2>1. PICK i \in Positions :
          /\ \A j \in 1..(i - 1) : SettledOn(j, given)
          /\ ReachedOn(i, given) /\ Outcome(rules[i].rule, given) \in Unevaluable
          /\ answer = Refusal(Outcome(rules[i].rule, given))
    BY <1>1 DEF StopsOn
  <2>2. Outcome(rules[i].rule, more) = Outcome(rules[i].rule, given)
    <3>1. Outcome(rules[i].rule, given) # "missing"
      BY <2>1 DEF Refusal
    <3> QED BY <3>1, FullerRule
  <2>3. PICK n \in 0..Len(rules) : n = i - 1
    BY <1>0 DEF Positions
  <2>4. i \in 1..(n + 1) \cap Positions
    BY <1>0, <2>3 DEF Positions
  <2>5. /\ \A j \in 1..n : SettledOn(j, more)
        /\ ReachedOn(i, more) <=> ReachedOn(i, given)
    BY <2>1, <2>3, <2>4, FullerWalk
  <2> QED BY <2>1, <2>2, <2>3, <2>5 DEF EndsOn, StopsOn
<1>2. CASE (\A j \in Positions : SettledOn(j, given)) /\ Concluded(Live(given), answer)
  <2>1. Len(rules) \in 0..Len(rules) /\ Positions = 1..Len(rules)
    BY <1>0 DEF Positions
  <2>2. /\ \A i \in Positions : AppliesOn(i, more) <=> AppliesOn(i, given)
        /\ \A i \in Positions : SettledOn(i, more)
    BY <1>2, <2>1, FullerWalk
  <2>3. Live(more) = Live(given)
    BY <2>2 DEF Live
  <2> QED BY <1>2, <2>2, <2>3 DEF EndsOn
<1> QED BY <1>1, <1>2 DEF EndsOn

\* The order of the audit row is an order: no two rules come before each other.
LEMMA OneIsFirst ==
  ASSUME Forest, OneIdEach, NEW v \in Positions, NEW w \in Positions, Before(v, w), Before(w, v)
  PROVE  v = w
<1>1. \A i \in Positions : Depth(i) \in Nat
  <2> SUFFICES ASSUME NEW i \in Positions PROVE Depth(i) \in Nat
    OBVIOUS
  <2>1. PICK n \in Nat : n = i - 1
    BY DEF Positions
  <2>2. IsFiniteSet(1..n)
    <3>1. 1 \in Int /\ n \in Int
      OBVIOUS
    <3> QED BY <3>1, FS_Interval
  <2>3. rules[i].above \subseteq 1..n
    BY <2>1 DEF Forest
  <2> QED BY <2>2, <2>3, FS_Subset, FS_CardinalityType DEF Depth
<1>2. \A i \in Positions : rules[i].rule.precedence \in Int /\ rules[i].rule.rule_id \in Nat
  BY FromCatalogue, CatalogueAssumption
<1>3. rules[v].rule.rule_id = rules[w].rule.rule_id
  <2> HIDE DEF Depth
  <2>1. /\ Depth(v) \in Nat /\ Depth(w) \in Nat
        /\ rules[v].rule.precedence \in Int /\ rules[w].rule.precedence \in Int
        /\ rules[v].rule.rule_id \in Nat /\ rules[w].rule.rule_id \in Nat
    BY <1>1, <1>2
  <2> QED BY <2>1 DEF Before
<1> QED BY <1>3 DEF OneIdEach

\* A walk has one end.
LEMMA OneEnd ==
  ASSUME Forest, OneIdEach, NEW given, NEW a, NEW b, EndsOn(given, a), EndsOn(given, b)
  PROVE  a = b
<1>1. ASSUME NEW i \in Positions, ReachedOn(i, given), Outcome(rules[i].rule, given) \in Unevaluable
      PROVE  ~SettledOn(i, given)
  BY <1>1 DEF SettledOn, Unevaluable
<1>2. CASE StopsOn(given, a) /\ StopsOn(given, b)
  <2>1. PICK i \in Positions :
          /\ \A j \in 1..(i - 1) : SettledOn(j, given)
          /\ ReachedOn(i, given) /\ Outcome(rules[i].rule, given) \in Unevaluable
          /\ a = Refusal(Outcome(rules[i].rule, given))
    BY <1>2 DEF StopsOn
  <2>2. PICK k \in Positions :
          /\ \A j \in 1..(k - 1) : SettledOn(j, given)
          /\ ReachedOn(k, given) /\ Outcome(rules[k].rule, given) \in Unevaluable
          /\ b = Refusal(Outcome(rules[k].rule, given))
    BY <1>2 DEF StopsOn
  <2>3. ~SettledOn(i, given) /\ ~SettledOn(k, given)
    BY <1>1, <2>1, <2>2
  <2>4. ~(i \in 1..(k - 1)) /\ ~(k \in 1..(i - 1))
    BY <2>1, <2>2, <2>3
  <2>5. i = k
    BY <2>4 DEF Positions, Forest
  <2> QED BY <2>1, <2>2, <2>5
<1>3. ASSUME NEW x, StopsOn(given, x)
      PROVE  ~(\A j \in Positions : SettledOn(j, given))
  BY <1>1, <1>3 DEF StopsOn
<1>4. CASE Concluded(Live(given), a) /\ Concluded(Live(given), b)
  <2>1. Live(given) \subseteq Positions
    BY DEF Live
  <2>2. CASE Live(given) = {}
    BY <1>4, <2>2 DEF Concluded
  <2>3. CASE Live(given) # {}
    <3>1. PICK v \in Live(given) : (\A i \in Live(given) : Before(v, i)) /\ a = Answered(Live(given), v)
      BY <1>4, <2>3 DEF Concluded
    <3>2. PICK w \in Live(given) : (\A i \in Live(given) : Before(w, i)) /\ b = Answered(Live(given), w)
      BY <1>4, <2>3 DEF Concluded
    <3>3. v = w
      BY <2>1, <3>1, <3>2, OneIsFirst
    <3> QED BY <3>1, <3>2, <3>3
  <2> QED BY <2>2, <2>3
<1> QED BY <1>2, <1>3, <1>4 DEF EndsOn

\* The engine gives the end of the walk.
LEMMA LabelIsTheEnd ==
  ASSUME IInv, Remembers, pc = "done", label.error \notin {"malformed", "scope"}
  PROVE  EndsOn(facts, label)
<1>1. \A i : AppliesOn(i, facts) <=> Applies(i)
  BY DEF AppliesOn, Applies
<1>2. Forest /\ Len(rules) \in Nat /\ \A j \in 1..(cursor - 1) : SettledOn(j, facts)
  BY DEF IInv, Forest, Remembers
<1>3. Walked /\ (Stuck \/ (cursor = Len(rules) + 1 /\ (Tied \/ Won)))
  BY DEF IInv, Refusal
<1>4. CASE Stuck
  <2>1. cursor \in Positions /\ Reached(cursor)
    BY <1>4 DEF Stuck
  <2>2. ReachedOn(cursor, facts)
    <3>1. rules[cursor].parent # 0 => rules[cursor].parent \in 1..(cursor - 1)
      BY <1>2, <2>1, ParentIsEarlier
    <3> QED BY <1>1, <1>3, <2>1, <3>1 DEF Reached, ReachedOn, Walked
  <2>3. Outcome(rules[cursor].rule, facts) \in Unevaluable
    BY <1>4 DEF Stuck, Refusal
  <2> QED BY <1>2, <1>4, <2>1, <2>2, <2>3 DEF Stuck, EndsOn, StopsOn
<1>5. CASE cursor = Len(rules) + 1 /\ (Tied \/ Won)
  <2>1. cursor - 1 = Len(rules) /\ Positions = 1..Len(rules)
    BY <1>2, <1>5 DEF Positions
  <2>2. applied = Live(facts)
    BY <1>1, <1>3, <2>1 DEF Walked, Live
  <2>3. \A w \in applied : (\A i \in Contenders(w) : rules[i].rule.polarity = rules[w].rule.polarity)
           <=> \A i \in applied : rules[i].rule.precedence = rules[w].rule.precedence =>
                                    rules[i].rule.polarity = rules[w].rule.polarity
    BY DEF Contenders
  <2>4. Concluded(applied, label)
    BY <1>5, <2>3 DEF Tied, Won, Concluded, Answered
  <2> QED BY <1>2, <2>1, <2>2, <2>4 DEF EndsOn
<1> QED BY <1>3, <1>4, <1>5

\* What is said of a vector changes with the rules and the scope only.
LEMMA SameRulesSameEnd ==
  ASSUME UNCHANGED <<rules, scope>>
  PROVE  \A given, answer :
           /\ \A j : SettledOn(j, given)' <=> SettledOn(j, given)
           /\ EndsOn(given, answer)' <=> EndsOn(given, answer)
<1> SUFFICES ASSUME NEW CONSTANT given, NEW CONSTANT answer
             PROVE  /\ \A j : SettledOn(j, given)' <=> SettledOn(j, given)
                    /\ EndsOn(given, answer)' <=> EndsOn(given, answer)
  OBVIOUS
<1>1. \A i : AppliesOn(i, given)' <=> AppliesOn(i, given)
  BY DEF AppliesOn, Path, RootInScope
<1>2. \A i : ReachedOn(i, given)' <=> ReachedOn(i, given)
  BY <1>1 DEF ReachedOn
<1>3. \A j : SettledOn(j, given)' <=> SettledOn(j, given)
  BY <1>2 DEF SettledOn
<1>4. Positions' = Positions /\ \A i : rules'[i] = rules[i]
  BY DEF Positions
<1>5. StopsOn(given, answer)' <=> StopsOn(given, answer)
  BY <1>2, <1>3, <1>4 DEF StopsOn
<1>6. Live(given)' = Live(given)
  BY <1>1, <1>4 DEF Live
<1>7. Concluded(Live(given), answer)' <=> Concluded(Live(given), answer)
  <2>1. \A v, w : Before(v, w)' <=> Before(v, w)
    BY DEF Before, Depth
  <2>2. \A live, w : Answered(live, w)' = Answered(live, w)
    BY <1>4 DEF Answered
  <2> QED BY <1>6, <2>1, <2>2 DEF Concluded
<1> QED BY <1>3, <1>4, <1>5, <1>7 DEF EndsOn

\* The walk remembers, at every step.
LEMMA InitRemembers == Init => Remembers
BY DEF Init, Remembers, OneIdEach, Positions, NoLabel, Refusal

LEMMA NextRemembers ==
  IInv /\ Remembers /\ [Next]_vars => Remembers'
<1> SUFFICES ASSUME IInv, Remembers, [Next]_vars
             PROVE  Remembers'
  OBVIOUS
<1>0. Len(rules) \in Nat
  BY DEF IInv, Forest
<1>1. CASE Write
  <2>1. PICK node : /\ rules' = Append(rules, node)
                    /\ \A i \in Positions : rules[i].rule.rule_id # node.rule.rule_id
    BY <1>1 DEF Write
  <2>2. /\ Len(rules') = Len(rules) + 1 /\ rules'[Len(rules) + 1] = node
        /\ \A i \in Positions : rules'[i] = rules[i]
    BY <2>1 DEF IInv, Forest, Positions
  <2>3. \A i \in Positions' : i \in Positions \/ i = Len(rules) + 1
    BY <1>0, <2>2 DEF Positions
  <2>4. OneIdEach'
    <3> DEFINE new == Len(rules) + 1
    <3> SUFFICES ASSUME NEW i \in Positions', NEW j \in Positions',
                        rules'[i].rule.rule_id = rules'[j].rule.rule_id
                 PROVE  i = j
      BY DEF OneIdEach
    <3>1. rules'[new] = node /\ (i \in Positions \/ i = new) /\ (j \in Positions \/ j = new)
      BY <2>2, <2>3
    <3> HIDE DEF new
    <3>2. CASE i \in Positions /\ j \in Positions
      BY <2>2, <3>2 DEF OneIdEach, Remembers
    <3>3. CASE i \in Positions /\ j = new
      BY <2>1, <2>2, <3>1, <3>3
    <3>4. CASE i = new /\ j \in Positions
      BY <2>1, <2>2, <3>1, <3>4
    <3> QED BY <3>1, <3>2, <3>3, <3>4
  <2> QED BY <1>1, <2>4 DEF Write, Remembers, NoLabel, Refusal
<1>2. CASE Evaluate
  <2>1. rules' = rules /\ previous' = previous /\ pc = "authoring"
    BY <1>2 DEF Evaluate
  <2>2. OneIdEach'
    BY <2>1 DEF Remembers, OneIdEach, Positions
  <2>3. \/ pc' = "done" /\ label' \in {Refusal("malformed"), Refusal("scope")}
        \/ pc' = "walking" /\ cursor' = 1
    BY <1>2 DEF Evaluate, Refuse, StartWalk
  <2>4. previous' = Refusal("unlabelled")
    BY <2>1 DEF Remembers, NoLabel
  <2> QED BY <2>2, <2>3, <2>4 DEF Remembers, Refusal
<1>3. ASSUME Skip \/ Apply \/ Raise \/ Conclude \/ UNCHANGED vars
      PROVE  /\ UNCHANGED <<rules, scope, facts, previous>>
             /\ OneIdEach'
             /\ \A j : SettledOn(j, facts)' <=> SettledOn(j, facts)
             /\ EndsOn(facts, previous)' <=> EndsOn(facts, previous)
  <2>1. UNCHANGED <<rules, scope, facts, previous>>
    BY <1>3 DEF Skip, Apply, Raise, Conclude, vars
  <2>2. OneIdEach'
    BY <2>1 DEF Remembers, OneIdEach, Positions
  <2> QED BY <2>1, <2>2, SameRulesSameEnd
<1>4. CASE Skip \/ Apply
  <2>1. /\ pc = "walking" /\ pc' = "walking" /\ cursor' = cursor + 1 /\ label' = label
        /\ cursor \in Positions
        /\ ~Reached(cursor) \/ Outcome(rules[cursor].rule, facts) \in {"holds", "fails"}
    BY <1>4 DEF Skip, Apply, Walking
  <2>2. ReachedOn(cursor, facts) => Reached(cursor)
    <3>1. rules[cursor].parent # 0 =>
            rules[cursor].parent \in 1..(cursor - 1) /\ rules[cursor].parent \in Positions
      BY <2>1, ParentIsEarlier DEF IInv
    <3>2. \A i : AppliesOn(i, facts) <=> Applies(i)
      BY DEF AppliesOn, Applies
    <3>3. Walked
      BY <2>1 DEF IInv
    <3> QED BY <3>1, <3>2, <3>3 DEF Reached, ReachedOn, Walked
  <2>3. SettledOn(cursor, facts)
    BY <2>1, <2>2 DEF SettledOn
  <2>4. \A j \in 1..(cursor' - 1) : j \in 1..(cursor - 1) \/ j = cursor
    BY <2>1 DEF Positions
  <2>5. \A j \in 1..(cursor' - 1) : SettledOn(j, facts)
    BY <2>1, <2>3, <2>4 DEF Remembers
  <2> QED BY <1>3, <1>4, <2>1, <2>5 DEF Remembers
<1>5. CASE Raise \/ Conclude
  <2>1. /\ pc = "walking" /\ pc' = "done" /\ cursor' = cursor
        /\ label'.error \notin {"malformed", "scope"}
    <3>1. CASE Raise
      BY <3>1 DEF Raise, Walking, Refuse, Refusal, Unevaluable
    <3>2. CASE Conclude
      <4>1. label'.error \in {"none", "ambiguous"}
        BY <3>2 DEF Conclude, Silent, Decide, Label, Refusal
      <4> QED BY <3>2, <4>1 DEF Conclude
    <3> QED BY <1>5, <3>1, <3>2
  <2> QED BY <1>3, <1>5, <2>1 DEF Remembers
<1>6. CASE UNCHANGED vars
  <2>1. UNCHANGED <<pc, cursor, label>>
    BY <1>6 DEF vars
  <2> QED BY <1>3, <1>6, <2>1 DEF Remembers
<1>7. CASE Supply
  <2>1. /\ UNCHANGED <<rules, scope, label>> /\ previous' = label
        /\ pc = "done" /\ pc' = "walking" /\ cursor' = 1
        /\ label.error \notin {"malformed", "scope"}
    BY <1>7 DEF Supply, StartWalk
  <2>2. OneIdEach'
    BY <2>1 DEF Remembers, OneIdEach, Positions
  <2>3. Fuller(facts, facts')
    BY <1>7 DEF Supply, Fuller
  <2>4. EndsOn(facts, label)
    BY <2>1, LabelIsTheEnd
  <2>5. label.error # "missing" => EndsOn(facts', label)
    BY <2>3, <2>4, FullerEnd DEF IInv
  <2>6. EndsOn(facts, previous)' <=> EndsOn(facts', label)
    BY <2>1, SameRulesSameEnd
  <2> QED BY <2>1, <2>2, <2>5, <2>6 DEF Remembers
<1> QED BY <1>1, <1>2, <1>4, <1>5, <1>6, <1>7 DEF Next

\* A label, or a refusal that is not of a missing attribute, is that of every fuller
\* vector.
THEOREM MoreFactsNeverMatter == Spec => []MoreFactsChangeNothing
<1>1. IInv /\ Remembers => MoreFactsChangeNothing
  <2> SUFFICES ASSUME IInv, Remembers, pc = "done",
                      previous.error \notin {"unlabelled", "missing"}
               PROVE  label = previous
    BY DEF MoreFactsChangeNothing
  <2>1. EndsOn(facts, label) /\ EndsOn(facts, previous)
    BY LabelIsTheEnd DEF Remembers
  <2> QED BY <2>1, OneEnd DEF IInv, Remembers
<1> QED BY <1>1, InitRemembers, NextRemembers, WalkInvariant, PTL DEF Spec

\* Every answer of the engine has a stance exactly when it is not a refusal.
Answer(given) ==
  /\ given \in [stance : Stances \cup {NoStance}, winner : Nat, error : Errors]
  /\ given.stance = NoStance <=> given.error # "none"

\* A refusal has no stance.
LEMMA RefusalIsAnswer ==
  ASSUME NEW error \in Errors, error # "none"
  PROVE  Answer(Refusal(error))
BY DEF Answer, Refusal

\* A label has one.
LEMMA LabelIsAnswer ==
  ASSUME NEW stance \in Stances, NEW winner \in Nat
  PROVE  Answer(Label(stance, winner))
BY DEF Answer, Label, Errors, Stances, NoStance

\* The entitlement a question resolves to is one of the schema's.
LEMMA ResolvedIsEntitlement ==
  ASSUME Forest, NEW entitlement \in Entitlements \cup {"unsaid"}, NEW target
  PROVE  Resolve(entitlement, target) \subseteq Entitlements
<1>1. \A i \in Positions : rules[i].rule.entitlement \in Entitlements
  BY FromCatalogue, CatalogueAssumption
<1> QED BY <1>1 DEF Resolve

\* Every variable keeps its type.
THEOREM TypeCorrect == Spec => []TypeOK
<1> DEFINE Typed ==
      /\ pc \in {"authoring", "walking", "done"}
      /\ pc = "authoring" => cursor = 1 /\ applied = {}
      /\ scope \in Entitlements
      /\ cursor \in 1..(Len(rules) + 1)
      /\ applied \subseteq Positions
      /\ Answer(label) /\ Answer(previous)
<1>1. Init => Typed
  BY RefusalIsAnswer DEF Init, NoLabel, Positions, Errors
<1>2. ASSUME IInv, IInv', Typed, [Next]_vars
      PROVE  Typed'
  <2>1. Forest /\ Len(rules) \in Nat
    BY <1>2 DEF IInv, Forest
  <2>2. CASE Write
    <3>1. Positions \subseteq Positions' /\ Len(rules') = Len(rules) + 1
      BY <2>1, <2>2 DEF Write, Positions, Forest
    <3> QED BY <1>2, <2>1, <2>2, <3>1 DEF Write, Answer
  <2>3. CASE Evaluate
    <3>1. \/ /\ label' \in {Refusal("malformed"), Refusal("scope")} /\ pc' = "done"
             /\ UNCHANGED <<scope, cursor, applied>>
          \/ /\ scope' \in Entitlements /\ pc' = "walking" /\ cursor' = 1 /\ applied' = {}
             /\ UNCHANGED label
      <4>1. UNION Resolutions \subseteq Entitlements
        BY <2>1, ResolvedIsEntitlement DEF Resolutions
      <4> QED BY <2>3, <4>1 DEF Evaluate, Refuse, StartWalk
    <3>2. UNCHANGED <<rules, previous>>
      BY <2>3 DEF Evaluate
    <3>3. Answer(Refusal("malformed")) /\ Answer(Refusal("scope"))
      BY RefusalIsAnswer DEF Errors
    <3>4. Answer(label') /\ Answer(previous')
      BY <1>2, <3>1, <3>2, <3>3
    <3>5. pc = "authoring"
      BY <2>3 DEF Evaluate
    <3>6. CASE pc' = "walking" /\ cursor' = 1 /\ applied' = {} /\ scope' \in Entitlements
      BY <2>1, <3>2, <3>4, <3>6 DEF Answer
    <3>7. CASE pc' = "done" /\ UNCHANGED <<scope, cursor, applied>>
      BY <1>2, <2>1, <3>2, <3>4, <3>7 DEF Positions, Answer
    <3> QED BY <3>1, <3>6, <3>7
  <2>4. CASE Skip \/ Apply
    <3>1. /\ UNCHANGED <<rules, pc, scope, label, previous>>
          /\ cursor \in Positions /\ cursor' = cursor + 1 /\ pc = "walking"
          /\ applied' = applied \/ applied' = applied \cup {cursor}
      BY <2>4 DEF Skip, Apply, Walking
    <3>2. cursor' \in 1..(Len(rules') + 1) /\ applied' \subseteq Positions'
      <4>1. Len(rules') = Len(rules) /\ Positions' = Positions
        BY <3>1 DEF Positions
      <4>2. cursor' \in 1..(Len(rules) + 1)
        BY <2>1, <3>1 DEF Positions
      <4>3. applied' \subseteq Positions
        BY <1>2, <3>1
      <4> QED BY <4>1, <4>2, <4>3
    <3> QED BY <1>2, <3>1, <3>2 DEF Answer
  <2>5. CASE Raise
    <3>1. Answer(Refusal(Outcome(rules[cursor].rule, facts)))
      BY <2>5, RefusalIsAnswer DEF Raise, Unevaluable, Errors
    <3> QED BY <1>2, <2>5, <3>1 DEF Raise, Refuse, Positions, Answer
  <2>6. CASE Conclude
    <3>1. UNCHANGED <<rules, facts, scope, cursor, applied, previous>> /\ pc' = "done"
      BY <2>6 DEF Conclude
    <3>2. Answer(label')
      <4>1. CASE Silent
        BY <4>1, LabelIsAnswer DEF Silent, Stances
      <4>2. CASE Decide
        <5>1. PICK w \in applied :
                label' \in {Label(rules[w].rule.polarity, w), Refusal("ambiguous")}
          BY <4>2 DEF Decide
        <5>2. w \in Nat /\ rules[w].rule.polarity \in Stances
          BY <1>2, <2>1, FromCatalogue, CatalogueAssumption DEF Positions
        <5>3. Answer(Refusal("ambiguous")) /\ Answer(Label(rules[w].rule.polarity, w))
          BY <5>2, RefusalIsAnswer, LabelIsAnswer DEF Errors
        <5> QED BY <5>1, <5>3
      <4> QED BY <2>6, <4>1, <4>2 DEF Conclude
    <3> QED BY <1>2, <3>1, <3>2 DEF Positions, Answer
  <2>7. CASE Supply
    BY <1>2, <2>1, <2>7 DEF Supply, StartWalk, Positions, Answer
  <2>8. CASE UNCHANGED vars
    BY <1>2, <2>8 DEF vars, Positions, Answer
  <2> QED BY <1>2, <2>2, <2>3, <2>4, <2>5, <2>6, <2>7, <2>8 DEF Next
<1>3. IInv /\ Typed => TypeOK
  BY DEF IInv, Forest, TypeOK, Answer
<1> HIDE DEF Typed
<1> QED BY <1>1, <1>2, <1>3, WalkInvariant, PTL DEF Spec

(***************************************************************************)
(* The generator, which asks the engine. Between a sample and what becomes *)
(* of it, the engine walks over the facts of its last message.             *)
(***************************************************************************)
\* What the engine was asked about the sample in hand.
Asked ==
  /\ phase \in {"authoring", "sampling", "labelling", "finished"}
  /\ phase = "authoring" => pc = "authoring" /\ last = NoProbe
  /\ phase # "authoring" => WellFormed
  /\ phase = "labelling" =>
       /\ samples # <<>> /\ pc # "authoring"
       /\ facts = ScenarioFacts(Head(samples))
       /\ scope = rules[Attacked].rule.entitlement

GenInv == IInv /\ Asked /\ ExpectationIsDeclared

\* The walk the generator starts is a walk.
LEMMA SampleKeepsIInv ==
  ASSUME IInv, WellFormed, Sample
  PROVE  IInv'
<1>1. rules' = rules /\ StartWalk
  BY DEF Sample
<1>2. Forest' /\ WellFormed'
  BY <1>1 DEF IInv, Forest, WellFormed, Positions, Path
<1>3. Walked'
  BY <1>1, <1>2, StartIsWalked
<1> QED BY <1>1, <1>2, <1>3 DEF IInv, StartWalk

\* The engine's steps of a walk concern neither the rules nor the question.
LEMMA WalkStepKeeps ==
  ASSUME Skip \/ Apply \/ Raise \/ Conclude
  PROVE  UNCHANGED <<rules, facts, scope>> /\ pc = "walking" /\ pc' \in {"walking", "done"}
BY DEF Skip, Apply, Raise, Conclude, Walking, Refuse

\* What a label of the engine says of the rules that apply to the facts.
LEMMA LabelOfTheFacts ==
  ASSUME IInv, pc = "done", label.error = "none"
  PROVE  LET live == {i \in Positions : AppliesTo(i, facts, scope)}
             top  == {i \in live : \A k \in live : rules[k].rule.precedence <= rules[i].rule.precedence}
         IN IF live = {} THEN label.stance = "denies"
            ELSE \A i \in top : rules[i].rule.polarity = label.stance
<1>1. \A i : AppliesTo(i, facts, scope) <=> Applies(i)
  BY DEF AppliesTo, Applies, RootInScope
<1>2. Won /\ applied = {i \in Positions : Applies(i)}
  BY LabelledIsWalked
<1>3. CASE applied = {} /\ label = Label("denies", 0)
  BY <1>1, <1>2, <1>3 DEF Label
<1>4. ASSUME NEW w \in applied,
             \A i \in applied : Before(w, i),
             \A i \in Contenders(w) : rules[i].rule.polarity = rules[w].rule.polarity,
             label = Label(rules[w].rule.polarity, w),
             NEW i \in applied,
             \A k \in applied : rules[k].rule.precedence <= rules[i].rule.precedence
      PROVE  rules[i].rule.polarity = label.stance
  <2>1. rules[i].rule.precedence \in Int /\ rules[w].rule.precedence \in Int
    BY <1>2, FromCatalogue DEF IInv
  <2>2. rules[w].rule.precedence <= rules[i].rule.precedence /\ Before(w, i)
    BY <1>4
  <2>3. rules[i].rule.precedence = rules[w].rule.precedence
    BY <2>1, <2>2 DEF Before
  <2>4. i \in Contenders(w)
    BY <2>3 DEF Contenders
  <2> QED BY <1>4, <2>4 DEF Label
<1>5. applied # {} => \A i \in applied :
        (\A k \in applied : rules[k].rule.precedence <= rules[i].rule.precedence) =>
          rules[i].rule.polarity = label.stance
  BY <1>2, <1>4 DEF Won
<1>6. {i \in Positions : AppliesTo(i, facts, scope)} = applied
  BY <1>1, <1>2
<1>7. applied = {} => label.stance = "denies"
  BY <1>2 DEF Won, Label
<1> QED BY <1>5, <1>6, <1>7

LEMMA GenInductive == GenInv /\ [GenNext]_genVars => GenInv'
<1> SUFFICES ASSUME GenInv, [GenNext]_genVars PROVE GenInv'
  OBVIOUS
<1>0. IInv /\ Asked /\ ExpectationIsDeclared
  BY DEF GenInv
<1>1. ASSUME rules' = rules, last' = last PROVE ExpectationIsDeclared'
  BY <1>0, <1>1 DEF ExpectationIsDeclared, AppliesTo, Path, Positions
<1>2. ASSUME rules' = rules PROVE WellFormed => WellFormed'
  BY <1>2 DEF WellFormed, Positions
<1>3. ASSUME UNCHANGED vars PROVE IInv' /\ rules' = rules /\ pc' = pc
  BY <1>0, <1>3, NextIInv DEF vars
<1>4. CASE Author
  <2>1. IInv' /\ UNCHANGED progress /\ pc' = pc /\ phase = "authoring"
    BY <1>0, <1>4, NextIInv DEF Author, Next, Write
  <2>2. phase' = phase /\ last' = last
    BY <2>1 DEF progress
  <2> QED BY <1>0, <2>1, <2>2 DEF GenInv, Asked, ExpectationIsDeclared, NoProbe
<1>5. CASE LoadRules \/ NextTurn \/ Finish
  <2>1. UNCHANGED vars /\ last' = last /\ phase' \in {"sampling", "finished"}
        /\ (phase = "authoring" => WellFormed) /\ phase \in {"authoring", "sampling"}
    BY <1>5 DEF LoadRules, NextTurn, Finish
  <2> QED BY <1>0, <1>1, <1>2, <1>3, <2>1 DEF GenInv, Asked
<1>6. CASE Sample
  <2>1. /\ phase = "sampling" /\ phase' = "labelling" /\ samples # <<>>
        /\ UNCHANGED <<rules, samples, turn, last>> /\ pc' = "walking"
        /\ facts' = ScenarioFacts(Head(samples))
        /\ scope' = rules[Attacked].rule.entitlement
    BY <1>6 DEF Sample, StartWalk
  <2>2. IInv'
    BY <1>0, <1>6, <2>1, SampleKeepsIInv DEF Asked
  <2>3. Attacked' = Attacked
    BY <2>1 DEF Attacked, RootOf, Roots
  <2>4. ScenarioFacts(Head(samples))' = ScenarioFacts(Head(samples))
    BY <2>1 DEF ScenarioFacts
  <2> QED BY <1>0, <1>1, <1>2, <2>1, <2>2, <2>3, <2>4 DEF GenInv, Asked
<1>7. CASE Walk
  <2>1. phase = "labelling" /\ UNCHANGED progress /\ (Skip \/ Apply \/ Raise \/ Conclude)
    BY <1>7 DEF Walk
  <2>2. UNCHANGED <<rules, facts, scope>> /\ pc' \in {"walking", "done"}
    BY <2>1, WalkStepKeeps
  <2>3. IInv'
    BY <1>0, <2>1, NextIInv DEF Next
  <2>4. UNCHANGED <<phase, samples, turn, last>>
    BY <2>1 DEF progress
  <2>5. Attacked' = Attacked
    BY <2>2, <2>4 DEF Attacked, RootOf, Roots
  <2>6. ScenarioFacts(Head(samples))' = ScenarioFacts(Head(samples))
    BY <2>4 DEF ScenarioFacts
  <2> QED BY <1>0, <1>1, <1>2, <2>1, <2>2, <2>3, <2>4, <2>5, <2>6 DEF GenInv, Asked
<1>8. CASE Unlabellable \/ RenderFails \/ OracleFails
  <2>1. UNCHANGED vars /\ last' = last /\ phase' = "sampling" /\ phase = "labelling"
    BY <1>8 DEF Unlabellable, RenderFails, OracleFails, Labelled, Advance
  <2> QED BY <1>0, <1>1, <1>2, <1>3, <2>1 DEF GenInv, Asked
<1>9. CASE Emit
  <2>1. /\ UNCHANGED vars /\ phase' = "sampling" /\ phase = "labelling"
        /\ pc = "done" /\ label.error = "none"
        /\ last' = [id |-> ProbeId(Attacked, Strategy), root |-> Attacked,
                    told |-> Head(samples), expected |-> label.stance]
    BY <1>9 DEF Emit, Labelled, Advance, StanceOf
  <2>2. /\ last'.told[Len(last'.told)] = facts /\ last'.expected = label.stance
        /\ rules[last'.root].rule.entitlement = scope
    BY <1>0, <2>1 DEF Asked, ScenarioFacts
  <2>3. rules' = rules /\ Positions' = Positions
    BY <2>1 DEF vars, Positions
  <2>4. \A i, given, entitlement : AppliesTo(i, given, entitlement)' <=> AppliesTo(i, given, entitlement)
    BY <2>3 DEF AppliesTo, Path
  <2>5. ExpectationIsDeclared'
    BY <1>0, <2>1, <2>2, <2>3, <2>4, LabelOfTheFacts DEF ExpectationIsDeclared
  <2> QED BY <1>0, <1>2, <1>3, <2>1, <2>5 DEF GenInv, Asked
<1>10. CASE UNCHANGED genVars
  <2>1. UNCHANGED vars /\ UNCHANGED progress
    BY <1>10 DEF genVars
  <2>2. UNCHANGED <<rules, facts, scope, pc, phase, samples, turn, last>>
    BY <2>1 DEF vars, progress
  <2>3. Attacked' = Attacked
    BY <2>2 DEF Attacked, RootOf, Roots
  <2>4. ScenarioFacts(Head(samples))' = ScenarioFacts(Head(samples))
    BY <2>2 DEF ScenarioFacts
  <2> QED BY <1>0, <1>1, <1>2, <1>3, <2>1, <2>2, <2>3, <2>4 DEF GenInv, Asked
<1> QED BY <1>4, <1>5, <1>6, <1>7, <1>8, <1>9, <1>10 DEF GenNext

\* Commitment C1: the stance every probe expects is what the rules declare for the facts
\* of its last message, whatever the rules, the bases and what the models do.
THEOREM ExpectationsAreDeclared == GenSpec => []ExpectationIsDeclared
<1>1. GenInit => GenInv
  <2>1. GenInit => Init /\ phase = "authoring" /\ last = NoProbe
    BY DEF GenInit
  <2> QED BY <2>1, InitIInv DEF GenInv, Asked, ExpectationIsDeclared, Init
<1>2. GenInv => ExpectationIsDeclared
  BY DEF GenInv
<1> QED BY <1>1, <1>2, GenInductive, PTL DEF GenSpec
===============================================================================
