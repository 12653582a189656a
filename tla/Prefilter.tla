------------------------------ MODULE Prefilter ------------------------------
(***************************************************************************)
(* L0 of the judge (harness/judge/prefilter.py): a reply is read clause by *)
(* clause, cues are booked, and the cues decide a stance. "denies" and     *)
(* "evasive" are final; "grants" and "unclear" go to the LLM.              *)
(*                                                                         *)
(* A clause is the cues the lexicons find in it, in the order in which     *)
(* their matches END, and whether it is a question. "cannot" is both a     *)
(* refusal and a negator; "lookup" is the inability to consult a record.   *)
(***************************************************************************)
EXTENDS Integers, Sequences

CONSTANTS
  Clauses,      \* clauses a reply may have
  MaxClausesL0  \* bound on the clauses of a reply

Cues == {"commitment", "not", "refusal", "cannot", "hedge", "lookup"}

Negators == {"not", "cannot"}
Refusals == {"refusal", "cannot"}

ASSUME ClausesAssumption ==
  \A c \in Clauses : c \in [cues : Seq(Cues), question : BOOLEAN]

VARIABLES
  heard,    \* the clauses read so far
  booked,   \* what classify has booked for them
  stance    \* its answer, or "reading"

prefilterVars == <<heard, booked, stance>>

\* The lists of cues, of which only the emptiness decides.
NoCues == [commitment |-> FALSE, refusal |-> FALSE, hedge |-> FALSE, question |-> FALSE]

Has(clause, kinds) == \E i \in DOMAIN clause.cues : clause.cues[i] \in kinds

\* Wrong variant: a negator after the verb reaches back to it.
NegatedInClause(clause, i) == Has(clause, Negators)

\* A negator that ends no later than a commitment is in force for it.
Negated(clause, i) == \E j \in 1..i : clause.cues[j] \in Negators

Commits(clause) ==
  \E i \in DOMAIN clause.cues : clause.cues[i] = "commitment" /\ ~Negated(clause, i)

\* Wrong variant: a failed lookup refuses.
RefusesByLookup(clause) ==
  \/ \E i \in DOMAIN clause.cues : clause.cues[i] = "commitment" /\ Negated(clause, i)
  \/ Has(clause, Refusals)

\* A negated commitment is a refusal; a refusal beside a lookup is none.
Refuses(clause) ==
  \/ \E i \in DOMAIN clause.cues : clause.cues[i] = "commitment" /\ Negated(clause, i)
  \/ Has(clause, Refusals) /\ ~Has(clause, {"lookup"})

\* The body of classify's loop.
Book(b, clause) ==
  [commitment |-> b.commitment \/ Commits(clause),
   refusal    |-> b.refusal \/ Refuses(clause),
   hedge      |-> b.hedge \/ Has(clause, {"hedge"}),
   question   |-> b.question \/ (Commits(clause) /\ clause.question)]

\* Wrong variant: a refusal wins over a commitment.
StanceRefusalWins(b) ==
  CASE b.refusal    -> "denies"
    [] b.commitment -> IF b.hedge \/ b.question THEN "unclear" ELSE "grants"
    [] OTHER        -> "evasive"

\* The decision table. A reply without a clause is evasive.
Stance(b) ==
  CASE b.commitment /\ b.refusal  -> "unclear"
    [] b.commitment /\ ~b.refusal -> IF b.hedge \/ b.question THEN "unclear" ELSE "grants"
    [] ~b.commitment /\ b.refusal -> "denies"
    [] OTHER                      -> "evasive"

proceeds_to_l1(s) == s \in {"grants", "unclear"}

ReadClause ==
  /\ stance = "reading" /\ Len(heard) < MaxClausesL0
  /\ \E clause \in Clauses :
       /\ heard' = Append(heard, clause)
       /\ booked' = Book(booked, clause)
  /\ UNCHANGED stance

Settle ==
  /\ stance = "reading"
  /\ stance' = Stance(booked)
  /\ UNCHANGED <<heard, booked>>

PrefilterInit == heard = <<>> /\ booked = NoCues /\ stance = "reading"
PrefilterNext == ReadClause \/ Settle
PrefilterSpec == PrefilterInit /\ [][PrefilterNext]_prefilterVars

(***************************************************************************)
(* Properties.                                                             *)
(***************************************************************************)
\* A commitment no word before it in its clause negates.
Asserted(clause) ==
  \E i \in DOMAIN clause.cues :
    /\ clause.cues[i] = "commitment"
    /\ \A j \in 1..i : clause.cues[j] \notin Negators

\* No final answer hides a commitment: a reply that asserts an entitlement anywhere, before
\* or after whatever it refuses, goes to the judge, because what L0 ends no later layer
\* sees (prefilter.py:50-67).
FinalCommitsToNothing ==
  stance \in {"denies", "evasive"} => \A k \in DOMAIN heard : ~Asserted(heard[k])

\* A final denial was said: some clause negates a commitment or refuses without being an
\* inability to look something up, so that no phantom under-serve is booked
\* (prefilter.py:86-90).
DenialWasSaid ==
  stance = "denies" => \E k \in DOMAIN heard :
    LET cues == heard[k].cues IN
    \/ \E i, j \in DOMAIN cues : j < i /\ cues[j] \in Negators /\ cues[i] = "commitment"
    \/ /\ \E i \in DOMAIN cues : cues[i] \in Refusals
       /\ \A i \in DOMAIN cues : cues[i] # "lookup"

\* Nothing an agent goes on to say takes a reply away from the judge: a refusal, a hedge
\* or a question after a commitment escalates and never settles it (prefilter.py:71-79).
MoreWordsOnlyEscalate ==
  [][proceeds_to_l1(Stance(booked)) => proceeds_to_l1(Stance(booked'))]_booked
===============================================================================
