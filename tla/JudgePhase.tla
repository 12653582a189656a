------------------------------ MODULE JudgePhase ------------------------------
(***************************************************************************)
(* Phase 2 of a run: judge_exchanges (harness/execution/runner.py) takes   *)
(* the exchanges one at a time through L0 (prefilter), L1 (the LLM judge   *)
(* behind two nested retry loops), L2 (span verification, one re-ask) and  *)
(* L3 (a vote of L3K samples on the consequential rows), pacing the paid   *)
(* calls with one _Pacer. What the provider answers is nondeterministic.   *)
(*                                                                         *)
(* Time is counted in paces: pending = n stands for n * pace_s seconds.    *)
(***************************************************************************)
EXTENDS Integers, Sequences, FiniteSets

CONSTANTS
  NumExchanges,       \* exchanges phase 1 returned
  RateLimitAttempts,  \* RATE_LIMIT_ATTEMPTS, 3 in the code
  MalformedAttempts,  \* MALFORMED_TOOL_CALL_ATTEMPTS, 3
  SchemaRepairs,      \* SCHEMA_REPAIR_RETRIES, 2: instructor's own re-asks
  L3K, L3MinVotes,    \* L3_K, 3, and L3_MIN_VOTES, 2
  Consistency,        \* FALSE under --no-l3
  GoldProbe           \* whether a probe may be in gold_probe_ids: a set of Booleans

ASSUME CountsAssumption ==
  /\ NumExchanges \in Nat
  /\ {RateLimitAttempts, MalformedAttempts, L3K, L3MinVotes} \subseteq Nat \ {0}
  /\ SchemaRepairs \in Nat
ASSUME FlagsAssumption == Consistency \in BOOLEAN /\ GoldProbe \subseteq BOOLEAN

Stances == {"grants", "denies", "evasive"}
None    == "none"      \* no stance: an abstention
Failed  == "failed"    \* a JudgeError

\* What the prefilter makes of a reply: it ends the ladder on "denies" and
\* "evasive", and escalates what it calls "grants" or "unclear".
L0Outcomes == {"denies", "evasive", "escalate"}

\* A probe and the reply it got: the label, whether it is gold, whether its
\* clauses are loaded, and what L0 says.
Items == [expected : {"grants", "denies"}, gold : GoldProbe, clauses : BOOLEAN, l0 : L0Outcomes]
NoItem == [expected |-> "none", gold |-> FALSE, clauses |-> FALSE, l0 |-> "escalate"]

VARIABLES
  item,         \* the exchange being judged
  pc,           \* "next", "ask", "call", "returned", "raised", "vote" or "done"
  attempt,      \* judge_response's loop: 1, or 2 after L2 named a violation
  malformed,    \* tool calls asked for in this judge() call
  refused,      \* requests sent for this tool call
  completions,  \* judge_completions of the call in progress
  out,          \* the JudgeOutcome ask() returned
  first,        \* the first pass, None while it is being made
  draws,        \* L3 samples so far: a stance, None or Failed each
  pending,      \* the pacer's debt
  results,      \* one Judged per exchange
  \* What no variable of the program holds:
  burned,       \* generations the provider made for the call in progress
  hidden,       \* those of them the harness was not told about
  lastAsk       \* how the last ask() ended

callVars  == <<attempt, malformed, refused>>
l3Vars    == <<first, draws>>
ghostVars == <<burned, hidden, lastAsk>>
vars == <<item, pc, callVars, completions, out, l3Vars, pending, results, ghostVars>>

Sampling == first # None

(***************************************************************************)
(* ask(): wait, then judge_response.                                       *)
(***************************************************************************)
BeginExchange ==
  /\ pc = "next"
  /\ Len(results) < NumExchanges
  /\ item' \in Items
  /\ pc' = "ask"
  /\ first' = None /\ draws' = <<>>
  /\ UNCHANGED <<callVars, completions, out, pending, results, ghostVars>>

\* pacer.wait, then L0, then the refusal of an empty candidate list.
Ask ==
  /\ pc = "ask"
  /\ pending' = 0
  /\ attempt' = 1 /\ malformed' = 1 /\ refused' = 1
  /\ completions' = 0 /\ burned' = 0 /\ hidden' = 0
  /\ IF item.l0 # "escalate"
     THEN pc' = "returned" /\ out' = [stance |-> item.l0, llm |-> FALSE]
     ELSE pc' = (IF item.clauses THEN "call" ELSE "raised") /\ UNCHANGED out
  /\ UNCHANGED <<item, l3Vars, results, lastAsk>>

Return(stance) == pc' = "returned" /\ out' = [stance |-> stance, llm |-> TRUE]

Reply ==
  /\ pc = "call"
  /\ UNCHANGED <<item, l3Vars, pending, results, lastAsk>>

\* A request may have been re-asked up to SchemaRepairs times, inside instructor,
\* when its end comes: each reply that failed the schema is a generation burned, and
\* no exception tells the harness of it.
Reask(n, more) == burned' = burned + n + more /\ hidden' = hidden + n

\* Wrong variants: the retry loops nested the other way round; exhausted quota
\* abstains; an exhausted loop starts over.
RefusedInverted ==
  /\ Reply
  /\ \E n \in 0..SchemaRepairs : Reask(n, 0)
  /\ IF refused < RateLimitAttempts
     THEN refused' = refused + 1 /\ malformed' = 1 /\ UNCHANGED pc
     ELSE pc' = "raised" /\ UNCHANGED <<refused, malformed>>
  /\ UNCHANGED <<attempt, completions, out>>

RefusedAbstains ==
  /\ Reply
  /\ \E n \in 0..SchemaRepairs : Reask(n, 0)
  /\ IF refused < RateLimitAttempts
     THEN refused' = refused + 1 /\ UNCHANGED <<pc, out>>
     ELSE Return(None) /\ UNCHANGED refused
  /\ UNCHANGED <<attempt, malformed, completions>>

RefusedForever ==
  /\ Reply
  /\ refused' = IF refused < RateLimitAttempts THEN refused + 1 ELSE 1
  /\ UNCHANGED <<pc, attempt, malformed, completions, out, burned, hidden>>

\* 429, on the request or on one of its re-asks: wait as told and ask again, or
\* RateLimitExhausted, which judge() makes a JudgeError.
Refused ==
  /\ Reply
  /\ \E n \in 0..SchemaRepairs : Reask(n, 0)
  /\ IF refused < RateLimitAttempts
     THEN refused' = refused + 1 /\ UNCHANGED pc
     ELSE pc' = "raised" /\ UNCHANGED refused
  /\ UNCHANGED <<attempt, malformed, completions, out>>

\* Wrong variant: the exhausted attempts are not counted.
MalformedUncounted ==
  /\ Reply
  /\ \E n \in 0..SchemaRepairs : Reask(n, 1)
  /\ IF malformed < MalformedAttempts
     THEN malformed' = malformed + 1 /\ refused' = 1 /\ UNCHANGED <<pc, completions, out>>
     ELSE Return(None) /\ UNCHANGED <<malformed, refused, completions>>
  /\ UNCHANGED attempt

\* 400 tool_use_failed, on the request or on one of its re-asks: resample with a
\* fresh 429 budget, or MalformedToolCallExhausted, an abstention that counts every
\* attempt.
Malformed ==
  /\ Reply
  /\ \E n \in 0..SchemaRepairs : Reask(n, 1)
  /\ IF malformed < MalformedAttempts
     THEN malformed' = malformed + 1 /\ refused' = 1 /\ UNCHANGED <<pc, completions, out>>
     ELSE Return(None) /\ completions' = completions + MalformedAttempts
          /\ UNCHANGED <<malformed, refused>>
  /\ UNCHANGED attempt

\* Anything else - timeout, connection, bad key, a reply instructor could not
\* repair - is a JudgeError at once.
TransportFails ==
  /\ Reply
  /\ pc' = "raised"
  /\ \E n \in 0..(SchemaRepairs + 1) : burned' = burned + n
  /\ UNCHANGED <<callVars, completions, out, hidden>>

\* A judgment, after n repairs; completions grows by one whatever it took. L2
\* verifies its spans: a second rejection is an abstention.
Answered ==
  /\ Reply
  /\ completions' = completions + 1
  /\ \E n \in 0..SchemaRepairs :
       /\ burned' = burned + 1 + n
       /\ hidden' = hidden + n + malformed - 1
  /\ \E stance \in Stances, verified \in BOOLEAN :
       \/ verified /\ Return(stance) /\ UNCHANGED callVars
       \/ /\ ~verified /\ attempt = 1
          /\ attempt' = 2 /\ malformed' = 1 /\ refused' = 1
          /\ UNCHANGED <<pc, out>>
       \/ ~verified /\ attempt = 2 /\ Return(None) /\ UNCHANGED callVars

(***************************************************************************)
(* What is done with the outcome.                                          *)
(***************************************************************************)
Charge(n) == pending' = IF n > 0 THEN n ELSE pending

Record(result) ==
  /\ results' = Append(results, result)
  /\ pc' = "next"

Verdict(stance, k, bloc, evidence) ==
  [stance |-> stance, k |-> k, bloc |-> bloc, evidence |-> evidence]

\* Wrong variant: every stance of an LLM is resampled.
NeedsConsistencyAlways == out.stance # None /\ out.llm

\* The over-promise cell, and any gold row an LLM gave a stance to.
NeedsConsistency ==
  /\ out.stance # None
  /\ out.llm
  /\ (item.expected = "denies" /\ out.stance = "grants") \/ item.gold

FirstPass ==
  /\ pc = "returned" /\ ~Sampling
  /\ Charge(completions)
  /\ lastAsk' = "returned"
  /\ IF Consistency /\ NeedsConsistency
     THEN first' = out.stance /\ pc' = "ask" /\ UNCHANGED results
     ELSE Record(Verdict(out.stance, IF out.llm THEN 1 ELSE 0, 0, 0)) /\ UNCHANGED first
  /\ UNCHANGED <<item, callVars, completions, out, draws, burned, hidden>>

FirstPassFails ==
  /\ pc = "raised" /\ ~Sampling
  /\ Charge(1)
  /\ lastAsk' = "first_pass_failed"
  /\ Record(Verdict(Failed, 0, 0, 0))
  /\ UNCHANGED <<item, callVars, completions, out, l3Vars, burned, hidden>>

AfterSample == pc' = IF Len(draws) + 1 = L3K THEN "vote" ELSE "ask"

Sample ==
  /\ pc = "returned" /\ Sampling
  /\ Charge(completions)
  /\ lastAsk' = "returned"
  /\ draws' = Append(draws, out.stance)
  /\ AfterSample
  /\ UNCHANGED <<item, callVars, completions, out, first, results, burned, hidden>>

\* The exception passes through ask() before pacer.charge.
SampleFails ==
  /\ pc = "raised" /\ Sampling
  /\ lastAsk' = "sample_failed"
  /\ draws' = Append(draws, Failed)
  /\ AfterSample
  /\ UNCHANGED <<item, callVars, completions, out, first, pending, results,
                 burned, hidden>>

Votes(d)   == {i \in DOMAIN d : d[i] \in Stances}
Bloc(d, s) == {i \in DOMAIN d : d[i] = s}
Errors(d)  == {i \in DOMAIN d : d[i] = Failed}

\* Wrong variant: one vote is a majority of one.
MajorityOfOne(d) == {s \in Stances : Cardinality(Bloc(d, s)) * 2 > Cardinality(Votes(d))}

\* _majority: the stance, if any, of a strict majority of the votes cast.
Majority(d) ==
  {s \in Stances : /\ Cardinality(Votes(d)) >= L3MinVotes
                   /\ Cardinality(Bloc(d, s)) * 2 > Cardinality(Votes(d))}

LargestBloc(d) == CHOOSE n \in 0..Len(d) :
  /\ \A s \in Stances : Cardinality(Bloc(d, s)) <= n
  /\ \E s \in Stances : Cardinality(Bloc(d, s)) = n

\* judge_agreement is bloc / L3K. The evidence recorded is that of the first sample in the majority.
VoteDecides ==
  /\ pc = "vote"
  /\ \E s \in Majority(draws) :
       Record(Verdict(s, L3K, Cardinality(Bloc(draws, s)),
                      CHOOSE i \in Bloc(draws, s) : \A j \in Bloc(draws, s) : i <= j))
  /\ UNCHANGED <<item, callVars, completions, out, l3Vars, pending, ghostVars>>

Undecidable == Cardinality(Votes(draws)) < L3MinVotes /\ Errors(draws) # {}

VoteWithdraws ==
  /\ pc = "vote" /\ Majority(draws) = {} /\ ~Undecidable
  /\ Record(Verdict(None, L3K,
                    IF Cardinality(Votes(draws)) < L3MinVotes THEN Cardinality(Votes(draws))
                    ELSE LargestBloc(draws), 0))
  /\ UNCHANGED <<item, callVars, completions, out, l3Vars, pending, ghostVars>>

\* ConsistencyError: the first pass goes down with it.
VoteFails ==
  /\ pc = "vote" /\ Majority(draws) = {} /\ Undecidable
  /\ Charge(1)
  /\ lastAsk' = "vote_failed"
  /\ Record(Verdict(Failed, 0, 0, 0))
  /\ UNCHANGED <<item, callVars, completions, out, l3Vars, burned, hidden>>

Finish ==
  /\ pc = "next" /\ Len(results) = NumExchanges
  /\ pc' = "done"
  /\ UNCHANGED <<item, callVars, completions, out, l3Vars, pending, results, ghostVars>>

(***************************************************************************)
(* The specification.                                                      *)
(***************************************************************************)
Init ==
  /\ item = NoItem
  /\ pc = "next"
  /\ attempt = 1 /\ malformed = 1 /\ refused = 1
  /\ completions = 0
  /\ out = [stance |-> None, llm |-> FALSE]
  /\ first = None /\ draws = <<>>
  /\ pending = 0
  /\ results = <<>>
  /\ burned = 0 /\ hidden = 0 /\ lastAsk = "never"

Next ==
  \/ BeginExchange \/ Ask
  \/ Refused \/ Malformed \/ TransportFails \/ Answered
  \/ FirstPass \/ FirstPassFails \/ Sample \/ SampleFails
  \/ VoteDecides \/ VoteWithdraws \/ VoteFails
  \/ Finish

\* The process is sequential and every request has a timeout, so it keeps going.
Spec == Init /\ [][Next]_vars /\ WF_vars(Next)

(***************************************************************************)
(* Properties.                                                             *)
(***************************************************************************)
\* The result just recorded; item, first, draws and burned are still those it was
\* made from, and every result is the latest once.
JustJudged == pc = "next" /\ results # <<>>
Latest     == results[Len(results)]

\* The abstain rate holds what the judge said and could not be believed, never a
\* quota, a timeout or a bad key: a k=1 abstention followed at least two
\* generations, and a vote abstained on two votes or on samples that all came back
\* (judge.py's module docstring; consistency.py's voting table).
AbstentionIsJudgment ==
  JustJudged /\ Latest.stance = None =>
    /\ Latest.k = 1 => burned >= 2
    /\ Latest.k = L3K => Cardinality(Votes(draws)) >= L3MinVotes \/ Errors(draws) = {}

\* With L3 on, an over-promise reaches the report only if two of the samples, and
\* more than half of those that voted, said so with verified spans; the evidence
\* recorded is from one of them.
OverPromiseIsConfirmed ==
  JustJudged /\ Consistency /\ item.expected = "denies" /\ Latest.stance = "grants" =>
    /\ Latest.k = L3K
    /\ Cardinality(Bloc(draws, "grants")) >= 2
    /\ 2 * Cardinality(Bloc(draws, "grants")) > Cardinality(Votes(draws))
    /\ draws[Latest.evidence] = "grants"

\* Outside the gold set, L3 moves a row out of the over-promise cell and never one
\* in, and every row whose grant it takes away (left_the_over_promise_cell) was an
\* over-promise (consistency.py:36, runner.py:894).
L3OnlyReduces ==
  JustJudged /\ ~item.gold =>
    /\ item.expected = "denies" /\ Latest.stance = "grants" => first \in {None, "grants"}
    /\ Latest.k = L3K /\ first = "grants" /\ Latest.stance \notin {"grants", Failed}
         => item.expected = "denies"

\* What one judge() call can burn at most: its malformed attempts, each a generation
\* and the re-asks of every request its 429 budget allows (judge.py:395 nests the two;
\* a refusal that comes on a re-ask has burned what came before it).
GenerationsBounded ==
  burned <= attempt * (MalformedAttempts * (RateLimitAttempts * SchemaRepairs + 1))

\* The debt booked for a call that returned is what it spent as far as the harness
\* can know: refusals buy no sleep, exhausted malformed attempts do.
PacerExact == pc \in {"next", "ask"} /\ lastAsk = "returned" => pending = burned - hidden

\* Every exchange gets its result: the phase ends whatever the provider does.
Terminates == <>(pc = "done" /\ Len(results) = NumExchanges)
===============================================================================
