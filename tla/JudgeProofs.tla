----------------------------- MODULE JudgeProofs ------------------------------
(* Theorems about JudgePhase and RowAssembly, for any number of exchanges,    *)
(* retries, repairs and samples: what the ladder, the pacer and the vote keep *)
(* whatever the provider answers; and about Prefilter, for every lexicon's    *)
(* finds and replies of any length.                                           *)
EXTENDS RowAssembly, Prefilter, FiniteSetTheorems, NaturalsInduction, TLAPS

\* The assumptions, one number at a time.
LEMMA Numbers ==
  /\ NumExchanges \in Nat /\ SchemaRepairs \in Nat
  /\ RateLimitAttempts \in Nat /\ RateLimitAttempts >= 1
  /\ MalformedAttempts \in Nat /\ MalformedAttempts >= 1
  /\ L3K \in Nat /\ L3K >= 1
  /\ L3MinVotes \in Nat /\ L3MinVotes >= 1
  /\ Consistency \in BOOLEAN
  BY CountsAssumption, FlagsAssumption

USE Numbers

(***************************************************************************)
(* Types.                                                                  *)
(***************************************************************************)
Results == [stance : Stances \cup {None, Failed}, k : {0, 1, L3K}, bloc : 0..L3K, evidence : 0..L3K]

TypeOK ==
  /\ item \in Items \cup {NoItem}
  /\ pc \in {"next", "ask", "call", "returned", "raised", "vote", "done"}
  /\ attempt \in {1, 2} /\ malformed \in 1..MalformedAttempts /\ refused \in 1..RateLimitAttempts
  /\ completions \in Nat /\ pending \in Nat
  /\ out \in [stance : Stances \cup {None}, llm : BOOLEAN]
  /\ first \in Stances \cup {None}
  /\ draws \in Seq(Stances \cup {None, Failed}) /\ Len(draws) <= L3K
  /\ results \in Seq(Results)
  /\ burned \in Nat /\ hidden \in Nat
  /\ lastAsk \in {"never", "returned", "first_pass_failed", "sample_failed", "vote_failed"}

(***************************************************************************)
(* The inductive invariant, a conjunct for each stage of a judge call.     *)
(***************************************************************************)
Judging == pc \in {"ask", "call", "returned", "raised", "vote"}

\* What one malformed attempt can burn, and one ask(); what the attempts, the refusals
\* and the ask before this request can have burned.
PerTry   == RateLimitAttempts * SchemaRepairs + 1
PerAsk   == MalformedAttempts * PerTry
Tried    == (malformed - 1) * PerTry
Waits == (refused - 1) * SchemaRepairs
Earlier  == IF attempt = 1 THEN 0 ELSE PerAsk

\* The books of the call in progress: the pacer owes nothing, and what has been
\* generated is what the loops say has been asked for.
Calling ==
  pc = "call" =>
    /\ pending = 0
    /\ burned - hidden = completions + malformed - 1
    /\ burned >= attempt + malformed - 2
    /\ burned <= Earlier + Tried + Waits

Returned ==
  pc = "returned" =>
    /\ pending = 0
    /\ burned - hidden = completions
    /\ out.stance = None => burned >= 2 \/ MalformedAttempts = 1
    /\ ~out.llm => completions = 0 /\ out.stance \in {"denies", "evasive"}

Vote ==
  /\ pc = "vote" => Sampling /\ Len(draws) = L3K
  /\ Judging /\ pc # "vote" => Len(draws) < L3K

\* What is resampled is an over-promise or gold.
Sampled ==
  Judging => /\ item \in Items
             /\ Sampling => Consistency
             /\ Sampling => item.gold \/ (item.expected = "denies" /\ first = "grants")

\* A result no model stands behind: the prefilter's own verdict.
Unmodelled ==
  JustJudged =>
    /\ item \in Items
    /\ Latest.k = 0 /\ Latest.stance # Failed =>
         completions = 0 /\ Latest.stance \in {"denies", "evasive"}

\* Between two calls the pacer owes what the last one spent, as far as known.
Booked == pc = "vote" /\ lastAsk = "returned" => pending = burned - hidden

IInv ==
  /\ TypeOK /\ Calling /\ Returned /\ Vote /\ Sampled /\ Unmodelled
  /\ Booked /\ PacerExact /\ GenerationsBounded

(***************************************************************************)
(* Votes are counted over a finite sequence.                               *)
(***************************************************************************)
LEMMA BlocsAreCounted ==
  ASSUME NEW d \in Seq(Stances \cup {None, Failed}), NEW s
  PROVE  /\ Bloc(d, s) \subseteq 1..Len(d) /\ Votes(d) \subseteq 1..Len(d)
         /\ IsFiniteSet(Bloc(d, s)) /\ IsFiniteSet(Votes(d))
         /\ Cardinality(Bloc(d, s)) \in 0..Len(d)
         /\ Cardinality(Votes(d)) \in 0..Len(d)
<1>1. Len(d) \in Nat /\ DOMAIN d = 1..Len(d)
  OBVIOUS
<1>2. Bloc(d, s) \subseteq 1..Len(d) /\ Votes(d) \subseteq 1..Len(d)
  BY <1>1 DEF Bloc, Votes
<1>3. IsFiniteSet(1..Len(d)) /\ Cardinality(1..Len(d)) = Len(d)
  <2>1. PICK n \in Nat : n = Len(d)
    BY <1>1
  <2>2. IsFiniteSet(1..n) /\ Cardinality(1..n) = IF 1 > n THEN 0 ELSE n - 1 + 1
    <3>1. 1 \in Int /\ n \in Int
      OBVIOUS
    <3>2. QED
      BY <3>1, FS_Interval
  <2>3. QED
    BY <2>1, <2>2
<1>4. QED
  BY <1>1, <1>2, <1>3, FS_Subset, FS_CardinalityType

\* The largest bloc is one of three counts.
LEMMA LargestIsABloc ==
  ASSUME NEW d \in Seq(Stances \cup {None, Failed})
  PROVE  LargestBloc(d) \in 0..Len(d)
<1> DEFINE C(s) == Cardinality(Bloc(d, s))
<1>1. \A s \in Stances : C(s) \in 0..Len(d)
  BY BlocsAreCounted
<1>2. \E t \in Stances : \A s \in Stances : C(s) <= C(t)
  <2>1. C("grants") \in Int /\ C("denies") \in Int /\ C("evasive") \in Int
    BY <1>1 DEF Stances
  <2>2. QED
    BY <2>1 DEF Stances
<1>3. \E n \in 0..Len(d) : (\A s \in Stances : C(s) <= n) /\ (\E s \in Stances : C(s) = n)
  BY <1>1, <1>2
<1>4. QED
  BY <1>3 DEF LargestBloc

\* The evidence of a majority is of a sample of it: a finite set of numbers has
\* a least element, the one below which the set is smallest.
LEMMA EvidenceIsOfTheBloc ==
  ASSUME NEW S, S \subseteq Nat, S # {}, IsFiniteSet(S)
  PROVE  (CHOOSE i \in S : \A j \in S : i <= j) \in S
<1> DEFINE UpTo(i) == {j \in S : j <= i}
           T == {UpTo(i) : i \in S}
<1>1. T \subseteq FiniteSubsetsOf(S) /\ T # {}
  <2>1. \A i \in S : UpTo(i) \subseteq S /\ IsFiniteSet(UpTo(i))
    BY FS_Subset
  <2>2. \A V \in T : V \subseteq S /\ IsFiniteSet(V)
    BY <2>1
  <2>3. T # {}
    <3>1. PICK i \in S : TRUE
      OBVIOUS
    <3>2. UpTo(i) \in T
      OBVIOUS
    <3>3. QED
      BY <3>2
  <2>4. QED
    BY <2>2, <2>3 DEF FiniteSubsetsOf
<1>2. PICK W \in T : \A V \in T : ~ (<<V, W>> \in StrictSubsetOrdering(S))
  <2>1. IsWellFoundedOn(StrictSubsetOrdering(S), FiniteSubsetsOf(S))
    BY FS_StrictSubsetOrderingWellFounded
  <2> HIDE DEF T
  <2>2. QED
    BY <1>1, <2>1, WFMin
<1>3. PICK i \in S : W = UpTo(i)
  OBVIOUS
<1>4. ASSUME NEW j \in S, j < i
      PROVE  FALSE
  <2>0. i \in Nat /\ j \in Nat
    OBVIOUS
  <2>1. UpTo(j) \subseteq UpTo(i) /\ i \in UpTo(i) /\ i \notin UpTo(j)
    <3>1. \A x \in S : x <= j => x <= i
      BY <1>4, <2>0
    <3>2. i <= i /\ ~(i <= j)
      BY <1>4, <2>0
    <3>3. QED
      BY <3>1, <3>2, Zenon
  <2>2. <<UpTo(j), W>> \in StrictSubsetOrdering(S)
    BY <1>3, <2>1 DEF StrictSubsetOrdering
  <2>3. QED
    BY <1>2, <2>2
<1>5. \A j \in S : i <= j
  BY <1>4
<1>6. QED
  BY <1>5

\* A majority has a sample in it, and with two votes or more it has two.
LEMMA BlocIsNotEmpty ==
  ASSUME TypeOK, NEW s \in Majority(draws)
  PROVE  /\ Bloc(draws, s) # {} /\ Bloc(draws, s) \subseteq Nat /\ IsFiniteSet(Bloc(draws, s))
         /\ 2 * Cardinality(Bloc(draws, s)) > Cardinality(Votes(draws))
         /\ L3MinVotes > 1 => Cardinality(Bloc(draws, s)) >= 2
<1>1. /\ Cardinality(Bloc(draws, s)) * 2 > Cardinality(Votes(draws))
      /\ Cardinality(Votes(draws)) >= L3MinVotes
  BY DEF Majority
<1>2. Cardinality(Bloc(draws, s)) \in Nat /\ Cardinality(Votes(draws)) \in Nat
  BY BlocsAreCounted DEF TypeOK
<1>3. Cardinality(Bloc(draws, s)) # 0
  BY <1>1, <1>2
<1>4. Bloc(draws, s) # {}
  BY <1>3, FS_EmptySet
<1>5. QED
  BY <1>1, <1>2, <1>4, BlocsAreCounted DEF TypeOK

(***************************************************************************)
(* Every step keeps the types.                                             *)
(***************************************************************************)
LEMMA TypeInit == Init => TypeOK
  BY DEF Init, TypeOK, Results

LEMMA VerdictsAreResults ==
  ASSUME NEW answer \in Stances \cup {None, Failed}, NEW k \in {0, 1, L3K},
         NEW bloc \in 0..L3K, NEW evidence \in 0..L3K
  PROVE  Verdict(answer, k, bloc, evidence) \in Results
  BY DEF Verdict, Results

LEMMA WithdrawalsAreResults ==
  /\ Verdict(Failed, 0, 0, 0) \in Results
  /\ \A n \in 0..L3K : Verdict(None, L3K, n, 0) \in Results
  BY DEF Verdict, Results

\* What Record appends is a result.
LEMMA RecordedIsTyped ==
  ASSUME TypeOK, NEW r \in Results, Record(r)
  PROVE  /\ results' \in Seq(Results) /\ results' # <<>> /\ pc' = "next"
         /\ Len(results') = Len(results) + 1 /\ results'[Len(results')] = r
  BY DEF TypeOK, Record

LEMMA ReturnIsTyped ==
  ASSUME NEW answer \in Stances \cup {None}, Return(answer)
  PROVE  pc' = "returned" /\ out' \in [stance : Stances \cup {None}, llm : BOOLEAN]
  BY DEF Return

LEMMA TypeCalls ==
  ASSUME TypeOK, BeginExchange \/ Ask \/ Refused \/ Malformed \/ TransportFails \/ Answered \/ Finish
  PROVE  TypeOK'
<1> USE DEF TypeOK, callVars, l3Vars, ghostVars
<1>1. CASE BeginExchange
  BY <1>1 DEF BeginExchange
<1>2. CASE Ask
  <2>1. item.l0 # "escalate" => [stance |-> item.l0, llm |-> FALSE] \in [stance : Stances \cup {None}, llm : BOOLEAN]
    BY DEF Items, NoItem, L0Outcomes, Stances
  <2>2. out' \in [stance : Stances \cup {None}, llm : BOOLEAN]
    BY <1>2, <2>1 DEF Ask
  <2>3. QED
    BY <1>2, <2>2 DEF Ask
<1>3. CASE Refused
  <2>1. PICK n \in 0..SchemaRepairs : burned' = burned + n + 0 /\ hidden' = hidden + n
    BY <1>3 DEF Refused, Reask
  <2>2. burned' \in Nat /\ hidden' \in Nat
    BY <2>1
  <2>3. /\ refused' \in 1..RateLimitAttempts /\ pc' \in {"call", "raised"}
        /\ UNCHANGED <<item, attempt, malformed, completions, pending, out, first, draws, results, lastAsk>>
    BY <1>3, CountsAssumption DEF Refused, Reply
  <2>4. QED
    BY <2>2, <2>3
<1>4. CASE Malformed
  <2>0. PICK n \in 0..SchemaRepairs : burned' = burned + n + 1 /\ hidden' = hidden + n
    BY <1>4 DEF Malformed, Reask
  <2>1. /\ malformed' \in 1..MalformedAttempts /\ refused' \in 1..RateLimitAttempts
        /\ completions' \in Nat /\ burned' \in Nat /\ hidden' \in Nat
    BY <1>4, <2>0, CountsAssumption DEF Malformed
  <2>2. /\ out' \in [stance : Stances \cup {None}, llm : BOOLEAN]
        /\ pc' \in {"call", "returned"}
    <3>1. CASE malformed < MalformedAttempts
      BY <1>4, <3>1 DEF Malformed, Reply
    <3>2. CASE ~(malformed < MalformedAttempts)
      <4>1. Return(None)
        BY <1>4, <3>2 DEF Malformed
      <4>2. QED
        BY <4>1, ReturnIsTyped
    <3>3. QED
      BY <3>1, <3>2
  <2>3. QED
    BY <1>4, <2>1, <2>2 DEF Malformed, Reply
<1>5. CASE TransportFails
  BY <1>5 DEF TransportFails, Reply
<1>6. CASE Answered
  <2>1. completions' \in Nat /\ burned' \in Nat /\ hidden' \in Nat
    <3>1. PICK n \in 0..SchemaRepairs : burned' = burned + 1 + n /\ hidden' = hidden + n + malformed - 1
      BY <1>6 DEF Answered
    <3>2. completions' = completions + 1
      BY <1>6 DEF Answered
    <3>3. QED
      BY <3>1, <3>2
  <2>2. PICK answer \in Stances, verified \in BOOLEAN :
       \/ verified /\ Return(answer) /\ UNCHANGED callVars
       \/ /\ ~verified /\ attempt = 1
          /\ attempt' = 2 /\ malformed' = 1 /\ refused' = 1
          /\ UNCHANGED <<pc, out>>
       \/ ~verified /\ attempt = 2 /\ Return(None) /\ UNCHANGED callVars
    BY <1>6 DEF Answered
  <2>3. /\ out' \in [stance : Stances \cup {None}, llm : BOOLEAN]
        /\ pc' \in {"call", "returned"}
        /\ attempt' \in {1, 2} /\ malformed' \in 1..MalformedAttempts
        /\ refused' \in 1..RateLimitAttempts
    <3>0. pc = "call"
      BY <1>6 DEF Answered, Reply
    <3>1. CASE Return(answer) /\ UNCHANGED callVars
      BY <3>1, ReturnIsTyped
    <3>2. CASE Return(None) /\ UNCHANGED callVars
      BY <3>2, ReturnIsTyped
    <3>3. CASE /\ attempt' = 2 /\ malformed' = 1 /\ refused' = 1
               /\ UNCHANGED <<pc, out>>
      BY <3>0, <3>3
    <3>4. QED
      BY <2>2, <3>1, <3>2, <3>3
  <2>4. QED
    BY <1>6, <2>1, <2>3 DEF Answered, Reply
<1>7. CASE Finish
  BY <1>7 DEF Finish
<1>8. QED
  BY <1>1, <1>2, <1>3, <1>4, <1>5, <1>6, <1>7

LEMMA TypeOutcomes ==
  ASSUME TypeOK, Vote, FirstPass \/ FirstPassFails \/ Sample \/ SampleFails
  PROVE  TypeOK'
<1> USE DEF TypeOK, callVars, l3Vars, ghostVars
<1>1. ASSUME NEW n \in Nat, Charge(n)
      PROVE  pending' \in Nat
  BY <1>1 DEF Charge
<1>2. CASE FirstPass
  <2>1. pending' \in Nat
    BY <1>1, <1>2 DEF FirstPass
  <2>2. CASE Consistency /\ NeedsConsistency
    BY <1>2, <2>1, <2>2 DEF FirstPass
  <2>3. CASE ~(Consistency /\ NeedsConsistency)
    <3>1. Verdict(out.stance, IF out.llm THEN 1 ELSE 0, 0, 0) \in Results
      BY VerdictsAreResults
    <3>2. results' \in Seq(Results) /\ pc' = "next" /\ first' = first
      BY <1>2, <2>3, <3>1, RecordedIsTyped DEF FirstPass
    <3>3. QED
      BY <1>2, <2>1, <3>2 DEF FirstPass
  <2>4. QED
    BY <2>2, <2>3
<1>3. CASE FirstPassFails
  <2>1. Verdict(Failed, 0, 0, 0) \in Results
    BY WithdrawalsAreResults
  <2>2. results' \in Seq(Results) /\ pc' = "next"
    BY <1>3, <2>1, RecordedIsTyped DEF FirstPassFails
  <2>3. pending' \in Nat
    BY <1>1, <1>3 DEF FirstPassFails
  <2>4. QED
    BY <1>3, <2>2, <2>3 DEF FirstPassFails
<1>4. ASSUME NEW x \in Stances \cup {None, Failed}, draws' = Append(draws, x), AfterSample,
             pc \in {"returned", "raised"}
      PROVE  /\ draws' \in Seq(Stances \cup {None, Failed}) /\ Len(draws') <= L3K
             /\ pc' \in {"vote", "ask"}
  <2>1. Len(draws) < L3K
    BY <1>4 DEF Vote, Judging
  <2>2. QED
    BY <1>4, <2>1 DEF AfterSample
<1>5. CASE Sample
  <2>1. pending' \in Nat
    BY <1>1, <1>5 DEF Sample
  <2>2. out.stance \in Stances \cup {None, Failed}
    OBVIOUS
  <2>3. QED
    BY <1>4, <1>5, <2>1, <2>2 DEF Sample
<1>6. CASE SampleFails
  BY <1>4, <1>6 DEF SampleFails
<1>7. QED
  BY <1>2, <1>3, <1>5, <1>6

\* What a vote records, decided or withdrawn, is a result.
LEMMA MajoritiesAreResults ==
  ASSUME TypeOK, Vote, pc = "vote", NEW s \in Majority(draws)
  PROVE  Verdict(s, L3K, Cardinality(Bloc(draws, s)),
                 CHOOSE i \in Bloc(draws, s) : \A j \in Bloc(draws, s) : i <= j) \in Results
<1> DEFINE evidence == CHOOSE i \in Bloc(draws, s) : \A j \in Bloc(draws, s) : i <= j
<1>0. Len(draws) = L3K /\ draws \in Seq(Stances \cup {None, Failed})
  BY DEF Vote, TypeOK
<1>1. evidence \in Bloc(draws, s)
  BY BlocIsNotEmpty, EvidenceIsOfTheBloc
<1>2. s \in Stances
  BY DEF Majority
<1>3. QED
  BY <1>0, <1>1, <1>2, BlocsAreCounted, VerdictsAreResults

LEMMA WithdrawnCounts ==
  ASSUME TypeOK, Vote, pc = "vote"
  PROVE  (IF Cardinality(Votes(draws)) < L3MinVotes THEN Cardinality(Votes(draws))
          ELSE LargestBloc(draws)) \in 0..L3K
  BY BlocsAreCounted, LargestIsABloc DEF Vote, TypeOK

LEMMA TypeVotes ==
  ASSUME TypeOK, Vote, VoteDecides \/ VoteWithdraws \/ VoteFails
  PROVE  TypeOK'
<1> USE DEF TypeOK, callVars, l3Vars, ghostVars
<1>0. pc = "vote"
  BY DEF VoteDecides, VoteWithdraws, VoteFails
<1>1. CASE VoteDecides
  <2>1. results' \in Seq(Results) /\ pc' = "next"
    BY <1>0, <1>1, MajoritiesAreResults, RecordedIsTyped DEF VoteDecides
  <2>2. QED
    BY <1>1, <2>1 DEF VoteDecides
<1>2. CASE VoteWithdraws
  <2>1. results' \in Seq(Results) /\ pc' = "next"
    BY <1>0, <1>2, WithdrawnCounts, WithdrawalsAreResults, RecordedIsTyped DEF VoteWithdraws
  <2>2. QED
    BY <1>2, <2>1 DEF VoteWithdraws
<1>3. CASE VoteFails
  <2>1. results' \in Seq(Results) /\ pc' = "next"
    BY <1>3, WithdrawalsAreResults, RecordedIsTyped DEF VoteFails
  <2>2. pending' \in Nat
    BY <1>3 DEF VoteFails, Charge
  <2>3. QED
    BY <1>3, <2>1, <2>2 DEF VoteFails
<1>4. QED
  BY <1>1, <1>2, <1>3

(***************************************************************************)
(* A call of the judge: what the retry loops have burned is what they have *)
(* counted, and the ladder gives a stance of the prefilter's only unpaid.  *)
(***************************************************************************)
LEMMA MoreTimes ==
  ASSUME NEW m \in Nat, NEW M \in Nat, m <= M, NEW P \in Nat
  PROVE  m * P \in Nat /\ M * P \in Nat /\ m * P <= M * P
<1>1. PICK d \in Nat : M = m + d
  <2>1. M - m \in Nat /\ M = m + (M - m)
    OBVIOUS
  <2>2. QED
    BY <2>1
<1>2. m * P \in Nat /\ d * P \in Nat /\ M * P = m * P + d * P
  BY <1>1
<1>3. QED
  BY <1>2

LEMMA OnceMore ==
  ASSUME NEW m \in Nat \ {0}, NEW P \in Nat
  PROVE  (m - 1) * P \in Nat /\ m * P = (m - 1) * P + P
<1>1. PICK d \in Nat : m = d + 1
  <2>1. m - 1 \in Nat /\ m = (m - 1) + 1
    OBVIOUS
  <2>2. QED
    BY <2>1
<1>2. d * P \in Nat /\ (d + 1) * P = d * P + P
  OBVIOUS
<1>3. m - 1 = d
  BY <1>1
<1>4. QED
  BY <1>1, <1>2, <1>3

\* An attempt has room for the requests its refusals leave, an ask() for its attempts.
LEMMA Budgets ==
  ASSUME TypeOK
  PROVE  /\ PerTry \in Nat /\ PerAsk \in Nat /\ Tried \in Nat /\ Waits \in Nat
         /\ Waits + SchemaRepairs + 1 <= PerTry
         /\ Tried + PerTry <= PerAsk
         /\ malformed * PerTry = Tried + PerTry
         /\ refused * SchemaRepairs = Waits + SchemaRepairs
         /\ attempt * PerAsk = Earlier + PerAsk
<1>1. /\ RateLimitAttempts \in Nat /\ MalformedAttempts \in Nat /\ SchemaRepairs \in Nat
      /\ malformed \in Nat \ {0} /\ refused \in Nat \ {0} /\ attempt \in {1, 2}
      /\ malformed <= MalformedAttempts /\ refused <= RateLimitAttempts
  BY CountsAssumption DEF TypeOK
<1>2. refused * SchemaRepairs <= RateLimitAttempts * SchemaRepairs
      /\ RateLimitAttempts * SchemaRepairs \in Nat
  BY <1>1, MoreTimes
<1>3. Waits \in Nat /\ refused * SchemaRepairs = Waits + SchemaRepairs
  BY <1>1, OnceMore DEF Waits
<1>4. PerTry \in Nat /\ Waits + SchemaRepairs + 1 <= PerTry
  BY <1>1, <1>2, <1>3 DEF PerTry
<1>5. malformed * PerTry <= PerAsk /\ PerAsk \in Nat
  BY <1>1, <1>4, MoreTimes DEF PerAsk
<1>6. Tried \in Nat /\ malformed * PerTry = Tried + PerTry
  BY <1>1, <1>4, OnceMore DEF Tried
<1>7. attempt * PerAsk = Earlier + PerAsk
  <2>1. 1 * PerAsk = PerAsk /\ 2 * PerAsk = PerAsk + PerAsk
    BY <1>5
  <2>2. QED
    BY <1>1, <1>5, <2>1 DEF Earlier
<1>8. QED
  BY <1>3, <1>4, <1>5, <1>6, <1>7

LEMMA AskOpensTheBooks ==
  ASSUME IInv, Ask
  PROVE  Calling' /\ Returned' /\ GenerationsBounded'
<1>1. /\ pending' = 0 /\ completions' = 0 /\ burned' = 0 /\ hidden' = 0
      /\ attempt' = 1 /\ malformed' = 1
  BY DEF Ask
<1>2. GenerationsBounded' /\ (Earlier + Tried + Waits = 0)'
  <2>1. PerTry \in Nat /\ PerAsk \in Nat /\ SchemaRepairs \in Nat
    BY Budgets, CountsAssumption DEF IInv
  <2>2. refused' = 1
    BY DEF Ask
  <2>3. 0 * PerTry = 0 /\ 0 * SchemaRepairs = 0 /\ 1 * PerAsk = PerAsk
    BY <2>1
  <2>4. Earlier' = 0 /\ Tried' = 0 /\ Waits' = 0
    BY <1>1, <2>2, <2>3 DEF Earlier, Tried, Waits, PerTry, PerAsk
  <2>5. GenerationsBounded'
    BY <1>1, <2>1, <2>3 DEF GenerationsBounded, PerAsk, PerTry
  <2>6. QED
    BY <2>4, <2>5
<1>3. CASE item.l0 # "escalate"
  <2>1. pc' = "returned" /\ out' = [stance |-> item.l0, llm |-> FALSE] /\ pc = "ask"
    BY <1>3 DEF Ask
  <2>2. item.l0 \in {"denies", "evasive"}
    BY <1>3, <2>1 DEF IInv, Sampled, Judging, Items, L0Outcomes
  <2>3. QED
    BY <1>1, <1>2, <2>1, <2>2 DEF Calling, Returned, None
<1>4. CASE item.l0 = "escalate"
  <2>1. pc' \in {"call", "raised"}
    BY <1>4 DEF Ask
  <2>2. QED
    BY <1>1, <1>2, <2>1 DEF Calling, Returned
<1>5. QED
  BY <1>3, <1>4

\* Whatever ends a request, it burns no more than the request's re-asks and a reply.
LEMMA RequestsBurn ==
  ASSUME IInv, Refused \/ Malformed \/ TransportFails \/ Answered
  PROVE  /\ pc = "call" /\ pending = 0 /\ pending' = 0
         /\ burned' \in Nat /\ burned' <= Earlier + Tried + Waits + SchemaRepairs + 1
         /\ burned' <= Earlier + PerAsk
<1>1. pc = "call" /\ pending' = pending /\ burned <= Earlier + Tried + Waits /\ pending = 0
  BY DEF IInv, Calling, Refused, Malformed, TransportFails, Answered, Reply
<1>2. burned \in Nat /\ SchemaRepairs \in Nat /\ Earlier \in Nat
  BY Budgets, CountsAssumption DEF IInv, TypeOK, Earlier
<1>3. \E n \in 0..(SchemaRepairs + 1) : burned' = burned + n
  <2>1. CASE Refused
    <3>1. PICK n \in 0..SchemaRepairs : burned' = burned + n + 0
      BY <2>1 DEF Refused, Reask
    <3>2. n \in 0..(SchemaRepairs + 1) /\ burned' = burned + n
      BY <1>2, <3>1
    <3>3. QED
      BY <3>2
  <2>2. CASE Malformed
    <3>1. PICK n \in 0..SchemaRepairs : burned' = burned + n + 1
      BY <2>2 DEF Malformed, Reask
    <3>2. n + 1 \in 0..(SchemaRepairs + 1) /\ burned' = burned + (n + 1)
      BY <1>2, <3>1
    <3>3. QED
      BY <3>2
  <2>3. CASE TransportFails
    BY <2>3 DEF TransportFails
  <2>4. CASE Answered
    <3>1. PICK n \in 0..SchemaRepairs : burned' = burned + 1 + n
      BY <2>4 DEF Answered
    <3>2. n + 1 \in 0..(SchemaRepairs + 1) /\ burned' = burned + (n + 1)
      BY <1>2, <3>1
    <3>3. QED
      BY <3>2
  <2>5. QED
    BY <2>1, <2>2, <2>3, <2>4
<1>4. PICK n \in 0..(SchemaRepairs + 1) : burned' = burned + n
  BY <1>3
<1>5. burned' \in Nat /\ burned' <= Earlier + Tried + Waits + SchemaRepairs + 1
  BY <1>1, <1>2, <1>4, Budgets DEF IInv
<1>6. burned' <= Earlier + PerAsk
  BY <1>2, <1>5, Budgets DEF IInv
<1>7. QED
  BY <1>1, <1>5, <1>6

LEMMA CallsAreBounded ==
  ASSUME IInv, Refused \/ Malformed \/ TransportFails \/ Answered
  PROVE  GenerationsBounded'
<1>1. burned' \in Nat /\ burned' <= attempt * PerAsk /\ PerAsk \in Nat
  BY RequestsBurn, Budgets DEF IInv
<1>2. attempt' = attempt \/ (attempt = 1 /\ attempt' = 2)
  BY DEF Refused, Malformed, TransportFails, Answered, callVars
<1>3. 1 * PerAsk = PerAsk /\ 2 * PerAsk = PerAsk + PerAsk
  BY <1>1
<1>4. burned' <= attempt' * PerAsk
  BY <1>1, <1>2, <1>3
<1>5. QED
  BY <1>4 DEF GenerationsBounded, PerAsk, PerTry

LEMMA CallsKeepTheBooks ==
  ASSUME IInv, Refused \/ Malformed \/ TransportFails \/ Answered
  PROVE  Calling' /\ Returned' /\ GenerationsBounded'
<1>0. GenerationsBounded' /\ PerTry' = PerTry /\ PerAsk' = PerAsk
  BY CallsAreBounded DEF PerTry, PerAsk
<1>1. /\ pc = "call" /\ pending = 0 /\ pending' = 0
      /\ burned - hidden = completions + malformed - 1
      /\ burned >= attempt + malformed - 2
      /\ burned <= Earlier + Tried + Waits
      /\ burned' \in Nat /\ burned' <= Earlier + Tried + Waits + SchemaRepairs + 1
      /\ burned' <= Earlier + PerAsk
  BY RequestsBurn DEF IInv, Calling
<1>2. /\ attempt \in {1, 2} /\ malformed \in 1..MalformedAttempts
      /\ completions \in Nat /\ burned \in Nat /\ hidden \in Nat
      /\ refused \in 1..RateLimitAttempts /\ SchemaRepairs \in Nat
  BY CountsAssumption DEF IInv, TypeOK
<1>b. /\ PerTry \in Nat /\ PerAsk \in Nat /\ Tried \in Nat /\ Waits \in Nat /\ Earlier \in Nat
      /\ Waits + SchemaRepairs + 1 <= PerTry
      /\ malformed * PerTry = Tried + PerTry
      /\ refused * SchemaRepairs = Waits + SchemaRepairs
  BY Budgets DEF IInv, Earlier
<1>z. 0 * PerTry = 0 /\ 0 * SchemaRepairs = 0
  BY <1>2, <1>b
<1>3. CASE Refused
  <2>0. PICK n \in 0..SchemaRepairs : burned' = burned + n + 0 /\ hidden' = hidden + n
    BY <1>3 DEF Refused, Reask
  <2>1. UNCHANGED <<attempt, malformed, completions, out>>
    BY <1>3 DEF Refused
  <2>2. /\ burned' - hidden' = completions' + malformed' - 1
        /\ burned' >= attempt' + malformed' - 2
    BY <1>1, <1>2, <2>0, <2>1
  <2>3. CASE refused < RateLimitAttempts
    <3>1. refused' = refused + 1 /\ pc' = "call"
      BY <1>1, <1>3, <2>3 DEF Refused
    <3>2. Waits' = refused * SchemaRepairs /\ Tried' = Tried /\ Earlier' = Earlier
      <4>1. refused' - 1 = refused
        BY <1>2, <3>1
      <4>2. QED
        BY <1>0, <2>1, <4>1 DEF Waits, Tried, Earlier
    <3>3. burned' <= Earlier' + Tried' + Waits'
      BY <1>1, <1>2, <1>b, <2>0, <3>2
    <3>4. QED
      BY <1>0, <1>1, <2>2, <3>1, <3>3 DEF Calling, Returned
  <2>4. CASE ~(refused < RateLimitAttempts)
    <3>1. pc' = "raised"
      BY <1>3, <2>4 DEF Refused
    <3>2. QED
      BY <1>0, <3>1 DEF Calling, Returned
  <2>5. QED
    BY <2>3, <2>4
<1>4. CASE Malformed
  <2>0. PICK n \in 0..SchemaRepairs : burned' = burned + n + 1 /\ hidden' = hidden + n
    BY <1>4 DEF Malformed, Reask
  <2>1. attempt' = attempt
    BY <1>4 DEF Malformed
  <2>3. CASE malformed < MalformedAttempts
    <3>1. malformed' = malformed + 1 /\ pc' = "call" /\ completions' = completions /\ refused' = 1
      BY <1>1, <1>4, <2>3 DEF Malformed
    <3>2. /\ burned' - hidden' = completions' + malformed' - 1
          /\ burned' >= attempt' + malformed' - 2
      BY <1>1, <1>2, <2>0, <2>1, <3>1
    <3>3. Tried' = Tried + PerTry /\ Waits' = 0 /\ Earlier' = Earlier
      <4>1. malformed' - 1 = malformed /\ refused' - 1 = 0
        BY <1>2, <3>1
      <4>2. QED
        BY <1>0, <1>b, <1>z, <2>1, <4>1 DEF Waits, Tried, Earlier
    <3>4. burned' <= Earlier' + Tried' + Waits'
      BY <1>1, <1>2, <1>b, <3>3
    <3>5. QED
      BY <1>0, <1>1, <3>1, <3>2, <3>4 DEF Calling, Returned
  <2>4. CASE ~(malformed < MalformedAttempts)
    <3>1. /\ pc' = "returned" /\ out' = [stance |-> None, llm |-> TRUE]
          /\ completions' = completions + MalformedAttempts
      BY <1>4, <2>4 DEF Malformed, Return
    <3>2. malformed = MalformedAttempts
      BY <1>2, <2>4
    <3>3. burned' >= 2 \/ MalformedAttempts = 1
      BY <1>1, <1>2, <2>0, <3>2
    <3>4. burned' - hidden' = completions'
      BY <1>1, <1>2, <2>0, <3>1, <3>2
    <3>5. QED
      BY <1>0, <1>1, <3>1, <3>3, <3>4 DEF Calling, Returned
  <2>5. QED
    BY <2>3, <2>4
<1>5. CASE TransportFails
  <2>1. pc' = "raised"
    BY <1>5 DEF TransportFails
  <2>2. QED
    BY <1>0, <2>1 DEF Calling, Returned
<1>6. CASE Answered
  <2>1. PICK n \in 0..SchemaRepairs :
          burned' = burned + 1 + n /\ hidden' = hidden + n + malformed - 1
    BY <1>6 DEF Answered
  <2>2. completions' = completions + 1
    BY <1>6 DEF Answered
  <2>3. burned' - hidden' = completions'
    BY <1>1, <1>2, <2>1, <2>2
  <2>4. PICK answer \in Stances, verified \in BOOLEAN :
       \/ verified /\ Return(answer) /\ UNCHANGED callVars
       \/ /\ ~verified /\ attempt = 1
          /\ attempt' = 2 /\ malformed' = 1 /\ refused' = 1
          /\ UNCHANGED <<pc, out>>
       \/ ~verified /\ attempt = 2 /\ Return(None) /\ UNCHANGED callVars
    BY <1>6 DEF Answered
  <2>5. CASE Return(answer) /\ UNCHANGED callVars
    <3>1. /\ pc' = "returned" /\ out' = [stance |-> answer, llm |-> TRUE] /\ answer # None
          /\ attempt' = attempt
      BY <2>5 DEF Return, callVars, Stances, None
    <3>2. QED
      BY <1>0, <1>1, <2>3, <3>1 DEF Calling, Returned
  <2>6. CASE /\ attempt = 1 /\ attempt' = 2 /\ malformed' = 1 /\ refused' = 1
             /\ UNCHANGED <<pc, out>>
    <3>1. Earlier = 0 /\ Earlier' = PerAsk /\ Tried' = 0 /\ Waits' = 0
      <4>1. malformed' - 1 = 0 /\ refused' - 1 = 0
        BY <2>6
      <4>2. QED
        BY <1>0, <1>z, <2>6, <4>1 DEF Waits, Tried, Earlier
    <3>2. burned' <= Earlier' + Tried' + Waits'
      BY <1>1, <1>2, <1>b, <3>1
    <3>3. burned' >= attempt' + malformed' - 2 /\ burned' - hidden' = completions' + malformed' - 1
      BY <1>1, <1>2, <2>1, <2>3, <2>6
    <3>4. pc' = "call"
      BY <1>1, <2>6
    <3>5. QED
      BY <1>0, <1>1, <3>2, <3>3, <3>4 DEF Calling, Returned
  <2>7. CASE attempt = 2 /\ Return(None) /\ UNCHANGED callVars
    <3>1. /\ pc' = "returned" /\ out' = [stance |-> None, llm |-> TRUE]
          /\ attempt' = attempt
      BY <2>7 DEF Return, callVars
    <3>2. burned' >= 2
      BY <1>1, <1>2, <2>1, <2>7
    <3>3. QED
      BY <1>0, <1>1, <2>3, <3>1, <3>2 DEF Calling, Returned
  <2>8. QED
    BY <2>4, <2>5, <2>6, <2>7
<1>7. QED
  BY <1>3, <1>4, <1>5, <1>6

\* Outside a call its books are closed, and stay as they are.
LEMMA OutcomesKeepTheBooks ==
  ASSUME IInv, \/ BeginExchange \/ FirstPass \/ FirstPassFails \/ Sample \/ SampleFails
               \/ VoteDecides \/ VoteWithdraws \/ VoteFails \/ Finish
  PROVE  /\ Calling' /\ Returned' /\ GenerationsBounded'
         /\ UNCHANGED <<item, burned, hidden, completions, out, attempt>> \/ BeginExchange
         /\ UNCHANGED <<burned, hidden, completions, out, attempt>>
<1>1. pc' \in {"next", "ask", "vote", "done"}
  BY DEF BeginExchange, FirstPass, FirstPassFails, Sample, SampleFails, VoteDecides, VoteWithdraws,
         VoteFails, Finish, AfterSample, Record
<1>2. /\ UNCHANGED <<burned, hidden, completions, out, attempt>>
      /\ UNCHANGED item \/ BeginExchange
  BY DEF BeginExchange, FirstPass, FirstPassFails, Sample, SampleFails, VoteDecides, VoteWithdraws,
         VoteFails, Finish, callVars, ghostVars
<1>3. GenerationsBounded'
  BY <1>2 DEF IInv, GenerationsBounded
<1>4. QED
  BY <1>1, <1>2, <1>3 DEF Calling, Returned

(***************************************************************************)
(* The pacer owes what the last call spent.                                *)
(***************************************************************************)
LEMMA PacerKept ==
  ASSUME IInv, Next
  PROVE  PacerExact' /\ Booked'
<1> USE DEF PacerExact, Booked
<1>0. /\ completions \in Nat /\ pending \in Nat /\ burned \in Nat /\ hidden \in Nat
      /\ pc = "returned" => pending = 0 /\ burned - hidden = completions
  BY DEF IInv, TypeOK, Returned
<1>1. CASE Ask \/ Refused \/ Malformed \/ TransportFails \/ Answered
  <2>1. pc' \in {"call", "returned", "raised"}
    BY <1>1 DEF Ask, Refused, Malformed, TransportFails, Answered, Reply, Return
  <2>2. QED
    BY <2>1
<1>2. CASE BeginExchange \/ Finish \/ VoteDecides \/ VoteWithdraws
  <2>1. /\ UNCHANGED <<pending, burned, hidden, lastAsk>>
        /\ pc \in {"next", "vote"} /\ pc' \in {"ask", "done", "next"}
    BY <1>2 DEF BeginExchange, Finish, VoteDecides, VoteWithdraws, ghostVars, Record
  <2>2. QED
    BY <2>1 DEF IInv
<1>3. CASE FirstPass \/ Sample
  <2>1. /\ UNCHANGED <<burned, hidden>> /\ pc = "returned"
        /\ pending' = IF completions > 0 THEN completions ELSE pending
    BY <1>3 DEF FirstPass, Sample, Charge
  <2>2. pending' = burned - hidden
    BY <1>0, <2>1
  <2>3. QED
    BY <2>1, <2>2
<1>4. CASE FirstPassFails \/ SampleFails \/ VoteFails
  BY <1>4 DEF FirstPassFails, SampleFails, VoteFails
<1>5. QED
  BY <1>1, <1>2, <1>3, <1>4 DEF Next

(***************************************************************************)
(* The vote: its samples are counted, and only what it may change is       *)
(* resampled.                                                              *)
(***************************************************************************)
LEMMA VoteKept ==
  ASSUME IInv, Next
  PROVE  Vote' /\ Sampled'
<1> USE DEF Vote, Sampled, Judging, Sampling
<1>0. L3K \in Nat /\ L3K >= 1 /\ draws \in Seq(Stances \cup {None, Failed})
  BY DEF IInv, TypeOK
<1>1. CASE Ask \/ Refused \/ Malformed \/ TransportFails \/ Answered
  <2>1. /\ UNCHANGED <<item, first, draws>> /\ pc \in {"ask", "call"}
        /\ pc' \in {"call", "returned", "raised"}
    BY <1>1 DEF Ask, Refused, Malformed, TransportFails, Answered, Reply, Return, l3Vars
  <2>2. QED
    BY <2>1 DEF IInv
<1>2. CASE BeginExchange
  <2>1. item' \in Items /\ first' = None /\ draws' = <<>> /\ pc' = "ask"
    BY <1>2 DEF BeginExchange
  <2>2. Len(draws') = 0
    BY <2>1
  <2>3. QED
    BY <1>0, <2>1, <2>2
<1>3. CASE FirstPass
  <2>1. UNCHANGED <<item, draws>> /\ pc = "returned" /\ first = None
    BY <1>3 DEF FirstPass
  <2>2. CASE Consistency /\ NeedsConsistency
    <3>1. first' = out.stance /\ pc' = "ask"
      BY <1>3, <2>2 DEF FirstPass
    <3>2. item.gold \/ (item.expected = "denies" /\ out.stance = "grants")
      BY <2>2 DEF NeedsConsistency
    <3>3. QED
      BY <2>1, <2>2, <3>1, <3>2 DEF IInv
  <2>3. CASE ~(Consistency /\ NeedsConsistency)
    BY <1>3, <2>3 DEF FirstPass, Record
  <2>4. QED
    BY <2>2, <2>3
<1>4. CASE Sample \/ SampleFails
  <2>1. PICK x \in Stances \cup {None, Failed} : draws' = Append(draws, x)
    BY <1>4 DEF Sample, SampleFails, IInv, TypeOK
  <2>2. /\ UNCHANGED <<item, first>> /\ first # None /\ pc \in {"returned", "raised"}
        /\ pc' = IF Len(draws) + 1 = L3K THEN "vote" ELSE "ask"
    BY <1>4 DEF Sample, SampleFails, AfterSample
  <2>3. Len(draws') = Len(draws) + 1 /\ Len(draws) < L3K /\ Len(draws) \in Nat
    BY <1>0, <2>1, <2>2 DEF IInv
  <2>4. QED
    BY <1>0, <2>2, <2>3 DEF IInv
<1>5. CASE FirstPassFails \/ VoteDecides \/ VoteWithdraws \/ VoteFails \/ Finish
  BY <1>5 DEF FirstPassFails, VoteDecides, VoteWithdraws, VoteFails, Finish, Record
<1>6. QED
  BY <1>1, <1>2, <1>3, <1>4, <1>5 DEF Next

(***************************************************************************)
(* How a result comes to be: four ways, each from what the stage before it *)
(* left. The properties of results follow from this alone.                 *)
(***************************************************************************)
Settled ==
  /\ pc = "returned" /\ ~Sampling /\ ~(Consistency /\ NeedsConsistency)
  /\ Latest' = Verdict(out.stance, IF out.llm THEN 1 ELSE 0, 0, 0)

Lost == Latest' = Verdict(Failed, 0, 0, 0) /\ ((pc = "raised" /\ ~Sampling) \/ pc = "vote")

Decided ==
  /\ pc = "vote"
  /\ \E s \in Majority(draws) :
       Latest' = Verdict(s, L3K, Cardinality(Bloc(draws, s)),
                         CHOOSE i \in Bloc(draws, s) : \A j \in Bloc(draws, s) : i <= j)

Withdrawn ==
  /\ pc = "vote" /\ ~Undecidable
  /\ \E n \in 0..L3K : Latest' = Verdict(None, L3K, n, 0)

LEMMA ResultsAreMade ==
  ASSUME IInv, [Next]_vars, JustJudged'
  PROVE  /\ UNCHANGED <<item, first, draws, burned, completions>>
         /\ \/ UNCHANGED <<pc, results, lastAsk>> /\ JustJudged
            \/ Settled \/ Lost \/ Decided \/ Withdrawn
<1>0. TypeOK /\ pc' = "next" /\ results' # <<>>
  BY DEF IInv, JustJudged
<1>1. ASSUME NEW r \in Results, Record(r)
      PROVE  Latest' = r
  BY <1>0, <1>1, RecordedIsTyped DEF Latest
<1>2. CASE UNCHANGED vars
  BY <1>2 DEF vars, l3Vars, ghostVars, JustJudged
<1>3. CASE FirstPass
  <2>1. ~(Consistency /\ NeedsConsistency)
    BY <1>0, <1>3 DEF FirstPass
  <2>2. Record(Verdict(out.stance, IF out.llm THEN 1 ELSE 0, 0, 0)) /\ first' = first
    BY <1>3, <2>1 DEF FirstPass
  <2>3. Verdict(out.stance, IF out.llm THEN 1 ELSE 0, 0, 0) \in Results
    BY <1>0, VerdictsAreResults DEF TypeOK
  <2>4. Settled
    BY <1>1, <1>3, <2>1, <2>2, <2>3 DEF Settled, FirstPass
  <2>5. QED
    BY <1>3, <2>2, <2>4 DEF FirstPass
<1>4. CASE FirstPassFails \/ VoteFails
  <2>1. Record(Verdict(Failed, 0, 0, 0))
    BY <1>4 DEF FirstPassFails, VoteFails
  <2>2. Lost
    BY <1>1, <1>4, <2>1, WithdrawalsAreResults DEF Lost, FirstPassFails, VoteFails
  <2>3. QED
    BY <1>4, <2>2 DEF FirstPassFails, VoteFails, l3Vars
<1>5. CASE VoteDecides
  <2>1. PICK s \in Majority(draws) :
          Record(Verdict(s, L3K, Cardinality(Bloc(draws, s)),
                         CHOOSE i \in Bloc(draws, s) : \A j \in Bloc(draws, s) : i <= j))
    BY <1>5 DEF VoteDecides
  <2>2. Verdict(s, L3K, Cardinality(Bloc(draws, s)),
                CHOOSE i \in Bloc(draws, s) : \A j \in Bloc(draws, s) : i <= j) \in Results
    BY <1>0, <1>5, MajoritiesAreResults DEF VoteDecides, IInv
  <2>3. Decided
    BY <1>1, <1>5, <2>1, <2>2 DEF Decided, VoteDecides
  <2>4. QED
    BY <1>5, <2>3 DEF VoteDecides, l3Vars, ghostVars
<1>6. CASE VoteWithdraws
  <2>1. PICK n \in 0..L3K : Record(Verdict(None, L3K, n, 0))
    BY <1>0, <1>6, WithdrawnCounts DEF VoteWithdraws, IInv
  <2>2. Withdrawn
    BY <1>1, <1>6, <2>1, WithdrawalsAreResults DEF Withdrawn, VoteWithdraws
  <2>3. QED
    BY <1>6, <2>2 DEF VoteWithdraws, l3Vars, ghostVars
<1>7. CASE BeginExchange \/ Ask \/ Refused \/ Malformed \/ TransportFails \/ Answered \/ Sample
           \/ SampleFails \/ Finish
  <2>1. pc' # "next"
    BY <1>7 DEF BeginExchange, Ask, Refused, Malformed, TransportFails, Answered, Reply, Return, Sample,
                SampleFails, AfterSample, Finish
  <2>2. QED
    BY <1>0, <2>1
<1>8. QED
  BY <1>2, <1>3, <1>4, <1>5, <1>6, <1>7 DEF Next

LEMMA UnmodelledKept ==
  ASSUME IInv, [Next]_vars
  PROVE  Unmodelled'
<1> SUFFICES ASSUME JustJudged'
             PROVE  /\ item' \in Items
                    /\ Latest'.k = 0 /\ Latest'.stance # Failed =>
                         completions' = 0 /\ Latest'.stance \in {"denies", "evasive"}
  BY DEF Unmodelled
<1>1. item' = item /\ completions' = completions
  BY ResultsAreMade
<1>2. CASE UNCHANGED results /\ JustJudged
  BY <1>1, <1>2 DEF IInv, Unmodelled, Latest
<1>3. CASE Settled
  <2>1. Latest' = [stance |-> out.stance, k |-> IF out.llm THEN 1 ELSE 0, bloc |-> 0, evidence |-> 0]
    BY <1>3 DEF Settled, Verdict
  <2>2. pc = "returned"
    BY <1>3 DEF Settled
  <2>3. QED
    BY <1>1, <2>1, <2>2 DEF IInv, Sampled, Judging, Returned
<1>4. CASE Lost \/ Decided \/ Withdrawn
  <2>1. Latest'.stance = Failed \/ Latest'.k = L3K
    BY <1>4 DEF Lost, Decided, Withdrawn, Verdict
  <2>2. pc \in {"raised", "vote"}
    BY <1>4 DEF Lost, Decided, Withdrawn
  <2>3. QED
    BY <1>1, <2>1, <2>2 DEF IInv, Sampled, Judging
<1>5. QED
  BY <1>2, <1>3, <1>4, ResultsAreMade

LEMMA Initially == Init => IInv
<1>1. Init => TypeOK
  BY TypeInit
<1>2. Init => Unmodelled /\ Booked /\ PacerExact /\ GenerationsBounded
  BY DEF Init, Unmodelled, JustJudged, Booked, PacerExact, GenerationsBounded
<1>3. QED
  BY <1>1, <1>2 DEF Init, IInv, Calling, Returned, Vote, Sampled, Judging

LEMMA Inductive == IInv /\ [Next]_vars => IInv'
<1> SUFFICES ASSUME IInv, [Next]_vars
             PROVE  IInv'
  OBVIOUS
<1>1. CASE UNCHANGED vars
  <2>1. TypeOK' /\ Calling' /\ Returned'
    BY <1>1 DEF IInv, TypeOK, Calling, Returned, Earlier, Tried, Waits, PerTry, PerAsk,
                vars, callVars, l3Vars, ghostVars
  <2>2. Vote' /\ Sampled' /\ Booked' /\ PacerExact' /\ GenerationsBounded'
    BY <1>1 DEF IInv, Vote, Sampled, Judging, Sampling, Booked, PacerExact, GenerationsBounded,
                vars, callVars, l3Vars, ghostVars
  <2>3. QED
    BY <2>1, <2>2, UnmodelledKept DEF IInv
<1>2. CASE Next
  <2>1. TypeOK'
    BY <1>2, TypeCalls, TypeOutcomes, TypeVotes DEF Next, IInv
  <2>2. Calling' /\ Returned' /\ GenerationsBounded'
    BY <1>2, AskOpensTheBooks, CallsKeepTheBooks, OutcomesKeepTheBooks DEF Next
  <2>3. QED
    BY <1>2, <2>1, <2>2, PacerKept, VoteKept, UnmodelledKept DEF IInv
<1>3. QED
  BY <1>1, <1>2

\* The invariant of the judge phase: the books of the call in progress, what the
\* vote may change, and what the prefilter settled alone (judge_exchanges).
THEOREM JudgeInvariant == Spec => []IInv
  BY Initially, Inductive, PTL DEF Spec

\* Every variable of the judge phase has its type, the sums of its books among them.
THEOREM TypeCorrect == Spec => []TypeOK
<1>1. IInv => TypeOK
  BY DEF IInv
<1>2. QED
  BY <1>1, JudgeInvariant, PTL

\* No judge() call burns more generations than its two loops and instructor's re-asks
\* inside them allow, whatever the order of refusals and malformed calls
\* (RATE_LIMIT_ATTEMPTS inside MALFORMED_TOOL_CALL_ATTEMPTS).
THEOREM GenerationsAreBounded == Spec => []GenerationsBounded
<1>1. IInv => GenerationsBounded
  BY DEF IInv
<1>2. QED
  BY <1>1, JudgeInvariant, PTL

\* The pacer books exactly what a returned call spent, as far as the harness is told (_Pacer.charge).
THEOREM PacerIsExact == Spec => []PacerExact
<1>1. IInv => PacerExact
  BY DEF IInv
<1>2. QED
  BY <1>1, JudgeInvariant, PTL

(***************************************************************************)
(* The properties of a result.                                             *)
(***************************************************************************)
\* With more than one malformed call allowed and more than one sample drawn, as in
\* the code, what is abstained on was said: the abstain rate holds no transport error.
THEOREM AbstentionsAreJudgments ==
  ASSUME L3K > 1, MalformedAttempts > 1
  PROVE  Spec => []AbstentionIsJudgment
<1>1. Init => AbstentionIsJudgment
  BY DEF Init, AbstentionIsJudgment, JustJudged
<1>2. AbstentionIsJudgment /\ IInv /\ [Next]_vars => AbstentionIsJudgment'
  <2> SUFFICES ASSUME AbstentionIsJudgment, IInv, [Next]_vars, JustJudged', Latest'.stance = None
               PROVE  /\ Latest'.k = 1 => burned' >= 2
                      /\ Latest'.k = L3K =>
                           Cardinality(Votes(draws')) >= L3MinVotes \/ Errors(draws') = {}
    BY DEF AbstentionIsJudgment
  <2>1. draws' = draws /\ burned' = burned
    BY ResultsAreMade
  <2>2. CASE UNCHANGED results /\ JustJudged
    BY <2>1, <2>2 DEF AbstentionIsJudgment, Latest
  <2>3. CASE Settled
    <3>1. out.stance = None /\ Latest'.k \in {0, 1} /\ pc = "returned"
      BY <2>3 DEF Settled, Verdict
    <3>2. QED
      BY <2>1, <3>1, L3K > 1, MalformedAttempts > 1 DEF IInv, Returned
  <2>4. ~Lost /\ ~Decided
    BY DEF Lost, Decided, Verdict, Majority, Stances, None, Failed
  <2>5. CASE Withdrawn
    <3>1. Latest'.k = L3K /\ ~Undecidable
      BY <2>5 DEF Withdrawn, Verdict
    <3>2. Cardinality(Votes(draws)) \in Nat
      BY BlocsAreCounted DEF IInv, TypeOK
    <3>3. QED
      BY <2>1, <3>1, <3>2, L3K > 1 DEF Undecidable
  <2>6. QED
    BY <2>2, <2>3, <2>4, <2>5, ResultsAreMade
<1>3. QED
  BY <1>1, <1>2, JudgeInvariant, PTL DEF Spec

\* With two votes needed, as in the code, an over-promise was said by two samples and a
\* majority of the votes, and its evidence is from one of them, for any number of samples.
THEOREM OverPromisesAreConfirmed ==
  ASSUME L3MinVotes > 1
  PROVE  Spec => []OverPromiseIsConfirmed
<1>1. Init => OverPromiseIsConfirmed
  BY DEF Init, OverPromiseIsConfirmed, JustJudged
<1>2. OverPromiseIsConfirmed /\ IInv /\ [Next]_vars => OverPromiseIsConfirmed'
  <2> SUFFICES ASSUME OverPromiseIsConfirmed, IInv, [Next]_vars, JustJudged',
                      Consistency, item'.expected = "denies", Latest'.stance = "grants"
               PROVE  /\ Latest'.k = L3K
                      /\ Cardinality(Bloc(draws', "grants")) >= 2
                      /\ 2 * Cardinality(Bloc(draws', "grants")) > Cardinality(Votes(draws'))
                      /\ draws'[Latest'.evidence] = "grants"
    BY DEF OverPromiseIsConfirmed
  <2>1. draws' = draws /\ item' = item
    BY ResultsAreMade
  <2>2. CASE UNCHANGED results /\ JustJudged
    BY <2>1, <2>2 DEF OverPromiseIsConfirmed, Latest
  <2>3. ~Settled
    <3>1. SUFFICES ASSUME Settled
                   PROVE  FALSE
      OBVIOUS
    <3>2. out.stance = "grants" /\ pc = "returned" /\ ~NeedsConsistency
      BY <3>1 DEF Settled, Verdict
    <3>3. out.llm
      BY <3>2 DEF IInv, Returned
    <3>4. QED
      BY <2>1, <3>2, <3>3 DEF NeedsConsistency, None
  <2>4. ~Lost /\ ~Withdrawn
    BY DEF Lost, Withdrawn, Verdict, None, Failed
  <2>5. CASE Decided
    <3>1. PICK s \in Majority(draws) :
            Latest' = Verdict(s, L3K, Cardinality(Bloc(draws, s)),
                              CHOOSE i \in Bloc(draws, s) : \A j \in Bloc(draws, s) : i <= j)
      BY <2>5 DEF Decided
    <3> DEFINE evidence == CHOOSE i \in Bloc(draws, s) : \A j \in Bloc(draws, s) : i <= j
    <3>2. s = "grants" /\ Latest'.k = L3K /\ Latest'.evidence = evidence
      BY <3>1 DEF Verdict
    <3>3. TypeOK
      BY DEF IInv
    <3>4. evidence \in Bloc(draws, s)
      BY <3>3, BlocIsNotEmpty, EvidenceIsOfTheBloc
    <3>5. draws[evidence] = s
      BY <3>4 DEF Bloc
    <3>6. /\ 2 * Cardinality(Bloc(draws, s)) > Cardinality(Votes(draws))
          /\ Cardinality(Bloc(draws, s)) >= 2
      BY <3>3, BlocIsNotEmpty, L3MinVotes > 1
    <3>7. QED
      BY <2>1, <3>2, <3>5, <3>6
  <2>6. QED
    BY <2>2, <2>3, <2>4, <2>5, ResultsAreMade
<1>3. QED
  BY <1>1, <1>2, JudgeInvariant, PTL DEF Spec

\* Outside the gold set the vote only takes rows out of the over-promise cell (left_the_over_promise_cell).
THEOREM L3Reduces == Spec => []L3OnlyReduces
<1>1. Init => L3OnlyReduces
  BY DEF Init, L3OnlyReduces, JustJudged
<1>2. L3OnlyReduces /\ IInv /\ [Next]_vars => L3OnlyReduces'
  <2> SUFFICES ASSUME L3OnlyReduces, IInv, [Next]_vars, JustJudged', ~item'.gold
               PROVE  /\ item'.expected = "denies" /\ Latest'.stance = "grants"
                           => first' \in {None, "grants"}
                      /\ Latest'.k = L3K /\ first' = "grants" /\ Latest'.stance \notin {"grants", Failed}
                           => item'.expected = "denies"
    BY DEF L3OnlyReduces
  <2>1. item' = item /\ first' = first
    BY ResultsAreMade
  <2>2. CASE UNCHANGED results /\ JustJudged
    BY <2>1, <2>2 DEF L3OnlyReduces, Latest
  <2>3. CASE Settled
    BY <2>1, <2>3 DEF Settled, Sampling, None
  <2>4. CASE Lost
    BY <2>1, <2>4 DEF Lost, Verdict, Failed
  <2>5. CASE Decided \/ Withdrawn
    <3>1. pc = "vote"
      BY <2>5 DEF Decided, Withdrawn
    <3>2. item.expected = "denies" /\ first = "grants"
      BY <2>1, <3>1 DEF IInv, Vote, Sampled, Judging
    <3>3. QED
      BY <2>1, <3>2
  <2>6. QED
    BY <2>2, <2>3, <2>4, <2>5, ResultsAreMade
<1>3. QED
  BY <1>1, <1>2, JudgeInvariant, PTL DEF Spec

(***************************************************************************)
(* The row of a result.                                                    *)
(***************************************************************************)
LEMMA JudgedIsTyped ==
  ASSUME IInv, JustJudged
  PROVE  /\ Latest \in Results /\ item \in Items /\ completions \in Nat
         /\ Latest.k = 0 /\ Latest.stance # Failed =>
              completions = 0 /\ Latest.stance \in {"denies", "evasive"}
<1>1. results \in Seq(Results) /\ results # <<>>
  BY DEF IInv, TypeOK, JustJudged
<1>2. Latest \in Results
  BY <1>1 DEF Latest
<1>3. QED
  BY <1>2 DEF IInv, TypeOK, Unmodelled

\* Of an over-promise L2 has seen both spans and found both (verify_judgment).
LEMMA GrantsAreEvidenced ==
  ASSUME NEW j \in Verified("grants")
  PROVE  /\ j.cited = "shown" /\ j.quoted = "verbatim" /\ j.response = "verbatim" /\ j.entitlement
  BY DEF Verified, VerifyJudgment, Judgments, Spans, Citing

\* The three kinds of row.
LEMMA FailuresAreValid ==
  ASSUME Latest.stance = Failed, NEW row \in BuildRow
  PROVE  Valid(row) /\ row.verdict # "OVER_PROMISE"
<1>1. row = ErrorRow
  BY DEF BuildRow, None, Failed
<1>2. /\ row.error = TRUE /\ row.abstained = FALSE /\ row.stance = None /\ row.verdict = None
      /\ row.judgment = NoJudgment /\ row.spanVerified = Absent /\ row.k = 0 /\ row.agreement = 0
      /\ row.confidence = FALSE /\ row.completions = FALSE
  BY <1>1 DEF ErrorRow, NoVerdict
<1>3. QED
  BY <1>2 DEF Valid, OneOutcome, HasVerdict, VerdictFollows, QuoteIsOfAClause, GrantNamesEntitlement,
              AgreementOfAVote, ZeroSamples, NoJudgment, Absent, None

LEMMA AbstentionsAreValid ==
  ASSUME L3K > 1, IInv, JustJudged, Latest.stance = None, NEW row \in BuildRow
  PROVE  Valid(row) /\ row.verdict # "OVER_PROMISE"
<1>1. row = AbstainedRow
  BY DEF BuildRow, None, Failed
<1>2. /\ row.error = FALSE /\ row.abstained = TRUE /\ row.stance = None /\ row.verdict = None
      /\ row.judgment = NoJudgment /\ row.spanVerified = Absent /\ row.k = Latest.k
      /\ row.agreement = Agreement
  BY <1>1 DEF AbstainedRow, NoVerdict
<1>3. Latest.k \in {1, L3K} /\ (Latest.k <= 1 => Agreement = 0)
  BY JudgedIsTyped, L3K > 1 DEF Results, Agreement, None, Failed
<1>4. QED
  BY <1>2, <1>3, L3K > 1 DEF Valid, OneOutcome, HasVerdict, VerdictFollows, QuoteIsOfAClause,
     GrantNamesEntitlement, AgreementOfAVote, ZeroSamples, NoJudgment, Absent, None

LEMMA VerdictsAreValid ==
  ASSUME L3K > 1, IInv, JustJudged, Latest.stance \in Stances, NEW row \in BuildRow
  PROVE  /\ Valid(row)
         /\ row.verdict = "OVER_PROMISE" =>
              /\ row.judgment \in Verified("grants") /\ row.spanVerified = SpanVerified(row.judgment)
<1>1. PICK j \in (IF Latest.k = 0 THEN {NoJudgment} ELSE Verified(Latest.stance)) : row = VerdictRow(j)
  BY DEF BuildRow, Stances, None, Failed
<1>2. /\ row.error = FALSE /\ row.abstained = FALSE /\ row.stance = Latest.stance
      /\ row.verdict = ClassifyVerdict(item.expected, Latest.stance) /\ row.expected = item.expected
      /\ row.judgment = j /\ row.spanVerified = SpanVerified(j) /\ row.k = Latest.k
      /\ row.agreement = Agreement /\ row.confidence = (j # NoJudgment)
      /\ row.temperature = IF Latest.k = 0 THEN None ELSE RowTemperature
      /\ row.completions = SomeCompletions
  BY <1>1 DEF VerdictRow, NoVerdict
<1>3. item.expected \in {"grants", "denies"} /\ Latest.k \in {0, 1, L3K} /\ Latest.stance # Failed
  BY JudgedIsTyped DEF Items, Results, Stances, Failed
<1>4. /\ ClassifyVerdict(item.expected, Latest.stance) # None
      /\ ClassifyVerdict(item.expected, Latest.stance) = "OVER_PROMISE" => Latest.stance = "grants"
  BY <1>3 DEF ClassifyVerdict, Stances, None
<1>5. Latest.k = 0 => completions = 0 /\ Latest.stance \in {"denies", "evasive"}
  BY <1>3, JudgedIsTyped
<1>6. Latest.k # 0 => j \in Judgments /\ j.stance = Latest.stance
  BY <1>1 DEF Verified
<1>7. OneOutcome(row)
  <2>1. row.stance # None /\ row.verdict # None
    BY <1>2, <1>4 DEF Stances, None
  <2>2. row.judgment.quoted # Absent => row.spanVerified # Absent
    BY <1>2 DEF SpanVerified, Absent
  <2>3. QED
    BY <1>2, <2>1, <2>2 DEF OneOutcome
<1>8. VerdictFollows(row)
  BY <1>2 DEF VerdictFollows
<1>9. QuoteIsOfAClause(row)
  <2>1. j.quoted # Absent => j.cited # Absent
    BY <1>1, <1>6 DEF Judgments, NoJudgment, Absent
  <2>2. QED
    BY <1>2, <2>1 DEF QuoteIsOfAClause, SpanVerified, Absent
<1>10. GrantNamesEntitlement(row)
  BY <1>2, <1>5, <1>6 DEF GrantNamesEntitlement, Judgments
<1>11. AgreementOfAVote(row)
  BY <1>2, <1>3, L3K > 1 DEF AgreementOfAVote, Agreement
<1>12. ZeroSamples(row)
  <2>1. SUFFICES ASSUME row.k = 0
                 PROVE  ~row.confidence /\ ~row.completions /\ row.temperature = None
    BY DEF ZeroSamples
  <2>2. Latest.k = 0 /\ completions = 0 /\ j = NoJudgment
    BY <1>1, <1>2, <1>5, <2>1
  <2>3. ~SomeCompletions
    BY <2>2, L3K > 1 DEF SomeCompletions
  <2>4. QED
    BY <1>2, <2>2, <2>3
<1>13. row.verdict = "OVER_PROMISE" => j \in Verified("grants")
  BY <1>1, <1>2, <1>4, <1>5
<1>14. QED
  BY <1>2, <1>7, <1>8, <1>9, <1>10, <1>11, <1>12, <1>13 DEF Valid

LEMMA RowsAreOfThreeKinds ==
  ASSUME IInv, JustJudged
  PROVE  Latest.stance = Failed \/ Latest.stance = None \/ Latest.stance \in Stances
  BY JudgedIsTyped DEF Results

\* With more than one sample drawn, as in the code, no validator of AuditRow refuses a
\* row of build_row, whatever the judge, the provider and the vote did.
THEOREM RowsCanBeStored ==
  ASSUME L3K > 1
  PROVE  Spec => []RowCanBeStored
<1>1. IInv => RowCanBeStored
  BY L3K > 1, RowsAreOfThreeKinds, FailuresAreValid, AbstentionsAreValid, VerdictsAreValid DEF RowCanBeStored
<1>2. QED
  BY <1>1, JudgeInvariant, PTL

\* And an over-promise carries the pair of spans that proves it.
THEOREM OverPromisesAreEvidenced ==
  ASSUME L3K > 1
  PROVE  Spec => []OverPromiseIsEvidenced
<1>1. ASSUME NEW row, row.judgment \in Verified("grants"),
             row.spanVerified = SpanVerified(row.judgment)
      PROVE  /\ row.judgment.cited = "shown" /\ row.judgment.entitlement
             /\ row.judgment.quoted = "verbatim" /\ row.judgment.response = "verbatim"
             /\ row.spanVerified = "true"
  BY <1>1, GrantsAreEvidenced DEF SpanVerified, Absent
<1>2. IInv => OverPromiseIsEvidenced
  BY <1>1, L3K > 1, RowsAreOfThreeKinds, FailuresAreValid, AbstentionsAreValid, VerdictsAreValid
     DEF OverPromiseIsEvidenced
<1>3. QED
  BY <1>2, JudgeInvariant, PTL

(***************************************************************************)
(* The prefilter. What L0 ends promised nothing, and a denial it ends was  *)
(* said. The cues booked are those of the clauses heard, whose order does  *)
(* not matter.                                                             *)
(***************************************************************************)
Bookings == [commitment : BOOLEAN, refusal : BOOLEAN, hedge : BOOLEAN, question : BOOLEAN]

\* A cue is booked when a clause heard has it.
CuesBooked ==
  /\ booked \in Bookings
  /\ booked.commitment <=> \E k \in DOMAIN heard : Commits(heard[k])
  /\ booked.refusal <=> \E k \in DOMAIN heard : Refuses(heard[k])

\* The answer, once given, is that of the bookings.
AnswerIsTheirs == stance = "reading" \/ stance = Stance(booked)

PrefilterInv == heard \in Seq(Clauses) /\ CuesBooked /\ AnswerIsTheirs

LEMMA BookedCues ==
  ASSUME NEW b \in Bookings, NEW clause \in Clauses
  PROVE  /\ Book(b, clause) \in Bookings
         /\ Book(b, clause).commitment <=> b.commitment \/ Commits(clause)
         /\ Book(b, clause).refusal <=> b.refusal \/ Refuses(clause)
<1>1. /\ Commits(clause) \in BOOLEAN /\ Refuses(clause) \in BOOLEAN
      /\ Has(clause, {"hedge"}) \in BOOLEAN /\ clause.question \in BOOLEAN
  BY ClausesAssumption DEF Commits, Refuses, Has
<1> QED
  BY <1>1 DEF Book, Bookings

\* Only a booked commitment sends a reply to the LLM, and every one does.
LEMMA CommitmentsProceed ==
  ASSUME NEW b \in Bookings
  PROVE  /\ proceeds_to_l1(Stance(b)) <=> b.commitment
         /\ Stance(b) \in {"denies", "evasive"} => ~b.commitment
         /\ Stance(b) = "denies" => b.refusal
         /\ Stance(b) # "reading"
  BY DEF Bookings, Stance, proceeds_to_l1

LEMMA PrefilterInitially == PrefilterInit => PrefilterInv
  BY DEF PrefilterInit, PrefilterInv, CuesBooked, AnswerIsTheirs, Bookings, NoCues

LEMMA ReadKeepsPrefilterInv == PrefilterInv /\ ReadClause => PrefilterInv'
<1> SUFFICES ASSUME PrefilterInv, ReadClause PROVE PrefilterInv'
  OBVIOUS
<1>1. PICK clause \in Clauses : heard' = Append(heard, clause) /\ booked' = Book(booked, clause)
  BY DEF ReadClause
<1>2. /\ heard \in Seq(Clauses) /\ heard' \in Seq(Clauses)
      /\ DOMAIN heard = 1..Len(heard) /\ Len(heard) \in Nat
      /\ DOMAIN heard' = 1..(Len(heard) + 1)
      /\ \A k \in 1..Len(heard) : heard'[k] = heard[k]
      /\ heard'[Len(heard) + 1] = clause
  BY <1>1 DEF PrefilterInv
<1>3. /\ booked' \in Bookings
      /\ booked'.commitment <=> booked.commitment \/ Commits(clause)
      /\ booked'.refusal <=> booked.refusal \/ Refuses(clause)
  BY <1>1, BookedCues DEF PrefilterInv, CuesBooked
<1>4. /\ (\E k \in DOMAIN heard' : Commits(heard'[k])) <=>
           (\E k \in DOMAIN heard : Commits(heard[k])) \/ Commits(clause)
      /\ (\E k \in DOMAIN heard' : Refuses(heard'[k])) <=>
           (\E k \in DOMAIN heard : Refuses(heard[k])) \/ Refuses(clause)
  <2>1. DOMAIN heard' = DOMAIN heard \cup {Len(heard) + 1}
    BY <1>2
  <2>2. \A k \in DOMAIN heard : heard'[k] = heard[k]
    BY <1>2
  <2> QED
    BY <1>2, <2>1, <2>2, Zenon
<1>5. CuesBooked'
  BY <1>3, <1>4 DEF PrefilterInv, CuesBooked
<1>6. AnswerIsTheirs'
  BY DEF ReadClause, AnswerIsTheirs
<1> QED
  BY <1>2, <1>5, <1>6 DEF PrefilterInv

LEMMA PrefilterInductive == PrefilterInv /\ [PrefilterNext]_prefilterVars => PrefilterInv'
<1>1. PrefilterInv /\ Settle => PrefilterInv'
  BY DEF PrefilterInv, Settle, CuesBooked, AnswerIsTheirs
<1>2. PrefilterInv /\ UNCHANGED prefilterVars => PrefilterInv'
  BY DEF PrefilterInv, CuesBooked, AnswerIsTheirs, prefilterVars
<1> QED
  BY <1>1, <1>2, ReadKeepsPrefilterInv DEF PrefilterNext

\* The cues booked are those of the clauses heard, and the answer is theirs.
THEOREM ReadingInvariant == PrefilterSpec => []PrefilterInv
<1> QED
  BY PrefilterInitially, PrefilterInductive, PTL DEF PrefilterSpec

\* No final answer of L0 hides a commitment (prefilter.py:50-67).
THEOREM FinalAnswersPromiseNothing == PrefilterSpec => []FinalCommitsToNothing
<1>1. PrefilterInv => FinalCommitsToNothing
  <2> SUFFICES ASSUME PrefilterInv, stance \in {"denies", "evasive"}, NEW k \in DOMAIN heard
               PROVE  ~Asserted(heard[k])
    BY DEF FinalCommitsToNothing
  <2>1. ~booked.commitment
    BY CommitmentsProceed DEF PrefilterInv, CuesBooked, AnswerIsTheirs
  <2>2. ~Commits(heard[k])
    BY <2>1 DEF PrefilterInv, CuesBooked
  <2> QED
    BY <2>2 DEF Commits, Negated, Asserted
<1> QED
  BY <1>1, ReadingInvariant, PTL

\* A final denial was said in some clause (prefilter.py:84-92).
THEOREM DenialsWereSaid == PrefilterSpec => []DenialWasSaid
<1>1. PrefilterInv => DenialWasSaid
  <2> SUFFICES ASSUME PrefilterInv, stance = "denies" PROVE DenialWasSaid
    BY DEF DenialWasSaid
  <2>1. booked.refusal
    BY CommitmentsProceed DEF PrefilterInv, CuesBooked, AnswerIsTheirs
  <2>2. PICK k \in DOMAIN heard : Refuses(heard[k])
    BY <2>1 DEF PrefilterInv, CuesBooked
  <2> DEFINE cues == heard[k].cues
  <2>3. cues \in Seq(Cues)
    BY ClausesAssumption DEF PrefilterInv
  <2>4. CASE \E i \in DOMAIN cues : cues[i] = "commitment" /\ Negated(heard[k], i)
    <3>0. PICK i \in DOMAIN cues : cues[i] = "commitment" /\ Negated(heard[k], i)
      BY <2>4
    <3>1. PICK j \in 1..i : cues[j] \in Negators
      BY <3>0 DEF Negated
    <3>2. j < i /\ j \in DOMAIN cues
      BY <2>3, <3>0, <3>1 DEF Negators
    <3> QED
      BY <3>0, <3>1, <3>2 DEF DenialWasSaid
  <2>5. CASE Has(heard[k], Refusals) /\ ~Has(heard[k], {"lookup"})
    BY <2>5 DEF Has, DenialWasSaid
  <2> QED
    BY <2>2, <2>4, <2>5 DEF Refuses
<1> QED
  BY <1>1, ReadingInvariant, PTL

\* Nothing said later takes a reply away from the judge (prefilter.py:71-79).
THEOREM WordsOnlyEscalate == PrefilterSpec => MoreWordsOnlyEscalate
<1>1. PrefilterInv /\ [PrefilterNext]_prefilterVars =>
        [proceeds_to_l1(Stance(booked)) => proceeds_to_l1(Stance(booked'))]_booked
  <2> SUFFICES ASSUME PrefilterInv, ReadClause, proceeds_to_l1(Stance(booked))
               PROVE  proceeds_to_l1(Stance(booked'))
    BY DEF PrefilterNext, Settle, prefilterVars
  <2>1. PICK clause \in Clauses : booked' = Book(booked, clause)
    BY DEF ReadClause
  <2>2. booked.commitment
    BY CommitmentsProceed DEF PrefilterInv, CuesBooked
  <2>3. booked' \in Bookings /\ booked'.commitment
    BY <2>1, <2>2, BookedCues DEF PrefilterInv, CuesBooked
  <2> QED
    BY <2>3, CommitmentsProceed
<1> QED
  BY <1>1, ReadingInvariant, PTL DEF PrefilterSpec, MoreWordsOnlyEscalate
===============================================================================
