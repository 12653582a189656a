---------------------------- MODULE CommandProofs ----------------------------
(***************************************************************************)
(* A run, the experiment of judge stability and the figures of the gold    *)
(* file. First the run. Whatever goes wrong, in whatever combination and   *)
(* number: no agent is contacted and no row is written for inputs that     *)
(* disagree. The invariant says which faults the steps behind a run have   *)
(* excluded.                                                               *)
(***************************************************************************)
EXTENDS RunCommand, JudgeStability, Metrics, FiniteSetTheorems, TLAPS

Ways == {"finally", "report", "exit", "exited"}

\* Where a run with a fault of its inputs can still be.
Until(faults, steps) == wrong \cap faults # {} => at \in steps \cup Ways

Cleared ==
  /\ at \in {"load", "policy", "staleness", "key", "store", "ground", "resolve",
             "health", "fanout", "judge", "append", "reconcile"} \cup Ways
  /\ Until({"envelope", "contents"}, {"load"})
  /\ Until({"unlisted", "manifest"}, {"load", "policy"})
  /\ Until({"stale"}, {"load", "policy", "staleness"})
  /\ Until({"no key"}, {"load", "policy", "staleness", "key"})
  /\ Until({"ungrounded"}, {"load", "policy", "staleness", "key", "store", "ground"})
  /\ Until({"unresolved"}, {"load", "policy", "staleness", "key", "store", "ground", "resolve"})

IInv == Cleared /\ CheckedBeforeTheFirstCall

LEMMA TryEnds ==
  ASSUME NEW from, NEW to, NEW cli, NEW other, Try(from, to, cli, other)
  PROVE  /\ at = from /\ wrong' = wrong
         /\ \/ at' = to /\ wrong \cap (cli \cup other) = {}
            \/ at' \in {"finally", "exit"}
  BY DEF Try, RaiseOneOf

LEMMA Initially == RunInit => IInv
  BY DEF RunInit, IInv, Cleared, Until, Ways, CheckedBeforeTheFirstCall

\* A step on the way to the agent contacts nobody and clears its own faults.
LEMMA ChecksKeepIInv ==
  IInv /\ (LoadLocks \/ ResolvePolicy \/ Staleness \/ EnsureCredentials \/ OpenStore
             \/ Ground \/ ResolveIds) => IInv'
<1> SUFFICES ASSUME IInv,
                    LoadLocks \/ ResolvePolicy \/ Staleness \/ EnsureCredentials \/ OpenStore
                      \/ Ground \/ ResolveIds
             PROVE  IInv'
  OBVIOUS
<1>1. wrong' = wrong /\ contacted' = contacted /\ stored' = stored
  BY TryEnds DEF LoadLocks, ResolvePolicy, Staleness, EnsureCredentials, OpenStore, Ground, ResolveIds
<1>2. CheckedBeforeTheFirstCall'
  BY <1>1 DEF IInv, CheckedBeforeTheFirstCall
<1>3. CASE at' \in {"finally", "exit"}
  BY <1>2, <1>3 DEF IInv, Cleared, Until, Ways
<1>4. CASE at' \notin {"finally", "exit"}
  <2>1. CASE LoadLocks
    <3>1. at = "load" /\ at' = "policy" /\ wrong \cap ({"envelope"} \cup {"contents"}) = {}
      BY <1>4, <2>1, TryEnds DEF LoadLocks
    <3> QED
      BY <1>1, <1>2, <3>1 DEF IInv, Cleared, Until, Ways
  <2>2. CASE ResolvePolicy
    <3>1. at = "policy" /\ at' = "staleness" /\ wrong \cap ({"unlisted"} \cup {"manifest"}) = {}
      BY <1>4, <2>2, TryEnds DEF ResolvePolicy
    <3> QED
      BY <1>1, <1>2, <3>1 DEF IInv, Cleared, Until, Ways
  <2>3. CASE Staleness
    <3>1. at = "staleness" /\ at' = "key" /\ wrong \cap ({"stale"} \cup {}) = {}
      BY <1>4, <2>3, TryEnds DEF Staleness
    <3> QED
      BY <1>1, <1>2, <3>1 DEF IInv, Cleared, Until, Ways
  <2>4. CASE EnsureCredentials
    <3>1. at = "key" /\ at' = "store" /\ wrong \cap ({"no key"} \cup {}) = {}
      BY <1>4, <2>4, TryEnds DEF EnsureCredentials
    <3> QED
      BY <1>1, <1>2, <3>1 DEF IInv, Cleared, Until, Ways
  <2>5. CASE OpenStore
    <3>1. at = "store" /\ at' = "ground"
      BY <1>4, <2>5, TryEnds DEF OpenStore
    <3> QED
      BY <1>1, <1>2, <3>1 DEF IInv, Cleared, Until, Ways
  <2>6. CASE Ground
    <3>1. at = "ground" /\ at' = "resolve" /\ wrong \cap ({} \cup {"ungrounded"}) = {}
      BY <1>4, <2>6, TryEnds DEF Ground
    <3> QED
      BY <1>1, <1>2, <3>1 DEF IInv, Cleared, Until, Ways
  <2>7. CASE ResolveIds
    <3>1. at = "resolve" /\ at' = "health" /\ wrong \cap ({"unresolved"} \cup {}) = {}
      BY <1>4, <2>7, TryEnds DEF ResolveIds
    <3> QED
      BY <1>1, <1>2, <3>1 DEF IInv, Cleared, Until, Ways
  <2> QED
    BY <2>1, <2>2, <2>3, <2>4, <2>5, <2>6, <2>7
<1> QED
  BY <1>3, <1>4

\* From the first call on every fault of the inputs has been excluded.
LEMMA PhasesKeepIInv ==
  IInv /\ (Health \/ FanOut \/ Judge \/ AppendRows \/ Reconcile) => IInv'
<1> SUFFICES ASSUME IInv, Health \/ FanOut \/ Judge \/ AppendRows \/ Reconcile PROVE IInv'
  OBVIOUS
<1>1. /\ at \in {"health", "fanout", "judge", "append", "reconcile"}
      /\ wrong' = wrong
      /\ at' \in {"fanout", "judge", "append", "reconcile", "finally", "exit"}
  BY TryEnds DEF Health, FanOut, Judge, AppendRows, Reconcile
<1>2. wrong' \cap InputFaults = {}
  BY <1>1 DEF IInv, Cleared, Until, Ways, InputFaults
<1> QED
  BY <1>1, <1>2 DEF IInv, Cleared, Until, Ways, CheckedBeforeTheFirstCall

\* On the way out nothing is contacted or written.
LEMMA WayOutKeepsIInv == IInv /\ (Close \/ Report \/ Interrupt \/ Exit) => IInv'
<1> SUFFICES ASSUME IInv, Close \/ Report \/ Interrupt \/ Exit PROVE IInv'
  OBVIOUS
<1>1. at' \in Ways /\ wrong' = wrong /\ contacted' = contacted /\ stored' = stored
  BY TryEnds DEF Close, Report, Interrupt, Exit, RaiseOneOf, Ways
<1> QED
  BY <1>1 DEF IInv, Cleared, Until, Ways, CheckedBeforeTheFirstCall

LEMMA Inductive == IInv /\ [RunNext]_runVars => IInv'
<1>1. ASSUME IInv, UNCHANGED runVars PROVE IInv'
  <2>1. wrong' = wrong /\ at' = at /\ contacted' = contacted /\ stored' = stored
    BY <1>1 DEF runVars
  <2>2. Cleared'
    BY <1>1, <2>1 DEF IInv, Cleared, Until, Ways
  <2>3. CheckedBeforeTheFirstCall'
    BY <1>1, <2>1 DEF IInv, CheckedBeforeTheFirstCall
  <2> QED
    BY <2>2, <2>3 DEF IInv
<1> QED
  BY <1>1, ChecksKeepIInv, PhasesKeepIInv, WayOutKeepsIInv DEF RunNext

\* Each step of a run has its checks behind it.
THEOREM RunInvariant == RunSpec => []IInv
<1> QED
  BY Initially, Inductive, PTL DEF RunSpec

\* "Preconditions are checked before the first network call" (runner.py, execute_run), for
\* any number of things that go wrong at once.
THEOREM ChecksComeFirst == RunSpec => []CheckedBeforeTheFirstCall
<1>1. IInv => CheckedBeforeTheFirstCall
  BY DEF IInv
<1> QED
  BY <1>1, RunInvariant, PTL

(***************************************************************************)
(* The experiment of judge stability. An observation that is not a failure *)
(* is an answer of the provider to the prompt of that call, and a          *)
(* deterministic provider has one answer to each.                          *)
(***************************************************************************)
Prompts == 0..Calls

\* The observations of an arm, each of the prompt it was made with.
Faithful(a) ==
  \A i \in 1..Len(observed[a]) :
    /\ turns_for(a, i) \in Prompts
    /\ observed[a][i] = Failed \/ observed[a][i] \in answered[turns_for(a, i)]

OneAnswer(prompt) == \A a, b \in answered[prompt] : a = b

Experiment ==
  /\ arms \in Plans \cup {<<>>}
  /\ answered \in [Prompts -> SUBSET Answers]
  /\ observed \in [Arms -> Seq(Answers \cup {Failed})]
  /\ \A a \in Arms : Faithful(a)
  /\ deterministic => \A prompt \in Prompts : OneAnswer(prompt)

StabilityInv ==
  /\ Experiment
  /\ exit_code = -1 => claim = NoClaim
  /\ VerdictIsOfTheProvider

\* Only the observations of the arm that runs are added to, and only calls that are
\* left are made.
LEMMA AskingIsOfAnArm ==
  ASSUME Experiment, Asking
  PROVE  /\ arm \in Arms /\ index \in Int /\ index >= 1 /\ index <= Calls
         /\ Len(observed[arm]) \in Nat /\ turns_for(arm, index) \in Prompts
<1>1. arm \in Arms
  BY DEF Experiment, Asking, Plans, Arms, arm
<1>2. Len(observed[arm]) \in Nat
  BY <1>1 DEF Experiment
<1> QED BY <1>1, <1>2, CallsAssumption DEF Asking, index, turns_for, Prompts

\* What a step observes is faithful when it is a failure or has just been answered.
LEMMA ObservingIsFaithful ==
  ASSUME Experiment, Asking, NEW observation \in Answers \cup {Failed}, Observe(observation),
         answered' \in [Prompts -> SUBSET Answers],
         \A prompt \in Prompts : answered[prompt] \subseteq answered'[prompt],
         observation = Failed \/ observation \in answered'[turns_for(arm, index)]
  PROVE  /\ observed' \in [Arms -> Seq(Answers \cup {Failed})]
         /\ \A a \in Arms : Faithful(a)'
<1>1. /\ arm \in Arms /\ index \in Int /\ index >= 1 /\ index <= Calls
      /\ Len(observed[arm]) \in Nat /\ turns_for(arm, index) \in Prompts
  BY AskingIsOfAnArm
<1>2. observed' = [observed EXCEPT ![arm] = Append(observed[arm], observation)]
  BY DEF Observe
<1> DEFINE longer == Append(observed[arm], observation)
<1>3. observed[arm] \in Seq(Answers \cup {Failed})
  BY <1>1 DEF Experiment
<1>4. /\ longer \in Seq(Answers \cup {Failed}) /\ Len(longer) = index
      /\ \A i \in 1..Len(observed[arm]) : longer[i] = observed[arm][i]
      /\ longer[index] = observation
  BY <1>1, <1>3 DEF index
<1> HIDE DEF longer
<1>5. /\ observed' \in [Arms -> Seq(Answers \cup {Failed})]
      /\ observed'[arm] = longer
      /\ \A a \in Arms : a # arm => observed'[a] = observed[a]
  BY <1>1, <1>2, <1>4 DEF Experiment, longer
<1>6. ASSUME NEW a \in Arms, NEW i \in 1..Len(observed'[a])
      PROVE  /\ turns_for(a, i) \in Prompts
             /\ observed'[a][i] = Failed \/ observed'[a][i] \in answered'[turns_for(a, i)]
  <2>1. CASE i \in 1..Len(observed[a]) /\ observed'[a][i] = observed[a][i]
    <3>1. /\ turns_for(a, i) \in Prompts
          /\ observed[a][i] = Failed \/ observed[a][i] \in answered[turns_for(a, i)]
      BY <2>1 DEF Experiment, Faithful
    <3> QED BY <2>1, <3>1
  <2>2. CASE a = arm /\ i = index
    BY <1>1, <1>4, <1>5, <2>2
  <2>3. a = arm => i \in 1..Len(observed[arm]) \/ i = index
    BY <1>1, <1>4, <1>5, <1>6 DEF index
  <2> QED BY <1>4, <1>5, <2>1, <2>2, <2>3
<1>7. \A a \in Arms : Faithful(a)'
  BY <1>6 DEF Faithful, turns_for, Prompts
<1> QED BY <1>5, <1>7

\* A good observation is an answer to the prompt of its call.
LEMMA GoodIsAnswered ==
  ASSUME Experiment
  PROVE  /\ Good("identical") \subseteq answered[0]
         /\ \A o \in Good("perturbed") : \E prompt \in 1..Calls : o \in answered[prompt]
<1>1. ASSUME NEW a \in Arms, NEW o \in Good(a)
      PROVE  \E i \in 1..Len(observed[a]) :
               turns_for(a, i) \in Prompts /\ o \in answered[turns_for(a, i)]
  <2>1. observed[a] \in Seq(Answers \cup {Failed})
    BY DEF Experiment
  <2>2. PICK i \in DOMAIN observed[a] : o = observed[a][i] /\ o # Failed
    BY DEF Good
  <2>3. i \in 1..Len(observed[a])
    BY <2>1, <2>2
  <2> QED BY <2>2, <2>3 DEF Experiment, Faithful
<1>2. Good("identical") \subseteq answered[0]
  BY <1>1 DEF Arms, turns_for
<1>3. ASSUME NEW o \in Good("perturbed")
      PROVE  \E prompt \in 1..Calls : o \in answered[prompt]
  <2>1. PICK i \in 1..Len(observed["perturbed"]) :
          turns_for("perturbed", i) \in Prompts /\ o \in answered[turns_for("perturbed", i)]
    BY <1>1 DEF Arms
  <2>2. Len(observed["perturbed"]) \in Nat
    BY DEF Experiment, Arms
  <2> QED BY <2>1, <2>2, CallsAssumption DEF turns_for, Prompts
<1> QED BY <1>2, <1>3

\* The verdict is drawn from good observations only.
LEMMA ClaimsAreOfTheProvider ==
  ASSUME Experiment
  PROVE  /\ Claims.h1 \in {"proven", "confirmed"} => ~deterministic
         /\ Claims.h2 /\ deterministic =>
              \E prompt \in 1..Calls : \E a \in answered[0], b \in answered[prompt] : a.stance # b.stance
<1>1. ASSUME deterministic, NEW o \in Good("identical"), NEW p \in Good("identical") PROVE o = p
  <2>1. o \in answered[0] /\ p \in answered[0]
    BY GoodIsAnswered
  <2>2. 0 \in Prompts
    <3>1. answered[0] # {}
      BY <2>1
    <3>2. \E i \in 1..Len(observed["identical"]) : turns_for("identical", i) \in Prompts
      <4>1. observed["identical"] \in Seq(Answers \cup {Failed})
        BY DEF Experiment, Arms
      <4>2. PICK i \in DOMAIN observed["identical"] : TRUE
        BY DEF Good
      <4>3. i \in 1..Len(observed["identical"])
        BY <4>1, <4>2
      <4> QED BY <4>3 DEF Experiment, Faithful, Arms
    <3> QED BY <3>2 DEF turns_for
  <2> QED BY <1>1, <2>1, <2>2 DEF Experiment, OneAnswer
<1>2. Claims.h1 \in {"proven", "confirmed"} =>
        \E o, p \in Good("identical") : o # p
  <2>1. CASE Good("identical") = {}
    BY <2>1 DEF Claims, NoClaim
  <2>2. CASE \E s, t \in StancesOf("identical") : s # t
    BY <2>2 DEF StancesOf
  <2>3. CASE Good("identical") # {} /\ ~\E s, t \in StancesOf("identical") : s # t
    BY <2>3 DEF Claims
  <2> QED BY <2>1, <2>2, <2>3
<1>3. ASSUME Claims.h2, deterministic
      PROVE  \E prompt \in 1..Calls : \E a \in answered[0], b \in answered[prompt] : a.stance # b.stance
  <2>1. /\ Good("identical") # {}
        /\ ~\E s, t \in StancesOf("identical") : s # t
        /\ StancesOf("perturbed") # {} /\ StancesOf("perturbed") # StancesOf("identical")
    BY <1>3 DEF Claims, NoClaim
  <2>2. PICK a \in Good("identical") : TRUE
    BY <2>1
  <2>3. StancesOf("identical") = {a.stance}
    BY <2>1, <2>2 DEF StancesOf
  <2>4. PICK b \in Good("perturbed") : b.stance # a.stance
    <3>1. \E t \in StancesOf("perturbed") : t # a.stance
      BY <2>1, <2>3
    <3> QED BY <3>1 DEF StancesOf
  <2>5. PICK prompt \in 1..Calls : b \in answered[prompt]
    BY GoodIsAnswered
  <2>6. a \in answered[0] /\ a.stance # b.stance
    BY <2>2, <2>4, GoodIsAnswered
  <2> QED BY <2>5, <2>6
<1> QED BY <1>1, <1>2, <1>3

\* Nothing is observed, answered or claimed at the start.
LEMMA StabilityInitially == StabilityInit => StabilityInv
BY DEF StabilityInit, StabilityInv, Experiment, Prompts, Faithful, OneAnswer, Arms,
       VerdictIsOfTheProvider, NoClaim

\* Answers come to a prompt that has them already or has none; a failure comes to no prompt.
LEMMA StabilityInductive == StabilityInv /\ [StabilityNext]_stabilityVars => StabilityInv'
<1> SUFFICES ASSUME StabilityInv, [StabilityNext]_stabilityVars PROVE StabilityInv'
  OBVIOUS
<1>0. Experiment
  BY DEF StabilityInv
<1>1. ASSUME exit_code = -1, claim' = claim, exit_code' = -1, Experiment' PROVE StabilityInv'
  BY <1>1 DEF StabilityInv, VerdictIsOfTheProvider, NoClaim
<1>2. CASE Answered
  <2>1. Asking /\ UNCHANGED <<deterministic, arms, claim, exit_code>>
    BY <1>2 DEF Answered
  <2>2. PICK prompt \in Prompts : prompt = turns_for(arm, index)
    BY <1>0, <2>1, AskingIsOfAnArm
  <2>3. PICK answer \in Replies(prompt) :
          /\ answered' = [answered EXCEPT ![prompt] = answered[prompt] \cup {answer}]
          /\ Observe(answer)
    BY <1>2, <2>2 DEF Answered
  <2>4. answer \in Answers
    BY <1>0, <2>2, <2>3 DEF Replies, Experiment
  <2>5. /\ answered' \in [Prompts -> SUBSET Answers]
        /\ answered'[prompt] = answered[prompt] \cup {answer}
        /\ \A other \in Prompts : other # prompt => answered'[other] = answered[other]
    BY <1>0, <2>3, <2>4 DEF Experiment
  <2>6. /\ observed' \in [Arms -> Seq(Answers \cup {Failed})]
        /\ \A a \in Arms : Faithful(a)'
    <3>1. \A other \in Prompts : answered[other] \subseteq answered'[other]
      BY <2>5
    <3>2. answer \in answered'[turns_for(arm, index)] /\ answer \in Answers \cup {Failed}
      BY <2>2, <2>4, <2>5
    <3> QED BY <1>0, <2>1, <2>3, <2>5, <3>1, <3>2, ObservingIsFaithful
  <2>7. ASSUME deterministic, NEW other \in Prompts PROVE OneAnswer(other)'
    <3>1. answered[prompt] # {} => answer \in answered[prompt]
      BY <2>3, <2>7 DEF Replies
    <3>2. OneAnswer(other)
      BY <1>0, <2>7 DEF Experiment
    <3>3. CASE other = prompt
      BY <2>5, <3>1, <3>2, <3>3 DEF OneAnswer
    <3>4. CASE other # prompt
      BY <2>5, <3>2, <3>4 DEF OneAnswer
    <3> QED BY <3>3, <3>4
  <2> QED BY <1>0, <1>1, <2>1, <2>5, <2>6, <2>7 DEF Asking, Experiment, Prompts
<1>3. CASE RateLimited \/ CallFails
  <2>1. Asking /\ UNCHANGED <<deterministic, answered, arms, claim, exit_code>>
    BY <1>3 DEF RateLimited, CallFails
  <2>2. observed' = observed \/ Observe(Failed)
    BY <1>3 DEF RateLimited, CallFails
  <2>3. /\ observed' \in [Arms -> Seq(Answers \cup {Failed})]
        /\ \A a \in Arms : Faithful(a)'
    <3>1. CASE observed' = observed
      BY <1>0, <2>1, <3>1 DEF Experiment, Faithful, turns_for, Prompts
    <3>2. CASE Observe(Failed)
      BY <1>0, <2>1, <3>2, ObservingIsFaithful DEF Experiment
    <3> QED BY <2>2, <3>1, <3>2
  <2> QED BY <1>0, <1>1, <2>1, <2>3 DEF Asking, Experiment, Prompts, OneAnswer
<1>4. CASE EndOfArm
  <2>1. /\ exit_code = -1 /\ arms # <<>> /\ arms' = Tail(arms)
        /\ UNCHANGED <<deterministic, answered, observed, claim, exit_code>>
    BY <1>4 DEF EndOfArm
  <2>2. arms' \in Plans \cup {<<>>}
    <3>1. arms \in Plans
      BY <1>0, <2>1 DEF Experiment
    <3>2. CASE arms = <<"identical", "perturbed">>
      BY <2>1, <3>2 DEF Plans
    <3>3. CASE arms = <<"identical">> \/ arms = <<"perturbed">>
      BY <2>1, <3>3
    <3> QED BY <3>1, <3>2, <3>3 DEF Plans
  <2> QED BY <1>0, <1>1, <2>1, <2>2 DEF Experiment, Faithful, turns_for, Prompts, OneAnswer
<1>5. ASSUME UNCHANGED <<deterministic, answered, arms, observed>> PROVE Experiment'
  BY <1>0, <1>5 DEF Experiment, Faithful, turns_for, Prompts, OneAnswer
<1>6. CASE Verdict
  <2>1. /\ UNCHANGED <<deterministic, answered, arms, observed>>
        /\ claim' = Claims /\ exit_code' \in {0, 1}
    BY <1>6 DEF Verdict
  <2>2. VerdictIsOfTheProvider'
    BY <1>0, <2>1, ClaimsAreOfTheProvider DEF VerdictIsOfTheProvider
  <2> QED BY <1>5, <2>1, <2>2 DEF StabilityInv
<1>7. CASE Abort
  <2>1. UNCHANGED <<deterministic, answered, arms, observed, claim>> /\ exit_code' = 2
    BY <1>7 DEF Abort
  <2> QED BY <1>5, <2>1 DEF StabilityInv, VerdictIsOfTheProvider
<1>8. CASE UNCHANGED stabilityVars
  <2>1. UNCHANGED <<deterministic, answered, arms, observed, claim, exit_code>>
    BY <1>8 DEF stabilityVars
  <2> QED BY <1>5, <2>1 DEF StabilityInv, VerdictIsOfTheProvider
<1> QED BY <1>2, <1>3, <1>4, <1>6, <1>7, <1>8 DEF StabilityNext

\* Whatever fails on the way, the verdict says nothing of the provider that is not so,
\* for any number of calls and retries (probe_stance_stability.py:190-193).
THEOREM VerdictsAreOfTheProvider == StabilitySpec => []VerdictIsOfTheProvider
<1>1. StabilityInv => VerdictIsOfTheProvider
  BY DEF StabilityInv
<1> QED BY <1>1, StabilityInitially, StabilityInductive, PTL DEF StabilitySpec

(***************************************************************************)
(* The figures of the gold file. The rows of an agent fall into six parts, *)
(* the four counts, the abstentions and the unknown labels; each figure    *)
(* counts a union of them.                                                 *)
(***************************************************************************)
LEMMA DisjointCounts ==
  ASSUME NEW S, IsFiniteSet(S), NEW T, IsFiniteSet(T), S \cap T = {}
  PROVE  /\ IsFiniteSet(S \cup T)
         /\ Cardinality(S \cup T) = Cardinality(S) + Cardinality(T)
         /\ Cardinality(S) \in Nat /\ Cardinality(T) \in Nat
<1>1. Cardinality(S \cap T) = 0
  BY FS_EmptySet
<1>2. Cardinality(S) \in Nat /\ Cardinality(T) \in Nat
  BY FS_CardinalityType
<1>3. /\ IsFiniteSet(S \cup T)
      /\ Cardinality(S \cup T) = Cardinality(S) + Cardinality(T) - Cardinality(S \cap T)
  BY FS_Union
<1> QED BY <1>1, <1>2, <1>3

\* A sum over two labels has two terms.
LEMMA TwoTerms ==
  ASSUME NEW a, NEW b, a # b, NEW f \in [{a, b} -> Int]
  PROVE  SumFunction(f) = f[a] + f[b]
<1> DEFINE pick(s) == CHOOSE x \in s : TRUE
           Eq(g) == g = [s \in SUBSET {a, b} |-> IF s = {} THEN 0 ELSE f[pick(s)] + g[s \ {pick(s)}]]
           h == [s \in SUBSET {a, b} |->
                   (IF a \in s THEN f[a] ELSE 0) + (IF b \in s THEN f[b] ELSE 0)]
           sum == CHOOSE g : Eq(g)
<1>1. SumFunction(f) = sum[{a, b}]
  BY DEF SumFunction, SumFunctionOnSet, FoldFunctionOnSet, MapThenFoldSet
<1>2. \A s \in SUBSET {a, b} : s # {} => pick(s) \in s
  OBVIOUS
<1>3. \A s \in SUBSET {a, b} : s # {} => h[s] = f[pick(s)] + h[s \ {pick(s)}]
  <2> SUFFICES ASSUME NEW s \in SUBSET {a, b}, s # {}
               PROVE  h[s] = f[pick(s)] + h[s \ {pick(s)}]
    OBVIOUS
  <2>1. pick(s) = a \/ pick(s) = b
    BY <1>2
  <2>2. pick(s) \in s
    BY <1>2
  <2>3. f[a] \in Int /\ f[b] \in Int
    OBVIOUS
  <2> HIDE DEF pick
  <2> QED BY <2>1, <2>2, <2>3
<1>4. Eq(h)
  <2>1. \A s \in SUBSET {a, b} : s = {} => h[s] = 0
    OBVIOUS
  <2> HIDE DEF pick
  <2> QED BY <1>3, <2>1
<1> HIDE DEF Eq
<1>5. Eq(sum)
  BY <1>4
<1> USE DEF Eq
<1>6. /\ sum[{}] = 0
      /\ \A s \in SUBSET {a, b} : s # {} => sum[s] = f[pick(s)] + sum[s \ {pick(s)}]
  <2> HIDE DEF sum, pick
  <2> QED BY <1>5
<1> HIDE DEF sum, pick, Eq, h
<1>7. f[a] \in Int /\ f[b] \in Int
  OBVIOUS
<1>8. \A x \in {a, b} : sum[{x}] = f[x]
  <2> SUFFICES ASSUME NEW x \in {a, b} PROVE sum[{x}] = f[x]
    OBVIOUS
  <2>1. pick({x}) = x /\ {x} \ {x} = {}
    BY <1>2
  <2>2. sum[{x}] = f[pick({x})] + sum[{x} \ {pick({x})}]
    BY <1>6, {x} \in SUBSET {a, b}, {x} # {}
  <2>3. sum[{x}] = f[x] + sum[{}]
    BY <2>1, <2>2
  <2> QED BY <1>6, <1>7, <2>3
<1>9. CASE pick({a, b}) = a
  <2>1. {a, b} \ {a} = {b}
    OBVIOUS
  <2>2. sum[{a, b}] = f[pick({a, b})] + sum[{a, b} \ {pick({a, b})}]
    BY <1>6, {a, b} \in SUBSET {a, b}, {a, b} # {}
  <2>3. sum[{a, b}] = f[a] + sum[{b}]
    BY <1>9, <2>1, <2>2
  <2> QED BY <1>1, <1>7, <1>8, <2>3
<1>10. CASE pick({a, b}) = b
  <2>1. {a, b} \ {b} = {a}
    OBVIOUS
  <2>2. sum[{a, b}] = f[pick({a, b})] + sum[{a, b} \ {pick({a, b})}]
    BY <1>6, {a, b} \in SUBSET {a, b}, {a, b} # {}
  <2>3. sum[{a, b}] = f[b] + sum[{a}]
    BY <1>10, <2>1, <2>2
  <2> QED BY <1>1, <1>7, <1>8, <2>3
<1> QED BY <1>2, <1>9, <1>10

\* The rows of an agent whose labels are in two lists.
Labelled(agent, golds, judges) ==
  {i \in Of(agent) : gold_rows[i].gold \in golds /\ gold_rows[i].judge \in judges}

Others      == JUDGE_CLASSES \ {"OVER_PROMISE"}
OtherGolds  == GOLD_CLASSES \ {"OVER_PROMISE"}
TP(agent)   == Labelled(agent, {"OVER_PROMISE"}, {"OVER_PROMISE"})
FP(agent)   == Labelled(agent, OtherGolds, {"OVER_PROMISE"})
FN(agent)   == Labelled(agent, {"OVER_PROMISE"}, Others)
TN(agent)   == Labelled(agent, OtherGolds, Others)
Nulls(agent)    == {i \in Of(agent) : ~Judged(gold_rows[i])}
Unknowns(agent) == {i \in Of(agent) : Judged(gold_rows[i]) /\ ~InMatrix(gold_rows[i])}

\* The figures are counts of the parts.
LEMMA ReportOfParts ==
  ASSUME NEW agent
  PROVE  LET report == ConfusionReport(agent)
             s == report.stats["OVER_PROMISE"]
         IN /\ s.true_positive = Cardinality(TP(agent)) /\ s.false_positive = Cardinality(FP(agent))
            /\ s.false_negative = Cardinality(FN(agent)) /\ s.true_negative = Cardinality(TN(agent))
            /\ report.total = Cardinality(Of(agent))
            /\ report.abstained = Cardinality(Nulls(agent))
            /\ report.errored = Cardinality(Unknowns(agent))
<1>1. "OVER_PROMISE" \in GOLD_CLASSES
  BY DEF GOLD_CLASSES
<1>2. ConfusionReport(agent).stats["OVER_PROMISE"] = Stats(Of(agent), "OVER_PROMISE")
  BY <1>1 DEF ConfusionReport
<1>3. LET s == Stats(Of(agent), "OVER_PROMISE")
      IN /\ s.true_positive = Cardinality(TP(agent)) /\ s.false_positive = Cardinality(FP(agent))
         /\ s.false_negative = Cardinality(FN(agent)) /\ s.true_negative = Cardinality(TN(agent))
  BY DEF Stats, Cells, Number, Labelled, Others, OtherGolds, TP, FP, FN, TN
<1>4. /\ ConfusionReport(agent).total = Cardinality(Of(agent))
      /\ ConfusionReport(agent).abstained = Cardinality(Nulls(agent))
      /\ ConfusionReport(agent).errored = Cardinality(Unknowns(agent))
  BY DEF ConfusionReport, Number, Nulls, Unknowns
<1> QED BY <1>2, <1>3, <1>4

\* A row of the file is in one part, and only one.
LEMMA PartsOfTheFile ==
  ASSUME NEW agent
  PROVE  /\ Of(agent) = ((((TP(agent) \cup FN(agent)) \cup (FP(agent) \cup TN(agent)))
                            \cup Nulls(agent)) \cup Unknowns(agent))
         /\ TP(agent) \cap FN(agent) = {} /\ FP(agent) \cap TN(agent) = {}
         /\ TP(agent) \cap FP(agent) = {} /\ FN(agent) \cap TN(agent) = {}
         /\ TP(agent) \cap TN(agent) = {}
         /\ (TP(agent) \cup FN(agent)) \cap (FP(agent) \cup TN(agent)) = {}
         /\ ((TP(agent) \cup FN(agent)) \cup (FP(agent) \cup TN(agent))) \cap Nulls(agent) = {}
         /\ (((TP(agent) \cup FN(agent)) \cup (FP(agent) \cup TN(agent))) \cup Nulls(agent))
              \cap Unknowns(agent) = {}
<1>1. \A i \in Of(agent) :
        i \in TP(agent) \/ i \in FN(agent) \/ i \in FP(agent) \/ i \in TN(agent)
          <=> InMatrix(gold_rows[i])
  BY DEF TP, FP, FN, TN, Labelled, Others, OtherGolds, InMatrix, GOLD_CLASSES, JUDGE_CLASSES
<1>2. \A i \in Of(agent) : InMatrix(gold_rows[i]) => Judged(gold_rows[i])
  BY NullAssumption DEF InMatrix, Judged
<1>3. /\ TP(agent) \cap FN(agent) = {} /\ FP(agent) \cap TN(agent) = {}
      /\ TP(agent) \cap FP(agent) = {} /\ FN(agent) \cap TN(agent) = {}
      /\ TP(agent) \cap TN(agent) = {}
      /\ (TP(agent) \cup FN(agent)) \cap (FP(agent) \cup TN(agent)) = {}
  BY DEF TP, FP, FN, TN, Labelled, Others, OtherGolds
<1>4. TP(agent) \cup FN(agent) \cup FP(agent) \cup TN(agent) \subseteq Of(agent)
  BY DEF TP, FP, FN, TN, Labelled
<1>5. /\ \A i : i \in Nulls(agent) <=> i \in Of(agent) /\ ~Judged(gold_rows[i])
      /\ \A i : i \in Unknowns(agent) <=>
                  i \in Of(agent) /\ Judged(gold_rows[i]) /\ ~InMatrix(gold_rows[i])
  BY DEF Nulls, Unknowns
<1> QED BY <1>1, <1>2, <1>3, <1>4, <1>5

LEMMA RowsAreFinite ==
  ASSUME gold_rows \in Seq(GoldRow), NEW agent
  PROVE  IsFiniteSet(Of(agent))
<1>1. Len(gold_rows) \in Nat /\ DOMAIN gold_rows = 1..Len(gold_rows)
  OBVIOUS
<1>2. 1 \in Int /\ Len(gold_rows) \in Int
  BY <1>1
<1>3. IsFiniteSet(1..Len(gold_rows))
  BY <1>2, FS_Interval
<1>4. Of(agent) \in SUBSET (1..Len(gold_rows))
  BY <1>1 DEF Of
<1> QED BY <1>3, <1>4, FS_Subset

\* What kappa compares, when no label is unknown: the parts again.
LEMMA PairsOfParts ==
  ASSUME NEW agent, Unknowns(agent) = {}
  PROVE  LET pairs == align_verdicts(agent, TRUE) IN
         /\ DOMAIN pairs = (TP(agent) \cup FN(agent)) \cup (FP(agent) \cup TN(agent))
         /\ {i \in DOMAIN pairs : pairs[i].gold = pairs[i].judge} = TP(agent) \cup TN(agent)
         /\ {i \in DOMAIN pairs : pairs[i].gold = "OVER_PROMISE"} = TP(agent) \cup FN(agent)
         /\ {i \in DOMAIN pairs : pairs[i].judge = "OVER_PROMISE"} = TP(agent) \cup FP(agent)
         /\ {i \in DOMAIN pairs : pairs[i].gold = "other"} = FP(agent) \cup TN(agent)
         /\ {i \in DOMAIN pairs : pairs[i].judge = "other"} = FN(agent) \cup TN(agent)
<1> DEFINE pairs == align_verdicts(agent, TRUE)
           D == (TP(agent) \cup FN(agent)) \cup (FP(agent) \cup TN(agent))
           G(i) == gold_rows[i].gold = "OVER_PROMISE"
           J(i) == gold_rows[i].judge = "OVER_PROMISE"
<1>1. DOMAIN pairs = D
  <2>1. DOMAIN pairs = Of(agent) \ Nulls(agent)
    BY DEF align_verdicts, AlignPairs, Nulls
  <2> HIDE DEF pairs
  <2> QED BY <2>1, PartsOfTheFile
<1>2. \A i \in D : /\ pairs[i].gold = IF G(i) THEN "OVER_PROMISE" ELSE "other"
                   /\ pairs[i].judge = IF J(i) THEN "OVER_PROMISE" ELSE "other"
  <2>1. \A i \in DOMAIN pairs : pairs[i] = Pair(gold_rows[i], TRUE)
    BY DEF align_verdicts, AlignPairs
  <2>2. \A i : /\ Pair(gold_rows[i], TRUE).gold = IF G(i) THEN "OVER_PROMISE" ELSE "other"
               /\ Pair(gold_rows[i], TRUE).judge = IF J(i) THEN "OVER_PROMISE" ELSE "other"
    BY DEF Pair, Binary, JUDGE_TO_GOLD_CLASS
  <2> HIDE DEF pairs, D, G, J
  <2> QED BY <1>1, <2>1, <2>2
<1>3. /\ \A i \in TP(agent) : G(i) /\ J(i)
      /\ \A i \in FN(agent) : G(i) /\ ~J(i)
      /\ \A i \in FP(agent) : ~G(i) /\ J(i)
      /\ \A i \in TN(agent) : ~G(i) /\ ~J(i)
  BY DEF TP, FP, FN, TN, Labelled, Others, OtherGolds
<1>4. "other" # "OVER_PROMISE"
  OBVIOUS
<1>5. /\ \A i \in D : pairs[i].gold = pairs[i].judge <=> i \in TP(agent) \cup TN(agent)
      /\ \A i \in D : pairs[i].gold = "OVER_PROMISE" <=> i \in TP(agent) \cup FN(agent)
      /\ \A i \in D : pairs[i].judge = "OVER_PROMISE" <=> i \in TP(agent) \cup FP(agent)
      /\ \A i \in D : pairs[i].gold = "other" <=> i \in FP(agent) \cup TN(agent)
      /\ \A i \in D : pairs[i].judge = "other" <=> i \in FN(agent) \cup TN(agent)
  <2> HIDE DEF pairs, G, J
  <2> QED BY <1>2, <1>3, <1>4 DEF D
<1>6. /\ {i \in D : pairs[i].gold = pairs[i].judge} = TP(agent) \cup TN(agent)
      /\ {i \in D : pairs[i].gold = "OVER_PROMISE"} = TP(agent) \cup FN(agent)
      /\ {i \in D : pairs[i].judge = "OVER_PROMISE"} = TP(agent) \cup FP(agent)
      /\ {i \in D : pairs[i].gold = "other"} = FP(agent) \cup TN(agent)
      /\ {i \in D : pairs[i].judge = "other"} = FN(agent) \cup TN(agent)
  <2> HIDE DEF pairs
  <2> QED BY <1>5 DEF D
<1> HIDE DEF D
<1> QED BY <1>1, <1>6 DEF D

\* Chance agreement is no more than certainty.
LEMMA ChanceIsBounded ==
  ASSUME NEW tp \in Nat, NEW fp \in Nat, NEW fn \in Nat, NEW tn \in Nat
  PROVE  (tp + fn) * (tp + fp) + (fp + tn) * (fn + tn) <= (tp + fp + fn + tn) * (tp + fp + fn + tn)
<1> DEFINE a == tp + fn  b == tp + fp  c == fp + tn  d == fn + tn
<1>1. a \in Nat /\ b \in Nat /\ c \in Nat /\ d \in Nat
  OBVIOUS
<1>2. tp + fp + fn + tn = a + c /\ tp + fp + fn + tn = b + d
  OBVIOUS
<1> HIDE DEF a, b, c, d
<1>3. (a + c) * (b + d) = a * b + c * d + a * d + c * b
  BY <1>1
<1>4. a * d \in Nat /\ c * b \in Nat /\ a * b \in Nat /\ c * d \in Nat
  BY <1>1
<1>5. a * b + c * d <= (a + c) * (b + d)
  BY <1>3, <1>4
<1>6. a * b + c * d <= (tp + fp + fn + tn) * (tp + fp + fn + tn)
  BY <1>2, <1>5
<1> QED BY <1>6 DEF a, b, c, d

LEMMA FiguresOfAnAgent ==
  ASSUME gold_rows \in Seq(GoldRow), NEW agent
  PROVE  LET report == ConfusionReport(agent)
             s  == report.stats["OVER_PROMISE"]
             tp == s.true_positive  fp == s.false_positive
             fn == s.false_negative tn == s.true_negative
             n  == tp + fp + fn + tn
             pe == (tp + fn) * (tp + fp) + (fp + tn) * (fn + tn)
         IN /\ n = report.total - report.abstained - report.errored
            /\ report.errored = 0 => compute_kappa(agent, TRUE) =
                 IF pe = n * n THEN <<0, 1>> ELSE <<n * (tp + tn) - pe, n * n - pe>>
<1> DEFINE tp == Cardinality(TP(agent))  fp == Cardinality(FP(agent))
           fn == Cardinality(FN(agent))  tn == Cardinality(TN(agent))
           D  == (TP(agent) \cup FN(agent)) \cup (FP(agent) \cup TN(agent))
           n  == tp + fp + fn + tn
           pe == (tp + fn) * (tp + fp) + (fp + tn) * (fn + tn)
           total == Cardinality(Of(agent))
           nulls == Cardinality(Nulls(agent))
           unknowns == Cardinality(Unknowns(agent))
<1>1. /\ IsFiniteSet(TP(agent)) /\ IsFiniteSet(FP(agent)) /\ IsFiniteSet(FN(agent))
      /\ IsFiniteSet(TN(agent)) /\ IsFiniteSet(Nulls(agent)) /\ IsFiniteSet(Unknowns(agent))
  <2>1. /\ TP(agent) \in SUBSET Of(agent) /\ FP(agent) \in SUBSET Of(agent)
        /\ FN(agent) \in SUBSET Of(agent) /\ TN(agent) \in SUBSET Of(agent)
        /\ Nulls(agent) \in SUBSET Of(agent) /\ Unknowns(agent) \in SUBSET Of(agent)
    BY PartsOfTheFile
  <2> QED BY <2>1, RowsAreFinite, FS_Subset
<1>2. /\ tp \in Nat /\ fp \in Nat /\ fn \in Nat /\ tn \in Nat /\ nulls \in Nat /\ unknowns \in Nat
  BY <1>1, FS_CardinalityType
<1>3. /\ IsFiniteSet(TP(agent) \cup FN(agent)) /\ Cardinality(TP(agent) \cup FN(agent)) = tp + fn
      /\ IsFiniteSet(FP(agent) \cup TN(agent)) /\ Cardinality(FP(agent) \cup TN(agent)) = fp + tn
      /\ Cardinality(TP(agent) \cup FP(agent)) = tp + fp
      /\ Cardinality(FN(agent) \cup TN(agent)) = fn + tn
      /\ Cardinality(TP(agent) \cup TN(agent)) = tp + tn
  BY <1>1, PartsOfTheFile, DisjointCounts
<1>4. IsFiniteSet(D) /\ Cardinality(D) = (tp + fn) + (fp + tn)
  BY <1>3, PartsOfTheFile, DisjointCounts
<1>5. /\ IsFiniteSet(D \cup Nulls(agent))
      /\ Cardinality(D \cup Nulls(agent)) = (tp + fn) + (fp + tn) + nulls
  BY <1>1, <1>4, PartsOfTheFile, DisjointCounts
<1>6. total = (tp + fn) + (fp + tn) + nulls + unknowns
  BY <1>1, <1>5, PartsOfTheFile, DisjointCounts
<1>7. n = total - nulls - unknowns
  <2> HIDE DEF tp, fp, fn, tn, total, nulls, unknowns
  <2> QED BY <1>2, <1>6
<1>8. ASSUME unknowns = 0
      PROVE  compute_kappa(agent, TRUE) =
               IF pe = n * n THEN <<0, 1>> ELSE <<n * (tp + tn) - pe, n * n - pe>>
  <2>1. Unknowns(agent) = {}
    BY <1>1, <1>8, FS_EmptySet
  <2> DEFINE pairs == align_verdicts(agent, TRUE)
             golds(l)  == Cardinality({i \in DOMAIN pairs : pairs[i].gold = l})
             judges(l) == Cardinality({i \in DOMAIN pairs : pairs[i].judge = l})
             chance == [l \in {"other", "OVER_PROMISE"} |-> golds(l) * judges(l)]
             m  == Cardinality(DOMAIN pairs)
             po == Cardinality({i \in DOMAIN pairs : pairs[i].gold = pairs[i].judge})
             sum == SumFunction(chance)
  <2>2. compute_kappa(agent, TRUE) =
          IF m = 0 \/ sum >= m * m THEN <<0, 1>> ELSE <<m * po - sum, m * m - sum>>
    BY DEF compute_kappa, cohen_kappa, Labels
  <2>3. m = (tp + fn) + (fp + tn) /\ po = tp + tn
    BY <1>3, <1>4, <2>1, PairsOfParts
  <2>4. /\ golds("OVER_PROMISE") = tp + fn /\ judges("OVER_PROMISE") = tp + fp
        /\ golds("other") = fp + tn /\ judges("other") = fn + tn
    BY <1>3, <2>1, PairsOfParts
  <2> HIDE DEF tp, fp, fn, tn, golds, judges
  <2>5. chance["other"] = (fp + tn) * (fn + tn) /\ chance["OVER_PROMISE"] = (tp + fn) * (tp + fp)
    BY <2>4
  <2>6. chance \in [{"other", "OVER_PROMISE"} -> Int]
    <3>1. (fp + tn) * (fn + tn) \in Int /\ (tp + fn) * (tp + fp) \in Int
      BY <1>2
    <3>2. chance = [l \in {"other", "OVER_PROMISE"} |-> chance[l]]
      OBVIOUS
    <3> HIDE DEF chance
    <3>3. \A l \in {"other", "OVER_PROMISE"} : chance[l] \in Int
      BY <2>5, <3>1
    <3> QED BY <3>2, <3>3
  <2> HIDE DEF chance
  <2>7. sum = chance["other"] + chance["OVER_PROMISE"]
    BY <2>6, TwoTerms, "other" # "OVER_PROMISE"
  <2>8. pe <= n * n
    BY <1>2, ChanceIsBounded
  <2>9. m = n /\ sum = pe
    <3>1. (fp + tn) * (fn + tn) \in Int /\ (tp + fn) * (tp + fp) \in Int
      BY <1>2
    <3>2. sum = pe
      BY <2>5, <2>7, <3>1
    <3> HIDE DEF m
    <3>3. m = n
      BY <1>2, <2>3
    <3> QED BY <3>2, <3>3
  <2>10. n = 0 => pe = n * n
    BY <1>2
  <2>11. pe \in Int /\ n \in Int /\ n * n \in Int
    BY <1>2
  <2> HIDE DEF m, po, sum, n, pe
  <2>12. m * m = n * n /\ m * po = n * (tp + tn)
    BY <2>3, <2>9
  <2>13. sum >= m * m <=> pe = n * n
    BY <2>8, <2>9, <2>11, <2>12
  <2>14. (m = 0 \/ sum >= m * m) <=> pe = n * n
    BY <2>9, <2>10, <2>13
  <2> QED BY <2>2, <2>9, <2>12, <2>14
<1> HIDE DEF tp, fp, fn, tn, total, nulls, unknowns
<1>9. LET s == ConfusionReport(agent).stats["OVER_PROMISE"]
      IN /\ s.true_positive = tp /\ s.false_positive = fp
         /\ s.false_negative = fn /\ s.true_negative = tn
         /\ ConfusionReport(agent).total = total
         /\ ConfusionReport(agent).abstained = nulls
         /\ ConfusionReport(agent).errored = unknowns
  BY ReportOfParts DEF tp, fp, fn, tn, total, nulls, unknowns
<1> QED BY <1>7, <1>8, <1>9

\* For every gold file, agent and label: the binary kappa is the one of the over-promise
\* counts, and those leave out the abstentions and the unknown labels, no row twice
\* (kappa.py:141, confusion.py:156).
THEOREM FiguresAgree == MetricsSpec => []KappaIsOfTheMatrix
<1> DEFINE TypeOK == gold_rows \in Seq(GoldRow)
<1>1. MetricsInit => TypeOK
  BY DEF MetricsInit
<1>2. TypeOK /\ [MetricsNext]_gold_rows => TypeOK'
  BY DEF MetricsNext, LabelRow
<1>3. TypeOK => KappaIsOfTheMatrix
  BY FiguresOfAnAgent DEF KappaIsOfTheMatrix
<1> QED BY <1>1, <1>2, <1>3, PTL DEF MetricsSpec
===============================================================================
