---------------------------- MODULE JudgeStability ----------------------------
(***************************************************************************)
(* The experiment of scripts/probe_stance_stability.py: is the judge       *)
(* unstable at temperature 0, or sensitive to a noise word? One arm sends  *)
(* the same bytes every call, the other numbers its calls, and the verdict *)
(* is read off the answers of both.                                        *)
(*                                                                         *)
(* The provider is external: a deterministic one answers a prompt as it    *)
(* answered it before. An answer is its stance, NoJudgment where the judge *)
(* abstained, and its text; confidence and completions stand in the text.  *)
(***************************************************************************)
EXTENDS Integers, Sequences

CONSTANTS
  Answers,      \* answers a provider may give to a prompt
  NoJudgment,   \* None
  Calls,        \* --calls
  RateRetries   \* --max-rate-limit-retries

ASSUME CallsAssumption == {Calls, RateRetries} \subseteq Int

ASSUME AnswersAssumption ==
  Answers \subseteq [stance : {"grants", "denies", "unclear", NoJudgment}, text : {"x", "y", ""}]

Failed == [stance |-> NoJudgment, text |-> "failed"]
NoClaim == [h1 |-> "none", h2 |-> FALSE]

VARIABLES
  deterministic,  \* the provider is
  answered,       \* what it has answered, for each prompt
  arms,           \* the arms still to run
  attempt_429,    \* attempts of the current call
  observed,       \* the observations of each arm
  claim,          \* what the verdict says
  exit_code       \* -1 while the script runs

stabilityVars == <<deterministic, answered, arms, attempt_429, observed, claim, exit_code>>

Arms == {"identical", "perturbed"}
Plans == {<<"identical", "perturbed">>, <<"identical">>, <<"perturbed">>}

\* Wrong variant: the cache-busting reference of scripts/time_judge.py in both arms.
turns_for_numbered(arm, index) == index

\* The prompt: 0 for the customer's message as it is.
turns_for(arm, index) == IF arm = "identical" THEN 0 ELSE index

arm == Head(arms)
index == Len(observed[arm]) + 1
Asking == exit_code = -1 /\ arms # <<>> /\ index <= Calls

\* An Observation of this call.
Observe(observation) ==
  /\ observed' = [observed EXCEPT ![arm] = Append(@, observation)]
  /\ attempt_429' = 1

\* What the provider can say to this prompt.
Replies(prompt) ==
  IF deterministic /\ answered[prompt] # {} THEN answered[prompt] ELSE Answers

(***************************************************************************)
(* one_call.                                                               *)
(***************************************************************************)
Answered ==
  /\ Asking
  /\ LET prompt == turns_for(arm, index) IN
     \E answer \in Replies(prompt) :
       /\ answered' = [answered EXCEPT ![prompt] = @ \cup {answer}]
       /\ Observe(answer)
  /\ UNCHANGED <<deterministic, arms, claim, exit_code>>

\* A 429 is retried after the delay it states.
RateLimited ==
  /\ Asking
  /\ IF attempt_429 <= RateRetries
     THEN attempt_429' = attempt_429 + 1 /\ UNCHANGED observed
     ELSE Observe(Failed)
  /\ UNCHANGED <<deterministic, answered, arms, claim, exit_code>>

\* Every other failure is recorded as it is.
CallFails ==
  /\ Asking
  /\ Observe(Failed)
  /\ UNCHANGED <<deterministic, answered, arms, claim, exit_code>>

EndOfArm ==
  /\ exit_code = -1 /\ arms # <<>> /\ index > Calls
  /\ arms' = Tail(arms)
  /\ UNCHANGED <<deterministic, answered, attempt_429, observed, claim, exit_code>>

(***************************************************************************)
(* verdict.                                                                *)
(***************************************************************************)
Good(a) == {observed[a][i] : i \in DOMAIN observed[a]} \ {Failed}

StancesOf(a) == {o.stance : o \in Good(a)}

\* H1 "proven" by two stances of one prompt, "confirmed" by two texts; H2 "live" when the
\* other arm's stances are not those of this one.
Claims ==
  LET identical == StancesOf("identical")
      perturbed == StancesOf("perturbed")
  IN IF Good("identical") = {} THEN NoClaim
     ELSE IF \E s, t \in identical : s # t THEN [h1 |-> "proven", h2 |-> FALSE]
     ELSE [h1 |-> IF \E o, p \in Good("identical") : o # p THEN "confirmed" ELSE "stable",
           h2 |-> perturbed # {} /\ perturbed # identical]

Verdict ==
  /\ exit_code = -1 /\ arms = <<>>
  /\ claim' = Claims
  /\ exit_code' = IF \E a \in Arms : \E i \in DOMAIN observed[a] : observed[a][i] = Failed
                  THEN 1 ELSE 0
  /\ UNCHANGED <<deterministic, answered, arms, attempt_429, observed>>

\* No key, no litellm, or a reply that L0 settles: exit 2 before any call.
Abort ==
  /\ exit_code = -1 /\ \A a \in Arms : observed[a] = <<>>
  /\ attempt_429 = 1 /\ arms \in Plans
  /\ exit_code' = 2
  /\ UNCHANGED <<deterministic, answered, arms, attempt_429, observed, claim>>

StabilityInit ==
  /\ deterministic \in BOOLEAN
  /\ answered = [prompt \in 0..Calls |-> {}]
  /\ arms \in Plans
  /\ attempt_429 = 1
  /\ observed = [a \in Arms |-> <<>>]
  /\ claim = NoClaim
  /\ exit_code = -1

StabilityNext == Answered \/ RateLimited \/ CallFails \/ EndOfArm \/ Verdict \/ Abort

StabilitySpec == StabilityInit /\ [][StabilityNext]_stabilityVars

(***************************************************************************)
(* Property.                                                               *)
(***************************************************************************)
\* The verdict says nothing of the provider that is not so, whatever fails on the way:
\* nondeterminism is claimed of no deterministic provider, and where the provider is
\* deterministic, the order reference is blamed only if it did move a stance ("a transport
\* failure must never quietly become a judgment, and it must never quietly become an
\* abstention either", probe_stance_stability.py:190-193).
VerdictIsOfTheProvider ==
  /\ claim.h1 \in {"proven", "confirmed"} => ~deterministic
  /\ claim.h2 /\ deterministic =>
       \E prompt \in 1..Calls : \E a \in answered[0], b \in answered[prompt] : a.stance # b.stance
===============================================================================
