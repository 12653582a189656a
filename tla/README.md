# A formal model of PromiseCheck

PromiseCheck (the `clauseguard` command) audits a support agent against a written
policy. It compiles the policy into rules and probes, asks every probe of the agent,
has an LLM judge say whether each answer *grants* or *denies* what the policy grants or
denies, and keeps one row per probe in an append-only SQLite store. Its headline number is the
number of **over-promises**: the policy denies and the agent granted. `clauseguard check`
turns the number into an exit status for CI.

This directory holds TLA+ modules of the parts of that pipeline where steps of several actors,
failures and retries meet, TLC configurations that check them on small instances, and TLAPS proofs,
for instances of any size, of every safety property the runs check and of the refinement of the
store. `PROJECT.json` lists the runs, the source lines of every definition, the findings, the
hazards and the theorems. Paths below are relative to `src/`.

## 1. Inventory

| Component | Source | State it keeps | Operations that change it |
|---|---|---|---|
| Audit store | `harness/audit/store.py` | the `audit_rows` table of a SQLite file; rows are never updated or deleted | `initialise`, `append`, `append_many`, `supersede`; reads: `get`, `rows`, `latest_rows`, `run_ids`, `over_promise_count`, `reconcile` |
| Audit row | `harness/audit/models.py` | none: a frozen record with validators, and the verdict matrix | - |
| Gate | `harness/gate/check.py`, `cli.py` `cmd_check` | what one check has read | `check_run`, `resolve_threshold`; leaves an exit status |
| Agent phase | `harness/execution/runner.py` `agent_phase` | a task per probe, a `CapacityLimiter`, the replies | fan-out, retry, frozen-build check, cancellation |
| Agents under test | `aut-naive/`, `aut-strong/` | `_sessions`: an `OrderedDict` from session id to message list | `POST /chat`, `GET /health` |
| Judge phase, pacer | `runner.py` `judge_exchanges`, `_Pacer` | the results so far, one debt in seconds | wait, ask, charge |
| Judge ladder L0-L2 | `harness/judge/` | locals of one call: attempts, completions | prefilter, `judge_response`, span check, two nested retry loops |
| Consistency layer L3 | `harness/judge/consistency.py` | three samples and the first pass | `needs_consistency`, `apply_consistency`, `_majority` |
| Run command | `cli.py` `cmd_run`, `main`; `runner.py` `execute_run` | inputs, the open store, the exit status | load, check, phase 1, phase 2, append, reconcile, report, exit |
| Lockfiles, grounding | `harness/execution/lockfiles.py`, `grounding.py` | `rules.lock.json`, `probes.lock.json` | `write_rules`, `write_probes`, `load_...`; refuse stale, unresolved or ungrounded inputs |
| Rules engine | `harness/rules_engine/` | none: pure evaluation | `evaluate_rules` |
| Policy source | `harness/ingest/loaders.py`, `scripts/fetch_policies.py` | a cache directory, `fetch.lock.json` | `load`, `load_url`, `record`, `main` |
| Policy ingest | `harness/ingest/` | the manifest file; locals of one walk over the text | `segment_markdown`, `ingest`, `diff_document`, `update_manifest` |
| Probe generation | `harness/probe_gen/` | counters, ids given out | sample, label, render, check, keep |
| Extraction | `harness/extract/`, `scripts/extract_and_compare.py` | the trees found so far; it writes a candidate file | a pull per batch, one re-pull, one retry over ungrounded spans, flag, write; compare |
| Agent internals | `aut-strong/chunker.py`, `retrieval.py`, `scripts/check_aut_retrieval.py` | an index built once | `chunk_text`, `dense_search`, `search`; `check` of what was retrieved |
| Metrics | `harness/metrics/` | none: arithmetic over the gold file | `compute_confusion`, `compute_kappa` |
| Stability experiment | `scripts/probe_stance_stability.py` | the observations of two arms | `one_call`, `run_arm`, `verdict` |
| Web view | `harness/web/` | none: read-only pages | - |

How they interact. One `clauseguard run` is a sequential process. It reads four files,
checks them against each other, opens the store, and fans the probes out to the agent
(the only concurrency *inside* the harness). It then judges the exchanges one at a time
behind a pacer, writes all rows in one transaction, and reads them back. Everything else that is
concurrent is between processes or in the agent:

- processes that share the SQLite file: runs, checks, callers of `supersede()`. Every
  store method opens its own session, so a method is one atomic step, but a caller that
  needs two methods holds stale data between them;
- threads of the agent's web server, which run the synchronous `/chat` handler on a pool
  and share one session table without a lock. A client that gives up does not stop the thread;
- the provider behind the judge, which may refuse, time out, or spend generations the
  harness never learns of.

What makes each one correct:

- *Store*: a correction resolves to an older row of the same probe; a chain has one end;
  the headline counts every probe exactly once; a crash never leaves half a run.
- *Gate*: a verdict is about a whole run and stays true, and so does the baseline's count; the
  exit status tells a finding from an operational failure.
- *Agent phase*: what is returned is complete, in order, and from the build it is
  attributed to; conversations never mix, and a retry never shows in the history.
- *Judge*: abstentions are judgments, never transport; an over-promise needs a confirmed
  vote; the work is bounded; the debt is what was spent.
- *Prefilter (L0)*: what it settles commits to nothing, a denial was said, more words only escalate.
- *Rules engine*: a label is what the policy declares, whatever the order of the file, and a
  refusal has a reason in it.
- *Files*: a run's labels are the verdicts of the rules it has loaded, and behind every grant is a rule
  that quotes the document it has loaded; the baseline accounts for every clause.
- *Source*: a hash and a date name what one page said then. *Segmenter*: every word is in one
  clause, under its headings and with the item it qualifies.
- *Extraction*: what cannot be grounded says so; every candidate is about the document; a miss is a miss.
- *Probe generation*: a probe expects what the rules declare of its last message.
- *Agent internals*: no passage within the overlap is lost to a chunk boundary, and the check of
  the retrieval blames the stage that lost it.
- *Metrics*: two figures of one file do not contradict each other. *Experiment*: its verdict says
  nothing of the provider that is not so.
- *Run*: inputs that disagree are found before anything is sent or written.

The hazards that lead to these, each at its line, are in `PROJECT.json`.

## 2. Modules

```
VerdictLedger      what the store promises a reader                        (abstract)
  ^ implements
AuditStore         store sessions of runs, corrections and checks
  ^ extends          MCAuditStore, AuditStoreProofs
AutService         one agent: threads and the session table
  ^ extends
AgentPhase         phase 1 of a run, composed with AutService
  ^ extends          MCAgentPhase, AgentPhaseProofs
JudgePhase         phase 2 of a run: the ladder, L3 and the pacer
  ^ extends
RowAssembly        the row each result of phase 2 becomes
Prefilter          L0, clause by clause
  ^ extend           JudgeProofs
RulesEngine        the oracle that labels probes: a walk of a rule forest
  ^ extends
ProbeGeneration    the probes made from a rule forest, labelled by that walk
  ^ extends          RulesEngineProofs
RunCommand         one run from its files to its exit status
JudgeStability     the stability experiment
Metrics            the verdict matrix and kappa of a gold file
  ^ extend           CommandProofs
Chunker            a policy cut into overlapping windows
  ^ extends
AutRetrieval       the two stages of retrieval over them, and the check of it
Segmenter          the walk that makes clauses of a text
  ^ extends          SegmenterProofs
PolicySource       pages, their cache and their lockfile
PolicyManifest     the committed baseline of a policy and its diff
Extraction         candidate rules read off the clauses, and their comparison
  ^ extend, with AutRetrieval and SegmenterProofs     PolicyIngestProofs
PolicyLocks        the policy, the rules and the probes on disk, and who reads them
  ^ extends          MCPolicyLocks, PolicyLocksProofs
```

The MC modules give the constants their values. Two of them put side by side components
that do not interact, each started from every state of its own while the others stay idle:
MCPolicyIngest (PolicySource, Segmenter, PolicyManifest, Extraction and AutRetrieval: what becomes of
the text of a policy) and MCCommands (RulesEngine and Prefilter, the two deterministic layers, and
RunCommand, ProbeGeneration, Metrics and JudgeStability). The others are compositions proper: AgentPhase with the
agent's threads, RowAssembly with JudgePhase, ProbeGeneration with the walk of RulesEngine.

**AuditStore.** A step is one session. `rows[i]` is the row minted with the i-th uuid7
(uuid7s are time ordered, and `run_ids()` orders by them); `db` is the set of committed
ids. A run takes `BuildRows`, `AppendMany`, `ReconcileRows`, `ReconcileLatest` and may
`Crash`. `supersede()` is `SupersedeGet` (the row exists), `SupersedeCheck` (it is not
superseded, same probe, no other `supersedes_id`) and `SupersedeAppend`. These are the three
sessions of the code, and another process can commit between any two of them. What the
caller passes is nondeterministic: any probe, any verdict, any stored `supersedes_id`, and
the target's run id or one of `ForeignRuns`. A check takes one step per read:
`GateChoose` (the newest run or `--run-id`), `GateFind`, `GatePrevious`,
`GatePreviousCount`, `GateCount`, `GateDecide`. `GateUninitialised` is check.py's own entry
point, which never initialises the store. `supersede()` has no caller in `src/` outside the
tests yet: the model gives it the callers its docstring invites.

**VerdictLedger** says what a reader may rely on: a run's verdicts appear all at once, and
then one is replaced at a time. `LedgerSpec` in AuditStore states the refinement, mapping
`current[r][p]` to the verdict of the row of probe p in `LatestRows(r)`.

**AutService** is `/chat` of both agents: the look-up, touch, eviction, insertion and
re-read of `_history`, and the reading, appending and trimming of the history, as separate
steps of a thread. Each step is one operation of a dictionary or list, which the
interpreter makes atomic. A list is named by the request that made it, so two threads holding the
same list, or an evicted list still in use, are represented. `KeyError`, a failing backend
and a retriever that cannot be built are the 5xx answers. `Restart` loses the table and may change the build.
`aut-naive` and `aut-strong` have the same handler shape; only what is generated differs.

**AgentPhase** is the client: `Health`, then `Begin` under the limiter, `KeepReply`,
`Retry`, `Mismatch` (the reply names another build), `Unavailable`, and the cancellation of the
task group. `GiveUp` is a timeout or a lost response: the client moves on while the
thread keeps running. The task group and the HTTP client are modelled from how
`runner.py` uses them.

**JudgePhase** is `judge_exchanges`. `Ask` waits, runs L0 and checks for candidate
clauses. `Refused` (429), `Malformed` (400 `tool_use_failed`), `TransportFails` and
`Answered` are what the provider may do, with the counters of the two nested loops;
`Answered` includes L2's span check and its one re-ask. Whatever ends a request, up to `SchemaRepairs`
replies that failed the schema may have been paid for within it (`Reask`): instructor asks again inside
the one request the two loops count. `FirstPass`, `Sample`,
`SampleFails` and the three `Vote...` actions are `apply_consistency`. `pending` is the
pacer's debt in paces. Three ghost variables record what no variable of the program holds:
the generations burned, those of them the harness cannot see, and how the last `ask()` ended.

**RowAssembly** follows each result of JudgePhase into the table: the judgments that
pass the schema and L2's span check (`VerifyJudgment`), `build_row`, and the six validators
of `AuditRow`. A span is absent, verbatim or invented; a cited clause absent, shown or
unknown. Rows are built after the last exchange has been judged, so a row that a validator
refuses would lose the run.

**RulesEngine** is `evaluate_rules`. An author writes a forest in walk order from a
catalogue (`Write`), `Evaluate` checks the tree and resolves the entitlement, and the walk takes one
step per rule: `Skip`, `Apply`, or `Raise` when a condition cannot be evaluated; `Conclude`
orders what applied. `Supply` asks again with one more fact. `Applies` is the
reference: it reads the policy without a walk, from the conditions of a rule and those above it.

**ProbeGeneration** is `generate_probes`. `NextTurn` takes the next root rule and strategy and
samples its fact vectors (each strategy is an operator of its name), `Sample` hands one to the
walk of RulesEngine, whose steps are `Walk`, and `Unlabellable`, `RenderFails`, `OracleFails`
and `Emit` are the four ends of a sample. The adversary's two calls and what of the facts survives in
their text are one outcome. `Phrases` are texts no message can state: the oracle
splits the message into runs of letters and digits and looks for the whole value among them.

**PolicyLocks** is what ties the three files of an audit together. A clause text is its words,
which the hash keeps, and its marks, which the hash drops and a quotation keeps; a version is
the words of every clause. A process is an author, a labeller, a `clauseguard generate` or a
run, and reads its files in separate steps; `EditPolicy` and `EditRules` are people, and people also write
rules for any clause, with any span and any flag. `Accepted` gathers the checks of `cmd_run` and
`execute_run`. A probe set carries, as a ghost, the document it was written for.

**PolicyManifest** is the ingest of one document: the three passes of `diff_document` over
sequences of hashes, `needs_extraction`, `is_clean`, and the rule by which `update_manifest`
keeps or replaces the date.

**Extraction** is `extract_rules` and what is done with its result. `Pull` and `Retry` take any
response of up to `MaxTrees` trees; `CallFails` is an `ExtractorError` with the one clean re-pull,
`SanitiseRaises` the exceptions that pass both handlers. `WriteExtracted` is the file of candidates
and `Measure` the greedy comparison of `compare_rule_sets` with any rules written by hand. A
quotation is the clause it is taken from, 0 when it is nowhere in the document.

**Prefilter** is `classify`. A clause is the cues its lexicons find, in the order in which their
matches end, and whether it is a question; `Book` is the body of the loop and `Stance` the decision
table. Which words match which lexicon is data. "cannot" is a refusal and a negator at once.

**PolicySource** is what `load_url` does with a page (`LoadedSource`, `CacheAfter`) as an ingest and
`fetch_policies` use it. A text is its words and its line terminators; the clock is the number of versions
the pages have had. `Publish` is the site, `Killed` a process that dies between the opening and the
writing of a cache file, `DeleteCache` anybody.

**Segmenter** reads one line per step (`Feed`: fences, headings, rules, blanks) and at the end of the text
makes segments of the blocks (`SegmentsOf`: kinds, list items, long blocks). The words of line i are
the number i, so a clause is the sequence of lines it was made of. Loops over the lines of a block are
recursive functions along it: `ListItems` starts an item or adds to the last one, `Pieces` packs a long text
greedily up to the chunk target, and `OpenHeading` keeps the stack up to its last heading above the new one,
which is where the code's pops stop. Blockquote markers and inline markup are stripped before or after and
decide nothing.

**Chunker** is the loop of `chunk_text`, one window per step, over a text that is its length and the
offsets of its blanks. **AutRetrieval** ranks the windows by any order and any scores (`Search`) and
is `check` of `check_aut_retrieval.py` for any passage (`Check`). The naive agent has the same
chunk loop and no second stage.

**Metrics** computes both published figures of one gold file, each along its own path: a list of rows is the
set of their places in the file, of which only counts are taken. A ratio is a
pair of integers, compared by multiplying out, so no rounding enters.

**JudgeStability** asks a provider that is deterministic or not. `Answered`, `RateLimited` and
`CallFails` are the outcomes of a call, `Verdict` the two hypotheses it prints and the exit status.

**RunCommand** is the order of checks, effects and handlers in `cmd_run`, `execute_run`
and `main`. A run starts with a set of things that will go wrong (`wrong`); each step
names the faults that turn it into a `CliError`, or into an exception nothing catches.
`Interrupt` is Ctrl-C at any step before the `finally`.

Definitions called "wrong variant" in the modules are never used by the specifications.
They are bugs of the kind each property is there to catch; put in place of the real
definition, the run that checks the property must fail.

## 3. Runs

Passing runs:

| Run | Question | Instance |
|---|---|---|
| `store_serial` | Is the store the ledger it promises, when corrections come one at a time under their own run id? | 1 run, 2 probes, 1 caller, 5 row ids: three corrections, so a chain longer than one |
| `gate_versus_runs` | Can a check see half a run, or its verdict or the threshold it took from a baseline go stale, while runs are written and crash? | 3 runs of 2 probes, 1 check: enough for a newest, a previous and an older run |
| `judge_phase` | Is every abstention a judgment, every over-promise confirmed? Is what a call may burn bounded, and is the pacer charged what the harness was told? Can each result be stored, with its evidence? Does the phase end? | 1 exchange, its first pass and its samples, with the code's own numbers: 3 requests, 3 resamples, 2 repairs, 3 samples, 2 votes; gold and other probes |
| `agent_timeouts` | Do conversations mix when a client gives up and the table has room for one session? | 2 probes (2 and 1 turns), 1 give-up |
| `agent_restart` | Is what phase 1 returns complete and of one build, is every turn asked with exactly its history, is the table bounded, does the phase end? | 2 probes, a table of 2 full of old sessions, history cut at one turn, failing attempts, 1 restart, 3 builds |
| `policy_ingest` | Does a hash name what the page said then? Is each word in one clause, under its headings, with its item? Are edits extracted, ungrounded quotations flagged, misses shortages, and is the date kept exactly when nothing changed? Does a chunk boundary lose a passage, and is what the retrieval check says true? | 2 pages of 3 texts and 3 versions; every text of 5 lines of 11 kinds; documents of up to 3 clauses over 3 texts and 2 ingests; 2 batches of clauses with 5 trees, 2 per response, 3 rules by hand; every text of up to 8 characters with blanks anywhere, windows of 5 with an overlap of 2 and a snap of 2, 2 candidates cut to 1, every order and tie |
| `policy_locks` | Can a run start on labels that are not those of its rules, or on a grant that no rule stands behind in the text it has loaded? | 2 processes (symmetric), 1 clause of 2 texts in 2 punctuations, 3 drafts, 2 edits by hand |
| `commands` | Is a label what the rules declare, a refusal justified, and neither of them changed by more facts? Does L0 settle only what it may? Are inputs checked before anything is sent or stored? Does a probe expect what the rules declare? Do confusion and kappa agree? Is the verdict of the stability experiment true of the provider? | every forest of up to 4 rules from a book of 6, with ties, nested exceptions and two entitlements, 2 attributes, 4 fact values; every reply of 2 clauses of up to 3 of 6 cues; every set of up to 4 of the 18 faults, Ctrl-C at every step; every forest of 3 rules from a book of 5; every gold file of 3 rows of 2 agents, with unknown labels; 3 calls per arm, 1 retry |

A run whose module puts several components side by side explores each of them alone, so its
state space is the sum of theirs; each property speaks of one of them.

Bounds. `MaxRowId` caps the row ids minted and so the number of corrections. Past a chain of
two nothing new can happen, since a correction looks at one row and one predecessor. `MaxRestarts`
and `MaxGiveUps` cap events of the world; one is enough for two threads of the same
turn, or two builds in one run. `MaxTurns = 2` gives a turn a predecessor and
`AgentAttempts = 2` is the code's value. `MaxSessions` and `MaxHistory` are small so that
eviction and trimming happen. One exchange is enough in
`judge_phase`, since `Ask` clears the debt and the counters of the call before: a debt is carried from the first
pass to the samples and from one sample to the next, and the theorems have no bound. `gate_versus_runs`,
`gate_baseline` and `policy_locks` use symmetry: runs, and processes, differ in nothing but their name. Three
clauses over three texts give a document repeated, moved, edited and removed clauses at once.
Two edits are enough to change the policy and the rules behind a process that has read one of
them. A limit of 2 cuts some strategies (a boundary has three samples) and not others. Five lines are
the fewest for a heading, a list of two levels and a fence in one text, a shallower marker after a nested one,
and a long block that is cut in two; `MaxClauseTokens` of 3 lines makes long blocks happen. Three versions
let a page change, and change back or go down, behind its cache. Three gold rows fill more than one
cell of the matrix for each agent and the pool. `MaxWrong` of 4 covers every pair of input faults
with every pair of failures; the theorem `ChecksComeFirst` has no bound. The
concurrent callers of `supersede()` are in `store_fork` and, for what survives them, in the proofs.

`CHECK_DEADLOCK FALSE` is set everywhere because every system here may end: a run exits, a
phase returns, ids are used up. `Terminates` and `PhaseEnds` say that the phases end
properly.

Fairness. JudgePhase assumes `WF_vars(Next)`: the phase is one sequential loop, and every
request it makes has a timeout. AgentPhase assumes weak fairness of the harness's
event loop and of the server's threads, each of which makes progress on its own
(the model behind `/chat` has a timeout, after which the backend raises). Neither assumes
that a request succeeds, nor that anything fails. Restarts and give-ups are not fair. The other modules
state safety only.

## 4. Findings

A violation run checks one sentence of the repository that the code does not keep;
TLC's counterexample is the evidence.

| Run | The sentence | What happens |
|---|---|---|
| `store_fork` | `supersede()` refuses to fork a chain (store.py:284) | two callers check before either appends |
| `gate_baseline` | `--baseline` compares "against the previous run's count" (check.py:78) | `cmd_check` takes the newest run; a run commits; `resolve_threshold` reads `run_ids()` again and takes the last but one, which is now the run being judged. It is compared with itself and passes |
| `policy_cache` | deleting the cache "must change nothing but runtime" (loaders.py:44) | a page changed since it was cached: an ingest reads the cached text whatever its age and has no way to ask for a refresh. A `fetch_policies --refresh` reads the new text and does not write it to the cache, so the next fetch without it records the old hash again |
| `kappa_vocabulary` | both evasions are collapsed into one class "matching the gold label vocabulary" (kappa.py:7) | they become "evasive" and the gold file says "EVASIVE": a reply both find evasive is a disagreement. tests/unit/test_metrics.py:86 pins the spelling. On the repository's gold file the multi-class kappa is 0.612 and would be 0.679 |

Other disagreements that the actions show and no run is spent on:

- cli.py:13 says "Exit 1 is reserved for the gate and never returned by `run`", but an agent that does not
  answer `/health`, an ungrounded span, a malformed rule or a locked database is an exception
  nothing catches, and leaves status 1 (`Exit` with `raised = "other"`);
- compare.py:30 calls a hand rule missed when the extractor has "no extracted rule in the same
  (entitlement, polarity) cell at all"; it is also missed when those there are claimed by other hand rules, or
  share an id with a claimed one, and a rule with an exact match is paired as "different" when an earlier
  rule has taken the match (`Claim`);
- the second response of a batch stands for the first even when it is empty, so a retry over one
  bad quotation can lose the batch's grounded rules; a malformed response gets a clean re-pull as a
  pull and none as a retry; JSON that is not a list of objects gets none at all (`Retry`, `SanitiseRaises`);
- DESIGN.md:189 sends the extractor the edited clause only; `extract_rules` sends them all,
  and only the printed summary of an ingest reads `needs_extraction`;
- `--baseline` takes the second newest run whatever run is checked, so with `--run-id` of that
  run it compares it with itself, and with an older one forwards (`gate_baseline` shows that the newest run is not
  safe from it either);
- a failed L3 sample leaves `ask()` before `charge()`, so the next sample goes out at once,
  although runner.py:680 paces "after it too";
- the oracle asks for the whole of a text value as one token, where oracle.py:18 says "a token
  of the value": a value of two words or with an underscore, which nine of the ten neighbours of
  `category_smuggling` have, discards its samples always (`Unstatable`);
- `base_facts` "satisfies `rule`'s ROOT conditions" except those with `not_in`, for which it takes a
  listed value, and overlapping ones, which overwrite each other; `pick_opposite` of a number
  under `==` is a text, so that sample is never labellable; `exception_depth` meets the
  exception's conditions and not those above it, so the exception need not be reached;
- a generated probe cites its root rule's clauses, where evaluate.py:240 names the winning rule's;
- labels edited by hand in `probes.lock.json` are covered by no digest, and the policy the agent
  was frozen with is compared with nothing;
- a correction filed under another run id hides nothing, although `latest_rows` says a
  correction moves the headline (`CorrectionTakesEffect` needs `ForeignRuns = {}`);
- a `GateError` (an unknown `--run-id`, no previous run) is caught by nobody, so the
  process leaves status 1, which the gate's docstring keeps for findings;
- check.py's own `main` never initialises the store, so its first read raises
  (`GateUninitialised`);
- a gold row that the first pass called a denial can be voted into a grant, although
  consistency.py says L3 only reduces the count, and `left_the_over_promise_cell` counts a gold
  row whose policy grants. The CLI passes no gold set; `L3OnlyReduces` is stated outside it;
- judge.py:397 and ratelimit.py:385 say that refusals burn nothing, so that the worst case is three attempts that burn tokens.
  A 429 on a re-ask inside a request comes after replies that failed the schema, and the request is made again: an
  attempt of 3 requests of 2 re-asks each may burn seven generations (`Refused`; `GenerationsBounded` is what holds);
- malformed tool calls that a later attempt recovers reach no counter and no pacing (the ghost `hidden`);
- when a vote fails, `charge(1)` replaces the debt of its last sample;
- prefilter.py:378 says that "I can't find your order, and it's past the return window anyway" still books
  its second half; clauses are not split at ", and", so the lookup exempts it too (`Refuses`);
- check_aut_retrieval.py:445 reports that "every governing span" was reached, and only the target's own spans
  can fail (`Fails`); a target rule without spans passes. The attribution "for every span a window holds
  whole" counts those no window holds as well;
- confusion.py:127 calls `errored` a judge that could not run; the code counts unknown labels, and
  files failures under `abstained` (`ConfusionReport`). Agents and judges that always say the same one class agree fully and get
  a kappa of 0, and the multi-class chance agreement leaves out labels outside the gold's four (`cohen_kappa`);
- probe_stance_stability.py prints "at temperature 0.0" also when the temperature is another, after a warning;
- `last_verified_at` of a lockfile row is the time of the run also when the text came from the cache;
- `ask()` waits before L0 has settled the exchange, so a run may sleep after its final paid call;
- the session table may pass `MAX_SESSIONS` by one less than the client's concurrency
  (`SessionsBounded` is what holds).

## 5. Proofs

Every theorem is about all values of the constants its module's assumptions allow. The properties
that have one are named after the arrow; a hypothesis is stated with the theorem that needs it.

### The store

`AuditStoreProofs` proves nine theorems about `AuditStore!Spec`, for any finite or infinite
sets of runs, verdicts, callers and gates and for any number of probes and row ids. The
assumptions are the module's own: `NumProbes` is a positive number, `MaxRowId` a number,
the thresholds integers.

- `StoreInvariant`: `StoreInv` is inductive. The type invariant alone is not, because
  `supersede()` commits in its third session what its caller built before the first. It
  has to be known that the row is minted and held by nobody else (`OneOwner`), that its
  target is an older stored row of the same probe (`CorrectionsInFlight`), and that a
  run's batch corrects nothing (`BatchesAreFresh`).
- `TypeCorrect`, `CorrectionsAlwaysResolve`: consequences, named after the properties the
  runs check (`TypeOK`, `CorrectionsResolve`).
- `NoProbeIsLost`: whatever processes interleave, a probe with a row in a run has a current row in it.
  `TableSteps` reduces every step to one of three changes of the table (none, a run's
  rows, one correction). The lemmas `Reads...` say what each does to the reads. The argument
  for a correction is that if it hides a row of its run, it is itself a current row of that
  run and probe, because nothing newer can point at it.
- `OneAnswerPerProbe`: under `OneAtATime` (no foreign run ids, and no two different
  callers of `supersede()`), `OneAnswer` holds always: `NoFork`, `CorrectionTakesEffect` and `OneCurrentRow`.
  The strengthening `SerialInv` adds that a checked target is still current and that a run
  appends once. Neither half can be dropped: `store_fork` is the counterexample without the second.
- `StoreIsAppendOnly`: no step removes or changes a stored row.
- `ReconciliationCounts` -> `ReconcileCounts`, under `OneAtATime`. `RunInv` adds that what a run built covers its
  probes, and goes on covering them in the table; a bijection between the probes and the current rows then
  gives the count, and corrections between `reconcile()`'s two reads do not change it.
- `VerdictsStand` -> `VerdictStands`, when there are no callers of `supersede()`, as in the run that
  checks it: a correction is meant to change a verdict. Other runs and crashes do not, since a run that a gate
  has found is complete (`FoundRunsStand`). The same holds of the run a baseline was taken from, whichever it is; which
  one it is is the subject of `gate_baseline`, and not a theorem.
- `StoreImplementsLedger`: `Spec => LedgerSpec`, under `OneAtATime` and with `"unknown"`, the ledger's
  word for no row yet, not among the verdicts. Each step records a run, corrects one verdict or stutters. A
  correction maps to one because its target is the row a run reports for that probe (`ReportsItsRow`).
  This is safety; the ledger has no fairness to implement.

### The judge

`JudgeProofs` proves nine theorems about the judge phase and the rows made of its results, for any number of
exchanges, samples, votes and attempts. The assumptions are JudgePhase's own (`CountsAssumption`, `FlagsAssumption`).

- `JudgeInvariant`: the inductive invariant. `PacerExact` and `GenerationsBounded` are about a call that has
  ended, and what they say of it is not inductive: it has to be known, while the call is under way, what the two
  counters of its nested loops say of the generations burned (`Calling`) and what it hands over
  (`Returned`); that a vote has all its samples and no other state does (`Vote`); that only an over-promise or a
  gold row is sampled (`Sampled`); and which results no model stands behind (`Unmodelled`).
- `TypeCorrect`, `PacerIsExact` -> `PacerExact`.
- `GenerationsAreBounded` -> `GenerationsBounded`: a call burns at most, for each of its attempts, the re-asks of every
  request the 429 budget allows and one generation more. What the loops have left bounds what they may still
  burn: finished asks, finished resamples of this one and its refused requests are counted apart (`Earlier`, `Tried`, `Waits`).
- `AbstentionsAreJudgments` -> `AbstentionIsJudgment`, for more than one sample and more than one attempt (3 and
  3 in the code): with one attempt, a first malformed answer would be an abstention after one generation.
- `OverPromisesAreConfirmed` -> `OverPromiseIsConfirmed`, for `L3MinVotes` above 1 (2 in the code).
- `L3Reduces` -> `L3OnlyReduces`, without hypotheses. The three of them follow from the four ways in which a
  result comes to be (`Settled`, `Lost`, `Decided`, `Withdrawn`).
- `RowsCanBeStored` -> `RowCanBeStored` and `OverPromisesAreEvidenced` -> `OverPromiseIsEvidenced`, for more than one
  sample: with `L3K = 1` a vote could not be told from a first pass. A row is of a failure, an
  abstention or a verdict (`RowsAreOfThreeKinds`), and each kind passes the six validators.

### The rules engine

`RulesEngineProofs` proves eight theorems, for every catalogue, set of
facts and number of rules: seven about `RulesEngine!Spec` and one about `ProbeGeneration!GenSpec`, whose walk it is. The
assumptions are the modules': facts are numbers or
texts, a catalogue entry has the fields the schema demands of it, and `MaxRules` is a number.

- `WalkInvariant`: the inductive invariant. While the walk is under way the rule set is well
  formed and what has been applied is exactly the rules before the cursor that the policy
  declares to apply; ancestors come before their exceptions. The labels alone say nothing
  about the walk, so nothing weaker is inductive.
- `LabelsAreDeclared`, `RefusalsAreDeclared` (`LabelIsDeclared`, `RefusalIsDeclared`): at the end of
  the walk the applied rules are all that apply, and the winner is first among them.
- `ExceptionsOverrule`, `OneEntitlementDecides`: precedence rises and the entitlement stays along
  a path of a well-formed forest. Both are proved only; no run repeats them, nor the type invariants
  of this module and of PolicyLocks.
- `MoreFactsNeverMatter` -> `MoreFactsChangeNothing`. The walk over fewer facts is over when the one over more
  begins, so the invariant (`Remembers`) says what the first has left behind: `EndsOn`, the end of a walk as
  a function of the rules, the entitlement and the facts. Two walks of the same rules that end differently
  differ at a least rule, and that rule has been evaluated on facts the fuller vector also holds.
- `ExpectationsAreDeclared` -> `ExpectationIsDeclared`: the walk's invariant, and that what the walk is asked is the
  sample in hand (`Asked`), give that a probe that is kept has the declared label of its last message.
- `TypeCorrect`.

### The files

`PolicyLocksProofs` proves five theorems about `PolicyLocks!Spec`, for any processes, texts,
clauses, facts, drafts and number of edits. The assumptions: drafts are drafts, `MaxEdits` is a number.

- `RunInvariant`: `RunInv` is inductive. What a started run was checked for
  (`StartedAreAccepted`) is not enough, because the checks compare digests and versions and
  the properties speak of labels and documents: it has to be known that every probe set, on disk or
  already read, was labelled by the rules its digest names (`HonestFiles`).
- `RunsUseTheirRules` -> `LabelsAreOfTheRules`, and `RunsMatchTheirProbes`, that the document the probes were written for
  says what the run's document says.
- `GrantsRestOnTheText` -> `GrantsAreBacked`, from those two. A run knows the labeller's document by a stamp and its
  clauses by their words, and quotes its own document: the rule behind a grant was one of the labeller's,
  its clause was among the labeller's, and what it quotes is what the run's document says.
- `TypeCorrect`.

### The agents' sessions

`AgentPhaseProofs` proves five theorems about `AgentPhase!Spec`, for any probes, turns, attempts, builds,
table and history sizes, and any number of give-ups and restarts. The assumptions are the modules' own.

- `ListsAreOwned`: the inductive invariant `Owned`. `NoLeak` speaks of prompts, and a prompt is
  copied from a list that may have left the table long before. It has to be known that a list only
  ever holds messages of the probe whose request made it, that the session of a probe is
  bound to one of its probe's lists, and that a thread past its look-up holds such a list. Eviction, a second thread on
  the same list and an orphaned list all keep this; losing the table at a restart does too.
- `NothingLeaks`: its consequence `NoLeak`.
- `ReturnedRepliesAreComplete` -> `ReturnedIsComplete`. `ClientInv` is the client's half: the request a probe waits
  for is the one after the replies it has kept, and a reply that was kept is never changed by what the
  agent, a late thread or a restart does (`WireMoves`).
- `SessionsStayBounded` -> `SessionsBounded`, when the table starts within the bound. The size check and the insertion are two
  steps, so the bound counts the sessions *and* the threads about to insert one. While nobody gives up, those
  serve requests that tasks wait for, of which there are as many as the limiter lets through (`AwaitedInv`).
- `HistoriesAreExact` -> `HistoryExact`, for finitely many probes. While nobody gives up and nothing
  restarts, what the list of a probe remembers is a function of how many of its turns are answered
  (`ListsRemember`). That no session of the run is evicted is a count: the table holds at least as many old
  sessions, all first in line, as there are threads that evict, because all the probes fit in it (`RoomForAll`).

### What becomes of a policy

`SegmenterProofs` proves four theorems of the Segmenter, and `PolicyIngestProofs` eight of the other five modules that
`policy_ingest` and `policy_cache` check.

A model function defined by recursion along 1..n cannot be proved about by induction here (section
"Only model-checked"). The opening lemmas of `SegmenterProofs` replace it: `Recursion`, that such a function exists and keeps its
values in a set its step keeps them in, and `LeastOf`, that a property of a position that fails
somewhere fails at a least position. What such a function computes is then proved from its last step: at the least
position where the claim would fail, the one before satisfies it and the step from there keeps it.

- Clauses. `SegmenterInvariant`, and from it `NoWordIsLost` -> `EveryWordIsInOneClause`, `PathsAreOpen` ->
  `PathIsTheOpenHeadings` and `SubItemsStay` -> `SubItemsStayWithTheirItem`, for texts of any length, any levels and indents and
  any sizes with `FallbackChunkTokens <= MaxClauseTokens`. The three speak of a text that is read to its end, so
  they say nothing of the walk, and the invariant `SegmenterInv` has to:
  - while the text is read, every text line so far is in exactly one of the finished blocks or the current one, and
    every line of a block comes before those of the next (`WalkInv`);
  - the stack is the headings open *now*, in their order, and the fence flag is the parity of the fence lines so
    far. The properties define both by looking back over the text; `LineAdded` says what one more line does
    to those definitions, and `PoppedStack` that popping the deeper end of an ascending stack does the same;
  - a block has the path of its lines. A rule or a blank closes a block and gives the next its path before
    any heading can change it, which is why the path of the *empty* current block is in the invariant too;
  - `WalkBecomesSegments` is the last step. Items, pieces and clauses are cut out of a sequence in order
    (`BeginKeeps`, `GatherKeeps`: groups stay `Orderly` and hold what they held and one line more), and flattening
    loses none of it (`Flattened`: every place of the flat sequence is one place of one part, and earlier
    parts come first).
  - a block is one run of lines: no line that ends a list stands between two of its lines, or between its last
    and the next one read. So the markers a reader finds above a line, in its list, are those of its block.
  An item is headed by its shallowest marker because the base indent only ever falls to that of an item begun
  (`SplitInv`). The base is moreover the least indent so far, so no earlier marker of the list is less indented than
  the one that begins an item (`BaseInv`). With the order of the items this leaves a nested marker nowhere to be but with
  the nearest less indented one above it.
- Chunks. `CuttingInvariant` and `PassagesSurvive` -> `SpansSurvive`, for texts of any length and any three numbers
  with `OverlapChars + SnapWindow < ChunkChars`, which both agents' numbers satisfy. The invariant: a passage that starts
  before the cursor is already whole in a window. A window ends beyond the cursor by more than the
  overlap, or at the end of the text (`WindowEnds`), so the next one starts an overlap before that end; a
  passage that starts before the new cursor and is no longer than the overlap plus one ends inside.
- Retrieval. `FindingsAreTrue` -> `FindingIsTrue`, for any ranking and scores: the check reads windows that no
  longer change, so it may rely on what the cutting guarantees.
- Dates. `HashesAreOfTheirDates` -> `HashIsOfItsDate`. A lockfile row is right only if the cache it may have been read
  from was, so `SourceInv` says of every place a text is kept (cache, lockfile, loaded source) that its page
  said it at its date, or that it is the empty text of a torn file. What a page has said it has said for
  ever, so `Publish` keeps this.
- Baseline. `OnlyEditsAreExtracted` -> `EditsAreExtracted`, for documents of any length. The second pass of a diff is
  a greedy matching of equal hashes: it is one to one, and leaves a clause unmatched only when no
  unclaimed clause of the baseline has its hash (`ClaimsWell`, kept by every step). The count, hash by hash, is
  a bijection built from it. `BaselineFollowsContent` -> `OnlyContentChangesTheBaseline` is an action
  property: the diff of a document is silent exactly when it is the baseline (`SilentDiff`).
- Extraction. `UngroundedIsSaid` -> `UngroundedIsFlagged`, for any responses, retries and failures:
  nothing is kept that a check would still refuse (`ExtractionInv`), since what a second check refuses is flagged, and
  a flagged list refuses nothing (`FlaggedIsTold`).
- Comparison. `MissesAreOfShortages` -> `MissesAreShortages`: a greedy matching again, cell by cell. Every row is a
  miss or pairs with a rule of its cell that no other row has, and a row is a miss only when the cell is
  used up (`RowsWell`); so a cell pairs as many as its shorter side.

### The prefilter

`JudgeProofs` also proves the three properties of `Prefilter` for any clauses and replies of any length.
`ReadingInvariant`: the booked commitment and refusal are exactly those of the clauses read, so their order
is forgotten. `FinalAnswersPromiseNothing` and `DenialsWereSaid` read the decision table against it, and
`WordsOnlyEscalate` is an action property: a booked commitment is never taken back.

### The commands

`CommandProofs` proves `ChecksComeFirst` -> `CheckedBeforeTheFirstCall` without the bound on what goes wrong.
`RunInvariant` says how far a run can be that has each fault of its inputs; the property alone does not say which
checks lie behind a step.

`VerdictsAreOfTheProvider` -> `VerdictIsOfTheProvider`, for any answers and any numbers of calls and retries. `StabilityInv`
says that an observation that is not a failure is an answer the provider gave to the prompt of that call; a
deterministic provider has one answer per prompt, so two that differ were asked differently or convict it.

`FiguresAgree` -> `KappaIsOfTheMatrix`, for any gold file, agents and labels. The rows of an agent fall into six
parts, the four counts of the over-promise class, the abstentions and the unknown labels (`PartsOfTheFile`), and every
number of either figure counts a union of parts. Kappa's sum over its two labels has two terms
(`TwoTerms`), and chance agreement is never above certainty (`ChanceIsBounded`), so the code's test `p_e >= 1` is an equality.
The assumption `NullAssumption`: a null verdict is no class of the matrix.

### Only model-checked

- `Terminates` and `PhaseEnds`: liveness, which this prover does not reach.

The library's induction theorems take an operator as a parameter, which none of the provers can instantiate. Where a
proof here needs an induction over data, it is by a least counterexample, on recursive functions with a
finite domain; no module that is proved about declares a RECURSIVE operator.

## 6. What is not modelled

- Text: prompts, replies, span matching, normalisation, hashing, the regular expressions of lexicons and
  markdown, rendering. A reply, a line or a clause is what the next step makes of it.
- `append()` of a single row by a caller that fills in `supersedes_id` itself (nobody
  does), duplicate ids within a batch, the append-only triggers (no modelled operation issues an UPDATE).
- The run's models, prompts and timestamps, which are columns of a row.
- Wall-clock time: a pace is a unit, a timeout is an event.
- The model backends of the agents (prompts and HTTP), the embeddings and scores, the retrieval fingerprint, the
  prompts and the JSON of the extractor, the web view and the reports: external, numeric, or layout.
- PDFs and local files as sources, which are read as they are.
- `metrics/difficulty.py`, a stub; `coverage.py`'s report of a corpus beyond its index.
- Scripts run once by hand: `freeze_aut.py`, `run_holdout_once.py`, `label_gold.py`, `list_models.py`, `explore_db.py`, the exports and harvests; the rule and
  probe texts of `author_rules.py` and `author_probes.py`, which are data (their steps are in PolicyLocks); and
  `time_judge.py`, a stopwatch.
- Hash collisions: two texts with the same hash are the same words.

## 7. Plan

Every component of section 1 but the web view and the reports has a module, and every safety property of a
run has a theorem. Open are the four hazards of `PROJECT.json` without a property. Two are about what an exit
status or a pass of the gate may be read to mean, and need a decision of the code's authors first. Two happen and are
only disclosed: a turn whose response is lost is appended a second time by the retry, and a failed vote's charge takes the
place of its last sample's. Open too are the numbers of `difficulty.py` once they are written.
