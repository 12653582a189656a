------------------------------ MODULE RunCommand ------------------------------
(***************************************************************************)
(* One `clauseguard run` from its files to its exit status: cmd_run and    *)
(* main (harness/cli.py) around execute_run (harness/execution/runner.py). *)
(* The two phases are the steps FanOut and Judge here; AgentPhase and      *)
(* JudgePhase open them up.                                                *)
(*                                                                         *)
(* wrong is what will go wrong in this run, chosen at the start: faults of *)
(* the inputs, which were there all along, and failures of the world. An   *)
(* exception is "CliError" (CliError, LockfileError where it is wrapped,   *)
(* RunError), "KeyboardInterrupt", or "other", which nothing catches.      *)
(***************************************************************************)
EXTENDS Integers, FiniteSets

CONSTANT MaxWrong  \* bound on the things that go wrong in one run

ASSUME MaxWrongAssumption == MaxWrong \in Nat

\* The files and settings disagree with each other or cannot be used.
InputFaults ==
  {"envelope", "contents", "unlisted", "manifest", "stale", "no key", "ungrounded", "unresolved"}

\* What the world, or a setting that is read late, does to the run.
Failures ==
  {"database", "no health", "unfrozen", "concurrency", "no answer", "temperature",
   "row", "locked", "unreadable", "console"}

VARIABLES
  wrong,      \* what will go wrong
  at,         \* the step to take next
  raised,     \* the exception on its way out
  store,      \* the AuditStore: "none", "open" or "closed"
  contacted,  \* the agent has been sent something
  stored,     \* the rows are committed
  status      \* the exit status, -1 while it runs

runVars == <<wrong, at, raised, store, contacted, stored, status>>

RaiseOneOf(kinds) ==
  /\ raised' \in kinds
  /\ at' = IF store = "open" THEN "finally" ELSE "exit"

\* A step that ends in a CliError, in another exception, or in the step to.
Try(from, to, cli, other) ==
  /\ at = from
  /\ IF wrong \cap (cli \cup other) = {}
     THEN at' = to /\ UNCHANGED raised
     ELSE RaiseOneOf((IF wrong \cap cli # {} THEN {"CliError"} ELSE {}) \cup
                (IF wrong \cap other # {} THEN {"other"} ELSE {}))
  /\ UNCHANGED <<wrong, status>>

Succeeds(faults) == wrong \cap faults = {}

(***************************************************************************)
(* cmd_run, before the store is open.                                      *)
(***************************************************************************)
\* A missing or unreadable lockfile is a LockfileError; pydantic's and the rule
\* tree's own exceptions pass.
LoadLocks ==
  /\ Try("load", "policy", {"envelope"}, {"contents"})
  /\ UNCHANGED <<store, contacted, stored>>

ResolvePolicy ==
  /\ Try("policy", "staleness", {"unlisted"}, {"manifest"})
  /\ UNCHANGED <<store, contacted, stored>>

Staleness ==
  /\ Try("staleness", "key", {"stale"}, {})
  /\ UNCHANGED <<store, contacted, stored>>

EnsureCredentials ==
  /\ Try("key", "store", {"no key"}, {})
  /\ UNCHANGED <<store, contacted, stored>>

\* Wrong variant: the run goes straight to the agent.
OpenStoreUnchecked ==
  /\ Try("store", "health", {}, {"database"})
  /\ store' = IF Succeeds({"database"}) THEN "open" ELSE store
  /\ UNCHANGED <<contacted, stored>>

OpenStore ==
  /\ Try("store", "ground", {}, {"database"})
  /\ store' = IF Succeeds({"database"}) THEN "open" ELSE store
  /\ UNCHANGED <<contacted, stored>>

(***************************************************************************)
(* execute_run. Its first check, that the rules match the policy, repeats  *)
(* Staleness on the same objects.                                          *)
(***************************************************************************)
\* UngroundedSpanError is not a RunError.
Ground ==
  /\ Try("ground", "resolve", {}, {"ungrounded"})
  /\ UNCHANGED <<store, contacted, stored>>

ResolveIds ==
  /\ Try("resolve", "health", {"unresolved"}, {})
  /\ UNCHANGED <<store, contacted, stored>>

\* /health is not retried, and its httpx exception is nobody's RunError.
Health ==
  /\ Try("health", "fanout", {"unfrozen"}, {"no health"})
  /\ contacted' = TRUE
  /\ UNCHANGED <<store, stored>>

FanOut ==
  /\ Try("fanout", "judge", {"no answer"}, {"concurrency"})
  /\ UNCHANGED <<store, contacted, stored>>

\* The judge's temperature is read now; a JudgeError inside the loop is a result.
Judge ==
  /\ Try("judge", "append", {}, {"temperature"})
  /\ UNCHANGED <<store, contacted, stored>>

\* build_row for every result, then one transaction.
AppendRows ==
  /\ Try("append", "reconcile", {}, {"row", "locked"})
  /\ stored' = Succeeds({"row", "locked"})
  /\ UNCHANGED <<store, contacted>>

Reconcile ==
  /\ Try("reconcile", "finally", {}, {"unreadable"})
  /\ UNCHANGED <<store, contacted, stored>>

(***************************************************************************)
(* The way out.                                                            *)
(***************************************************************************)
\* Closing the agent's client may fail, and that is swallowed.
Close ==
  /\ at = "finally"
  /\ store' = "closed"
  /\ at' = IF raised = "none" THEN "report" ELSE "exit"
  /\ UNCHANGED <<wrong, raised, contacted, stored, status>>

Report ==
  /\ Try("report", "exit", {}, {"console"})
  /\ UNCHANGED <<store, contacted, stored>>

Interrupt ==
  /\ at \notin {"finally", "exit", "exited"}
  /\ RaiseOneOf({"KeyboardInterrupt"})
  /\ UNCHANGED <<wrong, store, contacted, stored, status>>

\* main catches CliError and KeyboardInterrupt; Python exits with 1 on the rest.
Exit ==
  /\ at = "exit"
  /\ at' = "exited"
  /\ status' = CASE raised = "none" -> 0
                 [] raised \in {"CliError", "KeyboardInterrupt"} -> 2
                 [] raised = "other" -> 1
  /\ UNCHANGED <<wrong, raised, store, contacted, stored>>

(***************************************************************************)
(* The specification.                                                      *)
(***************************************************************************)
RunInit ==
  /\ wrong \in {s \in SUBSET (InputFaults \cup Failures) : Cardinality(s) <= MaxWrong}
  /\ at = "load"
  /\ raised = "none"
  /\ store = "none"
  /\ contacted = FALSE /\ stored = FALSE
  /\ status = -1

RunNext ==
  \/ LoadLocks \/ ResolvePolicy \/ Staleness \/ EnsureCredentials \/ OpenStore
  \/ Ground \/ ResolveIds \/ Health \/ FanOut \/ Judge \/ AppendRows \/ Reconcile
  \/ Close \/ Report \/ Interrupt \/ Exit

RunSpec == RunInit /\ [][RunNext]_runVars

(***************************************************************************)
(* Properties.                                                             *)
(***************************************************************************)
\* "Preconditions are checked before the first network call" (execute_run): no
\* agent is contacted, and no row written, for inputs that disagree.
CheckedBeforeTheFirstCall == contacted \/ stored => wrong \cap InputFaults = {}
===============================================================================
