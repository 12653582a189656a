------------------------------ MODULE AuditStore ------------------------------
(***************************************************************************)
(* The append-only audit store (harness/audit/store.py) and the processes  *)
(* that share its SQLite file: `clauseguard run` appending one row per     *)
(* probe and reconciling them, callers of supersede() recording            *)
(* corrections, and `clauseguard check` comparing a run's over-promise     *)
(* count with a threshold.                                                 *)
(*                                                                         *)
(* Every store method opens its own session, so a step of this             *)
(* specification is one session: one atomic read or one transaction.       *)
(* What a process holds between two sessions it read earlier, and another  *)
(* process may commit in between.                                          *)
(***************************************************************************)
EXTENDS Integers, FiniteSets

CONSTANTS
  Runs,         \* `clauseguard run` processes, named by the run_id they mint
  NumProbes,    \* probes in the lockfile; a probe is its position, 1..NumProbes
  Verdicts,     \* what a row may record
  Correctors,   \* processes that call supersede()
  ForeignRuns,  \* run ids a correction may carry besides that of the row it corrects
  Gates,        \* `clauseguard check` processes
  Entries,      \* how a gate is started: "cli" (cli.py) or "module" (check.py main)
  Thresholds,   \* values of --max-overpromise, 0 being also the default
  MaxRowId,     \* bound on the row ids minted
  NoRow, NoRun  \* absent values

ASSUME NumProbesAssumption == NumProbes \in Nat \ {0}
ASSUME MaxRowIdAssumption  == MaxRowId \in Nat
ASSUME NoRunAssumption     == NoRun \notin Runs \cup ForeignRuns
ASSUME EntriesAssumption   == Entries \subseteq {"cli", "module"}
ASSUME ThresholdAssumption == Thresholds \subseteq Int

VARIABLES
  rows,      \* rows[i]: the AuditRow minted with row_id i
  nextId,    \* the next uuid7, as a counter: ids are time ordered
  db,        \* the row ids committed to the audit_rows table
  runPc,     \* where each run process is
  batch,     \* the row ids a run process has built
  tally,     \* how many rows reconcile() read in its first session
  recon,     \* the Reconciliation a run process returned
  corPc,     \* where each supersede() call is
  target,    \* the row it corrects
  fix,       \* the row id of its correction
  gatePc,    \* where each gate process is
  gate       \* what the gate process holds

runVars  == <<runPc, batch, tally, recon>>
corVars  == <<corPc, target, fix>>
gateVars == <<gatePc, gate>>
vars     == <<rows, nextId, db, runVars, corVars, gateVars>>

Probes == 1..NumProbes
RowIds == 1..MaxRowId
NoId   == 0
RunIds == Runs \cup ForeignRuns

Row == [run : RunIds, probe : Probes, verdict : Verdicts, supersedes : RowIds \cup {NoId}]

(***************************************************************************)
(* Read path. Each operator is what one SELECT returns.                    *)
(***************************************************************************)
RowsOf(r) == {i \in db : rows[i].run = r}

Superseded(S) == {rows[i].supersedes : i \in S} \ {NoId}

LatestRowsDropsCorrections(r) ==
  {i \in RowsOf(r) \ Superseded(RowsOf(r)) : rows[i].supersedes = NoId}

\* latest_rows(run_id): only a row of the same run can hide a row of that run.
LatestRows(r) == RowsOf(r) \ Superseded(RowsOf(r))

OverPromises(r) == {i \in LatestRows(r) : rows[i].verdict = "OVER_PROMISE"}

\* _superseding_row_id() looks in the whole table.
IsSuperseded(i) == \E j \in db : rows[j].supersedes = i

\* run_ids(): the runs present, in the order of the first row id of each.
RunsPresent == {rows[i].run : i \in db}
Before(q, r) == \E i \in RowsOf(q) : \A j \in RowsOf(r) : i < j
After(r) == {q \in RunsPresent : Before(r, q)}

(***************************************************************************)
(* `clauseguard run`: build the rows, append_many, reconcile.              *)
(***************************************************************************)
\* build_row for every exchange mints the row ids, in probe order.
BuildRows(r) ==
  /\ runPc[r] = "judged"
  /\ nextId + NumProbes - 1 <= MaxRowId
  /\ \E v \in [Probes -> Verdicts] :
       rows' = [i \in RowIds |->
                  IF i \in nextId..(nextId + NumProbes - 1)
                  THEN [run |-> r, probe |-> i - nextId + 1,
                        verdict |-> v[i - nextId + 1], supersedes |-> NoId]
                  ELSE rows[i]]
  /\ batch'  = [batch EXCEPT ![r] = nextId..(nextId + NumProbes - 1)]
  /\ nextId' = nextId + NumProbes
  /\ runPc'  = [runPc EXCEPT ![r] = "built"]
  /\ UNCHANGED <<db, tally, recon, corVars, gateVars>>

\* Wrong variant: a transaction per row.
AppendOneByOne(r) ==
  /\ runPc[r] = "built"
  /\ \E i \in batch[r] \ db :
       /\ db'    = db \cup {i}
       /\ runPc' = [runPc EXCEPT ![r] = IF batch[r] \ db = {i} THEN "written" ELSE "built"]
  /\ UNCHANGED <<rows, nextId, batch, tally, recon, corVars, gateVars>>

\* append_many: one transaction for the whole batch.
AppendMany(r) ==
  /\ runPc[r] = "built"
  /\ db'    = db \cup batch[r]
  /\ runPc' = [runPc EXCEPT ![r] = "written"]
  /\ UNCHANGED <<rows, nextId, batch, tally, recon, corVars, gateVars>>

\* reconcile reads rows(run_id) in one session and latest_rows(run_id) in another.
ReconcileRows(r) ==
  /\ runPc[r] = "written"
  /\ tally' = [tally EXCEPT ![r] = Cardinality(RowsOf(r))]
  /\ runPc' = [runPc EXCEPT ![r] = "counted"]
  /\ UNCHANGED <<rows, nextId, db, batch, recon, corVars, gateVars>>

ReconcileLatest(r) ==
  /\ runPc[r] = "counted"
  /\ recon' = [recon EXCEPT ![r] =
                 [attempted    |-> Cardinality(LatestRows(r)),
                  superseded   |-> tally[r] - Cardinality(LatestRows(r)),
                  overPromises |-> Cardinality(OverPromises(r))]]
  /\ runPc' = [runPc EXCEPT ![r] = "reconciled"]
  /\ UNCHANGED <<rows, nextId, db, batch, tally, corVars, gateVars>>

\* The process dies; the rows it built and did not commit are gone with it.
Crash(r) ==
  /\ runPc[r] \notin {"reconciled", "crashed"}
  /\ runPc' = [runPc EXCEPT ![r] = "crashed"]
  /\ UNCHANGED <<rows, nextId, db, batch, tally, recon, corVars, gateVars>>

(***************************************************************************)
(* supersede(superseded_row_id, correction): three sessions.               *)
(***************************************************************************)
\* The corrections a caller may hold for row o; supersedes is what the object
\* carries before the call.
CorrectionsOf(o) ==
  [run : ForeignRuns \cup (IF o \in db THEN {rows[o].run} ELSE Runs),
   probe : Probes, verdict : Verdicts, supersedes : db \cup {NoId}]

\* The call has returned or raised: its locals are gone.
Forget(c) ==
  /\ target' = [target EXCEPT ![c] = NoId]
  /\ fix'    = [fix EXCEPT ![c] = NoId]

\* The caller has built a correction; get() finds row o or the call is refused.
SupersedeGet(c) ==
  /\ corPc[c] \in {"idle", "refused", "done"}
  /\ nextId <= MaxRowId
  /\ \E o \in db \cup {NoId} :
       /\ \E x \in CorrectionsOf(o) : rows' = [rows EXCEPT ![nextId] = x]
       /\ IF o \in db
          THEN /\ corPc'  = [corPc EXCEPT ![c] = "got"]
               /\ target' = [target EXCEPT ![c] = o]
               /\ fix'    = [fix EXCEPT ![c] = nextId]
          ELSE corPc' = [corPc EXCEPT ![c] = "refused"] /\ Forget(c)
  /\ nextId' = nextId + 1
  /\ UNCHANGED <<db, runVars, gateVars>>

\* Wrong variants: a missing refusal.
AcceptableForked(c) ==
  /\ rows[fix[c]].probe = rows[target[c]].probe
  /\ rows[fix[c]].supersedes \in {NoId, target[c]}

AcceptableAnyProbe(c) ==
  /\ ~IsSuperseded(target[c])
  /\ rows[fix[c]].supersedes \in {NoId, target[c]}

Acceptable(c) ==
  /\ ~IsSuperseded(target[c])
  /\ rows[fix[c]].probe = rows[target[c]].probe
  /\ rows[fix[c]].supersedes \in {NoId, target[c]}

SupersedeCheck(c) ==
  /\ corPc[c] = "got"
  /\ IF Acceptable(c)
     THEN corPc' = [corPc EXCEPT ![c] = "checked"] /\ UNCHANGED <<target, fix>>
     ELSE corPc' = [corPc EXCEPT ![c] = "refused"] /\ Forget(c)
  /\ UNCHANGED <<rows, nextId, db, runVars, gateVars>>

\* Wrong variant: the copy that carries supersedes_id is not the one appended.
SupersedeAppendUnlinked(c) ==
  /\ corPc[c] = "checked"
  /\ db'    = db \cup {fix[c]}
  /\ corPc' = [corPc EXCEPT ![c] = "done"]
  /\ Forget(c)
  /\ UNCHANGED <<rows, nextId, runVars, gateVars>>

SupersedeAppend(c) ==
  /\ corPc[c] = "checked"
  /\ rows'  = [rows EXCEPT ![fix[c]].supersedes = target[c]]
  /\ db'    = db \cup {fix[c]}
  /\ corPc' = [corPc EXCEPT ![c] = "done"]
  /\ Forget(c)
  /\ UNCHANGED <<nextId, runVars, gateVars>>

(***************************************************************************)
(* `clauseguard check [--run-id R] [--max-overpromise N | --baseline]`     *)
(***************************************************************************)
NoGate == [arg |-> NoRun, baseline |-> FALSE, run |-> NoRun, prev |-> NoRun,
           threshold |-> 0, count |-> 0, named |-> 0]

GateStep(g, from, to) ==
  /\ gatePc[g] = from
  /\ gatePc' = [gatePc EXCEPT ![g] = to]
  /\ UNCHANGED <<rows, nextId, db, runVars, corVars>>

\* cmd_check initialises the store; main in check.py does not, and every read
\* of a store that was not initialised raises AuditError.
GateUninitialised(g) ==
  /\ "module" \in Entries
  /\ GateStep(g, "start", "raised")
  /\ UNCHANGED gate

GateEmpty(g) ==
  /\ "cli" \in Entries
  /\ RunsPresent = {}
  /\ GateStep(g, "start", "nothing")
  /\ UNCHANGED gate

\* run_id = --run-id or run_ids[-1].
GateChoose(g) ==
  /\ "cli" \in Entries
  /\ RunsPresent # {}
  /\ GateStep(g, "start", "chosen")
  /\ \E a \in RunIds \cup {NoRun}, b \in BOOLEAN, n \in Thresholds, r \in RunIds :
       /\ IF a # NoRun THEN r = a ELSE r \in RunsPresent /\ After(r) = {}
       /\ gate' = [gate EXCEPT ![g] =
                     [@ EXCEPT !.arg = a, !.baseline = b, !.run = r, !.threshold = n]]

\* check_run: the run must be in the store, and --max-overpromise not negative.
GateFind(g) ==
  /\ GateStep(g, "chosen",
       IF gate[g].run \notin RunsPresent \/ (~gate[g].baseline /\ gate[g].threshold < 0)
       THEN "gate_error"
       ELSE IF gate[g].baseline THEN "baseline" ELSE "resolved")
  /\ UNCHANGED gate

\* resolve_threshold under --baseline: previous_id = run_ids[-2] ...
GatePrevious(g) ==
  /\ GateStep(g, "baseline", IF Cardinality(RunsPresent) < 2 THEN "gate_error" ELSE "previous")
  /\ IF Cardinality(RunsPresent) < 2 THEN UNCHANGED gate
     ELSE \E q \in RunsPresent :
            /\ Cardinality(After(q)) = 1
            /\ gate' = [gate EXCEPT ![g].prev = q]

\* ... and its over_promise_count is the threshold.
GatePreviousCount(g) ==
  /\ GateStep(g, "previous", "resolved")
  /\ gate' = [gate EXCEPT ![g].threshold = Cardinality(OverPromises(gate[g].prev))]

GateCount(g) ==
  /\ GateStep(g, "resolved", "counted")
  /\ gate' = [gate EXCEPT ![g].count = Cardinality(OverPromises(gate[g].run))]

\* The rows named in the failure table come from a read of their own.
GateDecide(g) ==
  /\ GateStep(g, "counted", IF gate[g].count <= gate[g].threshold THEN "pass" ELSE "fail")
  /\ gate' = [gate EXCEPT ![g].named = Cardinality(OverPromises(gate[g].run))]

(***************************************************************************)
(* The specification.                                                      *)
(***************************************************************************)
Init ==
  /\ rows   = [i \in RowIds |-> NoRow]
  /\ nextId = 1
  /\ db     = {}
  /\ runPc  = [r \in Runs |-> "judged"]
  /\ batch  = [r \in Runs |-> {}]
  /\ tally  = [r \in Runs |-> 0]
  /\ recon  = [r \in Runs |-> [attempted |-> 0, superseded |-> 0, overPromises |-> 0]]
  /\ corPc  = [c \in Correctors |-> "idle"]
  /\ target = [c \in Correctors |-> NoId]
  /\ fix    = [c \in Correctors |-> NoId]
  /\ gatePc = [g \in Gates |-> "start"]
  /\ gate   = [g \in Gates |-> NoGate]

RunStep(r) ==
  \/ BuildRows(r) \/ AppendMany(r) \/ ReconcileRows(r) \/ ReconcileLatest(r) \/ Crash(r)

SupersedeStep(c) == SupersedeGet(c) \/ SupersedeCheck(c) \/ SupersedeAppend(c)

CheckStep(g) ==
  \/ GateUninitialised(g) \/ GateEmpty(g) \/ GateChoose(g) \/ GateFind(g)
  \/ GatePrevious(g) \/ GatePreviousCount(g) \/ GateCount(g) \/ GateDecide(g)

Next ==
  \/ \E r \in Runs : RunStep(r)
  \/ \E c \in Correctors : SupersedeStep(c)
  \/ \E g \in Gates : CheckStep(g)

Spec == Init /\ [][Next]_vars

(***************************************************************************)
(* Properties.                                                             *)
(***************************************************************************)
Reconciliation == [attempted : Nat, superseded : Int, overPromises : Nat]

GateState == [arg : RunIds \cup {NoRun}, baseline : BOOLEAN, run : RunIds \cup {NoRun},
              prev : RunIds \cup {NoRun}, threshold : Int, count : Nat, named : Nat]

\* Every variable has its type; an id is minted before it is used.
TypeOK ==
  /\ rows \in [RowIds -> Row \cup {NoRow}]
  /\ nextId \in 1..(MaxRowId + 1)
  /\ \A i \in 1..(nextId - 1) : rows[i] \in Row
  /\ db \in SUBSET (1..(nextId - 1))
  /\ runPc \in [Runs -> {"judged", "built", "written", "counted", "reconciled", "crashed"}]
  /\ batch \in [Runs -> SUBSET (1..(nextId - 1))]
  /\ tally \in [Runs -> Nat]
  /\ recon \in [Runs -> Reconciliation]
  /\ corPc \in [Correctors -> {"idle", "got", "checked", "refused", "done"}]
  /\ target \in [Correctors -> RowIds \cup {NoId}]
  /\ fix \in [Correctors -> RowIds \cup {NoId}]
  /\ gatePc \in [Gates -> {"start", "raised", "nothing", "chosen", "gate_error", "baseline",
                           "previous", "resolved", "counted", "pass", "fail"}]
  /\ gate \in [Gates -> GateState]

\* supersede() refuses what would make the chain unreadable: a stored correction
\* points at a stored, older row about the same probe, whatever other processes
\* commit between its sessions.
CorrectionsResolve ==
  \A i \in db : rows[i].supersedes # NoId =>
    /\ rows[i].supersedes \in db
    /\ rows[i].supersedes < i
    /\ rows[rows[i].supersedes].probe = rows[i].probe

\* No row is superseded twice, so that "the current value" has one answer
\* (the refusal in supersede(), store.py:296).
NoFork ==
  \A i, j \in db : rows[i].supersedes = rows[j].supersedes /\ rows[i].supersedes # NoId => i = j

\* A superseded row is hidden from its run's metrics: a correction moves the
\* headline (latest_rows, store.py:344).
CorrectionTakesEffect ==
  \A i \in db : rows[i].supersedes # NoId =>
    rows[i].supersedes \notin LatestRows(rows[rows[i].supersedes].run)

\* A run reports one current row per probe however often its rows were
\* corrected: no result is counted twice.
OneCurrentRow ==
  \A r \in Runs : \A i, j \in LatestRows(r) : rows[i].probe = rows[j].probe => i = j

\* With corrections one at a time and within their run, a probe has one answer.
OneAnswer == NoFork /\ CorrectionTakesEffect /\ OneCurrentRow

\* And none is lost: whatever rows a run has about a probe, one is current,
\* even when corrections race or carry another run's id.
NoProbeLost ==
  \A i \in db : \E j \in LatestRows(rows[i].run) : rows[j].probe = rows[i].probe

\* reconcile() counts each probe once and never a negative number of superseded
\* rows, although its two reads may have corrections between them.
ReconcileCounts ==
  \A r \in Runs : runPc[r] = "reconciled" =>
    recon[r].attempted = NumProbes /\ recon[r].superseded >= 0

\* While nobody corrects rows, a verdict stays true of the store: the gate never
\* judged a run that was still being written, nor took its threshold from one.
VerdictStands ==
  \A g \in Gates :
    /\ gatePc[g] = "pass" => Cardinality(OverPromises(gate[g].run)) <= gate[g].threshold
    /\ gatePc[g] = "fail" => Cardinality(OverPromises(gate[g].run)) > gate[g].threshold
    /\ gatePc[g] = "fail" => gate[g].named = gate[g].count
    /\ gatePc[g] \in {"pass", "fail"} /\ gate[g].baseline =>
         gate[g].threshold = Cardinality(OverPromises(gate[g].prev))

\* "Compare against the previous run's count" (check.py:78): a check of the newest run
\* under --baseline compares it with an older one, though cmd_check chooses the run in
\* one session and resolve_threshold reads run_ids() again in another.
BaselineIsOlder ==
  \A g \in Gates :
    gatePc[g] \in {"pass", "fail"} /\ gate[g].baseline /\ gate[g].arg = NoRun
      => Before(gate[g].prev, gate[g].run)

\* The store implements the ledger: each run's verdicts appear at once, one
\* current verdict per probe, and a correction replaces one of them.
Current ==
  [r \in Runs |-> [p \in Probes |->
     LET about == {i \in LatestRows(r) : rows[i].probe = p} IN
     IF about = {} THEN "unknown"
     ELSE IF Cardinality(about) = 1 THEN rows[CHOOSE i \in about : TRUE].verdict
     ELSE "several"]]

Ledger == INSTANCE VerdictLedger WITH current <- Current, Unknown <- "unknown"
LedgerSpec == Ledger!Spec
===============================================================================
