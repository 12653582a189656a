\* One run, two probes, one caller of supersede(): corrections one at a time,
\* each carrying the run_id of the row it corrects.
SPECIFICATION Spec
CONSTANTS
  r1 = r1
  c1 = c1
  NoRow = NoRow
  NoRun = NoRun
  Runs = {r1}
  NumProbes = 2
  Verdicts = {"OVER_PROMISE", "CORRECT_DENIAL"}
  Correctors = {c1}
  ForeignRuns = {}
  Gates = {}
  Entries = {"cli"}
  Thresholds = {0}
  MaxRowId = 5
INVARIANTS
  OneAnswer
  ReconcileCounts
PROPERTY LedgerSpec
CHECK_DEADLOCK FALSE
