\* Two callers of supersede() correct the same row.
SPECIFICATION Spec
CONSTANTS
  r1 = r1
  c1 = c1
  c2 = c2
  NoRow = NoRow
  NoRun = NoRun
  Runs = {r1}
  NumProbes = 1
  Verdicts = {"OVER_PROMISE"}
  Correctors = {c1,c2}
  ForeignRuns = {}
  Gates = {}
  Entries = {"cli"}
  Thresholds = {0}
  MaxRowId = 3
INVARIANTS
  NoFork
CHECK_DEADLOCK FALSE
