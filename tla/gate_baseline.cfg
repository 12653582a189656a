\* A gate on the newest run under --baseline, and a run that commits between its reads.
SPECIFICATION Spec
CONSTANTS
  r1 = r1
  r2 = r2
  r3 = r3
  g1 = g1
  NoRow = NoRow
  NoRun = NoRun
  Runs = {r1,r2,r3}
  NumProbes = 1
  Verdicts = {"OVER_PROMISE", "CORRECT_DENIAL"}
  Correctors = {}
  ForeignRuns = {}
  Gates = {g1}
  Entries = {"cli"}
  Thresholds <- ZeroOrInvalid
  MaxRowId = 3
INVARIANT BaselineIsOlder
SYMMETRY RunSymmetry
CHECK_DEADLOCK FALSE
