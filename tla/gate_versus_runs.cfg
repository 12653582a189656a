\* A gate reading the store while three runs are written.
SPECIFICATION Spec
CONSTANTS
  r1 = r1
  r2 = r2
  r3 = r3
  g1 = g1
  NoRow = NoRow
  NoRun = NoRun
  Runs = {r1,r2,r3}
  NumProbes = 2
  Verdicts = {"OVER_PROMISE", "CORRECT_DENIAL"}
  Correctors = {}
  ForeignRuns = {}
  Gates = {g1}
  Entries = {"cli","module"}
  Thresholds <- ZeroOrInvalid
  MaxRowId = 6
INVARIANTS
  VerdictStands
SYMMETRY RunSymmetry
CHECK_DEADLOCK FALSE
