CONSTANTS
  Jobs = {j1, j2}
  Words = {"refund", "fee"}
  Marks = {"comma", "dash"}
  NumClauses = 1
  Facts = {"fresh"}
  Drafts <- MCDrafts
  MaxEdits = 2
SPECIFICATION Spec
CHECK_DEADLOCK FALSE
INVARIANTS
  GrantsAreBacked
  LabelsAreOfTheRules
SYMMETRY Either
