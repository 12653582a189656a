\* A full table, failing attempts, and a container that restarts on another build or was never frozen.
SPECIFICATION Spec
CONSTANTS
  p1 = p1
  p2 = p2
  Probes <- TwoProbes
  Turns <- TwoAndOne
  MaxTurns = 2
  AgentAttempts = 2
  Builds = {"a", "b", "unfrozen"}
  MaxSessions = 2
  MaxHistory = 2
  OldSessions <- TwoOldSessions
  MaxRestarts = 1
  Concurrency = 2
  RequireFrozen = FALSE
  Unfrozen = "unfrozen"
  MaxGiveUps = 0
INVARIANTS
  ReturnedIsComplete
  HistoryExact
  SessionsBounded
PROPERTY PhaseEnds
CHECK_DEADLOCK FALSE
