\* Timeouts and lost responses, with a table of one session.
SPECIFICATION Spec
CONSTANTS
  p1 = p1
  p2 = p2
  Probes <- TwoProbes
  Turns <- TwoAndOne
  MaxTurns = 2
  AgentAttempts = 2
  Builds = {"a"}
  MaxSessions = 1
  MaxHistory = 2
  OldSessions <- NoOldSessions
  MaxRestarts = 0
  Concurrency = 2
  RequireFrozen = FALSE
  Unfrozen = "unfrozen"
  MaxGiveUps = 1
INVARIANT NoLeak
CHECK_DEADLOCK FALSE
