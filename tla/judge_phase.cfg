\* One exchange, its first pass and its samples, gold or not, with the code's own retry budgets, repairs and votes, and the row its result becomes.
SPECIFICATION Spec
CONSTANTS
  NumExchanges = 1
  RateLimitAttempts = 3
  MalformedAttempts = 3
  SchemaRepairs = 2
  L3K = 3
  L3MinVotes = 2
  Consistency = TRUE
  GoldProbe = {TRUE, FALSE}
INVARIANTS
  AbstentionIsJudgment
  OverPromiseIsConfirmed
  L3OnlyReduces
  GenerationsBounded
  PacerExact
  RowCanBeStored
  OverPromiseIsEvidenced
PROPERTY Terminates
CHECK_DEADLOCK FALSE
