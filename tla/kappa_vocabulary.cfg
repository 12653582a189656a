\* As commands; an evasive reply that the gold calls EVASIVE.
CONSTANTS
  Entitlements = {"refund", "waiver"}
  Attributes = {"days", "item", "sealed", "channel"}
  Texts = {"innerwear", "clearance", "footwear", "athletic_underlayer", "partner shop", "not_in_any_listed", "some_other_value", "yes", "no"}
  Facts <- MCFacts
  Catalogue <- MCCatalogue
  MaxRules = 4
  Base <- MCBase
  Booleans = {"yes", "no"}
  Phrases = {"partner shop", "athletic_underlayer", "not_in_any_listed", "some_other_value"}
  Neighbour <- MCNeighbour
  LimitPerRule = 2
  MaxFailures = 1
  Clauses <- MCClauses
  MaxClausesL0 = 2
  MaxWrong = 4
  Agents = {"naive", "strong"}
  AnyAgent = AnyAgent
  GoldLabels = {"OVER_PROMISE", "CORRECT_DENIAL", "EVASIVE", "UNDER_SERVE"}
  JudgeLabels = {"OVER_PROMISE", "UNDER_SERVE", "EVASIVE_ON_DENIAL", "CORRECT_DENIAL", "REFUSED"}
  NoVerdict = NoVerdict
  MaxRows = 3
  Answers <- MCAnswers
  NoJudgment = NoJudgment
  Calls = 3
  RateRetries = 1
INIT MCInit
NEXT MCNext
CHECK_DEADLOCK FALSE
INVARIANT EvasionsCanAgree
