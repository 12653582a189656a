\* Two pages with one slug and three versions, texts of up to five lines, documents of up
\* to three clauses, extraction of three clauses in two batches,
\* policies of up to eight characters.
INIT MCInit
NEXT MCNext
CONSTANTS
  Urls = {"shop/us/returns", "shop/uk/returns"}
  Texts <- MCTexts
  MaxVersions = 3
  Levels = {1, 2}
  Indents = {0, 2, 4}
  MaxLines = 5
  MaxClauseTokens = 3
  FallbackChunkTokens = 2
  Hashes = {h1, h2, h3}
  MaxClauses = 3
  MaxIngests = 2
  NumClauses = 3
  ClausesPerCall = 2
  Trees <- MCTrees
  MaxTrees = 2
  HandRules <- MCHandRules
  MaxHand = 3
  MaxLength = 8
  ChunkChars = 5
  OverlapChars = 2
  SnapWindow = 2
  TopK = 1
  CandidateK = 2
  Scores = {0, 1}
INVARIANTS
  HashIsOfItsDate
  EveryWordIsInOneClause
  PathIsTheOpenHeadings
  SubItemsStayWithTheirItem
  EditsAreExtracted
  UngroundedIsFlagged
  MissesAreShortages
  SpansSurvive
  FindingIsTrue
PROPERTY OnlyContentChangesTheBaseline
CHECK_DEADLOCK FALSE
