SPECIFICATION OversightSpec
CONSTANTS
  decline = decline
  hesitant = hesitant
  refund = refund
  c1 = c1
  c2 = c2
  search = search
  fetch = fetch
  NoDataset = NoDataset
  Recommendations = {decline, hesitant, refund}
  Mandatory = {decline}
  Doubtful = {hesitant}
  MaxRoutes = 3
  QueueFaults = {"crash", "raise", "lost"}
  Captures = {c1, c2}
  Reviews <- MCReviews
  MaxRecords = 3
  LogFaults = {"crash", "raise", "lost"}
  Tools = {search, fetch}
  MaxCalls <- MCMaxCalls
  MaxRequests = 4
  MaxResets = 1
  Texts <- MCTexts
  Window = 3
  Threshold <- MCThreshold
  MaxSeen = 5
  Verifiers = 2
  FailStreakLimit = 2
  MaxRuns = 5
  Budget = 4
  Estimates = {0, 1, 3}
  Overspend = 1
  MaxDepth = 3
  MaxSpent = 20
  Prompts <- MCPrompts
  Completions <- MCCompletions
  SystemPrompts <- MCSystemPrompts
  Shingle = 2
  Thresholds = {75, 50}
  MaxGuarded = 2
  Threads = {"loop", "pool"}
  People = {"ann"}
  MaxTokens = 3
  MaxHops = 2
  AgentSteps <- MCAgentSteps
  Repeats = 3
  StepCeiling = 4
  TokenBudget = 100000
  TightBudget = 20000
  MaxAgentRuns = 2
  MaxAdded = 5
  Queries = {"q1", "q2"}
  Memories <- MCMemories
  TopK = {0, 1, 2}
  Drops <- MCDrops
  MaxItems = 3
  MaxObserved = 2
INVARIANTS
  RoutingAccountable
  LearningAccountable
  BudgetHolds
  EveryCallAccounted
  OpenIffLooping
  StreakCountsVerdicts
  OverrunBounded
  GuardrailsAccountable
  ScopesNest
  MetersTell
PROPERTIES
  StaysOpen
SYMMETRY Symmetry
CHECK_DEADLOCK FALSE
