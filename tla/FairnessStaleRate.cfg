SPECIFICATION PlatformSpec
CONSTANTS
  Blocks = {1, 2, 3}
  Shapes <- MCShapes
  MaxSpans = 2
  MaxConfigs = 3
  Selections <- MCSelections
  Strict = TRUE
  Requests = {"r1", "r2"}
  LogBlocks = {"b1", "b2"}
  Scripts <- MCScripts
  Declares <- MCDeclares
  Needs <- MCNeeds
  AskedChapters = {0, 1, 2}
  AskedKeys = {{}, {1}}
  AskedPillars = {"", "roi"}
  MaxFailures = 2
  Prompts <- MCPrompts
  Contexts = {0, 2}
  MaxTokens = {8, 512}
  StreamTokens = {1, 4}
  Latency = 20
  MaxCalls = 2
  Callers = {1, 2}
  Samples <- MCSamples
  MaxSamples = 2
  AcceptThresholds = {50, 90}
  Groups = {"a", "b", "c"}
  Counts <- MCCounts
  MinN = 3
  Scale = 12
  MaxWindows = 2
  Observations = {0, 1, 2, 4}
  References <- MCReferences
  WindowSizes = {2, 3}
  Bins = 2
  Unit = 1000
  Ln <- MCLn
  LnScale = 1000
  MaxDays = 2
  Texts <- MCWords
  BudgetTokens = {4, 7}
  Longest = 2
  Usages <- MCUsages
  Questions = 2
  SampleEvery = 2
  MaxIterations = 3
  Table <- MCTable
  Amounts = {1, 4}
  Latencies = {1, 2}
  LatencySlo = 1
  MaxEntries = 3
  Precision = 100
  Teams = {"red", "blue"}
  SessionIds = {"s1", "s2"}
  SessionCosts = {3}
  MaxSessions = 2
  MaxChanges = 2
  g1 = g1
  c1 = c1
  c2 = c2
  editor = editor
  nobody = nobody
  NoReviewer = nobody
  Roles = {"editor_in_chief", "intern"}
  ApproverRoles = {"editor_in_chief"}
  Runs = {g1}
  Resumers = {c1, c2}
  Reviewers = {editor}
  Decisions = {"approve"}
  MaxRecords = 2
  CallFaults = {"crash", "raise", "lost"}
INVARIANT SmallGroupsPublishOnlySize
CHECK_DEADLOCK FALSE
