SPECIFICATION Spec
CONSTANTS
  LogTop = 100
  LogOf <- MCLogOf
  MinGroup = 2
  MinQualifying = 6
  Brand = 0
  MinAppearances = 2
  VisibleMin = 60
  MinPrompts = 1
  PreviewLimit = 3
  DeepThreshold = 3
  HighFloor = 2
  WeakMinimum = 3
  Lower <- MCLower
  MaxRedirects = 2
  MaxUrls = 2
  FreeIssues = 3
  PerWeek = 2
  FreeSim = 2
  FreePlan = 3
  FreeRecs = 3
  MinCompared = 2
  MinEligible = 5
  FreeClusters = 2
  ChunkTarget = 3
  ChunkLimit = 5
  ChunkOverlap = 1
  MaxWords = 14
  MaxChunks = 4
  DropWarning = 8
  DropCritical = 15
  CategoryDrop = 15
  CriticalScore = 25
  MaxCritical = 3
  StopWords = {"how", "to", "this"}
  TopK = 5
  FactsCap = 12
  FreeBatch = 2
  FreeFindings = 2
  TopShown = 2
  StallMinutes = 15
  NextShown = 2
  NextPages = 2
  SuppressAfter = 2
  AlertsShown = 1
  MinSample = 2
  HighSample = 4
  MinTrend = 2
  MinAnswers = 3
  MaxRange = 3
  StaleDays = 3
  InactiveDays = 2
  WindowDays = 5
  MaxMappings = 2
INVARIANTS PagesJudged AnswersJudged SitesJudged
CHECK_DEADLOCK FALSE
