SPECIFICATION Spec
CONSTANTS
  Pages = 3
  Unfetched = {2}
  MaxRuns = 2
  ChunkSize = 2
  AnalyzeLimit = 2
  PVRequest = {a, b}
  PVFaults = 1
  PVTimely = {"cancel"}
  FxMethods = {"page_check", "site_crawl"}
  Backoffs = 1
  SuppressAfter = 2
  DailyLimit = 1
  TrackDays = 1
  Watched = TRUE
  FxOps = 2
  FxCrawls = 1
  FxHorizon = 2
  FxFaults = 1
  FxTimely = {"load"}
  RScan = {r1, r2}
  RPCaller = {e1, e2}
  RPOps = 5
  MonthlyFree = 1
  DailyAll = 2
  FreeShares = 1
  RPTimely = {"view", "delete"}
  Target = {g1, g2, g3}
  Concurrency = 2
  BulkBudget = 1
  PageTimeout = 2
  TotalTimeout = 1
  Retries = 1
  Redirects = 1
  PageScores = {0, 100}
  FNPage = {p1, p2}
  Template = {tm}
  VerifySample = 1
  FNCrawls = 3
  FNOps = 1
  FNFaults = 1
INVARIANTS FindingsSound FetchSound ReportsSound  
 
CHECK_DEADLOCK FALSE
