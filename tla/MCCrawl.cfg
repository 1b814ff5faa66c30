\* A site of three pages and two sitemaps; the budget is one page short.
SPECIFICATION FairSpec
CONSTANTS
  Target = {crawl1}
  NoTarget = NoTarget
  MaxAttempts = 2
  JobLease = 1
  Backoff = 0
  Url = {u1, u2, u3}
  Seed = u1
  MaxSitemap = 2
  MaxUrls = 2
  MaxDepth = 1
  MaxFetches = 1
  FetchBatch = 2
  AnalyzeBatch = 1
  MaxFaults = 2
  Timely = {"advance"}
INVARIANTS Budget NothingLeftBehind CarriedOn
PROPERTIES NeverResumed CrawlSettles
CHECK_DEADLOCK FALSE
