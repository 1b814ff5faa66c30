\* No fault, no cancel needed: two sitemaps, and the budget is used up by the first.
SPECIFICATION FairSpec
CONSTANTS
  Target = {crawl1}
  NoTarget = NoTarget
  MaxAttempts = 2
  JobLease = 1
  Backoff = 0
  Url = {u1, u2}
  Seed = u1
  MaxSitemap = 2
  MaxUrls = 1
  MaxDepth = 1
  MaxFetches = 2
  FetchBatch = 2
  AnalyzeBatch = 1
  MaxFaults = 0
  Timely = {"advance"}
PROPERTY CrawlEnds
CHECK_DEADLOCK FALSE
