\* Two workers and a "Run now" request on one job, with nothing in time: a job may
\* be recovered, claimed and run again while its first worker is still at it, and
\* the request runs it beside them.
SPECIFICATION FairSpec
CONSTANTS
  Target = {t1}
  NoTarget = NoTarget
  Worker = {w1, w2}
  Request = {r1}
  Sync = {}
  MaxAttempts = 2
  JobLease = 2
  Backoff = 0
  MaxJobs = 1
  MaxCrashes = 0
  Prompt = {}
INVARIANT RetryBudget
PROPERTY EveryJobEnds
