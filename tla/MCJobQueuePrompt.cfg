\* Two workers, two targets, three jobs: a job may be followed by the next one of
\* its target. Threads and recovery passes run in time.
SPECIFICATION Spec
CONSTANTS
  Target = {t1, t2}
  NoTarget = NoTarget
  Worker = {w1, w2}
  Request = {}
  Sync = {}
  MaxAttempts = 2
  JobLease = 3
  Backoff = 1
  MaxJobs = 3
  MaxCrashes = 2
  Prompt = {"heartbeat", "queries"}
SYMMETRY Symmetry
INVARIANTS NoDoubleRun TargetExclusive OneActivePerTarget
PROPERTIES FencedOutcome LiveNeverRecovered
