SPECIFICATION Spec
CONSTANTS
  Monitors = {m1, m2}
  Recipient = {u1, u2}
  EmailCap = 2
  MNJobs = 2
  MNAttempts = 2
  MNManual = 1
  MNFaults = 1
  ATUser = {p1}
  ATRuns = 4
  ATSimulated = 1
  Frequency = 2
  MinInterval = 1
  MonthlyLimit = 2
  ATHorizon = 2
  ATFaults = 1
  ATTimely = {"reanalyse"}
  Site = {t1, t2, t3}
  WLCaller = {w1, w2}
  FreeMonitors = 1
  ProMonitors = 2
  MaxPrompts = 1
  WLOps = 5
  WLApart = {{"update"}, {"update", "admin"}, {"first"}, {"prompt", "list"}, {"add", "list"},
             {"first", "list"}, {"first", "admin"}, {"prompt", "admin"}, {"add", "admin"}}
INVARIANTS ScannedOnce AlertsSound AnswerRunsSound WatchlistSound
CHECK_DEADLOCK FALSE
