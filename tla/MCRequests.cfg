SPECIFICATION Spec
CONSTANTS
  Caller = {q1, q2, q3}
  Slots = 2
  ScanLimit = 1
  MaxScans = 2
  BulkAttempts = 2
  ScFaults = 2
  Person = {ann, bob, cat}
  MaxInvites = 3
  TMOps = 2
  TMTimely = {"accept"}
  Props = {A, B}
  Lookback = 1
  History = 2
  GSHorizon = 2
  GSOps = 4
  GSFaults = 1
  GSTimely = {"sync", "select"}
  Visit = {s1, s2}
  Test = {s2}
  Views = 2
  Order = {o1}
  IGCaller = {c1, c2}
  IGOps = 3
  Address = {home, work}
  Registered = home
  ACCaller = {d1, d2}
  ACOps = 4
  Apart = {{"login", "reset"}, {"refresh", "reset"}, {"refresh"}, {"address"},
           {"verify", "address"}, {"resend", "address"}, {"admin", "address"}}
  Process = {h1, h2}
  Thread = {t1, t2}
  Limit = 1
  Window = 2
  Ttl = 2
  LMHorizon = 5
  LMCalls = 4
  LMRestarts = 1
SYMMETRY Symmetry
INVARIANTS ScansSound MembershipSound  EventsSound  LimitsSound
CHECK_DEADLOCK FALSE
