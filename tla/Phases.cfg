SPECIFICATION PhSpec
CONSTANTS
  PhProc = {p1, p2}
  Orgs = {o1, o2}
  Broken = {o1}
  PhFaults = 1
INVARIANT OncePerPeriod
PROPERTY EveryOrgServed
