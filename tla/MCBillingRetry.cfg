\* A Pro checkout and its renewal, two concurrent requests and no fault.
SPECIFICATION FairSpec
CONSTANTS
  Pro = {p1}
  Report = {}
  Handler = {h1, h2}
  MaxEvents = 2
  MaxFaults = 0
PROPERTIES PaidIsApplied
CHECK_DEADLOCK FALSE
