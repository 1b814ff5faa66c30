\* Two Pro checkouts and a report, three events in any order and any number of
\* deliveries by two concurrent requests, one fault.
SPECIFICATION Spec
CONSTANTS
  Pro = {p1, p2}
  Report = {r1}
  Handler = {h1, h2}
  MaxEvents = 3
  MaxFaults = 1
SYMMETRY Symmetry
INVARIANTS AppliedOnce InvoiceNumbers ProcessedApplied
CHECK_DEADLOCK FALSE
