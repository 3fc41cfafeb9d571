SPECIFICATION FairSpec
CONSTANTS
  Task = {t1, t2, t3}
  Requests = 2
  Cap = 2
  MaxSent = 3
  MaxTickets = 4
INVARIANTS
  AllRequestsReported
  CountersExact
  Capped
  ReportAddsUp
PROPERTIES
  ReportIsMade
CHECK_DEADLOCK FALSE
