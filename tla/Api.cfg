\* Two requests and one job.
CONSTANTS
  c1 = c1
  c2 = c2
  j = j
  Caller = {c1, c2, j}
  Client = {c1, c2}
  Routes <- MCRoutes
  MaxFaults = 1
SPECIFICATION FairSpec
INVARIANTS
  ApiTypeOK
  AckedStays
PROPERTIES
  ImplementsStore
  NotFoundIsTrue
  CreatedOnce
  Answered
