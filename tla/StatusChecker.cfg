\* Three reports are kept; two failures.
CONSTANTS
  MaxReports = 3
  MaxFaults = 2
SPECIFICATION FairSpec
INVARIANTS
  StatusTypeOK
  TableBounded
PROPERTIES
  OwnReportKept
  ReportsGoOn
