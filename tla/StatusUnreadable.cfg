\* Two reports are kept; nothing fails.
CONSTANTS
  MaxReports = 2
  MaxFaults = 0
SPECIFICATION Spec
INVARIANT LastReportReadable
