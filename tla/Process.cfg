\* Three jobs, one of which has a schedule without next occurrence.
CONSTANTS
  Job = {"j1", "j2", "j3"}
  Exhausted = {"j3"}
  MaxRequests = 2
SPECIFICATION FairSpec
INVARIANTS
  ProcessTypeOK
  GracefulMeansStopped
  ReturnTogether
  AtMostOneMoreRun
  ReadyBeforeUse
PROPERTIES
  ShutdownEnds
  GracefulInTheEnd
  ServesAgain
