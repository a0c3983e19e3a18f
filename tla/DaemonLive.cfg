\* All three jobs, an account of the chain and one that is not on it, one block
\* to index, one failure or restart.
CONSTANTS
  a1 = a1
  x = x
  Account = {a1, x}
  OnChain = {a1}
  NoAccount = NoAccount
  FirstHeight = 1
  MaxHeight = 2
  GcOffset = 1
  MaxFaults = 1
SPECIFICATION DaemonFairSpec
INVARIANTS
  DaemonTypeOK
  RefreshedOnce
PROPERTIES
  ImplementsChainIndex
  EventuallyRefreshed
  EventuallyRepaired
