\* All three jobs, one account, one block to index, nothing fails.
CONSTANTS
  a1 = a1
  Account = {a1}
  OnChain = {a1}
  NoAccount = NoAccount
  FirstHeight = 1
  MaxHeight = 2
  GcOffset = 1
  MaxFaults = 0
SPECIFICATION DaemonSpec
INVARIANTS
  RewardedArePending
