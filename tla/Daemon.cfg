\* All three jobs, one account, two blocks to index, one failure or restart.
CONSTANTS
  a1 = a1
  Account = {a1}
  OnChain = {a1}
  NoAccount = NoAccount
  FirstHeight = 1
  MaxHeight = 3
  GcOffset = 1
  MaxFaults = 1
SPECIFICATION HistorySpec
INVARIANTS
  FeeHasBaker
  RewardsComplete
  RewardAsksForRefresh
