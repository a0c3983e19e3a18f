\* Two accounts, a start and three more blocks, one failed pass.
CONSTANTS
  a1 = a1
  a2 = a2
  Account = {a1, a2}
  OnChain = {a1, a2}
  NoAccount = NoAccount
  FirstHeight = 1
  MaxHeight = 4
  GcOffset = 1
  MaxFaults = 1
SPECIFICATION Spec
SYMMETRY AccountSymmetry
INVARIANTS
  TypeOK
  NextUnstored
  BlocksContiguous
  RewardsComplete
  RewardsSound
PROPERTY ImplementsIndex
