\* Three pairs, all of them listed, two failed passes.
CONSTANTS
  btc = btc
  ccd = ccd
  eth = eth
  Pair = {btc, ccd, eth}
  Listed = {btc, ccd, eth}
  MaxFaults = 2
SPECIFICATION FairSpec
INVARIANTS
  PricesTypeOK
  PriceOfItsPair
PROPERTY EventuallyPriced
