\* Two pairs of which the exchange lists one; nothing fails.
CONSTANTS
  btc = btc
  unlisted = unlisted
  Pair = {btc, unlisted}
  Listed = {btc}
  MaxFaults = 0
SPECIFICATION Spec
INVARIANT PriceOfItsPair
