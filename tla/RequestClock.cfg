SPECIFICATION FairSpec
CONSTANTS
  CallMax = 7
  Margin = 12
  Life = 24
  RetryMax = 12
  Delay = 1
  Lags = {1, 7}
  Hints = {0, 20}
  Rests = {5}
INVARIANTS TypeOK RequestBounded
PROPERTIES OnlyRevokedRefused RevocationEnds
