\* Two releases that can be over the cap, two connections, fairness.
CONSTANTS
  Infohashes = {1, 2}
  Txs = {t1, t2}
  Refs = {}
  Dates = {1}
  Caps = {1, 2}
  Limits = {0, 5}
  LeaseRequests = {0}
  DefaultLimit = 1
  MaxLimit = 2
  DefaultLease = 1
  DurationHalf = 4
  MaxClock = 1
  MaxToken = 2
  NULL = NULL
SPECIFICATION OverCapFairSpec
PROPERTIES EveryCallReturns LoneClaimTakesNewest
