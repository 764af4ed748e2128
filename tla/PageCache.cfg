\* Two walks over three pages, a token every second instant.
CONSTANTS
  Walks = {w1, w2}
  Pages = {1, 2, 3}
  TTL = 2
  Interval = 2
  Timeout = 2
  MaxDebt = 4
  NULL = NULL
SPECIFICATION FairSpec
INVARIANTS HitsAreRecent NewestUnlessRaced EntriesBounded
PROPERTIES EveryFetchReturns
