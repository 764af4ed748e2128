\* Three releases, pages of one and two, equal dates; two caps for the detail.
CONSTANTS
  Infohashes = {1, 2, 3}
  Refs = {r1, r2}
  Dates = {0, 1}
  QueryRefs = {r1}
  Sinces = {0}
  Limits = {0, 5}
  DefaultLimit = 1
  MaxLimit = 2
  MaxClock = 1
  Scope <- MCScope
  NULL = NULL
SPECIFICATION FairSpec
INVARIANTS NoSkip OnceUnlessMoved FeedMissesOnlyLate GaugesAgree DetailIsConsistent
PROPERTIES CursorLeadsOn WalkEnds
