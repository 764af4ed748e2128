\* A call fails after another call of the same poll succeeded.
CONSTANTS
  Listings <- MCListings
  PageRows = 2
  Threshold = 2
  MaxPageSize = 3
  TTL = 0
  Granule = 1
  DateParses = {TRUE}
  MaxClock = 5
  MaxFailures = 1
  Blank = Blank
  BatchSize = 2
  PageSize = 1
  LookbackSpan = 9
  MaxPagesPerPoll = 2
  MaxResets = 0
SPECIFICATION Spec
INVARIANTS NoPostLost
