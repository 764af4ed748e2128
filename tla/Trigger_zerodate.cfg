\* A new post whose date does not parse.
CONSTANTS
  Listings <- MCListings
  PageRows = 2
  Threshold = 2
  MaxPageSize = 3
  TTL = 0
  Granule = 1
  DateParses = {FALSE}
  MaxClock = 6
  MaxFailures = 0
  Blank = Blank
  BatchSize = 2
  PageSize = 2
  LookbackSpan = 9
  MaxPagesPerPoll = 2
  MaxResets = 0
SPECIFICATION Spec
INVARIANTS NoPostLost
