\* Polls of two calls, cached pages, rounded dates, a failure, a reset, fairness.
CONSTANTS
  Listings <- MCListings
  PageRows = 2
  Threshold = 2
  MaxPageSize = 3
  TTL = 2
  Granule = 2
  DateParses = {TRUE}
  MaxClock = 7
  MaxFailures = 1
  Blank = Blank
  BatchSize = 2
  PageSize = 1
  LookbackSpan = 2
  MaxPagesPerPoll = 2
  MaxResets = 1
SPECIFICATION FairSpec
INVARIANTS WatermarkIsComplete EmittedInOnePass
PROPERTIES PassEnds
