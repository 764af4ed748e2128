\* Cached pages that expire one after the other.
CONSTANTS
  Listings <- LongListing
  PageRows = 2
  Threshold = 2
  MaxPageSize = 5
  TTL = 2
  Granule = 1
  DateParses = {TRUE}
  MaxClock = 10
  MaxFailures = 1
  Blank = Blank
  PageSizes = {5}
  Lookbacks <- NoLookbacks
  Week = 2
  Day = 1
  SpanHalf = 16
SPECIFICATION BackfillSpec
INVARIANTS NoGap
