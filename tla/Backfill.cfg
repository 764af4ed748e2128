\* Pages of three rows that shift while a pass walks them; two failed fetches.
CONSTANTS
  Listings <- MCListings
  PageRows = 3
  Threshold = 2
  MaxPageSize = 3
  TTL = 0
  Granule = 1
  DateParses = {TRUE}
  MaxClock = 9
  MaxFailures = 2
  Blank = Blank
  PageSizes = {0, 2, 5}
  Lookbacks <- MCLookbacks
  Week = 2
  Day = 1
  SpanHalf = 16
SPECIFICATION FairBackfill
INVARIANTS NoGap
PROPERTIES NoRepeat BackfillEnds
