\* Two handlers under fairness, batches that share keys and torrents in opposite orders.
CONSTANTS
  a = a
  b = b
  c1 = c1
  c2 = c2
  NULL = NULL
  Posts <- MCPosts
  Batches <- MCBatches
  Conns = {c1, c2}
  MaxBatch = 3
  MaxId = 5
SPECIFICATION FairSpec
INVARIANTS RowIsSummary AckedIsStored NewIsReportedOnce LookupFindsTorrent
PROPERTIES AtomicPosts EveryRequestAnswered
CHECK_DEADLOCK FALSE
