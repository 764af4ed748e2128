\* One release, two connections, restarts that change the attempt cap.
CONSTANTS
  Infohashes = {1}
  Txs = {t1, t2}
  Refs = {r1}
  Dates = {1}
  Caps = {1, 2}
  Limits = {0}
  LeaseRequests = {2, 7}
  DefaultLimit = 1
  MaxLimit = 2
  DefaultLease = 1
  DurationHalf = 4
  MaxClock = 2
  MaxToken = 2
  NULL = NULL
SYMMETRY TxSymmetry
SPECIFICATION Spec
INVARIANTS FenceInv NoOverlappingLeases LeaseHistoryInOrder RowFollowsHistory
PROPERTIES FencedSubmit LeaseIsProtected TerminalIsFinal ActsAtomically
