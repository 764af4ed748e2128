\* Two releases, two overlapping executions, batches of two, three faults.
CONSTANTS
  Infohashes = {i1, i2}
  Refs = {r1, r2}
  Caps = {1, 2}
  NULL = NULL
  Flows = {f1, f2}
  Limit = 2
  MaxFaults = 3
SPECIFICATION FairSpec
INVARIANTS OneAttemptPerClaim AckedAnswerStands
PROPERTIES EveryReleaseSettled
