\* Two processes, two clients, two migrations, two files.
CONSTANTS
  p1 = p1
  p2 = p2
  Procs = {p1, p2}
  Kinds <- MCKinds
  Reqs = {r1, r2}
  MaxUnits = 2
  Head = 2
  Files = {1, 2}
  NULL = NULL
SPECIFICATION FairSpec
INVARIANTS ServesAtHead FailureIsReported
PROPERTIES DropsAreExplained Stops
