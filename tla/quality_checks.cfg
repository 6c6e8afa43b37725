\* One batch of three checks, and a run with the container name of the first.
SPECIFICATION FairSpec
CONSTANTS
  None = None
  b1 = b1
  d1 = d1
  n1 = n1
  n2 = n2
  Batches = {b1}
  Checks <- ThreeChecks
  Runs <- BatchAndDirectRuns
  Names = {n1, n2}
  NameOf <- SharedName
  Reasons = {x1}
INVARIANTS
  TypeOK
  CancellationsCount
  ResultsAreFinal
  VerdictsAreTrue
  CancelledBatchesStop
  ContainersAreGone
PROPERTIES
  BatchesProgress
  EveryBatchEnds
CHECK_DEADLOCK FALSE
