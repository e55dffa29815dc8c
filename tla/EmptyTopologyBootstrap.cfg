SPECIFICATION BootstrapSpec
CONSTANTS
  Runs = {r1, r2}
  MaxUnremoved = 2
  None = None
CHECK_DEADLOCK FALSE
INVARIANTS
  EvidenceIsEarned
  FailureLeavesOneStep
PROPERTIES
  UndisturbedRunsSucceed
