SPECIFICATION Spec
CHECK_DEADLOCK FALSE
CONSTANTS
  Runs = {r1, r2, r3}
  None = None
  c1 = c1
  c2 = c2
  text = text
  Criteria <- MCCriteria
  Allowed <- MCAllowed
  Deterministic = {}
  Requirements <- MCRequirements
  PermittedOf <- MCPermittedOf
  Evidence <- MCEvidence
  Drafts <- MCDrafts
  MaxAttempts = 2
  MaxConcurrent = 1
  MaxRequestsPerMinute = 2
  Minute = 2
  Timeout = 2
  ExpiresAt = 1
  LastStart = 2
  MaxTime = 4
INVARIANTS
  AuthorizationUsedOnce
  RecordTellsTheOutcome
  BudgetsHold
  DraftsAreTimely
PROPERTIES
  EvaluationsEnd
