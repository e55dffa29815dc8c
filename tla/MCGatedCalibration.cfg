SPECIFICATION Spec
CONSTANTS
  ScorerAliases = {a1, a2}
  AttemptIds = {1, 2}
  Fixtures <- MCFixtures
  Sheets <- MCSheets
  Key <- MCKey
  None = None
  operator = operator
  administrator = administrator
  Administrators = {operator, administrator}
  Attestations <- MCAttestations
  Starts <- MCStarts
  Incidents = {i1}
  Revocable = {"KEY"}
  Expiries = {1, 3}
  MaxTime = 2
  MaxRecords = 1
  MaxResults = 2
CHECK_DEADLOCK FALSE
INVARIANTS
  GateRestsOnEvidence
  PowersStayApart
  RetryFollowsOwnFailure
  PassIsEarned
SYMMETRY Symmetry
