SPECIFICATION Spec
CONSTANTS
  Requests = {r1, r2}
  Items = 3
  Words = 8
  Incidents = {i1}
  None = None
  MaxSnapshots = 9
CHECK_DEADLOCK FALSE
INVARIANTS
  OutcomeIsEarned
  OrderIsUnbiased
PROPERTIES
  VoidIsFinal
