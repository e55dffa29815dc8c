SPECIFICATION Spec
CHECK_DEADLOCK FALSE
SYMMETRY Symmetry
CONSTANTS
  Accounts = {alex}
  SessionIds = {s1, s2}
  Requests = {q1, q2}
  None = None
  Conditional = FALSE
  Idle = 2
  Absolute = 3
  RenewalWindow = 2
  MaxTime = 4
PROPERTIES
  EndedStaysEnded
