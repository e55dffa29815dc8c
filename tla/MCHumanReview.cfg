SPECIFICATION Spec
CONSTANTS
  Captures = {p, q}
  SampledCases = {1, 2}
  ConflictCases = {1}
  MinimumReviewers = 2
  Expected <- MCExpected
  Thresholds <- MCThresholds
  MaximumDisagreement = 50
  Inputs <- MCInputs
  MaxLines = 4
CHECK_DEADLOCK FALSE
INVARIANTS
  QualifiedIsIndependent
  OneAtATimeKeepsTheChain
