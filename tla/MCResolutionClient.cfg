SPECIFICATION ClientSpec
CONSTANTS
  None = None
  owner = owner
  partner = partner
  client = client
  provider = provider
  Accounts = {owner, partner}
  Parties = {client, provider}
  PartyOf <- MCPartyOf
  RoleOf <- MCRoleOf
  Approvers = {client, provider}
  MinimumApprovals = 1
  SelfApprovalProhibited = FALSE
  HumanReviewRequired = FALSE
  Proposers = {client}
  Cancellers = {client}
  Outcomes = {"complete"}
  EconomicSides = {"payer", "payee"}
  SideParties <- MCSideParties
  Texts = {"written"}
  BlankTexts = {}
  ProtectedAmount = 0
  Assessments = {satisfied}
  EligibleAssessments = {satisfied}
  satisfied = satisfied
  ReviewerDecisions = {}
  Deadlines = {}
  ReviewWindow = 0
  InitialSafety = "clear"
  SafetyInputs = {"clear", "held"}
  ProposedInputs <- MCProposedInputs
  Proposals = {p1}
  p1 = p1
  p2 = p2
  Disputes = {d1}
  d1 = d1
  Keys = {k1}
  k1 = k1
  k2 = k2
  Submits = {"submit_dispute", "resolve_dispute", "grant_authorization", "revoke_authorization", "transition_financial_safety", "cancel_resolution", "execute_simulated"}
  MaxLag = 0
  MaxTime = 1
  MaxAudits = 4
CHECK_DEADLOCK FALSE
INVARIANTS
  RetryIsReplayed
PROPERTIES
  CommitsOnWhatWasSeen
