SPECIFICATION Spec
CONSTANTS
  None = None
  owner = owner
  partner = partner
  reviewer = reviewer
  client = client
  provider = provider
  platform = platform
  Accounts = {owner, partner, reviewer}
  Parties = {client, provider, platform}
  PartyOf <- MCPartyOf
  RoleOf <- MCRoleOf
  Approvers = {client, provider}
  MinimumApprovals = 1
  SelfApprovalProhibited = TRUE
  HumanReviewRequired = FALSE
  Proposers = {client, provider}
  Cancellers = {client}
  Outcomes = {"complete"}
  EconomicSides = {"payer", "payee", "both"}
  SideParties <- MCSideParties
  Texts = {"account", "anotherAccount", "blank"}
  BlankTexts = {"blank"}
  ProtectedAmount = 5
  Assessments = {satisfied, unsatisfied}
  EligibleAssessments = {satisfied}
  satisfied = satisfied
  unsatisfied = unsatisfied
  ReviewerDecisions = {}
  decision = decision
  Deadlines = {}
  ReviewWindow = 1
  InitialSafety = "clear"
  SafetyInputs = {}
  ProposedInputs <- MCProposedInputs
  Proposals = {p1, p2}
  p1 = p1
  p2 = p2
  Disputes = {}
  d1 = d1
  d2 = d2
  Keys = {k1}
  k2 = k2
  k1 = k1
  MaxLag = 1
  MaxTime = 1
  MaxAudits = 3
CHECK_DEADLOCK FALSE
INVARIANT DestinationsFixed
