SPECIFICATION Spec
CONSTANTS
  None = None
  owner = owner
  partner = partner
  reviewer = reviewer
  client = client
  provider = provider
  platform = platform
  Accounts = {owner, partner, reviewer}
  Parties = {client, provider, platform}
  PartyOf <- MCPartyOf
  RoleOf <- MCRoleOf
  Approvers = {client, provider}
  MinimumApprovals = 1
  SelfApprovalProhibited = TRUE
  HumanReviewRequired = FALSE
  Proposers = {client}
  Cancellers = {client}
  Outcomes = {"complete", "refund"}
  EconomicSides = {"payer", "payee", "both"}
  SideParties <- MCSideParties
  Texts = {"account"}
  BlankTexts = {}
  ProtectedAmount = 5
  Assessments = {satisfied, unsatisfied}
  EligibleAssessments = {satisfied}
  satisfied = satisfied
  unsatisfied = unsatisfied
  ReviewerDecisions = {}
  decision = decision
  Deadlines = {}
  ReviewWindow = 1
  InitialSafety = "clear"
  SafetyInputs = {"clear", "restricted"}
  ProposedInputs <- MCPayments
  Proposals = {p1, p2}
  p1 = p1
  p2 = p2
  Disputes = {d1, d2}
  d2 = d2
  d1 = d1
  Keys = {k1, k2}
  k2 = k2
  k1 = k1
  MaxLag = 1
  MaxTime = 1
  MaxAudits = 3
CHECK_DEADLOCK FALSE
SYMMETRY Symmetry
PROPERTY RestrictedPreventsValueProposals
