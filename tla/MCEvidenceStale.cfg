SPECIFICATION Spec
CONSTANTS
  None = None
  participant = participant
  reviewer = reviewer
  provider = provider
  platform = platform
  Items = {e1}
  Revisions = {v1, v2, v3}
  Assessments = {a1, a2}
  Reviews = {w1}
  Accounts = {participant, reviewer}
  Parties = {provider, platform}
  PartyOf <- MCPartyOf
  RoleOf <- MCRoleOf
  Submitters = {provider, platform}
  Envelopes = {"local"}
  k1 = k1
  k2 = k2
  KeysFor <- MCKeysFor
  Handlers = {h1, h2}
SYMMETRY Symmetry
CHECK_DEADLOCK FALSE
INVARIANT RecordedOnCurrentEvidence
