SPECIFICATION Spec
CONSTANTS
  None = None
  owner = owner
  member = member
  client = client
  provider = provider
  seeded = seeded
  fresh1 = fresh1
  fresh2 = fresh2
  v0 = v0
  v1 = v1
  v2 = v2
  v3 = v3
  full = full
  reduced = reduced
  k1 = k1
  r1 = r1
  r2 = r2
  SeedState = "draft"
  Agreements = {seeded, fresh1, fresh2}
  Versions = {v0, v1, v2, v3}
  Accounts = {owner, member}
  Parties = {client, provider}
  CreatorPartyOf <- MCCreatorPartyOf
  Contents = {full, reduced}
  PartiesOf <- MCPartiesOf
  Keys = {k1}
  Requests = {r1, r2}
  Seed <- MCSeed
  MaxTime = 1
SYMMETRY Symmetry
CHECK_DEADLOCK FALSE
INVARIANTS
  HistoryIsAChain
  RetryIsReplayed
  CreateTwinsConverge
PROPERTIES
  RevisesWhatWasSeen
  ImplementsHistory
