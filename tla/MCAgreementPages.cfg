SPECIFICATION PagesSpec
CONSTANTS
  None = None
  owner = owner
  client = client
  terms = terms
  v1 = v1
  v2 = v2
  v3 = v3
  w1 = w1
  w2 = w2
  w3 = w3
  Agreements = {1, 2, 3, 4}
  Versions = {v1, v2, v3, w1, w2, w3}
  Accounts = {owner}
  Parties = {client}
  CreatorPartyOf <- MCCreatorPartyOf
  Contents = {terms}
  PartiesOf <- MCPartiesOf
  Keys = {}
  Requests = {r1}
  Seed <- MCSeed
  MaxTime = 2
  Lister = owner
  MaxLimit = 2
  CursorLife = 2
SYMMETRY Symmetry
INVARIANTS
  NoneListedTwice
  UntouchedAreListed
