SPECIFICATION SettingsSpec
CONSTANTS
  w1 = w1
  w2 = w2
  w3 = w3
  h1 = h1
  h2 = h2
  Order <- MCOrder
  Initial <- MCInitial
  NetworkOf <- MCNetworkOf
  Handlers = {h1, h2}
  NoWallet = NoWallet
  NoSession = NoSession
  MaxClicks = 3
  MaxEdits = 2
  MaxCrashes = 1
  Networks = {n1, n2}
  Addresses = {a1, a2}
  Memos = {memo}
  Nothing = Nothing
  MaxDialogs = 2
  MaxTyped = 3
  MaxVisits = 3
  NoApproval = NoApproval
  Approvals = {p1, p2}
  MaxReads = 3
  MaxCalls = 2
SYMMETRY Symmetric
CHECK_DEADLOCK FALSE
INVARIANT SeedForEveryWallet
INVARIANT NodesOfTheirNetwork
INVARIANT StoreIsAsIntended
INVARIANT DeletesWhatItShows
INVARIANT NoDuplicates
INVARIANT PaysWhatItShows
INVARIANT RevokesTheListed
