SPECIFICATION SettingsSpec
CONSTANTS
  w1 = w1
  w2 = w2
  w3 = w3
  h1 = h1
  h2 = h2
  Order <- MCOrder
  Initial <- MCInitial
  NetworkOf <- MCNetworkOf
  Handlers = {h1, h2}
  NoWallet = NoWallet
  NoSession = NoSession
  MaxClicks = 1
  MaxEdits = 2
  MaxCrashes = 0
  Networks = {n1, n2}
  Addresses = {a1, a2}
  Memos = {memo}
  Nothing = Nothing
  MaxDialogs = 1
  MaxTyped = 1
  MaxVisits = 1
  NoApproval = NoApproval
  Approvals = {p1}
  MaxReads = 1
  MaxCalls = 2
SYMMETRY Symmetric
CHECK_DEADLOCK FALSE
PROPERTY SelectsTheRow
