SPECIFICATION Spec
CONSTANTS
  w1 = w1
  w2 = w2
  main = main
  test = test
  r1 = r1
  r2 = r2
  l1 = l1
  l2 = l2
  Wallets = {w1, w2}
  Chain <- TwoNetworks
  NotLive = {w2}
  OnTestnet = {w2}
  Jobs = {"validators", "proposals", "unbonding", "nfts"}
  Lists = {l1}
  Runs = {r1, r2}
  NoWallet = NoWallet
  MaxSwitches = 1
  MaxCrashes = 1
CONSTRAINT OneJob
SYMMETRY Symmetry
INVARIANT LatestListSurvives
INVARIANT QuietRefreshExact
