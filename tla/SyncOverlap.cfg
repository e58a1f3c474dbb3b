SPECIFICATION FairSpec
CONSTANTS
  w1 = w1
  w2 = w2
  r1 = r1
  r2 = r2
  i1 = i1
  i2 = i2
  Wallets = {w1, w2}
  NotLive = {w2}
  Kinds = {"staking"}
  Items = {i1, i2}
  TxHash <- OneTransaction
  Runs = {r1, r2}
  NoWallet = NoWallet
  MaxCrashes = 1
INVARIANT LastSaveSurvives
INVARIANT QuietSaveExact
PROPERTY OnlyAnswersErase
PROPERTY RunEnds
