SPECIFICATION Spec
CONSTANTS
  w1 = w1
  w2 = w2
  Wallets = {w1, w2}
  Ledgers = {w2}
  DeviceFirst = nobody
  Repeated = {"evmTransfer", "delegate", "nft", "deposit"}
  MaxClicks = 2
  NoWallet = none
  MaxSequence = 3
INVARIANT OnePaymentPerDialog
INVARIANT ToldTheTruth
INVARIANT PaidByTheConfirmed
INVARIANT SeenAfterSend
PROPERTY SpinnerStops
CHECK_DEADLOCK FALSE
