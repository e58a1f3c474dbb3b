SPECIFICATION MCSpec
CONSTANTS
  Wallets = {w1, w2}
  Ledgers = {w2}
  Proposals = {p1, p2}
  InVoting = {p1}
  Tasks = {t1, t2}
  Nothing = nothing
INVARIANT ShownIsChosen
INVARIANT StoresFollowTheWallet
INVARIANT SpinnersAreServed
PROPERTY ActsOnTheChosen
SYMMETRY Symmetric
CHECK_DEADLOCK FALSE
