SPECIFICATION CreationSpec
CONSTANTS
  Tasks = {1, 2}
  Nothing = nothing
  MaxWallets = 2
  MaxVisits = 2
  Chains = {pos, cronos}
  Evm = {cronos}
  NoChain = none
  MaxIndex = 1
  MaxJobs = 2
  MaxLooks = 2
INVARIANT StoredAsAnnounced
INVARIANT OffersTheChosen
INVARIANT PathIsUsed
PROPERTY SpinnerStops
CHECK_DEADLOCK FALSE
