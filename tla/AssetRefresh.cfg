SPECIFICATION Spec
CONSTANTS
  cronosEvm = cronosEvm
  cronosPos = cronosPos
  Coins = {cronosEvm, cronosPos}
  Cronos = cronosEvm
  Errs = {cronosPos}
  Tokens = {t1}
  Runs = {r1, r2}
  MaxReceipts = 1
  MaxEdits = 1
  MaxMigrations = 1
  MaxCrashes = 1
SYMMETRY Symmetry
INVARIANT CleanEditsSurvive
INVARIANT QuietRefreshExact
CHECK_DEADLOCK FALSE
