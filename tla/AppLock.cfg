SPECIFICATION Spec
CONSTANTS
  Handlers = {h1, h2}
  Max = 2
  NoDoc = NoDoc
  Missing = Missing
  NaN = NaN
  MaxTries = 2
  MaxTimers = 1
  MaxRestarts = 1
SYMMETRY Symmetry
INVARIANT WipedAfterAttempts
PROPERTY KeepsPolicy
CHECK_DEADLOCK FALSE
