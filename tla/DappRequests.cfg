SPECIFICATION DappsSpec
CONSTANTS
  r1 = r1
  r2 = r2
  r3 = r3
  cronos = cronos
  other = other
  q1 = q1
  q2 = q2
  c1 = c1
  c2 = c2
  Requests = {r1, r2, r3}
  Chains = {cronos, other}
  Defaults = {cronos}
  None = None
  MaxContinues = 2
  Calls = {q1, q2}
  Connections = {c1, c2}
  MaxConfirmations = 2
  MaxRestarts = 1
SYMMETRY Symmetric
CHECK_DEADLOCK FALSE
INVARIANT CarriedOutOnce
INVARIANT WaitingIsShown
PROPERTY CancelledForGood
INVARIANT SessionIsAsShown
INVARIANT EveryCallIsAnswered
