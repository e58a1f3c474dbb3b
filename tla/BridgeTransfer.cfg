SPECIFICATION Spec
CONSTANTS
  Nothing = nothing
  MaxRuns = 2
  MaxFailures = 2
  MaxFlights = 2
  MaxVisits = 2
  MaxRequests = 2
INVARIANT RequestIsAsShown
INVARIANT BridgeTellsTheTruth
INVARIANT OnePaymentPerRequest
INVARIANT LockedWhileUnfinished
PROPERTY LockReleased
CHECK_DEADLOCK FALSE
