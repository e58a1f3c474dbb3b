SPECIFICATION Spec
CONSTANTS
  Nothing = nothing
  MaxRuns = 1
  MaxFailures = 2
  MaxFlights = 1
  MaxVisits = 1
  MaxRequests = 1
PROPERTY SavedConfigStays
CHECK_DEADLOCK FALSE
