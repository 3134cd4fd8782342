SPECIFICATION RatedSpec
CONSTANTS
  r1 = r1
  r2 = r2
  Requests <- TwoRequests
  Configs <- OneConfig
  Sample = 5
  MaxReports = 6
INVARIANT
  ErrorRateTrips
CHECK_DEADLOCK FALSE
