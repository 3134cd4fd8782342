SPECIFICATION MCSpec
CONSTANTS
  old = old
  new = new
  odd = odd
  broken = broken
  b1 = b1
  r1 = r1
  r2 = r2
  r3 = r3
  Requests <- ThreeRequests
  Configs <- AllConfigs
  Backends <- OneBackend
  Lists <- ItOrNone
  MaxRouters = 3
  Contents <- FourContents
  Loadable <- Accepted
  Convertible <- Converted
  FirstConfig = old
  MaxEdits = 2
INVARIANTS
  ProcessSound
  BreakerSound
PROPERTIES
  LastEditApplied
  StopEnds
  CheckersConverge
  ChangesEarned
  ConfiguredRecovers
CHECK_DEADLOCK FALSE
