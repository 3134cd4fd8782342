SPECIFICATION FairSpec
CONSTANTS
  k1 = k1
  b1 = b1
  w1 = w1
  w2 = w2
  None = None
  Keys <- OneKey
  NWindows = 3
  Length <- Lengths
  Limit <- Limits
  Workers <- TwoWorkers
  Backends <- OneBackend
  Config <- Circuit
  MaxTime = 2
INVARIANTS
  LimitsHold
  ActiveExact
PROPERTIES
  DenialJustified
  EveryRequestAnswered
