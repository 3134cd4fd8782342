SPECIFICATION MCSpec
CONSTANTS
  k1 = k1
  k2 = k2
  k3 = k3
  r1 = r1
  q1 = q1
  c1 = c1
  c2 = c2
  NoKey = NoKey
  ApiKeys <- ThreeKeys
  NLimiters = 2
  Duration <- Durations
  MaxCount <- MaxCounts
  MaxSize = 2
  Requests <- OneRequest
  LastTime = 4
  Nothing = Nothing
  Keys <- OneKey
  NWindows = 2
  Length <- Lengths
  Limit <- Limits
  Amounts <- TwoTokens
  Second = 2
  Callers <- TwoCallers
  MaxTime = 5
  MaxRecords = 2
  MaxSaves = 2
SYMMETRY Alike
INVARIANTS
  WindowsHold
  QuotasTell
PROPERTIES
  RefusalJustified
  RetryHelps
  RecordedUnlessReset
