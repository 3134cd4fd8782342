SPECIFICATION MCSpec
CONSTANTS
  b1 = b1
  b2 = b2
  b3 = b3
  s1 = s1
  s2 = s2
  sNone = sNone
  n1 = n1
  n2 = n2
  r1 = r1
  None = None
  Backends <- AllBackends
  Names <- TwoNames
  Requests <- OneRequest
  Configs <- ThreeConfigs
  NewBackends <- TwoBackends
  NewModels <- TwoNewModels
  NewAliases <- TwoNewAliases
  MaxRouters = 2
  Lists <- TwoLists
  Weights <- TwoWeights
  MaxSelects = 6
  Managed <- OneManaged
  RouteStrategies <- OneStrategy
  StrategyNames <- NamedStrategies
  NoStrategy = sNone
  GroupsAsked <- AskedGroups
  NoName = NoName
  NoGroup = NoGroup
  MaxSize = 2
  MaxChanges = 4
INVARIANTS
  RoutersSound
  SharesFair
  RoutesManaged
PROPERTIES
  RoutesTrue
