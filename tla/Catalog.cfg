SPECIFICATION FairSpec
CONSTANTS
  c1 = c1
  c2 = c2
  a1 = a1
  a2 = a2
  s1 = s1
  s2 = s2
  p1 = p1
  p2 = p2
  Callers <- TwoCallers
  Aliases <- TwoAliases
  Specs <- TwoSpecs
  Params <- TwoParams
  NewModels <- OneModel
  NewCosts <- OneCost
  FirstCosts <- CostSoFar
  Changes <- SomeChanges
  CostChanges <- SomeCostChanges
  FirstAlias = a1
  FirstSpec = s1
  None = None
  Unset = Unset
  MaxTime = 2
  MaxModels = 2
  MaxCosts = 2
  MaxCalls = 3
INVARIANTS
  CatalogSound
  ChangesKept
PROPERTIES
  ChangesShow
CHECK_DEADLOCK FALSE
