SPECIFICATION MCSpec
CONSTANTS
  k1 = k1
  ip1 = ip1
  ip2 = ip2
  w1 = w1
  w2 = w2
  e1 = e1
  e2 = e2
  t1 = t1
  t2 = t2
  NoAlert = NoAlert
  NoCall = NoCall
  UsedKeys <- OneKey
  Sources <- TwoSources
  WindowSize = 4
  MinSampleSize = 3
  Multiplier = 1
  ConsecutiveErrors = 2
  BurstThreshold = 4
  BurstWindow = 2
  AlertCooldown = 2
  ManySources = 1
  Minute = 1
  ChannelSize = 1
  MaxClock = 2
  MaxUses = 5
  Hooks <- TwoHooks
  EventTypes <- TwoTypes
  HookConfigs <- SomeConfigs
  Triggers <- TwoTriggers
  HistorySize = 2
  MaxCalls = 4
INVARIANTS
  LeaksNoticed
PROPERTIES
  AlertsFounded
  AnswersTrue
  TriggersEnd
CHECK_DEADLOCK FALSE
