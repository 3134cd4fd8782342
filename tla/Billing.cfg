SPECIFICATION Spec
CONSTANTS
  c1 = c1
  c2 = c2
  k1 = k1
  k2 = k2
  m1 = m1
  m2 = m2
  None = None
  Never = Never
  Every = Every
  Callers <- TwoCallers
  Keys <- TwoKeys
  Models <- TwoModels
  FirstLogs <- Before
  FirstRules <- OneRule
  FirstInvoices <- OneInvoice
  NewRules <- SomeRules
  Changes <- SomeChanges
  Periods <- SomePeriods
  Filters <- SomeFilters
  TokensEach = 2
  PerCent = 8
  DaysPerMonth = 1
  PageSize = 1
  MaxTime = 1
  MaxLogs = 4
  MaxRules = 2
  MaxCalls = 2
  MaxEdits = 1
SYMMETRY Alike
INVARIANTS
  BooksSound
  ItemsPriced
  ExportComplete
PROPERTIES
  InvoicesFinal
CHECK_DEADLOCK FALSE
