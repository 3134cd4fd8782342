SPECIFICATION Spec
CONSTANTS
  c1 = c1
  c2 = c2
  k1 = k1
  k2 = k2
  k3 = k3
  t1 = t1
  t2 = t2
  m1 = m1
  None = None
  Never = Never
  Callers <- TwoCallers
  Keys <- ThreeKeys
  Tenants <- TwoTenants
  Models <- OneModel
  FirstTenant = t1
  FirstKey = k1
  Asked <- SomeAsked
  MaxTime = 2
  MaxRequests = 4
SYMMETRY Alike
INVARIANTS
  KeysSound
  ToldIsFinal
PROPERTIES
  AdministrationEnds
CHECK_DEADLOCK FALSE
