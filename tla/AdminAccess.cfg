SPECIFICATION Spec
CONSTANTS
  admin = admin
  guest = guest
  c1 = c1
  c2 = c2
  a1 = a1
  None = None
  Callers <- TwoCallers
  Names <- TwoNames
  Addresses <- OneAddress
  Root = admin
  RolesGiven <- SomeRoles
  MaxAttempts = 2
  LockoutWindow = 2
  LockoutDuration = 1
  TokenLife = 2
  MaxTime = 2
  MaxLogins = 4
  MaxEdits = 2
  MaxFaults = 1
SYMMETRY Alike
INVARIANTS
  UsersSound
  FailuresCounted
  GuessesBounded
CHECK_DEADLOCK FALSE
