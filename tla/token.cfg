SPECIFICATION TokenFairSpec
CONSTANTS
  k1 = k1
  n1 = n1
  v1 = v1
  Tokens = {k1, k2}
  Tenants = {n1, n2}
  Redactors = {d1}
  Revealers = {v1, v2}
  None = None
  Ttl = 1
  MaxTime = 3
  TokenEnvironments <- MCEnvironments
INVARIANTS
  RevealAuthorised
  OwnerRestores
PROPERTIES
  FlagReleased
CHECK_DEADLOCK FALSE
