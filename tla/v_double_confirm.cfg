SPECIFICATION Spec
CONSTANTS
  Actions = {a1}
  Callers = {c1}
  Tenants = {ta}
  Nil = Nil
  Ttl = 1
  MaxTime = 3
  MaxDecided = 2
  Environments <- MCSplit
INVARIANTS
  OneDecision
CHECK_DEADLOCK FALSE
