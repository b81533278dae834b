SPECIFICATION FairSpec
CONSTANTS
  Actions = {a1}
  Callers = {c1, c2}
  Tenants = {ta, tb}
  Nil = Nil
  Ttl = 1
  MaxTime = 3
  MaxDecided = 2
  Environments <- MCEnvironments
INVARIANTS
  DecidedOnce
  NoUnauditedConsumption
PROPERTIES
  ImplementsGate
  CallsAnswered
CHECK_DEADLOCK FALSE
