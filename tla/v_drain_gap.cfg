SPECIFICATION Spec
CONSTANTS
  ta = ta
  tb = tb
  e1 = e1
  e2 = e2
  e3 = e3
  e4 = e4
  Events = {e1, e2, e3, e4}
  tenantOf <- MCTenantOf
  Tenants = {ta, tb}
  Everyone = Everyone
  Drain = drain
  Nil = Nil
  Threads = {t1, t2}
  MaxSec = 2
  RetainSecs = 1
  Environments <- DrainBesideRotation
INVARIANTS
  OneHistory
SYMMETRY MCSymmetry
