SPECIFICATION FairSpec
CONSTANTS
  t1 = t1
  e1 = e1
  e2 = e2
  e3 = e3
  e4 = e4
  Events = {e1, e2, e3, e4, e5}
  Threads = {t1, t2}
  Drain = drain
  Nil = Nil
  QueueCap = 2
  BatchMax = 2
  Environments <- MCEnvironments
INVARIANTS
  NothingDropped
  NotInsertedTwice
PROPERTIES
  Delivered
CHECK_DEADLOCK FALSE
