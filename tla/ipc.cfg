SPECIFICATION FairSpec
CONSTANTS
  c1 = c1
  c2 = c2
  Clients = {c1, c2}
  Streams = {s1, s2}
  Nil = Nil
  MaxReqs = 1
  MaxSlow = 1
  Threads = 2
  MaxCalls = 2
  Environments <- MCEnvironments
INVARIANTS
  PermitsConserved
  AnswersOwnRequest
  SuccessMeansApplied
  RepeatedOnlyIfUnconfirmed
PROPERTIES
  AdmissionRecovers
CHECK_DEADLOCK FALSE
