SPECIFICATION FairSpec
CONSTANTS
  s1 = s1
  s2 = s2
  s3 = s3
  tb = tb
  c1 = c1
  Conns = {c1, c2}
  Root = Root
  Daemon = Daemon
  Other = Other
  Default = Default
  Tenants = {Default, tb}
  Secrets = {s1, s2, s3}
  Nil = Nil
  MaxEpoch = 3
  MaxSegment = 3
  Environments <- MCEnvironments
INVARIANTS
  SecretEnforced
  RequestsAuthorised
  EpochNotOvertaken
  SegmentsJudged
  SecretStays
PROPERTIES
  RevocationEffective
CHECK_DEADLOCK FALSE
