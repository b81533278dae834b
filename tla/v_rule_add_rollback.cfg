SPECIFICATION Spec
CONSTANTS
  c1 = c1
  c2 = c2
  v1 = v1
  Names = {1, 2}
  Patterns = {"p", "q", "bad"}
  BadPatterns = {"bad"}
  Seed <- MCSeed
  Nil = Nil
  Admins = {c1, c2}
  Evaluators = {v1}
  Environments <- RefusedAddsOnly
INVARIANTS
  RulesPersist
