SPECIFICATION EvalSpec
CONSTANTS
  Patterns <- MCPatterns
  Credentials <- MCCredentials
  Requests <- MCRequests
  Kept = 1
  MaxHits = 2
  MaxCalls = 2
  MaxSize = 3
INVARIANTS
  
  OrderFree
  AnswerBacked
  
CHECK_DEADLOCK FALSE
