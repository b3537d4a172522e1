\* Two requests with the same question, two callers that may crash.
SPECIFICATION TokenSpec
CONSTANTS
  Requests = {"r1", "r2"}
  Limit = 2
  Callers = {"c1", "c2"}
  Reopens = FALSE
  Question <- OneQuestion
  Replies <- ThreeReplies
  TokenLimit = 3
INVARIANTS
  TokensWithinLimit
  ChargedAsKept
  SameAdvice
PROPERTIES
  ImplementsRuntime
CHECK_DEADLOCK FALSE
