\* Two requests, one credit, three callers that may crash.
SPECIFICATION FairSpec
CONSTANTS
  Requests = {"r1", "r2"}
  Limit = 1
  Callers = {"c1", "c2", "c3"}
  Reopens = FALSE
INVARIANTS
  CreditFollowsRequest
PROPERTIES
  ImplementsBudget
  CreditSettles
\* All requests may be over and their deadlines past.
CHECK_DEADLOCK FALSE
