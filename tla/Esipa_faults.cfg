SPECIFICATION FairSpec
CONSTANTS
  Retries = 2
  Parts = 2
  MaxCalls = 2
  Statuses = {"done", "error", "empty"}
  MaxCrashes = 1
INVARIANTS
  TypeOK
  AnswerIsOwn
PROPERTIES
  CallSpec
  CanaryExact
  CallReturns
CHECK_DEADLOCK FALSE
