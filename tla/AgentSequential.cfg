CONSTANTS
  SteeringMode = "all"
  FollowUpMode = "one-at-a-time"
  ToolExecution = "sequential"
  ShortBudget = TRUE
  CallLists <- TwoCalls
  UPSTREAM_RETRY_LIMIT = 1
  EMPTY_TURN_MAX = 1
  MAX_COVERAGE_RETRIES = 1
  MAX_CRITERIA_COVERAGE_RETRIES = 1
  MaxCalls = 2
  MaxRequests = 3
  MaxUser = 1
  MaxRuns = 1
SPECIFICATION FairRuns
INVARIANTS FinishedRunHasEdited
PROPERTIES ImplementsEvents
CHECK_DEADLOCK FALSE
