CONSTANTS
  SteeringMode = "all"
  FollowUpMode = "all"
  ToolExecution = "parallel"
  ShortBudget = FALSE
  CallLists <- OnlyTwoCalls
  UPSTREAM_RETRY_LIMIT = 1
  EMPTY_TURN_MAX = 1
  MAX_COVERAGE_RETRIES = 1
  MAX_CRITERIA_COVERAGE_RETRIES = 1
  MaxCalls = 2
  MaxRequests = 2
  MaxUser = 1
  MaxRuns = 1
SPECIFICATION Spec
PROPERTIES ForceEditStays
CHECK_DEADLOCK FALSE
