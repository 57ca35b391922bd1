CONSTANTS
  SteeringMode = "one-at-a-time"
  FollowUpMode = "all"
  ToolExecution = "parallel"
  ShortBudget = FALSE
  CallLists <- TwoCalls
  UPSTREAM_RETRY_LIMIT = 1
  EMPTY_TURN_MAX = 1
  MAX_COVERAGE_RETRIES = 1
  MAX_CRITERIA_COVERAGE_RETRIES = 1
  MaxCalls = 2
  MaxRequests = 2
  MaxUser = 3
  MaxRuns = 1
SPECIFICATION SpecRuns
INVARIANTS Conserved NoToolOutlivesItsTurn FinishedRunLeavesOnlyLateMessages ModelSeesTranscript QueuedInOrder RequestWellFormed
PROPERTIES NoRequestAfterAbort
CHECK_DEADLOCK FALSE
