CONSTANTS
  NPrompts = 2
  MaxRetries = 1
  MaxTroubles = 2
SPECIFICATION Spec
INVARIANTS ContextAgrees RetryIsAwaited
PROPERTIES PromptReturns
CHECK_DEADLOCK FALSE
