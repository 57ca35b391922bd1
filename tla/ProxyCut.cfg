CONSTANTS
  Families = {"completions"}
  MaxInputs = 1
  MAX_EMPTY_STREAM_RETRIES = 0
SPECIFICATION Spec
INVARIANTS EndedHasResult
CHECK_DEADLOCK FALSE
