CONSTANTS
  Consumers = {c1, c2}
  Event = {delta, stop, error}
  Complete = {stop, error}
  None = None
  MaxPush = 5
  Families = {"completions", "mistral", "google", "vertex", "gemini", "anthropic", "bedrock", "responses", "codex"}
  MaxInputs = 4
  MAX_RETRIES = 3
  MAX_EMPTY_STREAM_RETRIES = 2
  Endpoints = 2
  Request = {r1, r2, r3}
  MaxSockets = 4
  NTexts = 3
  Commands = {2}
  NFlushes = 2
  MaxRetries = 1
  MaxSteps = 4
SPECIFICATION SpecReplies
INVARIANTS ReaderRebuilds ConnectionsAreOwned TextsKept EscapeFits
PROPERTIES EndStopsConsumers ImplementsChannel ImplementsReply AsksAgainUnseen
CHECK_DEADLOCK FALSE
