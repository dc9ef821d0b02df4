CONSTANTS
  a = a
  Token = {a}
  Prompts <- MCPrompts
  MaxTokens = {2}
  n_parallel = 2
  n_ctx = 5
  MaxRequests = 2
  MaxSpurious = 1
  Caller = {c1, c2}
SPECIFICATION EngineFairSpec
INVARIANTS EngineTypeOK StopNeverMissed
PROPERTIES CallbackSafety StopJoinsWorker
CHECK_DEADLOCK FALSE
