CONSTANTS
  a = a
  b = b
  Token = {a, b}
  Prompts <- MCPrompts
  MaxTokens = {2}
  n_parallel = 2
  n_ctx = 4
  MaxRequests = 2
SPECIFICATION Spec
INVARIANT AdmittedBatchFits
