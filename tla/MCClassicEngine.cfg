CONSTANTS
  a = a
  b = b
  Token = {a, b}
  n_ctx = 3
  Prompt <- MCPrompt
  Sampled = {b}
  block_tokens = 2
  MaxNew = 2
  MaxSessions = 1
  MaxSnapshots = 2
SPECIFICATION Spec
INVARIANTS ClassicTypeOK PrefixSnapshotsExact LogitsFollowTokens
