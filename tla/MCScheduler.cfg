CONSTANTS
  a = a
  b = b
  Token = {a, b}
  Prompts <- MCPrompts
  MaxTokens = {2}
  n_parallel = 2
  n_ctx = 5
  MaxRequests = 3
SPECIFICATION FairSpec
INVARIANTS TypeOK NoRequestLost SlotsExclusive KVMatchesHistory SliceCompletesHistory
PROPERTIES ResultsPermanent ImplementsRequestService EveryRequestFinishes
CHECK_DEADLOCK TRUE
