CONSTANTS
  w1 = w1
  w2 = w2
  Worker = {w1, w2}
  max_concurrent_requests = 1
  MaxPolls = 2
SPECIFICATION FairSpec
INVARIANTS ServerTypeOK GateAccounting EngineExclusive AnsweredOnce ConnectionAccounting NoWorkerAfterStop
PROPERTIES StopReturns EveryRequestAnswered
CHECK_DEADLOCK FALSE
