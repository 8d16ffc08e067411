SPECIFICATION Spec
CONSTANTS
  j1 = j1
  j2 = j2
  j3 = j3
  t1 = t1
  t2 = t2
  d1 = d1
  d2 = d2
  NoJob = NoJob
  Jobs <- TwoJobs
  Priority <- MixedPriority
  Threads <- TwoThreads
  Dispatchers <- TwoDispatchers
  NumWorkers = 2
  MaxRetries = 1
  MaxRequeues = 1
  MaxStarts = 1
  Calls = {"submit", "cancel", "requeue", "start", "tick"}
CHECK_DEADLOCK FALSE
SYMMETRY ThreadSymmetry
INVARIANTS TypeOK  RunningHasExecutor SingleExecution RetryBudget
PROPERTY TerminalSticks
