SPECIFICATION FairSpec
CONSTANTS
  j1 = j1
  j2 = j2
  j3 = j3
  t1 = t1
  t2 = t2
  d1 = d1
  d2 = d2
  NoJob = NoJob
  Jobs <- TwoJobs
  Priority <- SamePriority
  Threads <- TwoThreads
  Dispatchers <- OneDispatcher
  NumWorkers = 1
  MaxRetries = 1
  MaxRequeues = 0
  MaxStarts = 1
  Calls = {"submit", "start"}
CHECK_DEADLOCK FALSE
PROPERTY RetriesResume
