SPECIFICATION FairSpec
CONSTANTS
  j1 = j1
  j2 = j2
  j3 = j3
  t1 = t1
  t2 = t2
  d1 = d1
  d2 = d2
  NoJob = NoJob
  Jobs <- ThreeJobs
  Priority <- SamePriority
  Threads <- OneThread
  Dispatchers <- OneDispatcher
  NumWorkers = 1
  MaxRetries = 0
  MaxRequeues = 0
  MaxStarts = 2
  Calls = {"schedule", "recurring", "start", "stop"}
CHECK_DEADLOCK FALSE
 
PROPERTY QueuedIsServed
