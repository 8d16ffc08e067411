SPECIFICATION FairSpec
CONSTANTS
  NumWorkers = 2
  Caps <- FirstStreams
  Wanted <- Requests
  MaxRetries = 2
  NoWorker = NoWorker
  NumTasks = 3
  MaxStrays = 1
INVARIANTS
  TypeOK
  NoTaskForgotten
  NoIdleWhilePending
  OneTaskPerWorker
  FailsOnlyWhenExhausted
  NoOvertaking
PROPERTIES
  FinalIsFinal
  ImplementsLeases
  
