SPECIFICATION Spec
CONSTANTS
  api = api
  loop = loop
  tick = tick
  Nothing = Nothing
  Torn = Torn
  NumJobs = 2
  Savers <- Api
  Poppers <- LoopAndTick
  MaxRequeues = 1
  MaxCrashes = 1
  CrashPoints = "quiet"
SYMMETRY Symmetric
CHECK_DEADLOCK FALSE
INVARIANTS TypeOK  SharedHeapIsSound
