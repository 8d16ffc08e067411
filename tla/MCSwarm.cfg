SPECIFICATION SwarmSpec
CONSTANTS
  NoExpiry = NoExpiry
  None = None
  WorkerIds = {"x", "y"}
  Kinds <- MCKinds
  FabricJobs = {"j1", "j2"}
  JobRole <- MCJobRole
  JobToken <- MCJobToken
  JobBonus <- MCJobBonus
  NoNode = NoNode
  MaxNodes = 2
  MaxAsks = 2
  MaxRecords = 1
  FabricMaxTime = 1
  Voters = {"coder", "critic", "tester", "planner"}
  TokenRoles = {"planner", "coder", "critic", "security_auditor", "tester", "doc_writer", "intern"}
  Texts <- MCTexts
  PatchAgents = {"critic", "coder", "tester"}
  MaxPatches = 2
  Modes = {"parallel", "pipeline", "debate", "map_reduce", "single"}
  MaxIterations = 50
  Threads = {"t1", "t2"}
  Triggers = {"onQueued"}
  TriggersOn <- MCTriggersOn
  Outside = {"job.queued"}
  Throttle = 1
  MaxEmits = 2
  MaxCrashes = 1
  BusMaxTime = 2
  Roles = {"planner", "coder", "vision", "intern"}
  MaxAttempts = 3
  NoModel = NoModel
  Watchers = {"w1"}
  Conditions = {"change", "failure", "exists", "error"}
  Failing = {3}
  Cooldown = 2
  MaxLoops = 2
  MaxChanges = 2
  DogMaxTime = 4
  Handlers = {"g", "h"}
  MessageTypes = {"ask", "answer"}
  MaxMessages = 3
  MaxSubscribed = 2
  Tracked = {"r1", "r2"}
  PatchRounds = 1
  NoTrace = NoTrace
  TornTrace = TornTrace
  LastSecond = 1
  MaxSaveErrors = 2
INVARIANTS
  JobsAccounted
  PlansAreSound
  DagIsRespected
  RecordsAreSound
  ChainIsExhausted
  
PROPERTIES
  SwarmReturns
CHECK_DEADLOCK FALSE
