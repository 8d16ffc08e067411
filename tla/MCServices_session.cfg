SPECIFICATION ServicesSpec
CONSTANTS
  BufferLimit = 3
  MaxJobs = 2
  MaxRequests = 5
  MaxKills = 2
  PluginNames = {"p", "q"}
  Manifests <- MCManifests
  PluginCommands = {"/help", "/h", "/c", "/d", "/k"}
  OwnCommands = {"/help"}
  OwnAliases <- MCOwnAliases
  EngineEvents = {"job_started"}
  MaxSubscriptions = 2
  MaxCommands = 1
  MaxHooks = 1
  MaxDepth = 2
  MaxLoads = 3
  MaxUses = 2
  Models <- MCModels
  AppModes <- MCAppModes
  SwarmModes <- MCSwarmModes
  Kept = 2
  MaxPrompts = 2
  MaxWords = 2
  MaxActs = 3
  MaxOpens = 2
  NoSession = NoSession
  PluginDirs <- MCDirs
  JsonFiles <- MCFiles
  NoJson = NoJson
  Starters = {"b"}
  MaxDiskEdits = 2
  MaxPluginActs = 4
  Loops = {"l1", "l2"}
  MaxVersions = 4
  DefaultKeys = {"provider"}
  OtherKeys = {"k"}
  Extensions = {"x"}
  NoFile = NoFile
  Torn = Torn
  MaxChanges = 4
  MaxWriterKills = 1
  CachedPrompts = {"m", "n", "o"}
  ToolCalls = {"t", "u"}
  MaxEntries = 2
  AnswerTTL = 1
  ToolTTL = 1
  Steps = 2
  NoCacheFile = NoCacheFile
  TornFile = TornFile
  MaxTime = 2
  MaxPuts = 4
  Builtin = {"OpenVS"}
  OtherNames = {"x"}
  SigningKeys = {"k"}
  NoKey = ""
  NodeIds = {"m", "n"}
  Abilities = {{"coder"}, {"coder", "tests"}}
  VaultPlugins = {"p", "q"}
  SecretNames = {"s", "t"}
  Missing = Missing
  Cut = Cut
  MaxCalls = 4
  Callers = {"c1", "c2"}
  DefaultPolicies <- MCDefaultPolicies
  BreakerPolicy <- MCBreakerPolicy
  Threshold = 2
  CircuitKeys = {"k"}
  ChainLength = 3
  HealNodes <- MCHealNodes
  HealDeps <- MCHealDeps
  GatePlugins = {"p"}
  Permissions = {"network"}
  MaxTries = 7
  Runs = {"r1", "r2"}
  MaxNotes = 2
  MaxMemCalls = 2
  MaxServerKills = 1
  Clients = {"w", "v"}
  MaxEvents = 2
  NetWorkers = {"v"}
  NetTasks = {"t"}
  SendRetries = 3
  MaxNetCalls = 3
  Versions <- MCVersions
  NoUpdateFile = NoUpdateFile
  TornUpdateFile = TornUpdateFile
  MaxUpdateActs = 4
  LastInterval = 2
  Memories = {"e", "f"}
  ShortLimit = 1
  Importances = {256, 1024}
  LastHalfLife = 2
  MaxMemActs = 4
INVARIANTS
  SessionIsRestored
CHECK_DEADLOCK FALSE
