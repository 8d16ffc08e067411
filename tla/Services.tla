------------------------------- MODULE Services -------------------------------
(* The engine process and its plugins, the terminal program and its        *)
(* plugins, the file of settings they share, the HTTP server, and the      *)
(* libraries of openvs, side by side: in every behaviour one of them       *)
(* (focus) is used and the others rest, so that their states add up and do *)
(* not multiply.                                                           *)
EXTENDS EngineProcess, EngineNetwork, EnginePlugins, TerminalSession, TerminalPlugins,
        PluginWatcher, SharedConfig, Updater, Caches, Registries, Resilience, MemoryTiers, ApiServer

VARIABLE focus

programVars == <<engineVars, netVars, pluginVars, termVars, tpVars, watcherVars, configVars, updateVars>>
libraryVars == <<cacheVars, registryVars, resilienceVars, tierVars, apiVars>>
serviceVars == <<focus, programVars, libraryVars>>

ProgramFoci == {"engine", "network", "enginePlugins", "terminal", "terminalPlugins",
                "watcher", "config", "updater"}
LibraryFoci == {"answers", "results", "resume", "publishers", "nodes", "secrets",
               "retry", "care", "tiers", "runs", "notes", "clients"}
Foci == ProgramFoci \union LibraryFoci

ServicesInit ==
  /\ focus \in Foci
  /\ EngineInit /\ NetInit /\ PluginInit /\ TermInit /\ TPInit /\ WatcherInit /\ ConfigInit /\ UpdaterInit
  /\ CacheInit /\ RegistryInit /\ ResilienceInit /\ TiersInit /\ ApiInit
  /\ focus # "terminalPlugins" => \A d \in DirNames : onDisk[d] = NoJson
  /\ focus # "updater" => updateFile = NoUpdateFile

ProgramsNext ==
  \/ /\ \/ focus = "engine" /\ EngineNext /\ UNCHANGED <<netVars, pluginVars>>
        \/ focus = "network" /\ NetNext /\ UNCHANGED <<engineVars, pluginVars>>
        \/ focus = "enginePlugins" /\ PluginNext /\ UNCHANGED <<engineVars, netVars>>
     /\ UNCHANGED <<termVars, tpVars, watcherVars, configVars, updateVars>>
  \/ /\ \/ focus = "terminal" /\ TermNext
           /\ UNCHANGED <<tpVars, watcherVars, configVars, updateVars>>
        \/ focus = "terminalPlugins" /\ TPNext
           /\ UNCHANGED <<termVars, watcherVars, configVars, updateVars>>
        \/ focus = "watcher" /\ WatcherNext
           /\ UNCHANGED <<termVars, tpVars, configVars, updateVars>>
        \/ focus = "config" /\ ConfigNext
           /\ UNCHANGED <<termVars, tpVars, watcherVars, updateVars>>
        \/ focus = "updater" /\ UpdaterNext
           /\ UNCHANGED <<termVars, tpVars, watcherVars, configVars>>
     /\ UNCHANGED <<engineVars, netVars, pluginVars>>

LibrariesNext ==
  \/ /\ \/ focus = "answers" /\ AnswerNext
        \/ focus = "results" /\ ResultNext
        \/ focus = "resume" /\ ResumeNext
     /\ UNCHANGED <<registryVars, resilienceVars, tierVars, apiVars>>
  \/ /\ \/ focus = "publishers" /\ PublisherNext
        \/ focus = "nodes" /\ NodeNext
        \/ focus = "secrets" /\ SecretNext
     /\ UNCHANGED <<cacheVars, resilienceVars, tierVars, apiVars>>
  \/ /\ \/ focus = "retry" /\ RetryNext /\ UNCHANGED tierVars
        \/ focus = "care" /\ CareNext /\ UNCHANGED tierVars
        \/ focus = "tiers" /\ TiersNext /\ UNCHANGED resilienceVars
     /\ UNCHANGED <<cacheVars, registryVars, apiVars>>
  \/ /\ \/ focus = "runs" /\ RunNext
        \/ focus = "notes" /\ MemoryNext
        \/ focus = "clients" /\ ClientNext
     /\ UNCHANGED <<cacheVars, registryVars, resilienceVars, tierVars>>

ServicesNext ==
  /\ UNCHANGED focus
  /\ \/ ProgramsNext /\ UNCHANGED libraryVars
     \/ LibrariesNext /\ UNCHANGED programVars

ServicesSpec == ServicesInit /\ [][ServicesNext]_serviceVars

-----------------------------------------------------------------------------
(* The engine keeps its ledger of jobs (EngineProcess), and its network    *)
(* layer tells what became of a submission (EngineNetwork).                *)
EngineHolds == EngineLedger /\ NetworkIsSound

(* The plugins of the engine (EnginePlugins) and of the terminal program   *)
(* (TerminalPlugins) do what they were allowed to, and no more; and what   *)
(* the watcher takes for loaded is loaded (PluginWatcher).                 *)
PluginsHold == PluginsContained /\ PluginsAreSound /\ WatcherIsSound

(* The terminal program serves the user: prompts, agents and saved         *)
(* sessions (TerminalSession), the settings it shares with the engine      *)
(* (SharedConfig), and updates (Updater).                                  *)
TerminalServesUser == TerminalIsSound /\ ConfigIsKept /\ UpdatesAreSound

(* What the server (ApiServer) and the libraries (Caches, Registries,      *)
(* Resilience, MemoryTiers) promise their callers.                         *)
LibraryHolds ==
  CachesAreSound /\ RegistriesAreSound /\ CallsAreTamed /\ TiersAreSound /\ ApiIsSound
=============================================================================
