--------------------------- MODULE TerminalPlugins ---------------------------
(***************************************************************************)
(* The plugins of the terminal program: the loader                         *)
(* (openvs/plugins/loader.py), the hook dispatcher (hooks.py), the         *)
(* registry and its file (registry.py) and the sandbox (sandbox.py) under  *)
(* the plugin runtime (runtime.py), with the older plugin manager          *)
(* (openvs/core/plugins.py) that /plugin still goes through.               *)
(*                                                                         *)
(* The runtime loads a directory by its plugin.json, the manager knows it  *)
(* by its manifest.json; a plugin has the name that its plugin.json gives, *)
(* not that of its directory.  The first use of the runtime loads it: a    *)
(* command that comes first is LoadPlugins followed by the command.        *)
(* What an emit or a plugin's command changes is logs and counters, so     *)
(* both are operators here: whom they call.                                *)
(***************************************************************************)
EXTENDS Naturals, Sequences, FiniteSets, SequencesExt, Tables

CONSTANTS
  PluginDirs,   \* the directories that there may be, sorted
  JsonFiles,    \* contents of a plugin.json: [name, hooks, commands, entry]
  NoJson,       \* no plugin.json, or one that the loader refuses
  Starters,     \* directories of the starter plugins
  MaxDiskEdits, \* bound: times the user changes a directory by hand
  MaxPluginActs \* bound: commands and restarts

DirNames   == Range(PluginDirs)
KnownNames == {f.name : f \in JsonFiles} \union DirNames
HookNames  == UNION {f.hooks : f \in JsonFiles}
OwnCommandNames == UNION {f.commands : f \in JsonFiles}

ASSUME TerminalPluginAssumption ==
  /\ PluginDirs \in Seq(DirNames) /\ IsInjective(PluginDirs)
  /\ Starters \subseteq DirNames /\ NoJson \notin JsonFiles
  /\ \A f \in JsonFiles : f.entry \in {"runs", "raises", "missing"}
  /\ MaxDiskEdits \in Nat /\ MaxPluginActs \in Nat

VARIABLES
  onDisk,     \* plugin.json of each directory
  managed,    \* directories with a manifest.json: PluginManager._plugins
  isLoaded,   \* PluginRuntime._loaded
  loaded,     \* loader.plugins: [name, hooks, commands, works, enabled]
  hookSubs,   \* _subscribers: per hook, names
  entries,    \* registry: "none", "pending" or "approved", of each name
  diskEdits, pluginActs,
  isFresh,    \* history: what is loaded was loaded from the disk as it is
  switchedOff,\* history: names disabled since they were loaded
  granted     \* history: names approved, and not removed since

tpVars == <<onDisk, managed, isLoaded, loaded, hookSubs, entries, diskEdits, pluginActs, isFresh,
            switchedOff, granted>>

NoSubs == [h \in HookNames |-> <<>>]

TPInit ==
  /\ onDisk \in [DirNames -> JsonFiles \union {NoJson}]
  /\ managed = {} /\ isLoaded = FALSE /\ loaded = <<>>
  /\ hookSubs = NoSubs /\ entries = [n \in KnownNames |-> "none"]
  /\ diskEdits = 0 /\ pluginActs = 0
  /\ isFresh = FALSE /\ switchedOff = {} /\ granted = {}

-----------------------------------------------------------------------------
(* PluginLoader.load_plugin: what a directory's plugin.json is loaded as.  *)
(* A plugin whose entry raises is loaded without its module.               *)
Loadable(f) == f # NoJson /\ f.entry # "missing"

LoadedAs(f) ==
  [name |-> f.name, hooks |-> f.hooks, commands |-> f.commands, works |-> f.entry = "runs",
   enabled |-> TRUE]

(* self.plugins[name] = plugin: in the place of the one that has the name. *)
PutPlugin(ps, p) ==
  IF \E i \in DOMAIN ps : ps[i].name = p.name
  THEN [i \in DOMAIN ps |-> IF ps[i].name = p.name THEN p ELSE ps[i]]
  ELSE Append(ps, p)

(* load_all. *)
LoadFile(ps, f) == IF Loadable(f) THEN PutPlugin(ps, LoadedAs(f)) ELSE ps

AllLoaded(disk) == FoldLeft(LoadFile, <<>>, [i \in DOMAIN PluginDirs |-> disk[PluginDirs[i]]])

(* Slip: a plugin that registers again is subscribed again. *)
SubscribedTwice(subs, name, hooks) ==
  [h \in HookNames |-> IF h \in hooks THEN Append(subs[h], name) ELSE subs[h]]

(* HookDispatcher.register and unregister. *)
Subscribed(subs, name, hooks) ==
  [h \in HookNames |-> IF h \in hooks /\ name \notin Range(subs[h]) THEN Append(subs[h], name)
                       ELSE subs[h]]

SubscribePlugin(subs, p) == Subscribed(subs, p.name, p.hooks)

NotSubscribed(subs, names) ==
  [h \in HookNames |-> Only(subs[h], {i \in DOMAIN subs[h] : subs[h][i] \notin names})]

(* Slip: registering again asks for the approval again. *)
AskedAgain(es, name) == [es EXCEPT ![name] = "pending"]

(* PluginRegistry.register. *)
Registered(es, name) == [es EXCEPT ![name] = IF @ = "none" THEN "pending" ELSE @]

RegisterPlugin(es, p) == Registered(es, p.name)

NamesIn(ps) == {ps[i].name : i \in DOMAIN ps}

(* PluginRuntime.load, with the directories as they are in disk and the    *)
(* subscriptions that are left in subs.                                    *)
Load(disk, subs) ==
  /\ isLoaded' = TRUE
  /\ loaded' = AllLoaded(disk)
  /\ entries' = FoldLeft(RegisterPlugin, entries, loaded')
  /\ hookSubs' = FoldLeft(SubscribePlugin, subs, loaded')
  /\ isFresh' = TRUE /\ switchedOff' = {}

(* PluginRuntime.reload: only what is loaded now is unsubscribed first. *)
Reload(disk) == Load(disk, NotSubscribed(hookSubs, NamesIn(loaded)))

-----------------------------------------------------------------------------
Command == pluginActs < MaxPluginActs /\ pluginActs' = pluginActs + 1

(* The first use, and a signed plugin installed from the marketplace:      *)
(* loaded over what was loaded before.                                     *)
LoadPlugins ==
  /\ Command
  /\ Load(onDisk, hookSubs)
  /\ UNCHANGED <<onDisk, managed, diskEdits, granted>>

(* /plugin reload, and /plugin list when nothing is loaded, which installs *)
(* the starter plugins by their manifest.json.                             *)
ReloadPlugins ==
  /\ Command /\ isLoaded
  /\ Reload(onDisk)
  /\ UNCHANGED <<onDisk, managed, diskEdits, granted>>

ListPlugins ==
  /\ Command /\ isLoaded /\ loaded = <<>>
  /\ managed' = managed \union Starters
  /\ Reload(onDisk)
  /\ UNCHANGED <<onDisk, diskEdits, granted>>

(* /plugin install: a manifest.json, and a reload. *)
InstallPlugin(d) ==
  /\ Command /\ isLoaded
  /\ managed' = managed \union {d}
  /\ Reload(onDisk)
  /\ UNCHANGED <<onDisk, diskEdits, granted>>

(* /plugin remove: the directory, if the manager knows it, and the entry   *)
(* of that name in any case; what is loaded stays loaded.                  *)
RemovePlugin(d) ==
  /\ Command /\ isLoaded
  /\ IF d \in managed
     THEN /\ managed' = managed \ {d}
          /\ onDisk' = [onDisk EXCEPT ![d] = NoJson]
          /\ isFresh' = (isFresh /\ onDisk[d] = NoJson)
     ELSE UNCHANGED <<managed, onDisk, isFresh>>
  /\ entries' = [entries EXCEPT ![d] = "none"]
  /\ granted' = granted \ {d}
  /\ UNCHANGED <<isLoaded, loaded, hookSubs, diskEdits, switchedOff>>

(* /plugin reload <name>: it is unsubscribed, looked for in the directory  *)
(* of its name, and loaded as what that holds; if that fails it stays      *)
(* loaded without hooks.                                                   *)
ReloadPlugin(n) ==
  /\ Command /\ isLoaded
  /\ isFresh' = FALSE
  /\ LET without == NotSubscribed(hookSubs, {n}) IN
     \/ /\ n \in NamesIn(loaded) /\ n \in DirNames /\ Loadable(onDisk[n])
        /\ loaded' = PutPlugin(loaded, LoadedAs(onDisk[n]))
        /\ hookSubs' = Subscribed(without, n, onDisk[n].hooks)
        /\ entries' = Registered(entries, n)
        /\ switchedOff' = switchedOff \ {onDisk[n].name}
     \/ /\ ~(n \in NamesIn(loaded) /\ n \in DirNames /\ Loadable(onDisk[n]))
        /\ hookSubs' = without
        /\ UNCHANGED <<loaded, entries, switchedOff>>
  /\ UNCHANGED <<onDisk, managed, isLoaded, diskEdits, granted>>

(* /plugin enable and /plugin disable, of a plugin that is loaded. *)
SwitchPlugin(n, on) ==
  /\ Command /\ isLoaded /\ n \in NamesIn(loaded)
  /\ loaded' = [i \in DOMAIN loaded |->
                  IF loaded[i].name = n THEN [loaded[i] EXCEPT !.enabled = on] ELSE loaded[i]]
  /\ switchedOff' = IF on THEN switchedOff \ {n} ELSE switchedOff \union {n}
  /\ UNCHANGED <<onDisk, managed, isLoaded, hookSubs, entries, diskEdits, isFresh, granted>>

(* /plugin approve. *)
ApprovePlugin(n) ==
  /\ Command /\ isLoaded /\ entries[n] # "none"
  /\ entries' = [entries EXCEPT ![n] = "approved"]
  /\ granted' = granted \union {n}
  /\ UNCHANGED <<onDisk, managed, isLoaded, loaded, hookSubs, diskEdits, isFresh, switchedOff>>

(* The user writes or deletes a plugin.json. *)
EditDirectory(d, f) ==
  /\ diskEdits < MaxDiskEdits /\ diskEdits' = diskEdits + 1
  /\ onDisk[d] # f /\ onDisk' = [onDisk EXCEPT ![d] = f]
  /\ isFresh' = FALSE
  /\ UNCHANGED <<managed, isLoaded, loaded, hookSubs, entries, pluginActs, switchedOff, granted>>

(* A new process; one that was killed while it saved has left a registry   *)
(* that cannot be read.                                                    *)
RestartTerminal(isTorn) ==
  /\ Command
  /\ isLoaded' = FALSE /\ loaded' = <<>> /\ hookSubs' = NoSubs
  /\ isFresh' = FALSE /\ switchedOff' = {}
  /\ IF isTorn THEN entries' = [n \in KnownNames |-> "none"] /\ granted' = {}
     ELSE UNCHANGED <<entries, granted>>
  /\ UNCHANGED <<onDisk, managed, diskEdits>>

TPNext ==
  \/ LoadPlugins \/ ReloadPlugins \/ ListPlugins
  \/ \E d \in DirNames : \/ InstallPlugin(d) \/ RemovePlugin(d)
                         \/ \E f \in JsonFiles \union {NoJson} : EditDirectory(d, f)
  \/ \E n \in KnownNames : \/ ReloadPlugin(n) \/ ApprovePlugin(n)
                           \/ \E on \in BOOLEAN : SwitchPlugin(n, on)
  \/ \E torn \in BOOLEAN : RestartTerminal(torn)

TPSpec == TPInit /\ [][TPNext]_tpVars

-----------------------------------------------------------------------------
Plugin(n) == CHOOSE p \in Range(loaded) : p.name = n

(* Slip: a plugin is called for whatever it was ever subscribed to. *)
AnyHook(p, h) == p.works

(* PluginSandbox.call_hook: the handler is called if the plugin, as it is  *)
(* loaded now, has the hook.                                               *)
HasHook(p, h) == h \in p.hooks /\ p.works

(* HookDispatcher.emit: the names whose handler is called, in order. *)
IsCalled(n, h) == n \in NamesIn(loaded) /\ Plugin(n).enabled /\ HasHook(Plugin(n), h)

CalledFor(h) == Only(hookSubs[h], {i \in DOMAIN hookSubs[h] : IsCalled(hookSubs[h][i], h)})

(* handle_command: the plugins that are tried, until one carries the       *)
(* command out.                                                            *)
TriedFor(c) ==
  Only(loaded, {i \in DOMAIN loaded : loaded[i].enabled /\ c \in loaded[i].commands})

(* The file that a name is loaded from: that of the last directory. *)
WinningDir(n) ==
  LET its == {i \in DOMAIN PluginDirs :
                Loadable(onDisk[PluginDirs[i]]) /\ onDisk[PluginDirs[i]].name = n}
  IN  IF its = {} THEN NoJson ELSE onDisk[PluginDirs[CHOOSE i \in its : \A k \in its : k <= i]]

(* Whatever was loaded, reloaded one by one, removed, edited and loaded    *)
(* again before: no plugin is called twice for one hook, none is called    *)
(* that is not enabled, and once all are loaded from the disk as it is, a  *)
(* hook calls, and a command tries, the plugins that the disk holds for it *)
(* and that were not disabled since, and no other.                         *)
PluginsFollowDisk ==
  /\ \A h \in HookNames : IsInjective(hookSubs[h]) /\ Range(CalledFor(h)) \cap switchedOff = {}
  /\ isFresh =>
       LET On == {n \in KnownNames : WinningDir(n) # NoJson} \ switchedOff
       IN  /\ \A h \in HookNames :
                Range(CalledFor(h)) =
                  {n \in On : h \in WinningDir(n).hooks /\ WinningDir(n).entry = "runs"}
           /\ \A c \in OwnCommandNames :
                NamesIn(TriedFor(c)) = {n \in On : c \in WinningDir(n).commands}

(* What the user has approved stays approved, through every reload and     *)
(* restart, until it is removed or the registry's file is lost.            *)
ApprovalsLast == \A n \in granted : entries[n] = "approved"

PluginsAreSound == PluginsFollowDisk /\ ApprovalsLast
=============================================================================
