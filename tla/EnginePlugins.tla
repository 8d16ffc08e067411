---------------------------- MODULE EnginePlugins ----------------------------
(***************************************************************************)
(* The plugins of the engine (engine/plugins/runtime.py) and the tables    *)
(* that they are entered in: the command registry                          *)
(* (engine/commands/registry.py), the commands allowed at the bridge       *)
(* (engine/security.py), the event bus (engine/events/_bus.py) and the     *)
(* hooks (engine/hooks.py).                                                *)
(*                                                                         *)
(* A plugin object is known by the number of its registration: the same    *)
(* name may be registered again.  The engine loads manifests without code, *)
(* so a command or a callback that runs is counted and does nothing else,  *)
(* and the listeners that run the hooks of an event are left out.          *)
(* A violation is an event like any other: it is emitted in the middle of  *)
(* the call that commits it, and its listeners are called in turn.         *)
(***************************************************************************)
EXTENDS Naturals, Sequences, FiniteSets, SequencesExt, EngineReplay, Tables

CONSTANTS
  PluginNames,
  Manifests,       \* [commands, aliases, mayCommand, events, mayEvent, hooks, executions]
  PluginCommands,  \* names of commands and aliases, the engine's own among them
  OwnCommands,     \* those of register_default_commands
  OwnAliases,      \* and their aliases: the command each stands for, or ""
  EngineEvents,    \* events that the engine emits of itself
  MaxSubscriptions, MaxCommands, MaxHooks,  \* DEFAULT_RESOURCE_LIMITS
  MaxDepth,        \* emits inside one another before Python raises RecursionError
  MaxLoads,        \* bound: registrations
  MaxUses          \* bound: events emitted and commands run

ASSUME PluginAssumption ==
  /\ OwnCommands \subseteq PluginCommands
  /\ OwnAliases \in [PluginCommands -> PluginCommands \union {""}]
  /\ \A m \in Manifests : /\ m.commands \in Seq(PluginCommands) /\ m.executions \in Nat
                           /\ m.aliases \in [PluginCommands -> SUBSET PluginCommands]
                           /\ m.events \in Seq(Range(m.events)) /\ m.hooks \in Seq(Range(m.hooks))
  /\ MaxSubscriptions \in Nat /\ MaxCommands \in Nat /\ MaxHooks \in Nat
  /\ MaxLoads \in Nat /\ MaxUses \in Nat /\ MaxDepth \in Nat \ {0}

VARIABLES
  plugins,      \* _plugins: the object of each name, 0 if there is none
  objects,      \* every plugin object that ever was
  commandOf,    \* _commands: the object a command belongs to, 0 if it is free
  aliasOf,      \* _aliases: the command an alias stands for, "" if it is free
  allowed,      \* ALLOWED_COMMANDS
  listeners,    \* the bus: [event, owner, nth], in the order of on()
  hookTable,    \* _hooks: per event, the objects whose hook it runs
  emitting,     \* the stack of emits: per emit, the listeners it has yet to call
  told,         \* what the event log has of plugins that were loaded and unloaded
  uses

pluginVars == <<plugins, objects, commandOf, aliasOf, allowed, listeners, hookTable, emitting,
                told, uses>>

(* The owner of the engine's own commands. *)
Engine == MaxLoads + 1

HookEvents == UNION {Range(m.hooks) : m \in Manifests}

PluginInit ==
  /\ plugins = [n \in PluginNames |-> 0] /\ objects = <<>>
  /\ commandOf = [c \in PluginCommands |-> IF c \in OwnCommands THEN Engine ELSE 0]
  /\ aliasOf = OwnAliases
  /\ allowed = OwnCommands \union {c \in PluginCommands : OwnAliases[c] # ""}
  /\ listeners = <<>> /\ hookTable = [e \in HookEvents |-> <<>>]
  /\ emitting = <<>> /\ told = <<>> /\ uses = 0

-----------------------------------------------------------------------------
(* EventBus.emit: the listeners of the event, then those of every event,   *)
(* read when the emit begins.                                              *)
Hearing(event, ls) ==
  SelectSeq(ls, LAMBDA l : l.event = event) \o SelectSeq(ls, LAMBDA l : l.event = "*")

(* The emits that a call is left with: the last is carried out first. *)
Emits(events) == emitting' = [i \in DOMAIN events |-> Hearing(events[i], listeners')] \o emitting

Quiet == emitting = <<>>

(* check_execution, for the object o. *)
Active(o) == objects[o].active
MayRun(o) == objects[o].runs < objects[o].manifest.executions

(* _safe_call of the next listener of the innermost emit: a scoped_cb that *)
(* runs, one that is not active, or one that has used up its executions    *)
(* and emits the violation, unless the stack is exhausted.                 *)
CallListener ==
  /\ ~Quiet /\ Head(emitting) # <<>>
  /\ LET o == Head(Head(emitting)).owner
         rest == <<Tail(Head(emitting))>> \o Tail(emitting)
     IN  \/ /\ Active(o) /\ MayRun(o)
            /\ objects' = [objects EXCEPT ![o].runs = @ + 1]
            /\ emitting' = rest
         \/ /\ Active(o) /\ ~MayRun(o)
            /\ emitting' = IF Len(emitting) < MaxDepth
                           THEN <<Hearing("plugin_violation", listeners)>> \o rest ELSE rest
            /\ UNCHANGED objects
         \/ /\ ~Active(o)
            /\ emitting' = rest
            /\ UNCHANGED objects
  /\ UNCHANGED <<plugins, commandOf, aliasOf, allowed, listeners, hookTable, told, uses>>

EmitReturns ==
  /\ ~Quiet /\ Head(emitting) = <<>>
  /\ emitting' = Tail(emitting)
  /\ UNCHANGED <<plugins, objects, commandOf, aliasOf, allowed, listeners, hookTable, told, uses>>

(* An event of the engine, between two requests. *)
EngineEmits(event) ==
  /\ Quiet /\ uses < MaxUses
  /\ uses' = uses + 1
  /\ UNCHANGED <<plugins, objects, commandOf, aliasOf, allowed, listeners, hookTable, told>>
  /\ Emits(<<event>>)

-----------------------------------------------------------------------------
(* register_plugin, part by part, from a state s of the tables: what the   *)
(* part enters, and how many violations it commits.                        *)
NewObject(name, m) ==
  [name |-> name, manifest |-> m, active |-> TRUE, runs |-> 0,
   commands |-> {}, subscribed |-> <<>>, hooks |-> <<>>]

(* The commands.  A name that is taken is an error that is noted and no    *)
(* more; one over the limit is recorded as a violation twice.              *)
AddCommand(s, c) ==
  LET o == s.object IN
  CASE c \notin o.manifest.mayCommand -> [s EXCEPT !.violations = @ + 1]
    [] c \in o.manifest.mayCommand /\ Cardinality(o.commands) >= MaxCommands ->
         [s EXCEPT !.violations = @ + 2]
    [] c \in o.manifest.mayCommand /\ Cardinality(o.commands) < MaxCommands /\ s.commandOf[c] # 0 -> s
    [] OTHER ->
         [s EXCEPT !.object.commands = @ \union {c},
                   !.commandOf[c] = s.id,
                   !.aliasOf = [a \in DOMAIN @ |-> IF a \in o.manifest.aliases[c] THEN c ELSE @[a]],
                   !.allowed = @ \union {c} \union o.manifest.aliases[c]]

(* The events: ScopedEventSubscription.subscribe.  An event that is named  *)
(* twice gets two listeners, of which the object remembers the second.     *)
Subscribe(s, e) ==
  LET o == s.object
      Named == {o.subscribed[i].event : i \in DOMAIN o.subscribed}
      new == [event |-> e, owner |-> s.id, nth |-> Len(s.listeners) + 1]
  IN  CASE e # "*" /\ e \notin o.manifest.mayEvent -> [s EXCEPT !.violations = @ + 1]
        [] (e = "*" \/ e \in o.manifest.mayEvent) /\ Cardinality(Named) >= MaxSubscriptions ->
             [s EXCEPT !.violations = @ + 2]
        [] OTHER -> [s EXCEPT !.listeners = Append(@, new),
                              !.object.subscribed =
                                 Append(Only(@, {i \in DOMAIN @ : @[i].event # e}), new)]

(* The hooks: the first over the limit ends the list. *)
AddHook(s, e) ==
  CASE s.full -> s
    [] ~s.full /\ Len(s.object.hooks) >= MaxHooks -> [s EXCEPT !.full = TRUE, !.violations = @ + 1]
    [] OTHER -> [s EXCEPT !.object.hooks = Append(@, e), !.hookTable[e] = Append(@, s.id)]

Entered(name, m) ==
  LET s0 == [id |-> Len(objects) + 1, object |-> NewObject(name, m), commandOf |-> commandOf,
             aliasOf |-> aliasOf, allowed |-> allowed, listeners |-> listeners,
             hookTable |-> hookTable, full |-> FALSE, violations |-> 0]
      s1 == FoldLeft(AddCommand, s0, m.commands)
      s2 == FoldLeft(Subscribe, s1, m.events)
  IN  FoldLeft(AddHook, s2, m.hooks)

Register(name, m) ==
  /\ Quiet /\ plugins[name] = 0 /\ Len(objects) < MaxLoads
  /\ LET s == Entered(name, m)
     IN  /\ plugins' = [plugins EXCEPT ![name] = s.id]
         /\ objects' = Append(objects, s.object)
         /\ commandOf' = s.commandOf /\ aliasOf' = s.aliasOf /\ allowed' = s.allowed
         /\ listeners' = s.listeners /\ hookTable' = s.hookTable
         /\ told' = Append(told, [event |-> "plugin_loaded", plugin |-> name])
         /\ Emits([i \in 1 .. s.violations |-> "plugin_violation"] \o <<"plugin_loaded">>)
  /\ UNCHANGED uses

-----------------------------------------------------------------------------
(* unsubscribe_all: the listeners that the object remembers. *)
Unsubscribed(o) ==
  Only(listeners, {i \in DOMAIN listeners : listeners[i] \notin Range(objects[o].subscribed)})

(* Slip: an object that is unloaded is left active. *)
LeftActive(o) == [objects EXCEPT ![o].subscribed = <<>>]

(* The sandbox deactivated, the subscriptions cleared. *)
Silenced(o) == [objects EXCEPT ![o].subscribed = <<>>, ![o].active = FALSE]

(* unregister_plugin.  An alias goes with its command, from the registry   *)
(* and not from the commands allowed; the hooks of an event go with the    *)
(* first plugin that had one.                                              *)
Unregister(name) ==
  /\ Quiet /\ plugins[name] # 0
  /\ LET o == plugins[name]
         its == objects[o].commands
         aliases == UNION {objects[o].manifest.aliases[c] : c \in its}
     IN  /\ commandOf' = [c \in PluginCommands |-> IF c \in its THEN 0 ELSE commandOf[c]]
         /\ aliasOf' = [a \in PluginCommands |-> IF a \in aliases THEN "" ELSE aliasOf[a]]
         /\ allowed' = allowed \ its
         /\ listeners' = Unsubscribed(o)
         /\ hookTable' = [e \in HookEvents |->
                            IF e \in Range(objects[o].hooks) THEN <<>> ELSE hookTable[e]]
         /\ objects' = Silenced(o)
         /\ plugins' = [plugins EXCEPT ![name] = 0]
         /\ told' = Append(told, [event |-> "plugin_unloaded", plugin |-> name])
         /\ Emits(<<"plugin_unloaded">>)
  /\ UNCHANGED uses

(* enable_plugin and disable_plugin. *)
Switch(name, on) ==
  /\ Quiet /\ plugins[name] # 0 /\ uses < MaxUses
  /\ uses' = uses + 1
  /\ objects' = [objects EXCEPT ![plugins[name]].active = on]
  /\ UNCHANGED <<plugins, commandOf, aliasOf, allowed, listeners, hookTable, told>>
  /\ Emits(<<IF on THEN "plugin_enabled" ELSE "plugin_disabled">>)

(* isolate_plugin: enabling it again does not bring the events back. *)
Isolate(name) ==
  /\ Quiet /\ plugins[name] # 0 /\ uses < MaxUses
  /\ uses' = uses + 1
  /\ objects' = Silenced(plugins[name])
  /\ listeners' = Unsubscribed(plugins[name])
  /\ UNCHANGED <<plugins, commandOf, aliasOf, allowed, hookTable, told>>
  /\ Emits(<<"plugin_isolated">>)

-----------------------------------------------------------------------------
(* handle_command: validate_command, then resolve, an alias first. *)
Resolved(c) == commandOf[IF aliasOf[c] # "" THEN aliasOf[c] ELSE c]

RunCommand(c) ==
  /\ Quiet /\ uses < MaxUses
  /\ uses' = uses + 1
  /\ UNCHANGED <<plugins, commandOf, aliasOf, allowed, listeners, hookTable, told>>
  /\ LET o == Resolved(c) IN
     \/ /\ c \notin allowed
        /\ Emits(<<"error_occurred">>) /\ UNCHANGED objects
     \/ /\ c \in allowed /\ o \in {0, Engine}
        /\ Emits(<<"command_executed">>) /\ UNCHANGED objects
     \/ /\ c \in allowed /\ o \in DOMAIN objects /\ Active(o) /\ MayRun(o)
        /\ objects' = [objects EXCEPT ![o].runs = @ + 1]
        /\ Emits(<<"command_executed">>)
     \/ /\ c \in allowed /\ o \in DOMAIN objects /\ Active(o) /\ ~MayRun(o)
        /\ Emits(<<"plugin_violation", "command_executed">>) /\ UNCHANGED objects
     \/ /\ c \in allowed /\ o \in DOMAIN objects /\ ~Active(o)
        /\ Emits(<<"command_executed">>) /\ UNCHANGED objects

PluginNext ==
  \/ \E n \in PluginNames, m \in Manifests : Register(n, m)
  \/ \E n \in PluginNames : Unregister(n) \/ Isolate(n)
  \/ \E n \in PluginNames, on \in BOOLEAN : Switch(n, on)
  \/ \E c \in PluginCommands : RunCommand(c)
  \/ \E e \in EngineEvents : EngineEmits(e)
  \/ CallListener \/ EmitReturns

PluginSpec == PluginInit /\ [][PluginNext]_pluginVars

-----------------------------------------------------------------------------
Installed == {plugins[n] : n \in PluginNames} \ {0}

(* Whatever was loaded, unloaded and loaded again, and however their names *)
(* collide: a command, an active listener or a hook in a table is that of  *)
(* a plugin that is installed, every command of an installed plugin is     *)
(* still its own and allowed, and no plugin has run more often, or holds   *)
(* more commands and hooks, than its limits.                               *)
TablesAreOwned ==
  /\ \A c \in PluginCommands : commandOf[c] \in Installed \union {0, Engine}
  /\ \A o \in Installed : \A c \in objects[o].commands : commandOf[c] = o /\ c \in allowed
  /\ \A i \in DOMAIN listeners : Active(listeners[i].owner) => listeners[i].owner \in Installed
  /\ \A e \in HookEvents : Range(hookTable[e]) \subseteq Installed

LimitsHold ==
  \A o \in DOMAIN objects :
    /\ objects[o].runs <= objects[o].manifest.executions
    /\ Cardinality(objects[o].commands) <= MaxCommands
    /\ Len(objects[o].hooks) <= MaxHooks

(* A replay of the events of a process shows the plugins that it has, each *)
(* once, and the store's own replay shows the same.                        *)
ReplayShowsPlugins ==
  LET shown == Replayed(told).loaded
  IN  /\ IsInjective(shown) /\ Range(shown) = {n \in PluginNames : plugins[n] # 0}
      /\ Reconstructed(told).loaded = shown

PluginsContained == TablesAreOwned /\ LimitsHold /\ ReplayShowsPlugins
=============================================================================
