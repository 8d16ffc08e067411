----------------------------- MODULE SharedConfig -----------------------------
(***************************************************************************)
(* ~/.openvs/config.json.  The terminal program (openvs/core/config.py and *)
(* the commands /config and /ext) and the engine process (handle_config    *)
(* and the command /config) each read it, change it and write it back,     *)
(* each in one thread of its own, and nothing keeps them apart.            *)
(*                                                                         *)
(* A file is a function from the keys it has to values; a value is the     *)
(* number of the change that set it, and 0 if it is a default.  The list   *)
(* of extensions is kept as one key per extension.                         *)
(***************************************************************************)
EXTENDS Naturals

CONSTANTS
  DefaultKeys,   \* keys of DEFAULT_CONFIG, "provider" among them
  OtherKeys,     \* other keys that /config set may name
  Extensions,    \* keys of EXTENSIONS
  NoFile, Torn,  \* the file is missing, or is no JSON
  MaxChanges,    \* bound: changes begun
  MaxWriterKills \* bound: processes killed in the middle of a change

Programs   == {"terminal", "engine"}
ConfigKeys == DefaultKeys \union OtherKeys \union Extensions \union {"api_keys"}

ASSUME ConfigAssumption ==
  /\ "provider" \in DefaultKeys /\ "api_keys" \notin DefaultKeys
  /\ MaxChanges \in Nat /\ MaxWriterKills \in Nat
  /\ NoFile # Torn
  /\ \A keys \in SUBSET ConfigKeys : NoFile \notin [keys -> Nat] /\ Torn \notin [keys -> Nat]

VARIABLES
  configFile,  \* config.json
  writer,      \* of each program: idle, or about to open or to dump
  draft,       \* what it will write
  over,        \* whether the other has dumped since it opened the file
  changes, writerKills,
  lastSet,     \* history: the last value set of every key
  clash        \* history: two changes overlapped, or a writer was killed

configVars == <<configFile, writer, draft, over, changes, writerKills, lastSet, clash>>

DefaultConfig == [k \in DefaultKeys |-> 0]

ConfigInit ==
  /\ configFile = NoFile
  /\ writer = [p \in Programs |-> "idle"] /\ draft = [p \in Programs |-> << >>]
  /\ over = [p \in Programs |-> FALSE]
  /\ changes = 0 /\ writerKills = 0
  /\ lastSet = [k \in ConfigKeys |-> 0] /\ clash = FALSE

-----------------------------------------------------------------------------
Readable == configFile \notin {NoFile, Torn}

(* f, updated with g. *)
Merged(f, g) == [k \in DOMAIN f \union DOMAIN g |-> IF k \in DOMAIN g THEN g[k] ELSE f[k]]

Updated(f, k, value) == Merged(f, [x \in {k} |-> value])

(* Slip: the saved values are not merged. *)
DefaultsOnly == DefaultConfig

(* load_config: a file that is missing or that is no JSON counts as empty. *)
Loaded == IF Readable THEN Merged(DefaultConfig, configFile) ELSE DefaultConfig

(* What the engine starts from; a file that is no JSON is an error. *)
EngineLoaded == IF configFile = NoFile THEN << >> ELSE configFile

(* The value of a key that get and show tell. *)
Shown(k) == IF k \in DOMAIN Loaded THEN Loaded[k] ELSE 0

(* A program has read the file and has its draft; set is what is then set. *)
Begin(p, new, set) ==
  /\ writer[p] = "idle" /\ changes < MaxChanges
  /\ changes' = changes + 1
  /\ writer' = [writer EXCEPT ![p] = "open"]
  /\ draft' = [draft EXCEPT ![p] = new]
  /\ lastSet' = set
  /\ clash' = (clash \/ \E q \in Programs : writer[q] # "idle")
  /\ UNCHANGED <<configFile, over, writerKills>>

(* set of config.py. *)
TerminalSets(k) == Begin("terminal", Updated(Loaded, k, changes + 1), Updated(lastSet, k, changes + 1))

(* reset: only the defaults are left. *)
TerminalResets == Begin("terminal", DefaultConfig, [k \in ConfigKeys |-> 0])

(* _cmd_ext: enable ... and disable, which leaves the name out. *)
EnableExtension(x) == TerminalSets(x)
DisableExtension(x) ==
  Begin("terminal", [k \in DOMAIN Loaded \ {x} |-> Loaded[k]], Updated(lastSet, x, 0))

(* set-key: the provider of the first key becomes the provider. *)
EngineSetsKey ==
  LET withKey(f)      == Updated(f, "api_keys", changes + 1)
      withProvider(f) == Updated(f, "provider", changes + 1)
  IN  /\ configFile # Torn
      /\ \/ /\ "provider" \in DOMAIN EngineLoaded
            /\ Begin("engine", withKey(EngineLoaded), withKey(lastSet))
         \/ /\ "provider" \notin DOMAIN EngineLoaded
            /\ Begin("engine", withProvider(withKey(EngineLoaded)), withProvider(withKey(lastSet)))

(* set, by the request and by the command. *)
EngineSets(k) ==
  /\ configFile # Torn
  /\ Begin("engine", Updated(EngineLoaded, k, changes + 1), Updated(lastSet, k, changes + 1))

(* open(path, "w") empties the file ... *)
OpenConfig(p) ==
  /\ writer[p] = "open" /\ writer' = [writer EXCEPT ![p] = "dump"]
  /\ configFile' = Torn
  /\ over' = [over EXCEPT ![p] = FALSE]
  /\ UNCHANGED <<draft, changes, writerKills, lastSet, clash>>

(* ... and the close of it writes.  Over what another has dumped           *)
(* meanwhile, the longer text shows at the end.                            *)
DumpConfig(p) ==
  /\ writer[p] = "dump" /\ writer' = [writer EXCEPT ![p] = "idle"]
  /\ configFile' \in {draft[p]} \union IF over[p] THEN {Torn} ELSE {}
  /\ over' = [q \in Programs |-> q # p]
  /\ draft' = [draft EXCEPT ![p] = << >>]
  /\ UNCHANGED <<changes, writerKills, lastSet, clash>>

(* A program is killed in the middle of a change. *)
WriterKilled(p) ==
  /\ writer[p] # "idle" /\ writer' = [writer EXCEPT ![p] = "idle"]
  /\ writerKills < MaxWriterKills /\ writerKills' = writerKills + 1
  /\ draft' = [draft EXCEPT ![p] = << >>]
  /\ clash' = TRUE
  /\ UNCHANGED <<configFile, over, changes, lastSet>>

ConfigNext ==
  \/ \E k \in DefaultKeys \union OtherKeys : TerminalSets(k) \/ EngineSets(k)
  \/ \E x \in Extensions : EnableExtension(x) \/ DisableExtension(x)
  \/ TerminalResets \/ EngineSetsKey
  \/ \E p \in Programs : OpenConfig(p) \/ DumpConfig(p) \/ WriterKilled(p)

ConfigSpec == ConfigInit /\ [][ConfigNext]_configVars

-----------------------------------------------------------------------------
(* The two programs keep each other's settings ("the single source of      *)
(* truth for all persistent settings", config.py): as long as no two       *)
(* changes overlapped and no writer was killed, every key has the value    *)
(* that was set last, by whichever program, or its default.                *)
SettingsAreKept ==
  ~clash /\ (\A p \in Programs : writer[p] = "idle") => \A k \in ConfigKeys : Shown(k) = lastSet[k]

(* Only a change under way, an overlap or a killed writer leaves a file    *)
(* that the engine cannot read: a sequence of changes never does.          *)
FileIsWhole ==
  configFile = Torn => clash \/ \E p \in Programs : writer[p] = "dump"

ConfigIsKept == SettingsAreKept /\ FileIsWhole
=============================================================================
