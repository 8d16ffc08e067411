--------------------------- MODULE Services_proofs ---------------------------
(***************************************************************************)
(* Proofs about the terminal program, its plugins, what it shares with the *)
(* engine, and the server: for each part the invariant that its steps      *)
(* preserve, for any number of loops, keys, versions, prompts and starts,  *)
(* and what follows from it, for the part and, with what Engine_proofs     *)
(* shows of the engine and the libraries, for all of them side by side.    *)
(***************************************************************************)
EXTENDS FiniteSetTheorems, SequenceTheorems, Services, Engine_proofs, TLAPS

-----------------------------------------------------------------------------
(* The watcher that reloads changed plugins (PluginWatcher).               *)

LoopStages == {"new", "first", "firstFill", "head", "asleep", "reload", "clear", "fill", "over"}

(* Between a reload that succeeded and the end of the scan after it, the   *)
(* directory is what was loaded, or a change has slipped.                  *)
WatcherInv ==
  /\ loopAt \in [Loops -> LoopStages]
  /\ KnownIsLoaded
  /\ ~slipped /\ Noting => directory = loadedFiles

LEMMA WatcherInitially == WatcherInit => WatcherInv
  BY DEF WatcherInit, WatcherInv, KnownIsLoaded, Noting, LoopStages

(* What a step of the loop l does to the others: nothing.                  *)
LEMMA LoopMoves ==
  ASSUME loopAt \in [Loops -> LoopStages], NEW l \in Loops,
         NEW from, NEW to \in LoopStages, StepLoop(l, from, to)
  PROVE  /\ loopAt' \in [Loops -> LoopStages]
         /\ loopAt[l] = from /\ loopAt'[l] = to
         /\ \A k \in Loops \ {l} : loopAt'[k] = loopAt[k]
  BY DEF StepLoop

LEMMA WatcherStep == WatcherInv /\ [WatcherNext]_watcherVars => WatcherInv'
<1> SUFFICES ASSUME WatcherInv, [WatcherNext]_watcherVars PROVE WatcherInv'
  OBVIOUS
<1>1. loopAt \in [Loops -> LoopStages]
  BY DEF WatcherInv
<1>2. ASSUME UNCHANGED <<loopAt, directory, fileTimes, loadedFiles, slipped>> PROVE WatcherInv'
  BY <1>2 DEF WatcherInv, KnownIsLoaded, Noting
<1>3. ASSUME NEW missing \in BOOLEAN, EditPlugins(missing) PROVE WatcherInv'
  BY <1>3 DEF EditPlugins, WatcherInv, KnownIsLoaded, Noting
<1>4. ASSUME NEW l \in Loops, NEW from \in LoopStages, NEW to \in LoopStages, StepLoop(l, from, to),
             from \notin {"clear", "fill"}, to \notin {"clear", "fill"},
             UNCHANGED <<directory, fileTimes, loadedFiles, slipped>>
      PROVE  WatcherInv'
  <2>1. loopAt' \in [Loops -> LoopStages] /\ (Noting <=> Noting')
    BY <1>1, <1>4, LoopMoves DEF Noting
  <2>2. QED
    BY <1>4, <2>1 DEF WatcherInv, KnownIsLoaded
<1>5. ASSUME NEW l \in Loops, ClearTimes(l) PROVE WatcherInv'
  <2>1. fileTimes' = 0 /\ UNCHANGED <<directory, loadedFiles, slipped>>
    BY <1>5 DEF ClearTimes
  <2>2. loopAt' \in [Loops -> LoopStages] /\ (Noting' => Noting)
    <3>1. CASE StepLoop(l, "first", "firstFill")
      BY <1>1, <3>1, LoopMoves DEF Noting, LoopStages
    <3>2. CASE StepLoop(l, "clear", "fill")
      BY <1>1, <3>2, LoopMoves DEF Noting, LoopStages
    <3>3. QED
      BY <1>5, <3>1, <3>2 DEF ClearTimes
  <2>3. QED
    BY <2>1, <2>2 DEF WatcherInv, KnownIsLoaded
<1>6. ASSUME NEW l \in Loops, FillTimes(l) PROVE WatcherInv'
  <2>1. /\ fileTimes' = directory /\ UNCHANGED <<directory, loadedFiles>>
        /\ slipped' = (slipped \/ (loopAt[l] = "firstFill" /\ directory # loadedFiles))
    BY <1>6 DEF FillTimes
  <2>2. loopAt' \in [Loops -> LoopStages] /\ (Noting' => Noting)
        /\ (loopAt[l] = "firstFill" \/ Noting)
    <3>1. CASE StepLoop(l, "firstFill", "head")
      BY <1>1, <3>1, LoopMoves DEF Noting, LoopStages
    <3>2. CASE StepLoop(l, "fill", "head")
      BY <1>1, <3>2, LoopMoves DEF Noting, LoopStages
    <3>3. QED
      BY <1>6, <3>1, <3>2 DEF FillTimes
  <2>3. QED
    BY <2>1, <2>2 DEF WatcherInv, KnownIsLoaded
<1>7. ASSUME NEW l \in Loops, ReloadPluginFiles(l) PROVE WatcherInv'
  <2>1. CASE StepLoop(l, "reload", "clear") /\ loadedFiles' = directory
    <3>1. loopAt' \in [Loops -> LoopStages] /\ Noting'
      BY <1>1, <2>1, LoopMoves DEF Noting, LoopStages
    <3>2. UNCHANGED <<directory, fileTimes, slipped>>
      BY <1>7 DEF ReloadPluginFiles
    <3>3. QED
      BY <2>1, <3>1, <3>2 DEF WatcherInv, KnownIsLoaded
  <2>2. CASE StepLoop(l, "reload", "head") /\ UNCHANGED loadedFiles
    BY <1>4, <1>7, <2>2 DEF ReloadPluginFiles, LoopStages
  <2>3. QED
    BY <1>7, <2>1, <2>2 DEF ReloadPluginFiles, AfterError
<1>8. ASSUME NEW l \in Loops, StartWatcher(l) \/ TurnLoop(l) \/ DetectChanges(l) PROVE WatcherInv'
  <2>1. UNCHANGED <<directory, fileTimes, loadedFiles, slipped>>
    BY <1>8 DEF StartWatcher, TurnLoop, DetectChanges
  <2>2. \E from, to \in LoopStages \ {"clear", "fill"} : StepLoop(l, from, to)
    BY <1>8 DEF StartWatcher, TurnLoop, DetectChanges, LoopStages
  <2>3. QED
    BY <1>4, <2>1, <2>2
<1>9. CASE StopWatcher \/ UNCHANGED watcherVars
  BY <1>2, <1>9 DEF StopWatcher, watcherVars
<1>10. QED
  BY <1>3, <1>5, <1>6, <1>7, <1>8, <1>9 DEF WatcherNext

-----------------------------------------------------------------------------
(* The settings that two programs share (SharedConfig).                    *)

(* What config.json may hold. *)
ConfigFiles == UNION {[keys -> Nat] : keys \in SUBSET ConfigKeys}

ConfigTyped ==
  /\ writer \in [Programs -> {"idle", "open", "dump"}]
  /\ configFile \in ConfigFiles \cup {NoFile, Torn}
  /\ draft \in [Programs -> ConfigFiles]
  /\ over \in [Programs -> BOOLEAN]
  /\ lastSet \in [ConfigKeys -> Nat]
  /\ changes \in Nat /\ clash \in BOOLEAN

(* What a file tells of a key, the defaults being 0.                       *)
ToldBy(f, k) == IF f # NoFile /\ k \in DOMAIN f THEN f[k] ELSE 0

Tells(f, set) == \A k \in ConfigKeys : ToldBy(f, k) = set[k]

(* Until two changes overlap or a writer is killed: one program writes at  *)
(* a time, what it will write is what was set, and so is what is written.  *)
OneWriter ==
  /\ \A p, q \in Programs : writer[p] # "idle" /\ writer[q] # "idle" => p = q
  /\ \A p \in Programs :
       /\ writer[p] # "idle" => Tells(draft[p], lastSet)
       /\ writer[p] = "dump" => ~over[p]
  /\ (\A p \in Programs : writer[p] # "dump") => configFile # Torn
  /\ (\A p \in Programs : writer[p] = "idle") => Tells(configFile, lastSet)

ConfigInv == ConfigTyped /\ (~clash => OneWriter)

LEMMA EmptyFile == << >> \in ConfigFiles /\ DOMAIN << >> = {}
<1>1. DOMAIN << >> = {} /\ << >> \in [{} -> Nat]
  OBVIOUS
<1>2. {} \in SUBSET ConfigKeys
  OBVIOUS
<1>3. QED
  BY <1>1, <1>2 DEF ConfigFiles

LEMMA FileKeys ==
  ASSUME NEW f \in ConfigFiles
  PROVE  /\ f # NoFile /\ f # Torn
         /\ DOMAIN f \subseteq ConfigKeys
         /\ \A k \in DOMAIN f : f[k] \in Nat
  BY ConfigAssumption DEF ConfigFiles

LEMMA FilesMerge ==
  ASSUME NEW f \in ConfigFiles, NEW g \in ConfigFiles
  PROVE  /\ Merged(f, g) \in ConfigFiles
         /\ \A k : ToldBy(Merged(f, g), k) = IF k \in DOMAIN g THEN g[k] ELSE ToldBy(f, k)
<1> DEFINE m == Merged(f, g)
<1>1. m = [k \in (DOMAIN f) \cup (DOMAIN g) |-> IF k \in DOMAIN g THEN g[k] ELSE f[k]]
  BY DEF Merged
<1>2. (DOMAIN f) \cup (DOMAIN g) \in SUBSET ConfigKeys
  BY FileKeys
<1>3. m \in [(DOMAIN f) \cup (DOMAIN g) -> Nat]
  BY <1>1, FileKeys
<1>4. m \in ConfigFiles
  BY <1>2, <1>3 DEF ConfigFiles
<1>5. m # NoFile /\ f # NoFile
  BY <1>4, FileKeys
<1> HIDE DEF m
<1>6. \A k : ToldBy(m, k) = IF k \in DOMAIN g THEN g[k] ELSE ToldBy(f, k)
  BY <1>1, <1>5 DEF ToldBy
<1>7. QED
  BY <1>4, <1>6 DEF m

LEMMA FilesPut ==
  ASSUME NEW f \in ConfigFiles, NEW k \in ConfigKeys, NEW v \in Nat
  PROVE  /\ Updated(f, k, v) \in ConfigFiles
         /\ \A x : ToldBy(Updated(f, k, v), x) = IF x = k THEN v ELSE ToldBy(f, x)
<1> DEFINE g == [x \in {k} |-> v]
<1>1. g \in [{k} -> Nat] /\ DOMAIN g = {k} /\ g[k] = v
  OBVIOUS
<1>2. g \in ConfigFiles
  BY <1>1 DEF ConfigFiles
<1>3. Updated(f, k, v) = Merged(f, g)
  BY DEF Updated
<1> HIDE DEF g
<1>4. QED
  BY <1>1, <1>2, <1>3, FilesMerge

(* The settings that are set are a file that has all keys.                 *)
LEMMA SetPut ==
  ASSUME NEW set \in [ConfigKeys -> Nat], NEW k \in ConfigKeys, NEW v \in Nat
  PROVE  /\ Updated(set, k, v) \in [ConfigKeys -> Nat]
         /\ \A x \in ConfigKeys : Updated(set, k, v)[x] = IF x = k THEN v ELSE set[x]
<1>1. Updated(set, k, v) = [x \in ConfigKeys |-> IF x = k THEN v ELSE set[x]]
  BY DEF Updated, Merged
<1>2. QED
  BY <1>1

(* What a program starts from tells what the file does.                    *)
LEMMA ReadFile ==
  ASSUME ConfigTyped
  PROVE  /\ Loaded \in ConfigFiles
         /\ configFile # Torn => \A k : ToldBy(Loaded, k) = ToldBy(configFile, k)
         /\ \A k : Shown(k) = ToldBy(Loaded, k)
         /\ configFile # Torn => /\ EngineLoaded \in ConfigFiles
                                 /\ \A k : ToldBy(EngineLoaded, k) = ToldBy(configFile, k)
<1>1. DefaultConfig \in ConfigFiles /\ \A k : ToldBy(DefaultConfig, k) = 0
  <2>1. DefaultConfig \in [DefaultKeys -> Nat] /\ DefaultKeys \in SUBSET ConfigKeys
    BY DEF DefaultConfig, ConfigKeys
  <2>2. DefaultConfig \in ConfigFiles
    BY <2>1 DEF ConfigFiles
  <2>3. \A k : ToldBy(DefaultConfig, k) = 0
    BY DEF ToldBy, DefaultConfig
  <2>4. QED
    BY <2>2, <2>3
<1>2. Loaded \in ConfigFiles /\ (configFile # Torn => \A k : ToldBy(Loaded, k) = ToldBy(configFile, k))
  <2>1. CASE configFile \notin {NoFile, Torn}
    <3>1. configFile \in ConfigFiles /\ Loaded = Merged(DefaultConfig, configFile)
      BY <2>1 DEF ConfigTyped, Loaded, Readable
    <3>2. \A k : ToldBy(configFile, k) = IF k \in DOMAIN configFile THEN configFile[k] ELSE 0
      BY <2>1 DEF ToldBy
    <3>3. QED
      BY <1>1, <3>1, <3>2, FilesMerge
  <2>2. CASE configFile \in {NoFile, Torn}
    <3>1. Loaded = DefaultConfig
      BY <2>2 DEF Loaded, Readable
    <3>2. configFile # Torn => \A k : ToldBy(configFile, k) = 0
      BY <2>2 DEF ToldBy
    <3>3. QED
      BY <1>1, <3>1, <3>2
  <2>3. QED
    BY <2>1, <2>2
<1>3. \A k : Shown(k) = ToldBy(Loaded, k)
  BY <1>2, FileKeys DEF Shown, ToldBy
<1>4. ASSUME configFile # Torn
      PROVE  EngineLoaded \in ConfigFiles /\ \A k : ToldBy(EngineLoaded, k) = ToldBy(configFile, k)
  <2>1. CASE configFile = NoFile
    <3>1. EngineLoaded = << >>
      BY <2>1 DEF EngineLoaded
    <3>2. \A k : ToldBy(<< >>, k) = 0 /\ ToldBy(configFile, k) = 0
      BY <2>1, EmptyFile DEF ToldBy
    <3>3. QED
      BY <3>1, <3>2, EmptyFile
  <2>2. CASE configFile # NoFile
    BY <1>4, <2>2 DEF EngineLoaded, ConfigTyped
  <2>3. QED
    BY <2>1, <2>2
<1>5. QED
  BY <1>2, <1>3, <1>4

LEMMA ConfigInitially == ConfigInit => ConfigInv
<1> SUFFICES ASSUME ConfigInit PROVE ConfigInv
  OBVIOUS
<1>1. ConfigTyped
  BY EmptyFile DEF ConfigInit, ConfigTyped
<1>2. OneWriter
  BY ConfigAssumption DEF ConfigInit, OneWriter, Tells, ToldBy, Programs
<1>3. QED
  BY <1>1, <1>2 DEF ConfigInv

(* A program that begins a change when nobody else is at one has in its    *)
(* draft what is then set.                                                 *)
LEMMA BeginStep ==
  ASSUME ConfigInv, NEW p \in Programs, NEW new \in ConfigFiles, NEW set \in [ConfigKeys -> Nat],
         Begin(p, new, set),
         ~clash /\ (\A q \in Programs : writer[q] = "idle") => Tells(new, set)
  PROVE  ConfigInv'
<1>1. ConfigTyped
  BY DEF ConfigInv
<1>2. /\ writer' = [writer EXCEPT ![p] = "open"] /\ draft' = [draft EXCEPT ![p] = new]
      /\ lastSet' = set /\ UNCHANGED <<configFile, over>> /\ changes' = changes + 1
      /\ clash' = (clash \/ \E q \in Programs : writer[q] # "idle")
  BY DEF Begin
<1>3. ConfigTyped'
  BY <1>1, <1>2 DEF ConfigTyped
<1>4. ASSUME ~clash' PROVE OneWriter'
  <2>1. ~clash /\ OneWriter /\ \A q \in Programs : writer[q] = "idle"
    BY <1>2, <1>4 DEF ConfigInv
  <2>2. /\ writer'[p] = "open" /\ \A q \in Programs \ {p} : writer'[q] = "idle"
        /\ draft'[p] = new
    BY <1>1, <1>2, <2>1 DEF ConfigTyped
  <2>3. configFile # Torn
    BY <2>1 DEF OneWriter
  <2>4. Tells(draft'[p], lastSet')
    BY <1>2, <2>1, <2>2
  <2>5. QED
    BY <1>2, <2>2, <2>3, <2>4 DEF OneWriter
<1>5. QED
  BY <1>3, <1>4 DEF ConfigInv

LEMMA ConfigStep == ConfigInv /\ [ConfigNext]_configVars => ConfigInv'
<1> SUFFICES ASSUME ConfigInv, [ConfigNext]_configVars PROVE ConfigInv'
  OBVIOUS
<1>1. ConfigTyped /\ lastSet \in [ConfigKeys -> Nat] /\ changes + 1 \in Nat
  BY DEF ConfigInv, ConfigTyped
<1>2. /\ Loaded \in ConfigFiles
      /\ configFile # Torn => EngineLoaded \in ConfigFiles
  BY <1>1, ReadFile
<1>3. ASSUME ~clash, \A q \in Programs : writer[q] = "idle"
      PROVE  Tells(Loaded, lastSet) /\ (configFile # Torn => Tells(EngineLoaded, lastSet))
  <2>1. configFile # Torn /\ Tells(configFile, lastSet)
    BY <1>3 DEF ConfigInv, OneWriter
  <2>2. QED
    BY <1>1, <2>1, ReadFile DEF Tells
<1>4. ASSUME NEW f \in ConfigFiles, NEW k \in ConfigKeys, NEW v \in Nat, NEW set \in [ConfigKeys -> Nat]
      PROVE  /\ Updated(f, k, v) \in ConfigFiles /\ Updated(set, k, v) \in [ConfigKeys -> Nat]
             /\ Tells(f, set) => Tells(Updated(f, k, v), Updated(set, k, v))
  <2>1. Updated(f, k, v) \in ConfigFiles /\ Updated(set, k, v) \in [ConfigKeys -> Nat]
    BY FilesPut, SetPut
  <2>2. ASSUME Tells(f, set), NEW x \in ConfigKeys
        PROVE  ToldBy(Updated(f, k, v), x) = Updated(set, k, v)[x]
    <3>1. ToldBy(f, x) = set[x]
      BY <2>2 DEF Tells
    <3>2. ToldBy(Updated(f, k, v), x) = IF x = k THEN v ELSE ToldBy(f, x)
      BY FilesPut
    <3>3. Updated(set, k, v)[x] = IF x = k THEN v ELSE set[x]
      BY SetPut
    <3>4. QED
      BY <3>1, <3>2, <3>3
  <2>3. QED
    BY <2>1, <2>2 DEF Tells
<1>5. ASSUME NEW k \in ConfigKeys, TerminalSets(k) PROVE ConfigInv'
  BY <1>1, <1>2, <1>3, <1>4, <1>5, BeginStep DEF TerminalSets, Programs
<1>6. CASE TerminalResets
  <2> DEFINE zeros == [k \in ConfigKeys |-> 0]
  <2>1. DefaultConfig \in ConfigFiles /\ zeros \in [ConfigKeys -> Nat] /\ Tells(DefaultConfig, zeros)
    <3>1. DefaultConfig \in [DefaultKeys -> Nat] /\ DefaultKeys \in SUBSET ConfigKeys
      BY DEF DefaultConfig, ConfigKeys
    <3>2. Tells(DefaultConfig, zeros)
      BY DEF Tells, ToldBy, DefaultConfig
    <3>3. QED
      BY <3>1, <3>2 DEF ConfigFiles
  <2>2. Begin("terminal", DefaultConfig, zeros)
    BY <1>6 DEF TerminalResets
  <2> HIDE DEF zeros
  <2>3. QED
    BY <2>1, <2>2, BeginStep DEF Programs
<1>7. ASSUME NEW x \in ConfigKeys, DisableExtension(x) PROVE ConfigInv'
  <2> DEFINE new == [k \in DOMAIN Loaded \ {x} |-> Loaded[k]]
  <2>1. DOMAIN new = DOMAIN Loaded \ {x} /\ \A k \in DOMAIN new : new[k] = Loaded[k]
    OBVIOUS
  <2>2. new \in [DOMAIN Loaded \ {x} -> Nat] /\ DOMAIN Loaded \ {x} \in SUBSET ConfigKeys
    BY <1>2, FileKeys
  <2>3. new \in ConfigFiles
    BY <2>2 DEF ConfigFiles
  <2>4. Begin("terminal", new, Updated(lastSet, x, 0))
    BY <1>7 DEF DisableExtension
  <2> HIDE DEF new
  <2>5. new # NoFile /\ Loaded # NoFile
    BY <1>2, <2>3, FileKeys
  <2>6. Tells(Loaded, lastSet) => Tells(new, Updated(lastSet, x, 0))
    BY <1>1, <2>1, <2>5, SetPut DEF Tells, ToldBy
  <2>7. Updated(lastSet, x, 0) \in [ConfigKeys -> Nat]
    BY <1>1, SetPut
  <2>8. QED
    BY <1>3, <2>3, <2>4, <2>6, <2>7, BeginStep DEF Programs
<1>8. CASE EngineSetsKey
  <2> DEFINE file == Updated(EngineLoaded, "api_keys", changes + 1)
             set == Updated(lastSet, "api_keys", changes + 1)
  <2>1. configFile # Torn
    BY <1>8 DEF EngineSetsKey
  <2>2. "api_keys" \in ConfigKeys /\ "provider" \in ConfigKeys
    BY ConfigAssumption DEF ConfigKeys
  <2>3. /\ file \in ConfigFiles /\ set \in [ConfigKeys -> Nat]
        /\ Tells(EngineLoaded, lastSet) => Tells(file, set)
    BY <1>1, <1>2, <1>4, <2>1, <2>2
  <2>4. \/ Begin("engine", file, set)
        \/ Begin("engine", Updated(file, "provider", changes + 1), Updated(set, "provider", changes + 1))
    BY <1>8 DEF EngineSetsKey
  <2> HIDE DEF file, set
  <2>5. /\ Updated(file, "provider", changes + 1) \in ConfigFiles
        /\ Updated(set, "provider", changes + 1) \in [ConfigKeys -> Nat]
        /\ Tells(file, set) =>
             Tells(Updated(file, "provider", changes + 1), Updated(set, "provider", changes + 1))
    BY <1>1, <1>4, <2>2, <2>3
  <2>6. QED
    BY <1>3, <2>1, <2>3, <2>4, <2>5, BeginStep DEF Programs
<1>9. ASSUME NEW k \in ConfigKeys, EngineSets(k) PROVE ConfigInv'
  BY <1>1, <1>2, <1>3, <1>4, <1>9, BeginStep DEF EngineSets, Programs
<1>10. ASSUME NEW p \in Programs, OpenConfig(p) PROVE ConfigInv'
  <2>1. /\ writer[p] = "open" /\ writer' = [writer EXCEPT ![p] = "dump"]
        /\ configFile' = Torn /\ over' = [over EXCEPT ![p] = FALSE]
        /\ UNCHANGED <<draft, changes, lastSet, clash>>
    BY <1>10 DEF OpenConfig
  <2>2. ConfigTyped'
    BY <1>1, <2>1 DEF ConfigTyped
  <2>3. writer'[p] = "dump" /\ ~over'[p] /\ \A q \in Programs \ {p} : writer'[q] = writer[q]
    BY <1>1, <2>1 DEF ConfigTyped
  <2>4. ASSUME ~clash PROVE OneWriter'
    BY <2>1, <2>3, <2>4 DEF ConfigInv, OneWriter
  <2>5. QED
    BY <2>1, <2>2, <2>4 DEF ConfigInv
<1>11. ASSUME NEW p \in Programs, DumpConfig(p) PROVE ConfigInv'
  <2>1. /\ writer[p] = "dump" /\ writer' = [writer EXCEPT ![p] = "idle"]
        /\ configFile' \in {draft[p]} \union IF over[p] THEN {Torn} ELSE {}
        /\ over' = [q \in Programs |-> q # p] /\ draft' = [draft EXCEPT ![p] = << >>]
        /\ UNCHANGED <<changes, lastSet, clash>>
    BY <1>11 DEF DumpConfig
  <2>2. draft[p] \in ConfigFiles /\ configFile' \in {draft[p], Torn}
    BY <1>1, <2>1 DEF ConfigTyped
  <2>3. draft' \in [Programs -> ConfigFiles]
    BY <1>1, <2>1, EmptyFile DEF ConfigTyped
  <2>4. ConfigTyped'
    BY <1>1, <2>1, <2>2, <2>3 DEF ConfigTyped
  <2>5. ASSUME ~clash PROVE OneWriter'
    <3>1. OneWriter /\ configFile' = draft[p] /\ Tells(draft[p], lastSet)
      BY <2>1, <2>5 DEF ConfigInv, OneWriter
    <3>2. \A q \in Programs : writer'[q] = "idle"
      BY <1>1, <2>1, <3>1 DEF OneWriter, ConfigTyped
    <3>3. configFile' # Torn
      BY <2>2, <3>1, FileKeys
    <3>4. Tells(configFile', lastSet')
      BY <2>1, <3>1
    <3>5. QED
      BY <3>2, <3>3, <3>4 DEF OneWriter
  <2>6. QED
    BY <2>1, <2>4, <2>5 DEF ConfigInv
<1>12. ASSUME NEW p \in Programs, WriterKilled(p) PROVE ConfigInv'
  <2>1. /\ writer' = [writer EXCEPT ![p] = "idle"] /\ draft' = [draft EXCEPT ![p] = << >>]
        /\ clash' = TRUE /\ UNCHANGED <<configFile, over, changes, lastSet>>
    BY <1>12 DEF WriterKilled
  <2>2. draft' \in [Programs -> ConfigFiles]
    BY <1>1, <2>1, EmptyFile DEF ConfigTyped
  <2>3. QED
    BY <1>1, <2>1, <2>2 DEF ConfigInv, ConfigTyped
<1>13. CASE UNCHANGED configVars
  BY <1>13 DEF configVars, ConfigInv, ConfigTyped, OneWriter, Tells
<1>14. QED
  <2>1. /\ \A k \in DefaultKeys \union OtherKeys : k \in ConfigKeys
        /\ \A x \in Extensions : x \in ConfigKeys
    BY DEF ConfigKeys
  <2>2. ASSUME NEW x \in Extensions, EnableExtension(x) PROVE ConfigInv'
    BY <1>5, <2>1, <2>2 DEF EnableExtension
  <2>3. QED
    BY <1>5, <1>6, <1>7, <1>8, <1>9, <1>10, <1>11, <1>12, <1>13, <2>1, <2>2 DEF ConfigNext

LEMMA ConfigSafe == ConfigInv => ConfigIsKept
<1> SUFFICES ASSUME ConfigInv PROVE ConfigIsKept
  OBVIOUS
<1>1. ConfigTyped /\ \A k : Shown(k) = ToldBy(Loaded, k)
  BY ReadFile DEF ConfigInv
<1>2. ASSUME ~clash, \A p \in Programs : writer[p] = "idle", NEW k \in ConfigKeys
      PROVE  Shown(k) = lastSet[k]
  <2>1. configFile # Torn /\ Tells(configFile, lastSet)
    BY <1>2 DEF ConfigInv, OneWriter
  <2>2. QED
    BY <1>1, <2>1, ReadFile DEF Tells
<1>3. FileIsWhole
  BY DEF FileIsWhole, ConfigInv, OneWriter
<1>4. QED
  BY <1>2, <1>3 DEF ConfigIsKept, SettingsAreKept

-----------------------------------------------------------------------------
(* The updater (Updater).                                                  *)

Places == 1 .. Len(Versions)

(* The configuration the program will find next: the one being written, or *)
(* the one there is.                                                       *)
NextConfig == IF unsaved = NoUpdateFile THEN UpdateConfig ELSE unsaved

UpdaterTyped ==
  /\ updateFile \in UpdateFiles \cup {NoUpdateFile, TornUpdateFile}
  /\ unsaved \in UpdateFiles \cup {NoUpdateFile}
  /\ published \in Places /\ installed \in 1..published /\ running \in 1..installed
  /\ interval \in Nat \ {0} /\ updateActs \in Nat
  /\ chosen \in Channels /\ announced \subseteq Places
  /\ askedAgain \in BOOLEAN /\ spoilt \in BOOLEAN

(* A version that was seen was told, or is no newer than the running one.  *)
SeenRight(v) == v \in 1..published /\ (v \in announced \/ v <= running \/ Versions[v] = <<>>)

SeenInv == SeenRight(UpdateConfig.seen) /\ SeenRight(NextConfig.seen)

(* Until the program is killed while it writes. *)
WholeInv ==
  /\ updateFile # TornUpdateFile
  /\ NextConfig.channel = chosen
  /\ NextConfig.lastCheck <= interval
  /\ \A t \in asked : t \in Nat /\ t <= NextConfig.lastCheck
  /\ ~askedAgain

UpdaterInv ==
  /\ UpdaterTyped
  /\ terminal # "on" => unsaved = NoUpdateFile
  /\ SeenInv
  /\ ~spoilt => WholeInv

-----------------------------------------------------------------------------
LEMMA UpdateFilesDiffer ==
  /\ NoUpdateFile # TornUpdateFile
  /\ NoUpdateFile \notin UpdateFiles /\ TornUpdateFile \notin UpdateFiles
BY UpdaterAssumption

LEMMA VersionsAreNumbers ==
  ASSUME NEW v \in Places
  PROVE  /\ Parsed(v) \in Seq(Nat) /\ Parsed(v) # <<>>
         /\ Versions[v] = <<>> => Len(Parsed(v)) = 1 /\ Parsed(v)[1] = 0
<1>1. Versions[v] \in Seq(Nat)
  BY UpdaterAssumption DEF Places
<1>2. CASE Versions[v] = <<>>
  <2>1. Parsed(v) = <<0>>
    BY <1>2 DEF Parsed
  <2>2. QED
    BY <2>1, <1>2
<1>3. CASE Versions[v] # <<>>
  BY <1>1, <1>3 DEF Parsed
<1>4. QED
  BY <1>2, <1>3

(* A version is not newer than a version that is newer than it, or than    *)
(* itself.                                                                 *)
LEMMA NewerIsStrict ==
  ASSUME NEW u \in Places, NEW w \in Places, u = w \/ IsNewer(w, u)
  PROVE  ~IsNewer(u, w)
<1> DEFINE a == Parsed(u)
           b == Parsed(w)
<1>1. /\ a \in Seq(Nat) /\ b \in Seq(Nat)
      /\ Len(a) \in Nat /\ Len(b) \in Nat
      /\ \A i \in 1..Len(a) : a[i] \in Nat
      /\ \A i \in 1..Len(b) : b[i] \in Nat
  BY VersionsAreNumbers
<1> HIDE DEF a, b
<1>2. SUFFICES ASSUME IsNewer(u, w) PROVE FALSE
  OBVIOUS
<1>3. PICK k \in 1..Len(a) :
        (\A j \in 1..(k - 1) : j <= Len(b) /\ a[j] = b[j]) /\ (k > Len(b) \/ a[k] > b[k])
  BY <1>2 DEF IsNewer, a, b
<1>4. CASE u = w
  <2>1. a = b
    BY <1>4 DEF a, b
  <2>2. QED
    BY <1>1, <1>3, <2>1
<1>5. CASE IsNewer(w, u)
  <2>1. PICK n \in 1..Len(b) :
          (\A j \in 1..(n - 1) : j <= Len(a) /\ b[j] = a[j]) /\ (n > Len(a) \/ b[n] > a[n])
    BY <1>5 DEF IsNewer, a, b
  <2>2. CASE k < n
    BY <1>1, <1>3, <2>1, <2>2
  <2>3. CASE n < k
    BY <1>1, <1>3, <2>1, <2>3
  <2>4. CASE n = k
    BY <1>1, <1>3, <2>1, <2>4
  <2>5. QED
    BY <2>2, <2>3, <2>4
<1>6. QED
  BY <1>4, <1>5

(* What is no later than w, or has a letter in it, is not newer than w.    *)
LEMMA OldIsNotNewer ==
  ASSUME NEW v \in Places, NEW w \in Places, Versions[w] # <<>>,
         v <= w \/ Versions[v] = <<>>
  PROVE  ~IsNewer(v, w)
<1>1. CASE v <= w
  <2>1. v = w \/ v < w
    BY <1>1 DEF Places
  <2>2. v = w \/ IsNewer(w, v)
    BY <2>1, PublishedGrows DEF Places
  <2>3. QED
    BY <2>2, NewerIsStrict
<1>2. CASE Versions[v] = <<>>
  <2>1. Len(Parsed(v)) = 1 /\ Parsed(v)[1] = 0
    BY <1>2, VersionsAreNumbers
  <2>2. Parsed(w) \in Seq(Nat) /\ Parsed(w) # <<>>
    BY VersionsAreNumbers
  <2>3. Len(Parsed(w)) \in Nat \ {0} /\ Parsed(w)[1] \in Nat
    BY <2>2
  <2>4. QED
    BY <2>1, <2>3 DEF IsNewer
<1>3. QED
  BY <1>1, <1>2

LEMMA ConfigOfUpdates ==
  ASSUME UpdaterTyped
  PROVE  /\ UpdateConfig \in UpdateFiles /\ NextConfig \in UpdateFiles
         /\ unsaved = NoUpdateFile => NextConfig = UpdateConfig
<1>1. CASE updateFile \in {NoUpdateFile, TornUpdateFile}
  <2>1. running \in Nat
    BY DEF UpdaterTyped, Places
  <2>2. UpdateConfig = [channel |-> "stable", auto |-> TRUE, lastCheck |-> 0, seen |-> running]
    BY <1>1 DEF UpdateConfig
  <2>3. UpdateConfig \in UpdateFiles
    BY <2>1, <2>2 DEF UpdateFiles, Channels
  <2>4. QED
    BY <2>3 DEF NextConfig, UpdaterTyped
<1>2. CASE updateFile \notin {NoUpdateFile, TornUpdateFile}
  BY <1>2 DEF UpdaterTyped, NextConfig, UpdateConfig
<1>3. QED
  BY <1>1, <1>2

-----------------------------------------------------------------------------
LEMMA UpdaterInitially == ASSUME UpdaterInit PROVE UpdaterInv
<1>1. 1 \in Places
  BY UpdaterAssumption DEF Places
<1> DEFINE silent == [channel |-> "stable", auto |-> FALSE, lastCheck |-> 0, seen |-> 1]
<1>s. silent \in UpdateFiles
  BY DEF UpdateFiles, Channels
<1>t. updateFile \in {NoUpdateFile, silent}
  BY DEF UpdaterInit
<1>2. UpdaterTyped
  <2>1. updateFile \in UpdateFiles \cup {NoUpdateFile, TornUpdateFile}
    BY <1>s, <1>t
  <2>2. /\ unsaved = NoUpdateFile /\ published = 1 /\ installed = 1 /\ running = 1
        /\ interval = 1 /\ updateActs = 0 /\ chosen = "stable" /\ announced = {}
        /\ askedAgain = FALSE /\ spoilt = FALSE
    BY DEF UpdaterInit
  <2>3. published \in Places /\ installed \in 1..published /\ running \in 1..installed
    BY <1>1, <2>2
  <2>4. /\ unsaved \in UpdateFiles \cup {NoUpdateFile}
        /\ interval \in Nat \ {0} /\ updateActs \in Nat
    BY <2>2
  <2>5. chosen \in Channels /\ announced \subseteq Places
    BY <2>2 DEF Channels
  <2>6. QED
    BY <2>1, <2>2, <2>3, <2>4, <2>5, Zenon DEF UpdaterTyped
<1>3. UpdateConfig.seen = 1 /\ UpdateConfig.channel = "stable" /\ UpdateConfig.lastCheck = 0
  BY <1>s, <1>t, UpdateFilesDiffer DEF UpdaterInit, UpdateConfig
<1>4. NextConfig = UpdateConfig
  BY DEF UpdaterInit, NextConfig
<1>5. SeenInv
  BY <1>3, <1>4 DEF SeenInv, SeenRight, UpdaterInit
<1>6. updateFile # TornUpdateFile
  BY <1>s, <1>t, UpdateFilesDiffer
<1>7. WholeInv
  BY <1>3, <1>4, <1>6 DEF WholeInv, UpdaterInit
<1>8. QED
  BY <1>2, <1>5, <1>7 DEF UpdaterInv, UpdaterInit

(* A call of check_for_update that asks the index. *)
LEMMA AskIndexStep ==
  ASSUME UpdaterInv, unsaved = NoUpdateFile, AskIndex,
         UNCHANGED <<updateFile, published, installed, running, interval, chosen, spoilt>>,
         updateActs' \in Nat, terminal' = "on", askedAgain' \in BOOLEAN,
         asked' \subseteq asked \cup {interval}, spoilt \/ ~askedAgain'
  PROVE  UpdaterInv'
<1> DEFINE current == UpdateConfig
           new == unsaved'
<1>1. /\ UpdaterTyped /\ SeenInv /\ (~spoilt => WholeInv)
      /\ current \in UpdateFiles /\ NextConfig = current
  BY ConfigOfUpdates DEF UpdaterInv
<1>2. /\ current.channel \in Channels /\ current.auto \in BOOLEAN
      /\ current.lastCheck \in Nat /\ current.seen \in Nat
  BY <1>1 DEF UpdateFiles
<1>3. /\ interval \in Nat /\ published \in Nat /\ published \in Places
  BY <1>1 DEF UpdaterTyped, Places
<1>4. PICK v \in {published, current.seen} :
        /\ new = [current EXCEPT !.lastCheck = interval, !.seen = v]
        /\ announced' \subseteq Places /\ announced \subseteq announced'
        /\ \/ v = current.seen
           \/ v \in announced'
           \/ v = published /\ ~IsNewer(v, running)
  <2>1. announced \subseteq Places
    BY <1>1 DEF UpdaterTyped
  <2>2. CASE /\ new = Checked(published)
             /\ Tell(IF IsNewer(published, running) THEN "update_available" ELSE "up_to_date", published)
    BY <2>1, <2>2, <1>3 DEF Checked, Tell
  <2>3. CASE new = Checked(current.seen) /\ Tell("check_failed", 0)
    BY <2>1, <2>3 DEF Checked, Tell
  <2>4. QED
    BY <2>2, <2>3 DEF AskIndex
<1>5. /\ new \in UpdateFiles /\ new.seen = v /\ new.channel = current.channel
      /\ new.lastCheck = interval
  <2>1. v \in Nat
    BY <1>2, <1>3
  <2>2. QED
    BY <1>1, <1>2, <1>3, <1>4, <2>1 DEF UpdateFiles
<1>6. NextConfig' = new /\ UpdateConfig' = current
  BY <1>5, UpdateFilesDiffer DEF NextConfig, UpdateConfig
<1>7. UpdaterTyped'
  <2>1. unsaved' \in UpdateFiles
    BY <1>5
  <2>2. announced' \subseteq Places
    BY <1>4
  <2>3. QED
    BY <1>1, <2>1, <2>2 DEF UpdaterTyped, Places
<1>8. SeenInv'
  <2>1. SeenRight(current.seen)'
    BY <1>1, <1>4, <1>6 DEF SeenInv, SeenRight
  <2>2. CASE v = current.seen
    BY <1>5, <1>6, <2>1, <2>2 DEF SeenInv, SeenRight
  <2>3. CASE v \in announced' /\ v = published
    BY <1>3, <1>5, <1>6, <2>1, <2>3 DEF SeenInv, SeenRight, Places
  <2>4. CASE v = published /\ ~IsNewer(v, running)
    <3>1. running \in 1..Len(Versions) /\ published \in 1..Len(Versions) /\ running <= published
      BY <1>1 DEF UpdaterTyped, Places
    <3>2. v <= running \/ Versions[v] = <<>>
      BY <2>4, <3>1, PublishedGrows
    <3>3. QED
      BY <1>3, <1>5, <1>6, <2>1, <2>4, <3>2 DEF SeenInv, SeenRight, Places
  <2>5. QED
    BY <1>4, <2>2, <2>3, <2>4
<1>9. ~spoilt' => WholeInv'
  <2>1. SUFFICES ASSUME ~spoilt PROVE WholeInv'
    OBVIOUS
  <2>2. WholeInv
    BY <1>1, <2>1
  <2>3. \A t \in asked' : t \in Nat /\ t <= interval
    BY <1>1, <1>2, <1>3, <2>2 DEF WholeInv
  <2>4. QED
    BY <1>1, <1>3, <1>5, <1>6, <2>1, <2>2, <2>3 DEF WholeInv
<1>10. QED
  BY <1>7, <1>8, <1>9 DEF UpdaterInv

LEMMA UpdaterStep == ASSUME UpdaterInv, UpdaterNext PROVE UpdaterInv'
<1>1. /\ UpdaterTyped /\ SeenInv /\ (~spoilt => WholeInv)
      /\ terminal # "on" => unsaved = NoUpdateFile
  BY DEF UpdaterInv
<1>2. /\ UpdateConfig \in UpdateFiles /\ NextConfig \in UpdateFiles
      /\ unsaved = NoUpdateFile => NextConfig = UpdateConfig
  BY <1>1, ConfigOfUpdates
<1>3. /\ published \in Nat /\ installed \in Nat /\ running \in Nat
      /\ running <= installed /\ installed <= published /\ published <= Len(Versions)
      /\ 1 <= running /\ Len(Versions) \in Nat
      /\ interval \in Nat /\ interval # 0
  BY <1>1, UpdaterAssumption DEF UpdaterTyped, Places
<1>4. ASSUME Launch PROVE UpdaterInv'
  <2>1. /\ unsaved = NoUpdateFile /\ running' = installed /\ terminal' = "starting"
        /\ updateActs' \in Nat
        /\ UNCHANGED <<fileOfUpdates, published, installed, interval, updateHistory>>
    BY <1>1, <1>4 DEF Launch, UpdateCall, UpdaterTyped
  <2>2. UpdaterTyped'
    BY <1>1, <1>3, <2>1 DEF UpdaterTyped, fileOfUpdates, updateHistory
  <2>3. CASE updateFile \in {NoUpdateFile, TornUpdateFile}
    <3>1. /\ NextConfig'.seen = installed /\ UpdateConfig'.seen = installed /\ NextConfig'.channel = NextConfig.channel
          /\ NextConfig'.lastCheck = NextConfig.lastCheck
      BY <2>1, <2>3 DEF NextConfig, UpdateConfig, fileOfUpdates
    <3>2. SeenInv'
      BY <1>3, <2>1, <3>1 DEF SeenInv, SeenRight
    <3>3. ~spoilt' => WholeInv'
      BY <1>1, <2>1, <3>1 DEF WholeInv, fileOfUpdates, updateHistory
    <3>4. QED
      BY <2>1, <2>2, <3>2, <3>3 DEF UpdaterInv, fileOfUpdates
  <2>4. CASE updateFile \notin {NoUpdateFile, TornUpdateFile}
    <3>1. NextConfig' = NextConfig /\ UpdateConfig' = UpdateConfig
      BY <2>1, <2>4 DEF NextConfig, UpdateConfig, fileOfUpdates
    <3>2. SeenInv'
      BY <1>1, <1>3, <2>1, <3>1 DEF SeenInv, SeenRight, fileOfUpdates, updateHistory
    <3>3. ~spoilt' => WholeInv'
      BY <1>1, <2>1, <3>1 DEF WholeInv, fileOfUpdates, updateHistory
    <3>4. QED
      BY <2>1, <2>2, <3>2, <3>3 DEF UpdaterInv, fileOfUpdates
  <2>5. QED
    BY <2>3, <2>4
<1>5. ASSUME StartupCheck PROVE UpdaterInv'
  <2>1. unsaved = NoUpdateFile /\ terminal' = "on" /\ updateActs' \in Nat
    BY <1>1, <1>5 DEF StartupCheck, UpdaterTyped
  <2>2. CASE StartupAsks
    <3>1. /\ AskIndex /\ asked' = asked \cup {interval}
          /\ askedAgain' = (askedAgain \/ interval \in asked)
          /\ UNCHANGED <<updateFile, published, installed, running, interval, chosen, spoilt>>
      BY <1>5, <2>2 DEF StartupCheck
    <3>2. spoilt \/ interval \notin asked
      <4>1. UpdateConfig.lastCheck \in Nat /\ interval > UpdateConfig.lastCheck
        BY <1>2, <2>2 DEF UpdateFiles, StartupAsks
      <4>2. QED
        BY <1>1, <1>2, <1>3, <2>1, <4>1 DEF WholeInv
    <3>3. askedAgain' \in BOOLEAN /\ (spoilt \/ ~askedAgain')
      BY <1>1, <3>1, <3>2 DEF WholeInv
    <3>4. QED
      BY <2>1, <3>1, <3>3, AskIndexStep
  <2>3. CASE ~StartupAsks
    <3>1. /\ UNCHANGED <<updateFile, unsaved, published, installed, running, interval, chosen, spoilt,
                         asked, askedAgain>>
          /\ announced' = announced
      BY <1>5, <2>3 DEF StartupCheck, Tell
    <3>2. NextConfig' = NextConfig /\ UpdateConfig' = UpdateConfig
      BY <3>1 DEF NextConfig, UpdateConfig
    <3>3. UpdaterTyped'
      BY <1>1, <2>1, <3>1 DEF UpdaterTyped
    <3>4. SeenInv' /\ (~spoilt' => WholeInv')
      BY <1>1, <3>1, <3>2 DEF SeenInv, SeenRight, WholeInv
    <3>5. QED
      BY <2>1, <3>3, <3>4 DEF UpdaterInv
  <2>4. QED
    BY <2>2, <2>3
<1>6. ASSUME UpdateCheck PROVE UpdaterInv'
  <2>1. /\ unsaved = NoUpdateFile /\ AskIndex /\ terminal' = "on" /\ updateActs' \in Nat
        /\ UNCHANGED <<updateFile, published, installed, running, interval, chosen, asked, askedAgain,
                       spoilt>>
    BY <1>1, <1>6 DEF UpdateCheck, UpdateCall, UpdaterTyped
  <2>2. askedAgain' \in BOOLEAN /\ (spoilt \/ ~askedAgain')
    BY <1>1, <2>1 DEF WholeInv, UpdaterTyped
  <2>3. QED
    BY <2>1, <2>2, AskIndexStep
<1>7. ASSUME PerformUpdate PROVE UpdaterInv'
  <2>1. /\ unsaved = NoUpdateFile /\ terminal' = terminal /\ updateActs' \in Nat
        /\ installed' \in {installed, published} /\ announced' = announced
        /\ UNCHANGED <<fileOfUpdates, published, running, interval, chosen, asked, askedAgain, spoilt>>
    BY <1>1, <1>7 DEF PerformUpdate, UpdateCall, Tell, UpdaterTyped
  <2>2. NextConfig' = NextConfig /\ UpdateConfig' = UpdateConfig
    BY <2>1 DEF NextConfig, UpdateConfig, fileOfUpdates
  <2>3. UpdaterTyped'
    BY <1>1, <1>3, <2>1 DEF UpdaterTyped, fileOfUpdates
  <2>4. SeenInv' /\ (~spoilt' => WholeInv')
    BY <1>1, <2>1, <2>2 DEF SeenInv, SeenRight, WholeInv, fileOfUpdates
  <2>5. QED
    BY <1>1, <2>1, <2>3, <2>4 DEF UpdaterInv, fileOfUpdates
<1>8. ASSUME NEW c \in Channels, SetChannel(c) PROVE UpdaterInv'
  <2>1. /\ unsaved = NoUpdateFile /\ terminal' = "on" /\ updateActs' \in Nat
        /\ unsaved' = [UpdateConfig EXCEPT !.channel = c] /\ chosen' = c /\ announced' = announced
        /\ UNCHANGED <<updateFile, published, installed, running, interval, asked, askedAgain, spoilt>>
    BY <1>1, <1>8 DEF SetChannel, UpdateCall, Tell, UpdaterTyped
  <2>2. /\ unsaved' \in UpdateFiles /\ unsaved'.channel = c
        /\ unsaved'.seen = UpdateConfig.seen /\ unsaved'.lastCheck = UpdateConfig.lastCheck
    BY <1>2, <2>1 DEF UpdateFiles
  <2>3. NextConfig' = unsaved' /\ UpdateConfig' = UpdateConfig
    BY <2>1, <2>2, UpdateFilesDiffer DEF NextConfig, UpdateConfig
  <2>4. UpdaterTyped'
    BY <1>1, <2>1, <2>2 DEF UpdaterTyped
  <2>5. SeenInv'
    BY <1>1, <1>2, <2>1, <2>2, <2>3 DEF SeenInv, SeenRight
  <2>6. ~spoilt' => WholeInv'
    BY <1>1, <1>2, <2>1, <2>2, <2>3 DEF WholeInv
  <2>7. QED
    BY <2>1, <2>4, <2>5, <2>6 DEF UpdaterInv
<1>9. ASSUME SaveUpdateFile PROVE UpdaterInv'
  <2>1. /\ unsaved \in UpdateFiles /\ updateFile' = unsaved /\ unsaved' = NoUpdateFile
        /\ UNCHANGED <<published, installed, running, terminal, interval, updateActs, updateHistory>>
    BY <1>1, <1>9 DEF SaveUpdateFile, UpdaterTyped
  <2>2. NextConfig' = NextConfig /\ UpdateConfig' = NextConfig
    BY <2>1, UpdateFilesDiffer DEF NextConfig, UpdateConfig
  <2>3. UpdaterTyped'
    BY <1>1, <2>1 DEF UpdaterTyped, updateHistory
  <2>4. SeenInv' /\ (~spoilt' => WholeInv')
    BY <1>1, <2>1, <2>2, UpdateFilesDiffer DEF SeenInv, SeenRight, WholeInv, updateHistory
  <2>5. QED
    BY <2>1, <2>3, <2>4 DEF UpdaterInv
<1>10. ASSUME EndTerminal PROVE UpdaterInv'
  <2>1. /\ unsaved' = NoUpdateFile /\ terminal' = "off"
        /\ updateFile' = IF unsaved = NoUpdateFile THEN updateFile ELSE TornUpdateFile
        /\ spoilt' = (spoilt \/ unsaved # NoUpdateFile)
        /\ UNCHANGED <<published, installed, running, interval, updateActs, chosen, announced, asked,
                       askedAgain>>
    BY <1>10 DEF EndTerminal
  <2>2. UpdaterTyped'
    BY <1>1, <2>1 DEF UpdaterTyped
  <2>3. CASE unsaved = NoUpdateFile
    <3>1. /\ NextConfig' = NextConfig /\ UpdateConfig' = UpdateConfig
          /\ updateFile' = updateFile /\ spoilt' = spoilt
      BY <1>1, <2>1, <2>3 DEF NextConfig, UpdateConfig, UpdaterTyped
    <3>2. SeenInv' /\ (~spoilt' => WholeInv')
      BY <1>1, <2>1, <3>1 DEF SeenInv, SeenRight, WholeInv
    <3>3. QED
      BY <2>1, <2>2, <3>2 DEF UpdaterInv
  <2>4. CASE unsaved # NoUpdateFile
    <3>1. NextConfig'.seen = running /\ UpdateConfig'.seen = running /\ spoilt'
      BY <1>1, <2>1, <2>4 DEF NextConfig, UpdateConfig, UpdaterTyped
    <3>2. SeenInv'
      BY <1>3, <2>1, <3>1 DEF SeenInv, SeenRight
    <3>3. QED
      BY <2>1, <2>2, <3>1, <3>2 DEF UpdaterInv
  <2>5. QED
    BY <2>3, <2>4
<1>11. ASSUME Publish PROVE UpdaterInv'
  <2>1. /\ published' = published + 1 /\ published' \in Places
        /\ UNCHANGED <<fileOfUpdates, installed, running, terminal, interval, updateActs, updateHistory>>
    BY <1>3, <1>11 DEF Publish, Places
  <2>2. NextConfig' = NextConfig /\ UpdateConfig' = UpdateConfig
    BY <2>1 DEF NextConfig, UpdateConfig, fileOfUpdates
  <2>3. UpdaterTyped'
    BY <1>1, <1>3, <2>1 DEF UpdaterTyped, fileOfUpdates, updateHistory
  <2>4. SeenInv' /\ (~spoilt' => WholeInv')
    BY <1>1, <1>3, <2>1, <2>2 DEF SeenInv, SeenRight, WholeInv, fileOfUpdates, updateHistory
  <2>5. QED
    BY <1>1, <2>1, <2>3, <2>4 DEF UpdaterInv, fileOfUpdates
<1>12. ASSUME IntervalPasses PROVE UpdaterInv'
  <2>1. /\ interval' = interval + 1
        /\ UNCHANGED <<fileOfUpdates, published, installed, running, terminal, updateActs, updateHistory>>
    BY <1>12 DEF IntervalPasses
  <2>2. NextConfig' = NextConfig /\ UpdateConfig' = UpdateConfig
    BY <2>1 DEF NextConfig, UpdateConfig, fileOfUpdates
  <2>3. UpdaterTyped'
    BY <1>1, <1>3, <2>1 DEF UpdaterTyped, fileOfUpdates, updateHistory
  <2>4. NextConfig.lastCheck \in Nat
    BY <1>2 DEF UpdateFiles
  <2>5. SeenInv' /\ (~spoilt' => WholeInv')
    BY <1>1, <1>3, <2>1, <2>2, <2>4 DEF SeenInv, SeenRight, WholeInv, fileOfUpdates, updateHistory
  <2>6. QED
    BY <1>1, <2>1, <2>3, <2>5 DEF UpdaterInv, fileOfUpdates
<1>13. QED
  BY <1>4, <1>5, <1>6, <1>7, <1>8, <1>9, <1>10, <1>11, <1>12 DEF UpdaterNext

LEMMA UpdaterSafe == ASSUME UpdaterInv PROVE UpdatesAreSound
<1>1. UpdaterTyped /\ SeenInv /\ (~spoilt => WholeInv)
  BY DEF UpdaterInv
<1>2. ChannelIsKept
  BY <1>1, ConfigOfUpdates DEF ChannelIsKept, WholeInv
<1>3. SeenIsAnnounced
  <2>1. SUFFICES ASSUME Versions[running] # <<>>, IsNewer(UpdateConfig.seen, running)
                 PROVE  UpdateConfig.seen \in announced
    BY DEF SeenIsAnnounced
  <2>2. UpdateConfig.seen \in Places /\ running \in Places
    BY <1>1, UpdaterAssumption DEF SeenInv, SeenRight, UpdaterTyped, Places
  <2>3. QED
    BY <1>1, <2>1, <2>2, OldIsNotNewer DEF SeenInv, SeenRight
<1>4. AsksOncePerInterval
  BY <1>1 DEF AsksOncePerInterval, WholeInv
<1>5. QED
  BY <1>2, <1>3, <1>4 DEF UpdatesAreSound
LEMMA UpdaterRests == ASSUME UpdaterInv, UNCHANGED updateVars PROVE UpdaterInv'
<1>1. NextConfig' = NextConfig /\ UpdateConfig' = UpdateConfig
  BY DEF updateVars, fileOfUpdates, NextConfig, UpdateConfig
<1>2. QED
  BY <1>1 DEF updateVars, fileOfUpdates, updateHistory, UpdaterInv, UpdaterTyped, SeenInv, SeenRight,
              WholeInv

-----------------------------------------------------------------------------
(* The terminal program and its session (TerminalSession).                 *)

Phases == {"planning", "coding", "reviewing", "stream"}

PromptRuns ==
  [pc : Phases \cup {"none", "ready", "done", "cancelled", "gone"}, length : Nat, said : Nat]

ChatMessages == [who : {"user", "assistant"}, of : Nat, words : Nat, past : BOOLEAN]

(* The agents that may be running in a phase of a run. *)
Working(pc) ==
  IF pc = "planning" THEN {"orchestrator", "planner"}
  ELSE IF pc = "coding" THEN {"orchestrator", "coder"}
  ELSE IF pc = "reviewing" THEN {"orchestrator", "critic"}
  ELSE {}

TermTyped ==
  /\ isOpen \in BOOLEAN
  /\ messages \in Seq(ChatMessages)
  /\ prompts \in Nat /\ prompts <= MaxPrompts
  /\ clearedTo \in Nat /\ clearedTo <= prompts
  /\ runs \in [Prompts -> PromptRuns]
  /\ agents \in [Agents -> {"idle", "running", "success", "failed"}]
  /\ session # NoSession => session.messages \in Seq(ChatMessages)

(* Only the last prompt's run lives, and what is shown is of it. *)
RunsInv ==
  /\ \A p \in Prompts : Alive(p) => p = prompts /\ isOpen
  /\ \A p \in Prompts : p > prompts => runs[p].pc = "none"
  /\ \A p \in Prompts : runs[p].pc = "stream" =>
       \/ shown = [of |-> p, words |-> runs[p].said]
       \/ shown = NothingShown /\ p <= clearedTo

(* A run leaves its prompt in its first step, and its reply in the last.   *)
ConversationInv ==
  /\ \A i \in Fresh : messages[i].of \in 1..prompts
  /\ \A i \in Fresh : runs[messages[i].of].pc # "ready"
  /\ \A i, k \in Fresh : i < k => Rank(messages[i]) < Rank(messages[k])
  /\ \A i \in Fresh : messages[i].who = "assistant" =>
       /\ runs[messages[i].of].pc = "done"
       /\ messages[i].words = runs[messages[i].of].length
  /\ \A p \in Prompts :
       /\ clearedTo < p /\ p <= prompts /\ runs[p].pc \in Phases \cup {"done"} => Says("user", p)
       /\ clearedTo < p /\ p <= prompts /\ runs[p].pc = "done" => Says("assistant", p)

NoneCancelled == \A p \in Prompts : runs[p].pc # "cancelled"

StatusInv ==
  isOpen =>
    /\ status # "idle" => \E p \in Prompts : Alive(p)
    /\ \A p \in Prompts : runs[p].pc \in Phases =>
         status = IF runs[p].pc = "stream" THEN "streaming" ELSE "planning"
    /\ NoneCancelled =>
         \A a \in Agents : agents[a] = "running" =>
           \E p \in Prompts : Alive(p) /\ a \in Working(runs[p].pc)

TermInv == TermTyped /\ RunsInv /\ ConversationInv /\ StatusInv

-----------------------------------------------------------------------------
LEMMA PromptsAreNumbers ==
  MaxPrompts \in Nat /\ \A p \in Prompts : p \in Nat /\ p >= 1 /\ p <= MaxPrompts
BY TerminalAssumption DEF Prompts

LEMMA LivingRuns ==
  ASSUME TermTyped, NEW p \in Prompts
  PROVE  /\ runs[p] \in PromptRuns
         /\ runs[p].length \in Nat /\ runs[p].said \in Nat
         /\ Alive(p) <=> runs[p].pc \in Phases \cup {"ready"}
<1>1. runs[p] \in PromptRuns
  BY DEF TermTyped
<1>2. QED
  BY <1>1 DEF PromptRuns, Alive, Phases

(* A message behind the others. *)
LEMMA MessageAppended ==
  ASSUME TermTyped, NEW m \in ChatMessages, m.past = FALSE, messages' = Append(messages, m)
  PROVE  /\ messages' \in Seq(ChatMessages)
         /\ Fresh' = Fresh \cup {Len(messages) + 1}
         /\ messages'[Len(messages) + 1] = m
         /\ \A i \in Fresh : i \in Nat /\ i < Len(messages) + 1 /\ messages'[i] = messages[i]
<1>1. messages \in Seq(ChatMessages) /\ Len(messages) \in Nat
  BY DEF TermTyped
<1>2. messages' \in Seq(ChatMessages) /\ Len(messages') = Len(messages) + 1
  BY <1>1
<1>3. DOMAIN messages = 1..Len(messages) /\ DOMAIN messages' = 1..(Len(messages) + 1)
  BY <1>1, <1>2
<1>4. /\ \A i \in DOMAIN messages : messages'[i] = messages[i]
      /\ messages'[Len(messages) + 1] = m
  BY <1>1
<1>5. Fresh' = Fresh \cup {Len(messages) + 1}
  BY <1>1, <1>3, <1>4 DEF Fresh
<1>6. QED
  BY <1>1, <1>2, <1>3, <1>4, <1>5 DEF Fresh

LEMMA FreshMessages ==
  ASSUME TermTyped, ConversationInv, NEW i \in Fresh
  PROVE  /\ i \in Nat /\ messages[i] \in ChatMessages
         /\ messages[i].who \in {"user", "assistant"} /\ messages[i].of \in Prompts
         /\ messages[i].of \in Nat /\ messages[i].of <= prompts
<1>1. messages \in Seq(ChatMessages) /\ i \in 1..Len(messages)
  BY DEF TermTyped, Fresh
<1>2. messages[i] \in ChatMessages /\ i \in Nat
  BY <1>1
<1>3. messages[i].of \in 1..prompts
  BY DEF ConversationInv
<1>4. QED
  BY <1>2, <1>3, TerminalAssumption DEF ChatMessages, TermTyped, Prompts

-----------------------------------------------------------------------------
LEMMA TermInitially == ASSUME TermInit PROVE TermInv
<1>1. messages = <<>> /\ Fresh = {}
  BY DEF TermInit, Fresh
<1>2. \A p \in Prompts : runs[p].pc = "none" /\ ~Alive(p)
  BY DEF TermInit, Alive
<1>3. TermTyped
  <2>1. runs \in [Prompts -> PromptRuns]
    BY DEF TermInit, PromptRuns
  <2>2. agents \in [Agents -> {"idle", "running", "success", "failed"}]
    BY DEF TermInit
  <2>3. messages \in Seq(ChatMessages)
    BY <1>1
  <2>4. /\ isOpen = FALSE /\ prompts = 0 /\ clearedTo = 0 /\ session = NoSession
    BY DEF TermInit
  <2>o. isOpen \in BOOLEAN
    BY <2>4, Zenon
  <2>5. /\ prompts \in Nat /\ prompts <= MaxPrompts
        /\ clearedTo \in Nat /\ clearedTo <= prompts
    BY <2>4, PromptsAreNumbers
  <2>6. session # NoSession => session.messages \in Seq(ChatMessages)
    BY <2>4
  <2>7. QED
    BY <2>1, <2>2, <2>3, <2>o, <2>5, <2>6, Zenon DEF TermTyped
<1>4. RunsInv
  BY <1>2 DEF RunsInv, Alive
<1>5. ConversationInv
  BY <1>1, <1>2 DEF ConversationInv, Phases
<1>6. StatusInv
  BY DEF StatusInv, TermInit
<1>7. QED
  BY <1>3, <1>4, <1>5, <1>6 DEF TermInv

(* The run of the last prompt moves on to r. *)
LEMMA RunMoves ==
  ASSUME TermInv, NEW p \in Prompts, NEW r \in PromptRuns, Alive(p), r.pc \in Phases,
         runs' = [runs EXCEPT ![p] = r],
         messages' \in Seq(ChatMessages), ConversationInv',
         r.pc = "stream" => shown' = [of |-> p, words |-> r.said],
         status' = IF r.pc = "stream" THEN "streaming" ELSE "planning",
         agents' \in [Agents -> {"idle", "running", "success", "failed"}],
         NoneCancelled => \A a \in Agents : agents'[a] = "running" => a \in Working(r.pc),
         UNCHANGED <<isOpen, prompts, session, clearedTo>>
  PROVE  TermInv'
<1>1. TermTyped /\ RunsInv /\ ConversationInv /\ StatusInv
  BY DEF TermInv
<1>2. p = prompts /\ isOpen
  BY <1>1 DEF RunsInv
<1>3. /\ runs' \in [Prompts -> PromptRuns] /\ runs'[p] = r
      /\ \A q \in Prompts : q # p => runs'[q] = runs[q]
  BY <1>1 DEF TermTyped
<1>4. TermTyped'
  BY <1>1, <1>3 DEF TermTyped
<1>5. \A q \in Prompts : Alive(q)' <=> q = p
  BY <1>1, <1>2, <1>3, <1>4, LivingRuns DEF RunsInv, Alive, Phases
<1>6. RunsInv'
  <2>1. \A q \in Prompts : runs'[q].pc = "stream" => q = p
    BY <1>5 DEF Alive
  <2>2. \A q \in Prompts : q > prompts => q # p
    BY <1>2, PromptsAreNumbers
  <2>3. \A q \in Prompts : q > prompts' => runs'[q].pc = "none"
    BY <1>1, <1>3, <2>2 DEF RunsInv
  <2>4. QED
    BY <1>2, <1>3, <1>5, <2>1, <2>3 DEF RunsInv
<1>7. StatusInv'
  <2>1. \A q \in Prompts : runs'[q].pc \in Phases => q = p
    BY <1>5 DEF Alive, Phases
  <2>2. NoneCancelled' => NoneCancelled
    BY <1>1, <1>3, LivingRuns DEF NoneCancelled, Phases
  <2>3. NoneCancelled' =>
          \A a \in Agents : agents'[a] = "running" =>
            \E q \in Prompts : Alive(q)' /\ a \in Working(runs'[q].pc)
    BY <1>3, <1>5, <2>2
  <2>4. QED
    BY <1>3, <1>5, <2>1, <2>3 DEF StatusInv
<1>8. QED
  BY <1>4, <1>6, <1>7 DEF TermInv

(* The messages stay in order while a run goes from phase to phase. *)
LEMMA ConversationGoesOn ==
  ASSUME TermInv, NEW p \in Prompts, NEW r \in PromptRuns, runs[p].pc \in Phases, r.pc \in Phases,
         runs' = [runs EXCEPT ![p] = r], UNCHANGED <<messages, prompts, clearedTo>>
  PROVE  ConversationInv'
<1>1. TermTyped /\ ConversationInv
  BY DEF TermInv
<1>2. runs'[p] = r /\ \A q \in Prompts : q # p => runs'[q] = runs[q]
  BY <1>1 DEF TermTyped
<1>3. Fresh' = Fresh /\ \A who, q : Says(who, q)' = Says(who, q)
  BY DEF Fresh, Says
<1>4. \A i \in Fresh : messages[i].of \in Prompts
  BY <1>1, FreshMessages
<1>5. \A i \in Fresh : runs'[messages[i].of].pc # "ready"
  BY <1>1, <1>2, <1>4 DEF ConversationInv, Phases
<1>6. \A i \in Fresh : messages[i].who = "assistant" => messages[i].of # p
  BY <1>1 DEF ConversationInv, Phases
<1>7. QED
  <2>1. /\ \A i \in Fresh : messages[i].of \in 1..prompts
        /\ \A i, k \in Fresh : i < k => Rank(messages[i]) < Rank(messages[k])
    BY <1>1 DEF ConversationInv
  <2>2. \A i \in Fresh : messages[i].who = "assistant" =>
          /\ runs'[messages[i].of].pc = "done"
          /\ messages[i].words = runs'[messages[i].of].length
    BY <1>1, <1>2, <1>4, <1>6 DEF ConversationInv
  <2>3. \A q \in Prompts :
          /\ clearedTo < q /\ q <= prompts /\ runs'[q].pc \in Phases \cup {"done"} => Says("user", q)
          /\ clearedTo < q /\ q <= prompts /\ runs'[q].pc = "done" => Says("assistant", q)
    BY <1>1, <1>2 DEF ConversationInv, Phases
  <2>4. QED
    BY <1>3, <1>5, <2>1, <2>2, <2>3 DEF ConversationInv

(* The agents that were running when a run moves on. *)
LEMMA AgentsOfRun ==
  ASSUME TermInv, NEW p \in Prompts, Alive(p), NoneCancelled,
         NEW a \in Agents, agents[a] = "running"
  PROVE  a \in Working(runs[p].pc)
<1>1. RunsInv /\ StatusInv
  BY DEF TermInv
<1>2. isOpen /\ p = prompts
  BY <1>1 DEF RunsInv
<1>3. PICK q \in Prompts : Alive(q) /\ a \in Working(runs[q].pc)
  BY <1>1, <1>2 DEF StatusInv
<1>4. q = p
  BY <1>1, <1>2, <1>3 DEF RunsInv
<1>5. QED
  BY <1>3, <1>4

LEMMA StreamBegins ==
  ASSUME NEW p \in Prompts, Stream(p)
  PROVE  \E r \in PromptRuns :
           /\ r.pc = "stream" /\ runs' = [runs EXCEPT ![p] = r]
           /\ shown' = [of |-> p, words |-> r.said] /\ status' = "streaming"
<1>1. PICK n \in 1 .. MaxWords :
        runs' = [runs EXCEPT ![p] = [pc |-> "stream", length |-> n, said |-> 1]]
  BY DEF Stream
<1>2. n \in Nat
  BY <1>1, TerminalAssumption
<1>3. [pc |-> "stream", length |-> n, said |-> 1] \in PromptRuns
  BY <1>2 DEF PromptRuns, Phases
<1>4. QED
  BY <1>1, <1>3 DEF Stream
LEMMA SubmitStep == ASSUME TermInv, SubmitPrompt PROVE TermInv'
<1>1. TermTyped /\ RunsInv /\ ConversationInv /\ StatusInv
  BY DEF TermInv
<1>2. /\ isOpen /\ prompts < MaxPrompts /\ prompts' = prompts + 1
      /\ runs' = [OthersCancelled EXCEPT ![prompts'].pc = "ready"]
      /\ UNCHANGED <<isOpen, status, agents, messages, shown, session, clearedTo>>
  BY DEF SubmitPrompt
<1>3. PICK n \in Prompts : n = prompts + 1 /\ n \in Nat /\ prompts \in Nat /\ prompts # n
  BY <1>1, <1>2, TerminalAssumption DEF TermTyped, Prompts
<1>4. OthersCancelled \in [Prompts -> PromptRuns]
  <2>1. \A p \in Prompts : [runs[p] EXCEPT !.pc = "cancelled"] \in PromptRuns
    BY <1>1 DEF TermTyped, PromptRuns
  <2>2. QED
    BY <1>1, <2>1 DEF TermTyped, OthersCancelled
<1>5. /\ runs' \in [Prompts -> PromptRuns] /\ runs'[n].pc = "ready"
      /\ \A p \in Prompts : p # n => runs'[p] = OthersCancelled[p]
  <2>1. [OthersCancelled[n] EXCEPT !.pc = "ready"] \in PromptRuns
    BY <1>3, <1>4 DEF PromptRuns
  <2>2. QED
    BY <1>2, <1>3, <1>4, <2>1
<1>6. \A p \in Prompts : p # n =>
        IF Alive(p) THEN runs'[p].pc = "cancelled" ELSE runs'[p] = runs[p]
  BY <1>1, <1>5 DEF OthersCancelled, TermTyped, PromptRuns
<1>7. \A p \in Prompts : Alive(p)' => p = n
  BY <1>6 DEF Alive
<1>8. \A p \in Prompts : runs'[p].pc \in Phases \cup {"done"} => p # n /\ runs'[p] = runs[p]
  BY <1>5, <1>6, LivingRuns, <1>1 DEF Phases, Alive
<1>9. TermTyped'
  <2>1. prompts' \in Nat /\ prompts' <= MaxPrompts /\ clearedTo' \in Nat /\ clearedTo' <= prompts'
    BY <1>1, <1>2, <1>3, PromptsAreNumbers DEF TermTyped
  <2>2. QED
    BY <1>1, <1>2, <1>5, <2>1 DEF TermTyped
<1>10. RunsInv'
  <2>1. \A p \in Prompts : Alive(p)' => p = prompts' /\ isOpen'
    BY <1>2, <1>3, <1>7
  <2>2. \A p \in Prompts : runs'[p].pc = "stream" => runs'[p] = runs[p]
    BY <1>8 DEF Phases
  <2>3. \A p \in Prompts : p > prompts' => runs'[p].pc = "none"
    <3>1. SUFFICES ASSUME NEW p \in Prompts, p > prompts' PROVE runs'[p].pc = "none"
      OBVIOUS
    <3>2. p # n /\ p > prompts
      BY <1>2, <1>3, <3>1, PromptsAreNumbers
    <3>3. runs[p].pc = "none" /\ ~Alive(p)
      BY <1>1, <3>2 DEF RunsInv, Alive
    <3>4. QED
      BY <1>6, <3>2, <3>3
  <2>4. QED
    BY <1>1, <1>2, <2>1, <2>2, <2>3 DEF RunsInv
<1>11. ConversationInv'
  <2>1. Fresh' = Fresh /\ \A who, q : Says(who, q)' = Says(who, q)
    BY <1>2 DEF Fresh, Says
  <2>2. \A i \in Fresh : /\ messages[i].of \in Prompts /\ messages[i].of # n
                         /\ messages[i].of \in 1..prompts'
    BY <1>1, <1>2, <1>3, FreshMessages DEF ConversationInv
  <2>3. \A i \in Fresh : runs'[messages[i].of].pc # "ready"
    BY <1>1, <1>6, <2>2 DEF ConversationInv
  <2>4. \A i \in Fresh : messages[i].who = "assistant" =>
          /\ runs'[messages[i].of].pc = "done"
          /\ messages[i].words = runs'[messages[i].of].length
    <3>1. SUFFICES ASSUME NEW i \in Fresh, messages[i].who = "assistant"
                   PROVE  /\ runs'[messages[i].of].pc = "done"
                          /\ messages[i].words = runs'[messages[i].of].length
      OBVIOUS
    <3>2. /\ runs[messages[i].of].pc = "done" /\ ~Alive(messages[i].of)
          /\ messages[i].words = runs[messages[i].of].length
      BY <1>1, <3>1 DEF ConversationInv, Alive
    <3>3. QED
      BY <1>6, <2>2, <3>2
  <2>5. \A q \in Prompts :
          /\ clearedTo < q /\ q <= prompts' /\ runs'[q].pc \in Phases \cup {"done"} => Says("user", q)
          /\ clearedTo < q /\ q <= prompts' /\ runs'[q].pc = "done" => Says("assistant", q)
    <3>1. SUFFICES ASSUME NEW q \in Prompts, clearedTo < q, q <= prompts',
                          runs'[q].pc \in Phases \cup {"done"}
                   PROVE  Says("user", q) /\ (runs'[q].pc = "done" => Says("assistant", q))
      OBVIOUS
    <3>2. q # n /\ runs'[q] = runs[q]
      BY <1>8, <3>1
    <3>3. q <= prompts
      BY <1>2, <1>3, <3>1, <3>2, PromptsAreNumbers
    <3>4. QED
      BY <1>1, <3>1, <3>2, <3>3 DEF ConversationInv
  <2>6. \A i, k \in Fresh : i < k => Rank(messages[i]) < Rank(messages[k])
    BY <1>1 DEF ConversationInv
  <2>7. QED
    BY <1>2, <2>1, <2>2, <2>3, <2>4, <2>5, <2>6 DEF ConversationInv
<1>12. StatusInv'
  <2>1. Alive(n)'
    BY <1>5 DEF Alive
  <2>2. \A p \in Prompts : runs'[p].pc \notin Phases
    BY <1>5, <1>7 DEF Alive, Phases
  <2>3. NoneCancelled' => \A a \in Agents : agents[a] # "running"
    <3>1. SUFFICES ASSUME NoneCancelled' PROVE \A a \in Agents : agents[a] # "running"
      OBVIOUS
    <3>2. \A p \in Prompts : p # n => ~Alive(p) /\ runs'[p] = runs[p]
      BY <1>6, <3>1 DEF NoneCancelled
    <3>3. ~Alive(n) /\ runs[n].pc = "none"
      BY <1>1, <1>3 DEF RunsInv, Alive
    <3>4. NoneCancelled
      BY <3>1, <3>2, <3>3 DEF NoneCancelled
    <3>5. QED
      BY <1>1, <1>2, <3>2, <3>3, <3>4 DEF StatusInv
  <2>4. QED
    BY <1>2, <1>3, <2>1, <2>2, <2>3 DEF StatusInv
<1>13. QED
  BY <1>9, <1>10, <1>11, <1>12 DEF TermInv

LEMMA RankIsOrder ==
  ASSUME NEW m \in ChatMessages
  PROVE  /\ m.of \in Nat /\ Rank(m) \in Nat
         /\ m.who = "assistant" => Rank(m) = 2 * m.of + 1
         /\ m.who = "user" => Rank(m) = 2 * m.of
         /\ Rank(m) <= 2 * m.of + 1
  BY DEF ChatMessages, Rank

(* What the first step of a run leaves of the conversation. *)
LEMMA PromptIsSaid ==
  ASSUME TermInv, NEW p \in Prompts, NEW r \in PromptRuns, runs[p].pc = "ready", r.pc \in Phases,
         runs' = [runs EXCEPT ![p] = r],
         messages' = Append(messages, Message("user", p, 1)), UNCHANGED <<prompts, clearedTo>>
  PROVE  messages' \in Seq(ChatMessages) /\ ConversationInv'
<1> DEFINE m == Message("user", p, 1)
           n == Len(messages) + 1
<1>1. TermTyped /\ RunsInv /\ ConversationInv
  BY DEF TermInv
<1>2. p \in Nat /\ p = prompts /\ p \in 1..prompts
  BY <1>1, PromptsAreNumbers DEF RunsInv, Alive
<1>3. /\ m \in ChatMessages /\ m.past = FALSE /\ m.who = "user" /\ m.of = p
  BY <1>2 DEF Message, ChatMessages
<1> HIDE DEF m
<1>4. messages' = Append(messages, m)
  BY DEF m
<1>5. /\ messages' \in Seq(ChatMessages) /\ Fresh' = Fresh \cup {n} /\ messages'[n] = m
      /\ \A i \in Fresh : i \in Nat /\ i < n /\ messages'[i] = messages[i]
  BY <1>1, <1>3, <1>4, MessageAppended
<1>6. runs'[p] = r /\ \A q \in Prompts : q # p => runs'[q] = runs[q]
  BY <1>1 DEF TermTyped
<1>7. \A i \in Fresh : /\ messages[i].of \in Prompts /\ messages[i].of \in Nat
                       /\ messages[i].of # p /\ messages[i].of <= prompts
                       /\ messages[i] \in ChatMessages
  BY <1>1, FreshMessages DEF ConversationInv
<1>8. \A i \in Fresh' : messages'[i].of \in 1..prompts'
  BY <1>1, <1>2, <1>3, <1>5 DEF ConversationInv
<1>9. \A i \in Fresh' : runs'[messages'[i].of].pc # "ready"
  <2>1. ASSUME NEW i \in Fresh PROVE runs'[messages'[i].of].pc # "ready"
    <3>1. runs[messages[i].of].pc # "ready"
      BY <1>1 DEF ConversationInv
    <3>2. runs'[messages[i].of] = runs[messages[i].of]
      BY <1>6, <1>7
    <3>3. QED
      BY <1>5, <3>1, <3>2
  <2>2. runs'[messages'[n].of].pc # "ready"
    BY <1>3, <1>5, <1>6 DEF Phases
  <2>3. QED
    BY <1>5, <2>1, <2>2
<1>10. \A i, k \in Fresh' : i < k => Rank(messages'[i]) < Rank(messages'[k])
  <2>1. SUFFICES ASSUME NEW i \in Fresh', NEW k \in Fresh', i < k
                 PROVE  Rank(messages'[i]) < Rank(messages'[k])
    OBVIOUS
  <2>2. n \in Nat
    BY <1>1 DEF TermTyped
  <2>3. i \in Fresh
    BY <1>5, <2>1, <2>2
  <2>4. CASE k \in Fresh
    BY <1>1, <1>5, <2>1, <2>3, <2>4 DEF ConversationInv
  <2>5. CASE k = n
    <3>1. Rank(messages[i]) <= 2 * messages[i].of + 1 /\ Rank(messages[i]) \in Nat
      BY <1>7, <2>3, RankIsOrder
    <3>2. messages[i].of \in Nat /\ messages[i].of < p
      BY <1>2, <1>7, <2>3
    <3>3. Rank(m) = 2 * p
      BY <1>3, RankIsOrder
    <3>4. Rank(messages[i]) < Rank(m)
      BY <1>2, <3>1, <3>2, <3>3
    <3>5. messages'[i] = messages[i] /\ messages'[k] = m
      BY <1>5, <2>3, <2>5
    <3>6. QED
      BY <3>4, <3>5
  <2>6. QED
    BY <1>5, <2>4, <2>5
<1>11. \A i \in Fresh' : messages'[i].who = "assistant" =>
         /\ runs'[messages'[i].of].pc = "done"
         /\ messages'[i].words = runs'[messages'[i].of].length
  <2>1. messages'[n].who = "user"
    BY <1>3, <1>5
  <2>2. \A i \in Fresh : messages[i].who = "assistant" =>
          /\ runs'[messages[i].of].pc = "done"
          /\ messages[i].words = runs'[messages[i].of].length
    BY <1>1, <1>6, <1>7 DEF ConversationInv
  <2>3. QED
    BY <1>5, <2>1, <2>2
<1>12. \A q \in Prompts :
         /\ clearedTo' < q /\ q <= prompts' /\ runs'[q].pc \in Phases \cup {"done"} => Says("user", q)'
         /\ clearedTo' < q /\ q <= prompts' /\ runs'[q].pc = "done" => Says("assistant", q)'
  <2>1. \A who, q : Says(who, q) => Says(who, q)'
    BY <1>5 DEF Says
  <2>2. Says("user", p)'
    BY <1>3, <1>5 DEF Says
  <2>3. QED
    BY <1>1, <1>6, <2>1, <2>2 DEF ConversationInv, Phases
<1>13. QED
  BY <1>5, <1>8, <1>9, <1>10, <1>11, <1>12 DEF ConversationInv

LEMMA StartStep ==
  ASSUME TermInv, NEW p \in Prompts, StartRun(p)
  PROVE  TermInv'
<1>1. TermTyped
  BY DEF TermInv
<1>2. /\ runs[p].pc = "ready" /\ Alive(p)
      /\ messages' = Append(messages, Message("user", p, 1))
      /\ UNCHANGED <<isOpen, prompts, session, clearedTo>>
  BY DEF StartRun, Alive
<1>3. NoneCancelled => \A a \in Agents : agents[a] # "running"
  BY <1>2, AgentsOfRun DEF Working
<1>4. agents \in [Agents -> {"idle", "running", "success", "failed"}]
  BY <1>1 DEF TermTyped
<1>5. PICK r \in PromptRuns :
        /\ r.pc \in Phases /\ runs' = [runs EXCEPT ![p] = r]
        /\ r.pc = "stream" => shown' = [of |-> p, words |-> r.said]
        /\ status' = IF r.pc = "stream" THEN "streaming" ELSE "planning"
        /\ agents' \in [Agents -> {"idle", "running", "success", "failed"}]
        /\ NoneCancelled => \A a \in Agents : agents'[a] = "running" => a \in Working(r.pc)
  <2>1. CASE /\ status' = "planning"
             /\ agents' = Became(agents, [orchestrator |-> "running", planner |-> "running"])
             /\ runs' = [runs EXCEPT ![p].pc = "planning"]
    <3> DEFINE r == [runs[p] EXCEPT !.pc = "planning"]
    <3>1. r \in PromptRuns /\ r.pc = "planning" /\ runs' = [runs EXCEPT ![p] = r]
      BY <1>1, <2>1 DEF TermTyped, PromptRuns, Phases
    <3>2. agents' \in [Agents -> {"idle", "running", "success", "failed"}]
      BY <1>4, <2>1 DEF Became
    <3>3. NoneCancelled => \A a \in Agents : agents'[a] = "running" => a \in Working("planning")
      BY <1>3, <2>1 DEF Became, Working
    <3>4. QED
      BY <2>1, <3>1, <3>2, <3>3 DEF Phases
  <2>2. CASE /\ agents' \in {Became(agents, [coder |-> "success"]),
                             Captured(Became(agents, [coder |-> "running"]))}
             /\ Stream(p)
    <3>1. PICK r \in PromptRuns :
            /\ r.pc = "stream" /\ runs' = [runs EXCEPT ![p] = r]
            /\ shown' = [of |-> p, words |-> r.said] /\ status' = "streaming"
      BY <2>2, StreamBegins
    <3>2. agents' \in [Agents -> {"idle", "running", "success", "failed"}]
      BY <1>4, <2>2 DEF Became, Captured
    <3>3. NoneCancelled => \A a \in Agents : agents'[a] # "running"
      BY <1>3, <1>4, <2>2 DEF Became, Captured
    <3>4. QED
      BY <3>1, <3>2, <3>3 DEF Phases
  <2>3. QED
    BY <2>1, <2>2 DEF StartRun
<1>6. messages' \in Seq(ChatMessages) /\ ConversationInv'
  BY <1>2, <1>5, PromptIsSaid
<1>7. QED
  BY <1>2, <1>5, <1>6, RunMoves
LEMMA SwarmStep ==
  ASSUME TermInv, NEW p \in Prompts, SwarmExecutes(p) \/ SwarmReviews(p) \/ SwarmReports(p)
  PROVE  TermInv'
<1> DEFINE States == {"idle", "running", "success", "failed"}
<1>1. TermTyped /\ RunsInv /\ StatusInv
  BY DEF TermInv
<1>2. /\ isOpen /\ runs[p].pc \in {"planning", "coding", "reviewing"} /\ Alive(p)
      /\ UNCHANGED <<isOpen, messages, prompts, session, clearedTo>>
  BY DEF SwarmExecutes, SwarmReviews, SwarmReports, Alive
<1>3. NoneCancelled => \A a \in Agents : agents[a] = "running" => a \in Working(runs[p].pc)
  BY <1>2, AgentsOfRun
<1>4. agents \in [Agents -> States]
  BY <1>1 DEF TermTyped
<1>5. status = "planning"
  BY <1>1, <1>2 DEF StatusInv, Phases
<1>6. PICK r \in PromptRuns :
        /\ r.pc \in Phases /\ runs' = [runs EXCEPT ![p] = r]
        /\ r.pc = "stream" => shown' = [of |-> p, words |-> r.said]
        /\ status' = IF r.pc = "stream" THEN "streaming" ELSE "planning"
        /\ agents' \in [Agents -> States]
        /\ NoneCancelled => \A a \in Agents : agents'[a] = "running" => a \in Working(r.pc)
  <2>1. CASE /\ runs[p].pc = "planning" /\ status' = status
             /\ agents' = Became(agents, [planner |-> "success", coder |-> "running"])
             /\ runs' = [runs EXCEPT ![p].pc = "coding"]
    <3> DEFINE r == [runs[p] EXCEPT !.pc = "coding"]
    <3>1. r \in PromptRuns /\ r.pc = "coding" /\ runs' = [runs EXCEPT ![p] = r]
      BY <1>1, <2>1 DEF TermTyped, PromptRuns, Phases
    <3>2. agents' \in [Agents -> States]
      BY <1>4, <2>1 DEF Became
    <3>3. NoneCancelled => \A a \in Agents : agents'[a] = "running" => a \in Working("coding")
      BY <1>3, <2>1 DEF Became, Working
    <3>4. QED
      BY <1>5, <2>1, <3>1, <3>2, <3>3 DEF Phases
  <2>2. CASE /\ runs[p].pc = "coding" /\ status' = status
             /\ agents' = Became(agents, [coder |-> "success", critic |-> "running"])
             /\ runs' = [runs EXCEPT ![p].pc = "reviewing"]
    <3> DEFINE r == [runs[p] EXCEPT !.pc = "reviewing"]
    <3>1. r \in PromptRuns /\ r.pc = "reviewing" /\ runs' = [runs EXCEPT ![p] = r]
      BY <1>1, <2>2 DEF TermTyped, PromptRuns, Phases
    <3>2. agents' \in [Agents -> States]
      BY <1>4, <2>2 DEF Became
    <3>3. NoneCancelled => \A a \in Agents : agents'[a] = "running" => a \in Working("reviewing")
      BY <1>3, <2>2 DEF Became, Working
    <3>4. QED
      BY <1>5, <2>2, <3>1, <3>2, <3>3 DEF Phases
  <2>3. CASE /\ Stream(p) /\ agents' \in [Agents -> States]
             /\ NoneCancelled => \A a \in Agents : agents'[a] # "running"
    <3>1. PICK r \in PromptRuns :
            /\ r.pc = "stream" /\ runs' = [runs EXCEPT ![p] = r]
            /\ shown' = [of |-> p, words |-> r.said] /\ status' = "streaming"
      BY <2>3, StreamBegins
    <3>2. QED
      BY <2>3, <3>1 DEF Phases
  <2>4. CASE SwarmExecutes(p)
    <3>1. CASE agents' = Captured(agents) /\ Stream(p)
      <4>1. agents' \in [Agents -> States] /\ \A a \in Agents : agents'[a] # "running"
        BY <1>4, <3>1 DEF Captured
      <4>2. QED
        BY <2>3, <3>1, <4>1
    <3>2. QED
      BY <2>1, <2>4, <3>1 DEF SwarmExecutes
  <2>5. CASE SwarmReviews(p)
    BY <2>2, <2>5 DEF SwarmReviews
  <2>6. CASE SwarmReports(p)
    <3>1. /\ runs[p].pc = "reviewing" /\ Stream(p)
          /\ agents' = Became(agents, [critic |-> "success", orchestrator |-> "success"])
      BY <2>6 DEF SwarmReports
    <3>2. agents' \in [Agents -> States]
      BY <1>4, <3>1 DEF Became
    <3>3. NoneCancelled => \A a \in Agents : agents'[a] # "running"
      BY <1>3, <3>1 DEF Became, Working
    <3>4. QED
      BY <2>3, <3>1, <3>2, <3>3
  <2>7. QED
    BY <2>4, <2>5, <2>6
<1>7. ConversationInv'
  BY <1>2, <1>6, ConversationGoesOn DEF Phases
<1>8. messages' \in Seq(ChatMessages)
  BY <1>1, <1>2 DEF TermTyped
<1>9. QED
  BY <1>2, <1>6, <1>7, <1>8, RunMoves

LEMMA WordStep ==
  ASSUME TermInv, NEW p \in Prompts, NextWord(p)
  PROVE  TermInv'
<1> DEFINE r == [runs[p] EXCEPT !.said = @ + 1]
<1>1. TermTyped /\ StatusInv
  BY DEF TermInv
<1>2. /\ isOpen /\ runs[p].pc = "stream" /\ Alive(p)
      /\ runs' = [runs EXCEPT ![p].said = @ + 1]
      /\ shown' = [of |-> p, words |-> runs'[p].said]
      /\ UNCHANGED <<isOpen, status, agents, messages, prompts, session, clearedTo>>
  BY DEF NextWord, Alive
<1>3. /\ r \in PromptRuns /\ r.pc = "stream"
      /\ runs' = [runs EXCEPT ![p] = r] /\ runs'[p] = r
  <2>1. runs[p] \in PromptRuns /\ runs[p].said + 1 \in Nat
    BY <1>1, LivingRuns
  <2>2. r \in PromptRuns /\ r.pc = "stream"
    BY <1>2, <2>1 DEF PromptRuns
  <2>3. QED
    BY <1>1, <1>2, <2>2 DEF TermTyped
<1> HIDE DEF r
<1>4. status' = "streaming"
  BY <1>1, <1>2 DEF StatusInv, Phases
<1>5. /\ agents' \in [Agents -> {"idle", "running", "success", "failed"}]
      /\ messages' \in Seq(ChatMessages)
  BY <1>1, <1>2 DEF TermTyped
<1>6. NoneCancelled => \A a \in Agents : agents'[a] = "running" => a \in Working(r.pc)
  BY <1>2, <1>3, AgentsOfRun
<1>7. ConversationInv'
  BY <1>2, <1>3, ConversationGoesOn DEF Phases
<1>8. QED
  BY <1>2, <1>3, <1>4, <1>5, <1>6, <1>7, RunMoves DEF Phases
(* What the last step of a run leaves of the conversation. *)
LEMMA ReplyIsSaid ==
  ASSUME TermInv, NEW p \in Prompts, EndRun(p)
  PROVE  messages' \in Seq(ChatMessages) /\ ConversationInv'
<1> DEFINE m == Message("assistant", p, runs[p].said)
           n == Len(messages) + 1
<1>1. TermTyped /\ RunsInv /\ ConversationInv
  BY DEF TermInv
<1>2. /\ runs[p].pc = "stream" /\ runs[p].said = runs[p].length
      /\ messages' = IF shown = NothingShown THEN messages
                     ELSE Append(messages, Message("assistant", shown.of, shown.words))
      /\ runs' = [runs EXCEPT ![p].pc = "done"]
      /\ UNCHANGED <<prompts, clearedTo>>
  BY DEF EndRun
<1>3. p \in Nat /\ p = prompts /\ p \in 1..prompts
  BY <1>1, <1>2, PromptsAreNumbers DEF RunsInv, Alive
<1>4. /\ runs'[p].pc = "done" /\ runs'[p].length = runs[p].said
      /\ \A q \in Prompts : q # p => runs'[q] = runs[q]
  BY <1>1, <1>2 DEF TermTyped, PromptRuns
<1>5. \A i \in Fresh : /\ messages[i] \in ChatMessages /\ messages[i].of \in Prompts
                       /\ messages[i].of \in Nat /\ messages[i].of <= p
                       /\ messages[i].of = p => messages[i].who = "user"
  BY <1>1, <1>2, <1>3, FreshMessages DEF ConversationInv
<1>6. \A i \in Fresh : runs'[messages[i].of].pc # "ready"
  BY <1>1, <1>4, <1>5 DEF ConversationInv
<1>7. \A i \in Fresh : messages[i].who = "assistant" =>
        /\ runs'[messages[i].of].pc = "done"
        /\ messages[i].words = runs'[messages[i].of].length
  BY <1>1, <1>4, <1>5 DEF ConversationInv
<1>8. \A q \in Prompts : clearedTo < q /\ q <= prompts =>
        /\ runs'[q].pc \in Phases \cup {"done"} => Says("user", q)
        /\ runs'[q].pc = "done" /\ q # p => Says("assistant", q)
  BY <1>1, <1>2, <1>4 DEF ConversationInv, Phases
<1>9. CASE shown = NothingShown
  <2>1. messages' = messages /\ Fresh' = Fresh /\ \A who, q : Says(who, q)' = Says(who, q)
    BY <1>2, <1>9 DEF Fresh, Says
  <2>2. p <= clearedTo
    <3>1. p # 0
      BY <1>3
    <3>2. NothingShown.of = 0 /\ [of |-> p, words |-> runs[p].said].of = p
      BY DEF NothingShown
    <3>3. shown # [of |-> p, words |-> runs[p].said]
      BY <1>9, <3>1, <3>2
    <3>4. QED
      BY <1>1, <1>2, <3>3 DEF RunsInv
  <2>3. \A q \in Prompts :
         /\ clearedTo < q /\ q <= prompts /\ runs'[q].pc \in Phases \cup {"done"} => Says("user", q)
         /\ clearedTo < q /\ q <= prompts /\ runs'[q].pc = "done" => Says("assistant", q)
    <3>1. clearedTo \in Nat /\ ~(clearedTo < p)
      BY <1>1, <1>3, <2>2 DEF TermTyped
    <3>2. QED
      BY <1>8, <3>1
  <2>4. messages' \in Seq(ChatMessages)
    BY <1>1, <2>1 DEF TermTyped
  <2>5. QED
    BY <1>1, <1>2, <1>6, <1>7, <2>1, <2>3, <2>4 DEF ConversationInv
<1>10. CASE shown # NothingShown
  <2>1. shown = [of |-> p, words |-> runs[p].said] /\ messages' = Append(messages, m)
    BY <1>1, <1>2, <1>10 DEF RunsInv
  <2>2. /\ m \in ChatMessages /\ m.past = FALSE /\ m.who = "assistant" /\ m.of = p
        /\ m.words = runs[p].said
    <3>1. runs[p].said \in Nat
      BY <1>1, LivingRuns
    <3>2. QED
      BY <1>3, <3>1 DEF Message, ChatMessages
  <2> HIDE DEF m
  <2>3. /\ messages' \in Seq(ChatMessages) /\ Fresh' = Fresh \cup {n} /\ messages'[n] = m
        /\ \A i \in Fresh : i \in Nat /\ i < n /\ messages'[i] = messages[i]
    BY <1>1, <2>1, <2>2, MessageAppended
  <2>4. \A i \in Fresh' : messages'[i].of \in 1..prompts'
    BY <1>1, <1>2, <1>3, <2>2, <2>3 DEF ConversationInv
  <2>5. \A i \in Fresh' : runs'[messages'[i].of].pc # "ready"
    <3>1. runs'[messages'[n].of].pc # "ready"
      BY <1>4, <2>2, <2>3
    <3>2. QED
      BY <1>6, <2>3, <3>1
  <2>6. \A i, k \in Fresh' : i < k => Rank(messages'[i]) < Rank(messages'[k])
    <3>1. SUFFICES ASSUME NEW i \in Fresh', NEW k \in Fresh', i < k
                   PROVE  Rank(messages'[i]) < Rank(messages'[k])
      OBVIOUS
    <3>2. n \in Nat
      BY <1>1 DEF TermTyped
    <3>3. i \in Fresh
      BY <2>3, <3>1, <3>2
    <3>4. CASE k \in Fresh
      BY <1>1, <2>3, <3>1, <3>3, <3>4 DEF ConversationInv
    <3>5. CASE k = n
      <4>1. /\ messages[i] \in ChatMessages /\ messages[i].of \in Nat /\ messages[i].of <= p
            /\ messages[i].of = p => messages[i].who = "user"
        BY <1>5, <3>3
      <4>2. Rank(m) = 2 * p + 1
        BY <2>2, RankIsOrder
      <4>3. CASE messages[i].of = p
        <5>1. Rank(messages[i]) = 2 * p
          BY <4>1, <4>3, RankIsOrder
        <5>2. Rank(messages[i]) < Rank(m)
          BY <1>3, <4>2, <5>1
        <5>3. QED
          BY <2>3, <3>3, <3>5, <5>2
      <4>4. CASE messages[i].of # p
        <5>1. Rank(messages[i]) <= 2 * messages[i].of + 1 /\ Rank(messages[i]) \in Nat
          BY <4>1, RankIsOrder
        <5>2. Rank(messages[i]) < Rank(m)
          BY <1>3, <4>1, <4>2, <4>4, <5>1
        <5>3. QED
          BY <2>3, <3>3, <3>5, <5>2
      <4>5. QED
        BY <4>3, <4>4
    <3>6. QED
      BY <2>3, <3>4, <3>5
  <2>7. \A i \in Fresh' : messages'[i].who = "assistant" =>
          /\ runs'[messages'[i].of].pc = "done"
          /\ messages'[i].words = runs'[messages'[i].of].length
    <3>1. runs'[m.of].pc = "done" /\ m.words = runs'[m.of].length
      BY <1>4, <2>2
    <3>2. QED
      BY <1>7, <2>3, <3>1
  <2>8. \A q \in Prompts :
         /\ clearedTo < q /\ q <= prompts /\ runs'[q].pc \in Phases \cup {"done"} => Says("user", q)'
         /\ clearedTo < q /\ q <= prompts /\ runs'[q].pc = "done" => Says("assistant", q)'
    <3>1. \A who, q : Says(who, q) => Says(who, q)'
      BY <2>3 DEF Says
    <3>2. Says("assistant", p)'
      BY <2>2, <2>3 DEF Says
    <3>3. QED
      BY <1>8, <3>1, <3>2
  <2>9. QED
    BY <1>2, <2>3, <2>4, <2>5, <2>6, <2>7, <2>8 DEF ConversationInv
<1>11. QED
  BY <1>9, <1>10

LEMMA EndStep ==
  ASSUME TermInv, NEW p \in Prompts, EndRun(p)
  PROVE  TermInv'
<1>1. TermTyped /\ RunsInv /\ StatusInv
  BY DEF TermInv
<1>2. /\ isOpen /\ runs[p].pc = "stream" /\ Alive(p) /\ status' = "idle"
      /\ runs' = [runs EXCEPT ![p].pc = "done"]
      /\ UNCHANGED <<isOpen, agents, prompts, session, clearedTo>>
  BY DEF EndRun, Alive
<1>3. p = prompts
  BY <1>1, <1>2 DEF RunsInv
<1>4. /\ runs' \in [Prompts -> PromptRuns] /\ runs'[p].pc = "done"
      /\ \A q \in Prompts : q # p => runs'[q] = runs[q]
  <2>1. [runs[p] EXCEPT !.pc = "done"] \in PromptRuns
    BY <1>1 DEF TermTyped, PromptRuns
  <2>2. QED
    BY <1>1, <1>2, <2>1 DEF TermTyped, PromptRuns
<1>5. messages' \in Seq(ChatMessages) /\ ConversationInv'
  BY ReplyIsSaid
<1>6. TermTyped'
  BY <1>1, <1>2, <1>4, <1>5 DEF TermTyped
<1>7. \A q \in Prompts : ~Alive(q)'
  BY <1>1, <1>3, <1>4 DEF RunsInv, Alive
<1>8. RunsInv'
  <2>1. \A q \in Prompts : q > prompts' => runs'[q].pc = "none"
    BY <1>1, <1>2, <1>3, <1>4, PromptsAreNumbers DEF RunsInv
  <2>2. \A q \in Prompts : runs'[q].pc # "stream"
    BY <1>7 DEF Alive
  <2>3. QED
    BY <1>7, <2>1, <2>2 DEF RunsInv
<1>9. StatusInv'
  <2>1. \A q \in Prompts : runs'[q].pc \notin Phases
    BY <1>7 DEF Alive, Phases
  <2>2. NoneCancelled' => NoneCancelled
    BY <1>2, <1>4 DEF NoneCancelled
  <2>3. NoneCancelled => \A a \in Agents : agents[a] # "running"
    BY <1>2, AgentsOfRun DEF Working
  <2>4. QED
    BY <1>2, <2>1, <2>2, <2>3 DEF StatusInv
<1>10. QED
  BY <1>5, <1>6, <1>8, <1>9 DEF TermInv
LEMMA SavedIsTyped == ASSUME TermTyped PROVE Saved.messages \in Seq(ChatMessages)
<1> DEFINE first == IF Len(messages) > Kept THEN Len(messages) - Kept + 1 ELSE 1
<1>1. messages \in Seq(ChatMessages) /\ Len(messages) \in Nat /\ Kept \in Nat /\ Kept > 0
  BY TerminalAssumption DEF TermTyped
<1>2. first \in 1..(Len(messages) + 1)
  BY <1>1
<1> HIDE DEF first
<1>3. SubSeq(messages, first, Len(messages)) \in Seq(ChatMessages)
  BY <1>1, <1>2, SubSeqProperties
<1>4. QED
  BY <1>3 DEF Saved, first

(* What is neither a run nor a message leaves the invariant alone. *)
LEMMA PreferencesStep ==
  ASSUME TermInv, UNCHANGED <<isOpen, status, agents, messages, shown, runs, prompts, clearedTo>>,
         session' \in {session, NoSession, Saved}
  PROVE  TermInv'
<1>1. TermTyped /\ RunsInv /\ ConversationInv /\ StatusInv
  BY DEF TermInv
<1>2. Saved.messages \in Seq(ChatMessages)
  BY <1>1, SavedIsTyped
<1>3. session' # NoSession => session'.messages \in Seq(ChatMessages)
  BY <1>1, <1>2 DEF TermTyped
<1>4. TermTyped'
  BY <1>1, <1>3 DEF TermTyped
<1>5. RunsInv'
  BY <1>1 DEF RunsInv, Alive
<1>6. Fresh' = Fresh /\ \A who, q : Says(who, q)' = Says(who, q)
  BY DEF Fresh, Says
<1>7. ConversationInv'
  BY <1>1, <1>6 DEF ConversationInv
<1>8. StatusInv'
  BY <1>1 DEF StatusInv, Alive, NoneCancelled
<1>9. QED
  BY <1>4, <1>5, <1>7, <1>8 DEF TermInv

LEMMA LoadStep == ASSUME TermInv, LoadSession PROVE TermInv'
<1>1. TermTyped /\ RunsInv /\ ConversationInv /\ StatusInv
  BY DEF TermInv
<1> DEFINE old == session.messages
           past == [i \in DOMAIN old |-> [old[i] EXCEPT !.past = TRUE]]
<1>2. /\ session # NoSession /\ messages' = messages \o past
      /\ UNCHANGED <<isOpen, status, agents, shown, runs, prompts, session, clearedTo>>
  BY DEF LoadSession
<1>3. old \in Seq(ChatMessages) /\ Len(old) \in Nat /\ DOMAIN old = 1..Len(old)
  BY <1>1, <1>2 DEF TermTyped
<1>4. \A i \in 1..Len(old) : /\ past[i] \in ChatMessages
                            /\ past[i].past = TRUE
  <2>1. SUFFICES ASSUME NEW i \in 1..Len(old)
                 PROVE  past[i] \in ChatMessages /\ past[i].past = TRUE
    OBVIOUS
  <2>2. old[i] \in ChatMessages /\ past[i] = [old[i] EXCEPT !.past = TRUE]
    BY <1>3
  <2> HIDE DEF past, old
  <2>3. QED
    BY <2>2 DEF ChatMessages
<1>p. past = [i \in 1..Len(old) |-> past[i]]
  BY <1>3
<1> HIDE DEF past, old
<1>5. past \in Seq(ChatMessages) /\ Len(past) = Len(old)
  <2>1. past \in [1..Len(old) -> ChatMessages]
    BY <1>4, <1>p
  <2>2. QED
    BY <1>3, <2>1
<1>6. messages \in Seq(ChatMessages) /\ Len(messages) \in Nat
  BY <1>1 DEF TermTyped
<1>7. /\ messages' \in Seq(ChatMessages) /\ Len(messages') = Len(messages) + Len(past)
      /\ \A i \in 1..Len(messages) : messages'[i] = messages[i]
      /\ \A i \in (Len(messages) + 1)..(Len(messages) + Len(past)) :
            messages'[i] = past[i - Len(messages)]
  <2>1. /\ messages \o past \in Seq(ChatMessages)
        /\ Len(messages \o past) = Len(messages) + Len(past)
        /\ \A i \in 1..(Len(messages) + Len(past)) :
             (messages \o past)[i] = IF i <= Len(messages) THEN messages[i] ELSE past[i - Len(messages)]
    BY <1>5, <1>6, ConcatProperties
  <2>2. messages' = messages \o past
    BY <1>2 DEF past, old
  <2>3. Len(past) \in Nat
    BY <1>5
  <2>4. QED
    BY <1>6, <2>1, <2>2, <2>3
<1>8. /\ DOMAIN messages = 1..Len(messages)
      /\ DOMAIN messages' = 1..(Len(messages) + Len(past))
  BY <1>6, <1>7
<1>9. \A i \in (Len(messages) + 1)..(Len(messages) + Len(past)) : messages'[i].past
  <2>1. \A i \in (Len(messages) + 1)..(Len(messages) + Len(past)) :
          i - Len(messages) \in 1..Len(old)
    BY <1>3, <1>5, <1>6
  <2>2. QED
    BY <1>4, <1>7, <2>1
<1>10. Fresh' = Fresh
  <2>1. \A i : i \in DOMAIN messages' <=>
               \/ i \in DOMAIN messages
               \/ i \in (Len(messages) + 1)..(Len(messages) + Len(past))
    BY <1>3, <1>5, <1>6, <1>8
  <2>2. QED
    BY <1>7, <1>8, <1>9, <2>1 DEF Fresh
<1>11. \A i \in Fresh : messages'[i] = messages[i]
  BY <1>7, <1>8 DEF Fresh
<1>12. \A who, q : Says(who, q)' = Says(who, q)
  BY <1>10, <1>11 DEF Says
<1>13. TermTyped'
  BY <1>1, <1>2, <1>7 DEF TermTyped
<1>14. RunsInv'
  BY <1>1, <1>2 DEF RunsInv, Alive
<1>15. ConversationInv'
  BY <1>1, <1>2, <1>10, <1>11, <1>12 DEF ConversationInv
<1>16. StatusInv'
  BY <1>1, <1>2 DEF StatusInv, Alive, NoneCancelled
<1>17. QED
  BY <1>13, <1>14, <1>15, <1>16 DEF TermInv

LEMMA ClearStep ==
  ASSUME TermInv, NEW b \in BOOLEAN, ClearChat(b)
  PROVE  TermInv'
<1>1. TermTyped /\ RunsInv /\ StatusInv
  BY DEF TermInv
<1>2. /\ messages' = <<>> /\ clearedTo' = prompts
      /\ shown' \in {shown, NothingShown}
      /\ UNCHANGED <<isOpen, status, agents, runs, prompts, session>>
  BY DEF ClearChat
<1>3. TermTyped'
  <2>1. messages' \in Seq(ChatMessages) /\ prompts \in Nat /\ clearedTo' <= prompts
    BY <1>1, <1>2 DEF TermTyped
  <2>2. QED
    BY <1>1, <1>2, <2>1 DEF TermTyped
<1>4. Fresh' = {}
  BY <1>2 DEF Fresh
<1>5. ConversationInv'
  <2>1. \A q \in Prompts : ~(clearedTo' < q /\ q <= prompts')
    BY <1>1, <1>2, PromptsAreNumbers DEF TermTyped
  <2>2. QED
    BY <1>4, <2>1 DEF ConversationInv
<1>6. RunsInv'
  <2>1. \A q \in Prompts : runs[q].pc = "stream" =>
          /\ q <= prompts
          /\ shown = [of |-> q, words |-> runs[q].said] \/ shown = NothingShown
    BY <1>1, PromptsAreNumbers DEF RunsInv, Alive
  <2>2. \A q \in Prompts : runs'[q].pc = "stream" =>
          \/ shown' = [of |-> q, words |-> runs'[q].said]
          \/ shown' = NothingShown /\ q <= clearedTo'
    BY <1>2, <2>1
  <2>3. QED
    BY <1>1, <1>2, <2>2 DEF RunsInv, Alive
<1>7. StatusInv'
  BY <1>1, <1>2 DEF StatusInv, Alive, NoneCancelled
<1>8. QED
  BY <1>3, <1>5, <1>6, <1>7 DEF TermInv

LEMMA OpenStep == ASSUME TermInv, OpenTerminal PROVE TermInv'
<1>1. TermTyped /\ RunsInv
  BY DEF TermInv
<1>2. /\ ~isOpen /\ isOpen' = TRUE /\ messages' = <<>> /\ clearedTo' = prompts
      /\ status' = "idle" /\ agents' = [a \in Agents |-> "idle"]
      /\ UNCHANGED <<runs, prompts, session>>
  BY DEF OpenTerminal
<1>3. \A p \in Prompts : ~Alive(p)' /\ runs'[p].pc # "stream" /\ runs'[p].pc \notin Phases
  BY <1>1, <1>2 DEF RunsInv, Alive, Phases
<1>4. TermTyped'
  <2>1. messages' \in Seq(ChatMessages) /\ prompts \in Nat /\ clearedTo' <= prompts
    BY <1>1, <1>2 DEF TermTyped
  <2>2. agents' \in [Agents -> {"idle", "running", "success", "failed"}]
    BY <1>2
  <2>3. isOpen' \in BOOLEAN
    BY <1>2, Zenon
  <2>4. QED
    BY <1>1, <1>2, <2>1, <2>2, <2>3 DEF TermTyped
<1>5. RunsInv'
  BY <1>1, <1>2, <1>3 DEF RunsInv
<1>6. ConversationInv'
  <2>1. Fresh' = {}
    BY <1>2 DEF Fresh
  <2>2. \A q \in Prompts : ~(clearedTo' < q /\ q <= prompts')
    BY <1>1, <1>2, PromptsAreNumbers DEF TermTyped
  <2>3. QED
    BY <2>1, <2>2 DEF ConversationInv
<1>7. StatusInv'
  BY <1>2, <1>3 DEF StatusInv
<1>8. QED
  BY <1>4, <1>5, <1>6, <1>7 DEF TermInv

LEMMA CloseStep == ASSUME TermInv, CloseTerminal PROVE TermInv'
<1>1. TermTyped /\ RunsInv /\ ConversationInv
  BY DEF TermInv
<1> DEFINE ended == [p \in Prompts |-> IF Alive(p) THEN [runs[p] EXCEPT !.pc = "gone"] ELSE runs[p]]
<1>2. /\ isOpen' = FALSE /\ runs' = ended /\ session' \in {session, Saved, NoSession}
      /\ UNCHANGED <<status, agents, messages, shown, prompts, clearedTo>>
  BY DEF CloseTerminal
<1>3. /\ runs' \in [Prompts -> PromptRuns]
      /\ \A p \in Prompts : IF Alive(p) THEN runs'[p].pc = "gone" ELSE runs'[p] = runs[p]
  <2>1. \A p \in Prompts : [runs[p] EXCEPT !.pc = "gone"] \in PromptRuns
    BY <1>1 DEF TermTyped, PromptRuns
  <2>2. \A p \in Prompts : [runs[p] EXCEPT !.pc = "gone"].pc = "gone"
    BY <1>1 DEF TermTyped, PromptRuns
  <2>3. QED
    BY <1>1, <1>2, <2>1, <2>2 DEF TermTyped
<1>4. \A p \in Prompts : ~Alive(p)' /\ runs'[p].pc # "ready" /\ runs'[p].pc \notin Phases
  BY <1>3 DEF Alive, Phases
<1>5. \A p \in Prompts : runs'[p].pc = "done" \/ runs[p].pc = "done" => runs'[p] = runs[p]
  BY <1>3 DEF Alive
<1>6. session' # NoSession => session'.messages \in Seq(ChatMessages)
  BY <1>1, <1>2, SavedIsTyped DEF TermTyped
<1>7. TermTyped'
  <2>1. isOpen' \in BOOLEAN
    BY <1>2, Zenon
  <2>2. QED
    BY <1>1, <1>2, <1>3, <1>6, <2>1 DEF TermTyped
<1>8. RunsInv'
  <2>1. \A p \in Prompts : p > prompts' => runs'[p].pc = "none"
    <3>1. SUFFICES ASSUME NEW p \in Prompts, p > prompts PROVE runs'[p].pc = "none"
      BY <1>2
    <3>2. runs[p].pc = "none" /\ ~Alive(p)
      BY <1>1, <3>1 DEF RunsInv, Alive
    <3>3. QED
      BY <1>3, <3>2
  <2>2. \A p \in Prompts : runs'[p].pc # "stream"
    BY <1>4 DEF Phases
  <2>3. QED
    BY <1>4, <2>1, <2>2 DEF RunsInv
<1>9. ConversationInv'
  <2>1. Fresh' = Fresh /\ \A who, q : Says(who, q)' = Says(who, q)
    BY <1>2 DEF Fresh, Says
  <2>2. \A i \in Fresh : messages[i].of \in Prompts
    BY <1>1, FreshMessages
  <2>3. \A i \in Fresh : runs'[messages[i].of].pc # "ready"
    BY <1>4, <2>2
  <2>4. \A i \in Fresh : messages[i].who = "assistant" =>
          /\ runs'[messages[i].of].pc = "done"
          /\ messages[i].words = runs'[messages[i].of].length
    BY <1>1, <1>5, <2>2 DEF ConversationInv
  <2>5. \A q \in Prompts :
          /\ clearedTo < q /\ q <= prompts /\ runs'[q].pc \in Phases \cup {"done"} => Says("user", q)
          /\ clearedTo < q /\ q <= prompts /\ runs'[q].pc = "done" => Says("assistant", q)
    BY <1>1, <1>4, <1>5 DEF ConversationInv
  <2>6. /\ \A i \in Fresh : messages[i].of \in 1..prompts
        /\ \A i, k \in Fresh : i < k => Rank(messages[i]) < Rank(messages[k])
    BY <1>1 DEF ConversationInv
  <2>7. QED
    BY <1>2, <2>1, <2>3, <2>4, <2>5, <2>6 DEF ConversationInv
<1>10. StatusInv'
  BY <1>2 DEF StatusInv
<1>11. QED
  BY <1>7, <1>8, <1>9, <1>10 DEF TermInv

LEMMA TermStep == ASSUME TermInv, TermNext PROVE TermInv'
<1>1. CASE SubmitPrompt
  BY <1>1, SubmitStep
<1>2. ASSUME NEW p \in Prompts,
             \/ StartRun(p) \/ SwarmExecutes(p) \/ SwarmReviews(p) \/ SwarmReports(p)
             \/ NextWord(p) \/ EndRun(p)
      PROVE  TermInv'
  BY <1>2, StartStep, SwarmStep, WordStep, EndStep
<1>3. ASSUME NEW new, Prefer(new) PROVE TermInv'
  BY <1>3, PreferencesStep DEF Prefer, chatVars
<1>4. CASE CycleMode \/ SelectModel \/ ToggleSwarm \/ SwarmCommand \/ PickFromPalette
           \/ \E m \in Range(Models) : ModelCommand(m)
  BY <1>3, <1>4 DEF CycleMode, SelectModel, ToggleSwarm, SwarmCommand, PickFromPalette, ModelCommand
<1>5. CASE SaveSession \/ ClearSessions
  BY <1>5, PreferencesStep DEF SaveSession, ClearSessions, chatVars
<1>6. CASE LoadSession
  BY <1>6, LoadStep
<1>7. CASE \E b \in BOOLEAN : ClearChat(b)
  BY <1>7, ClearStep
<1>8. CASE OpenTerminal
  BY <1>8, OpenStep
<1>9. CASE CloseTerminal
  BY <1>9, CloseStep
<1>10. QED
  BY <1>1, <1>2, <1>4, <1>5, <1>6, <1>7, <1>8, <1>9 DEF TermNext

LEMMA TermSafe == ASSUME TermInv PROVE TerminalIsSound
<1>1. TermTyped /\ RunsInv /\ ConversationInv /\ StatusInv
  BY DEF TermInv
<1>2. \A p \in (clearedTo + 1) .. prompts : p \in Prompts /\ clearedTo < p /\ p <= prompts
  BY <1>1, PromptsAreNumbers DEF TermTyped, Prompts
<1>3. ConversationIsInOrder
  BY <1>1, <1>2 DEF ConversationIsInOrder, ConversationInv
<1>4. ASSUME isOpen PROVE Cardinality({p \in Prompts : Alive(p)}) <= 1
  <2> DEFINE alive == {p \in Prompts : Alive(p)}
  <2>1. alive \subseteq {prompts}
    BY <1>1 DEF RunsInv
  <2>2. IsFiniteSet({prompts}) /\ Cardinality({prompts}) = 1
    BY FS_Singleton
  <2>3. IsFiniteSet(alive) /\ Cardinality(alive) <= Cardinality({prompts})
    BY <2>1, <2>2, FS_Subset
  <2>4. QED
    BY <2>2, <2>3
<1>5. ASSUME isOpen
      PROVE  /\ status # "idle" => \E p \in Prompts : Alive(p)
             /\ \A p \in Prompts : Alive(p) /\ runs[p].pc # "ready" =>
                  status = IF runs[p].pc = "stream" THEN "streaming" ELSE "planning"
  <2>1. \A p \in Prompts : Alive(p) /\ runs[p].pc # "ready" => runs[p].pc \in Phases
    BY <1>1, LivingRuns
  <2>2. QED
    BY <1>1, <1>5, <2>1 DEF StatusInv
<1>6. ASSUME isOpen, status = "idle", NoneCancelled
      PROVE  \A a \in Agents : agents[a] # "running"
  <2>1. SUFFICES ASSUME NEW a \in Agents, agents[a] = "running" PROVE FALSE
    OBVIOUS
  <2>2. PICK p \in Prompts : Alive(p) /\ a \in Working(runs[p].pc)
    BY <1>1, <1>6, <2>1 DEF StatusInv
  <2>3. runs[p].pc \in Phases
    BY <2>2 DEF Working, Phases
  <2>4. QED
    BY <1>1, <1>6, <2>3 DEF StatusInv
<1>7. StatusIsTrue
  BY <1>4, <1>5, <1>6 DEF StatusIsTrue, NoneCancelled
<1>8. QED
  BY <1>3, <1>7 DEF TerminalIsSound
LEMMA TermRests == ASSUME TermInv, UNCHANGED termVars PROVE TermInv'
  BY PreferencesStep DEF termVars, chatVars

-----------------------------------------------------------------------------
(* The server (ApiServer): the threads of runs and where they print.       *)

ThreadSteps == {"new", "saves", "swaps", "works", "reports", "over"}

(* Unless two runs overlapped, one at a time has the output, and gives it  *)
(* back.                                                                   *)
ApiRunsInv ==
  /\ thread \in [Runs -> ThreadSteps] /\ DOMAIN oldStdout = Runs /\ DOMAIN printed = Runs
  /\ StatusIsAlive
  /\ \A r \in Runs : thread[r] \in {"new", "saves", "swaps"} => printed[r] = {}
  /\ ~overlap =>
       /\ \A r, q \in AtWork : r = q
       /\ AtWork = {} => stdout = "terminal"
       /\ \A r \in Runs :
            /\ thread[r] \in {"saves", "swaps", "reports"} => stdout = "terminal"
            /\ thread[r] \in {"swaps", "works"} => oldStdout[r] = "terminal"
            /\ thread[r] = "works" => stdout = r
            /\ thread[r] \in {"works", "reports"} => printed[r] \subseteq {r}

LEMMA RunsInitially == ASSUME ApiInit PROVE ApiRunsInv
  BY DEF ApiInit, runVars, ApiRunsInv, ThreadSteps, StatusIsAlive, AtWork

LEMMA RunsRest == ASSUME ApiRunsInv, UNCHANGED <<latest, stdout, thread, oldStdout, printed, overlap>> PROVE ApiRunsInv'
<1>1. AtWork' = AtWork
  BY DEF AtWork
<1>2. StatusIsAlive'
  BY <1>1 DEF ApiRunsInv, StatusIsAlive
<1>3. QED
  BY <1>1, <1>2 DEF ApiRunsInv

(* A thread goes from one step of its run to the next.                     *)
LEMMA ThreadMoves ==
  ASSUME ApiRunsInv, NEW r \in Runs, NEW from \in ThreadSteps, NEW to \in ThreadSteps, Moves(r, from, to)
  PROVE  /\ thread' \in [Runs -> ThreadSteps] /\ thread[r] = from /\ thread'[r] = to
         /\ \A q \in Runs : q # r => thread'[q] = thread[q]
         /\ to \notin {"new", "over"} => AtWork' = AtWork \union {r}
         /\ to \in {"new", "over"} => AtWork' = AtWork \ {r}
         /\ r \in AtWork <=> from \notin {"new", "over"}
<1>1. /\ thread' \in [Runs -> ThreadSteps] /\ thread[r] = from /\ thread'[r] = to
      /\ \A q \in Runs : q # r => thread'[q] = thread[q]
  BY DEF Moves, ApiRunsInv
<1>2. QED
  BY <1>1 DEF AtWork

LEMMA ThreadKeepsRuns == ASSUME ApiRunsInv, ThreadNext PROVE ApiRunsInv'
<1>1. ASSUME NEW r \in Runs, PostRun(r) PROVE ApiRunsInv'
  <2>1. /\ Moves(r, "new", "saves") /\ latest' = [says |-> "running", run |-> r]
        /\ overlap' = (overlap \/ AtWork # {}) /\ UNCHANGED <<stdout, oldStdout, printed>>
    BY <1>1 DEF PostRun
  <2>2. /\ thread' \in [Runs -> ThreadSteps] /\ thread[r] = "new" /\ thread'[r] = "saves"
        /\ \A q \in Runs : q # r => thread'[q] = thread[q]
        /\ AtWork' = AtWork \union {r}
    BY <2>1, ThreadMoves DEF ThreadSteps
  <2>3. StatusIsAlive'
    BY <2>1, <2>2 DEF StatusIsAlive
  <2>4. ~overlap' => /\ \A x, q \in AtWork' : x = q
                     /\ stdout' = "terminal"
                     /\ \A q \in Runs : q # r => thread'[q] \in {"new", "over"}
    BY <2>1, <2>2 DEF ApiRunsInv, AtWork
  <2>5. QED
    BY <2>1, <2>2, <2>3, <2>4 DEF ApiRunsInv
<1>2. ASSUME NEW r \in Runs, SaveStdout(r) PROVE ApiRunsInv'
  <2>1. /\ Moves(r, "saves", "swaps") /\ oldStdout' = [oldStdout EXCEPT ![r] = stdout]
        /\ UNCHANGED <<latest, stdout, printed, overlap>>
    BY <1>2 DEF SaveStdout
  <2>2. /\ thread' \in [Runs -> ThreadSteps] /\ thread[r] = "saves" /\ thread'[r] = "swaps"
        /\ \A q \in Runs : q # r => thread'[q] = thread[q]
        /\ AtWork' = AtWork
    BY <2>1, ThreadMoves DEF ThreadSteps
  <2>3. QED
    BY <2>1, <2>2 DEF ApiRunsInv, StatusIsAlive
<1>3. ASSUME NEW r \in Runs, SwapStdout(r) PROVE ApiRunsInv'
  <2>1. /\ Moves(r, "swaps", "works") /\ stdout' = r
        /\ UNCHANGED <<latest, oldStdout, printed, overlap>>
    BY <1>3 DEF SwapStdout
  <2>2. /\ thread' \in [Runs -> ThreadSteps] /\ thread[r] = "swaps" /\ thread'[r] = "works"
        /\ \A q \in Runs : q # r => thread'[q] = thread[q]
        /\ AtWork' = AtWork /\ r \in AtWork
    BY <2>1, ThreadMoves DEF ThreadSteps
  <2>3. ~overlap => \A q \in Runs : q # r => thread'[q] \in {"new", "over"}
    BY <2>2 DEF ApiRunsInv, AtWork
  <2>4. StatusIsAlive'
    BY <2>1, <2>2 DEF ApiRunsInv, StatusIsAlive
  <2>5. QED
    BY <2>1, <2>2, <2>3, <2>4 DEF ApiRunsInv
<1>4. ASSUME NEW r \in Runs, RestoreStdout(r) PROVE ApiRunsInv'
  <2>1. /\ Moves(r, "works", "reports") /\ stdout' = oldStdout[r]
        /\ UNCHANGED <<latest, oldStdout, printed, overlap>>
    BY <1>4 DEF RestoreStdout
  <2>2. /\ thread' \in [Runs -> ThreadSteps] /\ thread[r] = "works" /\ thread'[r] = "reports"
        /\ \A q \in Runs : q # r => thread'[q] = thread[q]
        /\ AtWork' = AtWork /\ r \in AtWork
    BY <2>1, ThreadMoves DEF ThreadSteps
  <2>3. ~overlap => \A q \in Runs : q # r => thread'[q] \in {"new", "over"}
    BY <2>2 DEF ApiRunsInv, AtWork
  <2>4. StatusIsAlive'
    BY <2>1, <2>2 DEF ApiRunsInv, StatusIsAlive
  <2>5. QED
    BY <2>1, <2>2, <2>3, <2>4 DEF ApiRunsInv
<1>5. ASSUME NEW r \in Runs, NEW says \in {"done", "failed", "error"}, Report(r, says) PROVE ApiRunsInv'
  <2>1. /\ Moves(r, "reports", "over") /\ latest' = [says |-> says, run |-> r]
        /\ UNCHANGED <<stdout, oldStdout, printed, overlap>>
    BY <1>5 DEF Report
  <2>2. /\ thread' \in [Runs -> ThreadSteps] /\ thread[r] = "reports" /\ thread'[r] = "over"
        /\ \A q \in Runs : q # r => thread'[q] = thread[q]
        /\ AtWork' = AtWork \ {r}
    BY <2>1, ThreadMoves DEF ThreadSteps
  <2>3. StatusIsAlive'
    BY <2>1, <2>2 DEF StatusIsAlive
  <2>4. QED
    BY <2>1, <2>2, <2>3 DEF ApiRunsInv
<1>6. QED
  BY <1>1, <1>2, <1>3, <1>4, <1>5 DEF ThreadNext

LEMMA PrintKeepsRuns == ASSUME ApiRunsInv, NEW r \in Runs, PrintLine(r) PROVE ApiRunsInv'
<1>1. /\ thread[r] = "works" /\ printed' = [printed EXCEPT ![r] = @ \union {stdout}]
      /\ UNCHANGED <<latest, stdout, thread, oldStdout, overlap>>
  BY DEF PrintLine
<1>2. AtWork' = AtWork
  BY <1>1 DEF AtWork
<1>3. StatusIsAlive'
  BY <1>1, <1>2 DEF ApiRunsInv, StatusIsAlive
<1>4. QED
  BY <1>1, <1>2, <1>3 DEF ApiRunsInv

LEMMA RestartKeepsRuns == ASSUME ApiRunsInv, RestartServer PROVE ApiRunsInv'
<1>1. /\ thread' = [r \in Runs |-> IF thread[r] = "new" THEN "new" ELSE "over"]
      /\ stdout' = "terminal" /\ latest' = [says |-> "idle", run |-> "none"] /\ overlap' = FALSE
      /\ UNCHANGED <<oldStdout, printed>>
  BY DEF RestartServer
<1>2. thread' \in [Runs -> ThreadSteps] /\ \A r \in Runs : thread'[r] \in {"new", "over"} /\ (thread'[r] = "new" => thread[r] = "new")
  BY <1>1 DEF ThreadSteps
<1>3. AtWork' = {} /\ StatusIsAlive'
  BY <1>1, <1>2 DEF AtWork, StatusIsAlive
<1>4. QED
  BY <1>1, <1>2, <1>3 DEF ApiRunsInv

-----------------------------------------------------------------------------
MemUsers == Runs \union Routes
MemSteps == {"none", "open", "dump", "assign"}

(* Notes in memory and on the disk: unless two calls overlapped, one is    *)
(* under way at a time, and what it will leave is what was kept.           *)
NotesInv ==
  /\ memOp \in [MemUsers -> MemSteps] /\ noteCount \in Nat /\ kept \subseteq Nat \ {0}
  /\ \A t \in MemUsers : memOp[t] = "assign" <=> t = "get" /\ memOp[t] # "none"
  /\ ~disturbed =>
       /\ \A t, u \in MemUsers : memOp[t] # "none" /\ memOp[u] # "none" => t = u
       /\ notes = kept
       /\ memOp["get"] = "assign" => notesRead = kept
       /\ (\A t \in MemUsers : memOp[t] \in {"none", "assign"}) => noteFile = kept
       /\ \A t \in MemUsers : memOp[t] = "dump" => noteFile = Unread

memoryState == <<notes, noteFile, memOp, notesRead, noteCount, kept, disturbed>>

LEMMA NotesInitially == ASSUME ApiInit PROVE NotesInv
  BY DEF ApiInit, NotesInv, MemUsers, MemSteps

LEMMA NotesRest == ASSUME NotesInv, UNCHANGED memoryState PROVE NotesInv'
  BY DEF NotesInv, memoryState

(* A step of a call: as long as it is undisturbed no other call is under way. *)
LEMMA MemMoves ==
  ASSUME NotesInv, NEW t \in MemUsers, NEW from \in MemSteps, NEW to \in MemSteps, MemStep(t, from, to)
  PROVE  /\ memOp[t] = from /\ memOp' \in [MemUsers -> MemSteps] /\ memOp'[t] = to
         /\ \A u \in MemUsers : u # t => memOp'[u] = memOp[u]
         /\ ~disturbed' => ~disturbed /\ \A u \in MemUsers : u # t => memOp[u] = "none"
<1>1. memOp \in [MemUsers -> MemSteps] /\ memOp[t] = from /\ memOp' = [memOp EXCEPT ![t] = to]
  BY DEF MemStep, NotesInv
<1>2. ~disturbed' => ~disturbed /\ ~Busy(t)
  BY DEF MemStep
<1>3. QED
  BY <1>1, <1>2 DEF Busy

LEMMA MemoryKeepsNotes ==
  ASSUME NotesInv, MemoryNext, ~ThreadNext
  PROVE  NotesInv'
<1>0. /\ Runs \subseteq MemUsers /\ "get" \in MemUsers /\ "reset" \in MemUsers
      /\ "get" \notin Runs /\ "reset" \notin Runs
  BY ApiAssumption DEF MemUsers, Routes
<1>1. CASE RestartServer
  <2>1. /\ notes' = LoadedNotes(noteFile) /\ memOp' = [t \in MemUsers |-> "none"]
        /\ disturbed' = (disturbed \/ \E t \in Runs \union {"reset"} : memOp[t] # "none")
        /\ UNCHANGED <<noteFile, noteCount, kept>>
    BY <1>1 DEF RestartServer, MemUsers
  <2>2. ASSUME ~disturbed' PROVE noteFile = kept /\ notes' = kept
    <3>1. ~disturbed /\ \A t \in MemUsers : memOp[t] # "none" => t = "get"
      BY <2>1, <2>2 DEF MemUsers, Routes
    <3>2. \A t \in MemUsers : memOp[t] \in {"none", "assign"}
      BY <3>1 DEF NotesInv
    <3>3. noteFile = kept /\ kept # Unread
      BY <3>1, <3>2 DEF NotesInv, Unread
    <3>4. QED
      BY <2>1, <3>3 DEF LoadedNotes
  <2>3. QED
    BY <1>0, <2>1, <2>2 DEF NotesInv, MemSteps
<1>2. ASSUME NEW r \in Runs, SaveMemory(r) PROVE NotesInv'
  <2>1. /\ noteCount' = noteCount + 1 /\ MemStep(r, "none", "open")
        /\ notes' = notes \union {noteCount'} /\ kept' = kept \union {noteCount'}
        /\ UNCHANGED <<noteFile, notesRead>>
    BY <1>2 DEF SaveMemory
  <2>2. /\ memOp[r] = "none" /\ memOp' \in [MemUsers -> MemSteps] /\ memOp'[r] = "open"
        /\ \A u \in MemUsers : u # r => memOp'[u] = memOp[u]
        /\ ~disturbed' => ~disturbed /\ \A u \in MemUsers : u # r => memOp[u] = "none"
    BY <1>0, <2>1, MemMoves DEF MemSteps
  <2>3. noteCount' \in Nat \ {0} /\ r # "get"
    BY <1>0, <2>1 DEF NotesInv
  <2>4. QED
    BY <1>0, <2>1, <2>2, <2>3 DEF NotesInv
<1>3. CASE ResetMemory
  <2>1. /\ MemStep("reset", "none", "open") /\ notes' = {} /\ kept' = {}
        /\ UNCHANGED <<noteFile, notesRead, noteCount>>
    BY <1>3 DEF ResetMemory
  <2>2. /\ memOp["reset"] = "none" /\ memOp' \in [MemUsers -> MemSteps] /\ memOp'["reset"] = "open"
        /\ \A u \in MemUsers : u # "reset" => memOp'[u] = memOp[u]
        /\ ~disturbed' => ~disturbed /\ \A u \in MemUsers : u # "reset" => memOp[u] = "none"
    BY <1>0, <2>1, MemMoves DEF MemSteps
  <2>3. QED
    BY <1>0, <2>1, <2>2 DEF NotesInv
<1>4. ASSUME NEW t \in MemUsers, OpenNotes(t) PROVE NotesInv'
  <2>1. /\ MemStep(t, "open", "dump") /\ noteFile' = Unread
        /\ UNCHANGED <<notes, notesRead, noteCount, kept>>
    BY <1>4 DEF OpenNotes
  <2>2. /\ memOp[t] = "open" /\ memOp' \in [MemUsers -> MemSteps] /\ memOp'[t] = "dump"
        /\ \A u \in MemUsers : u # t => memOp'[u] = memOp[u]
        /\ ~disturbed' => ~disturbed /\ \A u \in MemUsers : u # t => memOp[u] = "none"
    BY <2>1, MemMoves DEF MemSteps
  <2>3. t # "get" /\ memOp'[t] \notin {"none", "assign"}
    BY <2>2 DEF NotesInv
  <2>4. QED
    BY <1>0, <2>1, <2>2, <2>3 DEF NotesInv
<1>5. ASSUME NEW t \in MemUsers, DumpNotes(t) PROVE NotesInv'
  <2>1. /\ MemStep(t, "dump", "none")
        /\ noteFile \in {Unread, notes} => noteFile' = notes
        /\ UNCHANGED <<notes, notesRead, noteCount, kept>>
    BY <1>5 DEF DumpNotes
  <2>2. /\ memOp[t] = "dump" /\ memOp' \in [MemUsers -> MemSteps] /\ memOp'[t] = "none"
        /\ \A u \in MemUsers : u # t => memOp'[u] = memOp[u]
        /\ ~disturbed' => ~disturbed /\ \A u \in MemUsers : u # t => memOp[u] = "none"
    BY <2>1, MemMoves DEF MemSteps
  <2>3. t # "get"
    BY <2>2 DEF NotesInv
  <2>4. ~disturbed' => noteFile' = kept
    BY <2>1, <2>2 DEF NotesInv
  <2>5. QED
    BY <1>0, <2>1, <2>2, <2>3, <2>4 DEF NotesInv
<1>6. CASE ReadNotes
  <2>1. /\ MemStep("get", "none", "assign") /\ notesRead' = LoadedNotes(noteFile)
        /\ UNCHANGED <<notes, noteFile, noteCount, kept>>
    BY <1>6 DEF ReadNotes
  <2>2. /\ memOp["get"] = "none" /\ memOp' \in [MemUsers -> MemSteps] /\ memOp'["get"] = "assign"
        /\ \A u \in MemUsers : u # "get" => memOp'[u] = memOp[u]
        /\ ~disturbed' => ~disturbed /\ \A u \in MemUsers : u # "get" => memOp[u] = "none"
    BY <1>0, <2>1, MemMoves DEF MemSteps
  <2>3. ~disturbed' => noteFile = kept /\ notesRead' = kept
    <3>1. kept # Unread
      BY DEF NotesInv, Unread
    <3>2. ~disturbed' => noteFile = kept
      BY <2>2 DEF NotesInv
    <3>3. QED
      BY <2>1, <3>1, <3>2 DEF LoadedNotes
  <2>4. QED
    BY <1>0, <2>1, <2>2, <2>3 DEF NotesInv
<1>7. CASE AssignNotes
  <2>1. /\ MemStep("get", "assign", "none") /\ notes' = notesRead
        /\ UNCHANGED <<noteFile, noteCount, kept>>
    BY <1>7 DEF AssignNotes
  <2>2. /\ memOp["get"] = "assign" /\ memOp' \in [MemUsers -> MemSteps] /\ memOp'["get"] = "none"
        /\ \A u \in MemUsers : u # "get" => memOp'[u] = memOp[u]
        /\ ~disturbed' => ~disturbed /\ \A u \in MemUsers : u # "get" => memOp[u] = "none"
    BY <1>0, <2>1, MemMoves DEF MemSteps
  <2>3. QED
    BY <1>0, <2>1, <2>2 DEF NotesInv
<1>8. QED
  BY <1>1, <1>2, <1>3, <1>4, <1>5, <1>6, <1>7 DEF MemoryNext, MemUsers

-----------------------------------------------------------------------------
(* Clients are listed once; a listed client that missed a line is in a     *)
(* list of a run, unless a broadcast was cut short.                        *)
ListInv ==
  /\ listed \in Seq(Clients) /\ sending \in [Runs -> Seq(Clients)]
  /\ \A i, j \in DOMAIN listed : listed[i] = listed[j] => i = j
  /\ ~cutShort => \A w \in Range(listed) \intersect missed : \E r \in Runs : w \in Range(sending[r])

wsState == <<listed, sending, missed, cutShort>>

LEMMA ListInitially == ASSUME ApiInit PROVE ListInv
<1>1. /\ listed = << >> /\ missed = {} /\ sending = [r \in Runs |-> << >>]
      /\ << >> \in Seq(Clients) /\ DOMAIN << >> = {}
  BY DEF ApiInit
<1>2. QED
  BY <1>1 DEF ListInv

LEMMA ListRests == ASSUME ListInv, UNCHANGED wsState PROVE ListInv'
  BY DEF ListInv, wsState

(* A client that is listed once is not listed any more.                    *)
LEMMA RemovedFirst ==
  ASSUME NEW S, NEW s \in Seq(S), NEW e, \A i, j \in DOMAIN s : s[i] = s[j] => i = j
  PROVE  /\ RemoveFirst(s, e) \in Seq(S)
         /\ Range(RemoveFirst(s, e)) = Range(s) \ {e}
         /\ \A i, j \in DOMAIN RemoveFirst(s, e) : RemoveFirst(s, e)[i] = RemoveFirst(s, e)[j] => i = j
<1>1. CASE ~\E i \in 1..Len(s) : s[i] = e
  <2>1. RemoveFirst(s, e) = s
    BY <1>1 DEF RemoveFirst
  <2>2. e \notin Range(s)
    BY <1>1 DEF Range
  <2>3. QED
    BY <2>1, <2>2
<1>2. CASE \E i \in 1..Len(s) : s[i] = e
  <2>1. PICK k \in 1..Len(s) : s[k] = e
    BY <1>2
  <2>2. {i \in 1..Len(s) : s[i] = e} = {k}
    BY <2>1
  <2>3. SelectInSeq(s, LAMBDA v : v = e) = k
    <3>1. Min({k}) = k
      BY DEF Min
    <3>2. QED
      BY <2>2, <3>1 DEF SelectInSeq
  <2> DEFINE n == Len(s)
             left  == SubSeq(s, 1, k - 1)
             right == SubSeq(s, k + 1, n)
             r == left \o right
  <2>4. RemoveFirst(s, e) = r
    BY <1>2, <2>3 DEF RemoveFirst, RemoveAt
  <2>5. /\ n \in Nat /\ k \in 1..n
        /\ left \in Seq(S) /\ Len(left) = k - 1 /\ \A i \in 1..(k - 1) : left[i] = s[i]
        /\ right \in Seq(S) /\ Len(right) = n - k /\ \A i \in 1..(n - k) : right[i] = s[i + k]
    BY <2>1
  <2> HIDE DEF left, right, n
  <2>6. r \in Seq(S) /\ Len(r) = n - 1
        /\ \A i \in 1..(n - 1) : r[i] = IF i < k THEN s[i] ELSE s[i + 1]
    <3>1. r \in Seq(S) /\ Len(r) = Len(left) + Len(right)
      BY <2>5
    <3>2. \A i \in 1..(n - 1) : r[i] = IF i <= Len(left) THEN left[i] ELSE right[i - Len(left)]
      BY <2>5
    <3>3. ASSUME NEW i \in 1..(n - 1) PROVE r[i] = IF i < k THEN s[i] ELSE s[i + 1]
      <4>1. CASE i < k
        BY <2>5, <3>2, <4>1
      <4>2. CASE ~(i < k)
        <5>1. i - (k - 1) \in 1..(n - k) /\ (i - (k - 1)) + k = i + 1 /\ ~(i <= k - 1)
          BY <2>5, <4>2
        <5>2. r[i] = right[i - (k - 1)]
          BY <2>5, <3>2, <5>1
        <5>3. right[i - (k - 1)] = s[(i - (k - 1)) + k]
          BY <2>5, <5>1
        <5>4. QED
          BY <4>2, <5>1, <5>2, <5>3
      <4>3. QED
        BY <4>1, <4>2
    <3>4. QED
      BY <2>5, <3>1, <3>3
  <2> HIDE DEF r
  <2>7. DOMAIN r = 1..(n - 1) /\ DOMAIN s = 1..n
    BY <2>5, <2>6 DEF n
  <2>8. \A i, j \in DOMAIN r : r[i] = r[j] => i = j
    <3> SUFFICES ASSUME NEW i \in DOMAIN r, NEW j \in DOMAIN r, r[i] = r[j] PROVE i = j
      OBVIOUS
    <3> DEFINE f(x) == IF x < k THEN x ELSE x + 1
    <3>1. r[i] = s[f(i)] /\ r[j] = s[f(j)] /\ f(i) \in 1..n /\ f(j) \in 1..n
      BY <2>5, <2>6, <2>7
    <3>2. f(i) = f(j)
      BY <2>7, <3>1
    <3>3. QED
      BY <2>5, <2>7, <3>2
  <2>9. ASSUME NEW x PROVE x \in Range(r) <=> x \in Range(s) \ {e}
    <3>1. ASSUME x \in Range(r) PROVE x \in Range(s) \ {e}
      <4>1. PICK i \in 1..(n - 1) : x = r[i]
        BY <2>7, <3>1 DEF Range
      <4>2. CASE i < k
        <5>1. x = s[i] /\ i \in 1..n /\ i # k
          BY <2>5, <2>6, <4>1, <4>2
        <5>2. QED
          BY <2>1, <2>7, <5>1 DEF Range, n
      <4>3. CASE ~(i < k)
        <5>1. x = s[i + 1] /\ i + 1 \in 1..n /\ i + 1 # k
          BY <2>5, <2>6, <4>1, <4>3
        <5>2. QED
          BY <2>1, <2>7, <5>1 DEF Range, n
      <4>4. QED
        BY <4>2, <4>3
    <3>2. ASSUME x \in Range(s) \ {e} PROVE x \in Range(r)
      <4>1. PICK i \in 1..n : x = s[i]
        BY <2>7, <3>2 DEF Range
      <4>2. i # k
        BY <2>1, <3>2, <4>1
      <4>3. CASE i < k
        <5>1. i \in 1..(n - 1) /\ r[i] = x
          BY <2>5, <2>6, <4>1, <4>3
        <5>2. QED
          BY <2>7, <5>1 DEF Range
      <4>4. CASE ~(i < k)
        <5>1. i - 1 \in 1..(n - 1) /\ r[i - 1] = x
          BY <2>5, <2>6, <4>1, <4>2, <4>4
        <5>2. QED
          BY <2>7, <5>1 DEF Range
      <4>5. QED
        BY <4>3, <4>4
    <3>3. QED
      BY <3>1, <3>2
  <2>10. QED
    BY <2>4, <2>6, <2>8, <2>9
<1>3. QED
  BY <1>1, <1>2

LEMMA ClientsKeepList ==
  ASSUME ListInv, ClientNext, ~ThreadNext PROVE ListInv'
<1>0. listed \in Seq(Clients) /\ sending \in [Runs -> Seq(Clients)] /\ \A i, j \in DOMAIN listed : listed[i] = listed[j] => i = j
  BY DEF ListInv
<1>1. ASSUME NEW w \in Clients, ConnectClient(w) PROVE ListInv'
  <2>1. w \notin missed /\ ~Contains(listed, w) /\ listed' = Append(listed, w) /\ UNCHANGED <<sending, missed, cutShort>>
    BY <1>1 DEF ConnectClient
  <2>2. /\ listed' \in Seq(Clients) /\ DOMAIN listed = 1..Len(listed) /\ DOMAIN listed' = 1..(Len(listed) + 1)
        /\ listed'[Len(listed) + 1] = w /\ \A i \in DOMAIN listed : listed'[i] = listed[i] /\ listed[i] # w
    BY <1>0, <2>1 DEF Contains
  <2>3. \A i, j \in DOMAIN listed' : listed'[i] = listed'[j] => i = j
    BY <1>0, <2>2
  <2>4. Range(listed') \subseteq Range(listed) \union {w}
    BY <2>2 DEF Range
  <2>5. QED
    BY <1>0, <2>1, <2>2, <2>3, <2>4 DEF ListInv
<1>2. ASSUME NEW w \in Clients, DisconnectClient(w) PROVE ListInv'
  <2>1. listed' = RemoveFirst(listed, w) /\ UNCHANGED <<sending, missed, cutShort>>
    BY <1>2 DEF DisconnectClient
  <2>2. /\ listed' \in Seq(Clients) /\ Range(listed') = Range(listed) \ {w}
        /\ \A i, j \in DOMAIN listed' : listed'[i] = listed'[j] => i = j
    BY <1>0, <2>1, RemovedFirst
  <2>3. QED
    BY <1>0, <2>1, <2>2 DEF ListInv
<1>3. ASSUME NEW r \in Runs, EmitToClients(r) PROVE ListInv'
  <2>1. /\ sending[r] = << >> /\ missed' = missed \union Range(listed) /\ sending' = [sending EXCEPT ![r] = listed]
        /\ UNCHANGED <<listed, cutShort>>
    BY <1>3 DEF EmitToClients
  <2>2. sending' \in [Runs -> Seq(Clients)] /\ sending'[r] = listed
    BY <1>0, <2>1
  <2>3. QED
    BY <1>0, <2>1, <2>2 DEF ListInv
<1>4. ASSUME NEW r \in Runs, DropClient(r) PROVE ListInv'
  <2> DEFINE w == Head(sending[r])
  <2>1. sending[r] # << >> /\ UNCHANGED missed
    BY <1>4 DEF DropClient
  <2>2. /\ Tail(sending[r]) \in Seq(Clients)
        /\ Range(sending[r]) \subseteq Range(Tail(sending[r])) \union {w}
    <3>1. sending[r] \in Seq(Clients)
      BY <1>0
    <3>2. ASSUME NEW x \in Range(sending[r]), x # w PROVE x \in Range(Tail(sending[r]))
      <4>1. PICK i \in DOMAIN sending[r] : x = sending[r][i]
        BY DEF Range
      <4>2. i # 1 /\ i \in 1..Len(sending[r]) /\ Len(sending[r]) \in Nat
        BY <2>1, <3>1, <3>2, <4>1
      <4>3. i - 1 \in DOMAIN Tail(sending[r]) /\ Tail(sending[r])[i - 1] = x
        BY <2>1, <3>1, <4>1, <4>2
      <4>4. QED
        BY <4>3 DEF Range
    <3>3. QED
      BY <2>1, <3>1, <3>2
  <2>3. CASE Contains(listed, w)
    <3>1. listed' = RemoveFirst(listed, w) /\ sending' = [sending EXCEPT ![r] = Tail(@)] /\ UNCHANGED cutShort
      BY <1>4, <2>3 DEF DropClient
    <3>2. /\ listed' \in Seq(Clients) /\ Range(listed') = Range(listed) \ {w}
          /\ \A i, j \in DOMAIN listed' : listed'[i] = listed'[j] => i = j
      BY <1>0, <3>1, RemovedFirst
    <3>3. sending' \in [Runs -> Seq(Clients)] /\ sending'[r] = Tail(sending[r])
          /\ \A q \in Runs : q # r => sending'[q] = sending[q]
      BY <1>0, <2>2, <3>1
    <3>4. ASSUME ~cutShort, NEW x \in Range(listed') \intersect missed
          PROVE  \E q \in Runs : x \in Range(sending'[q])
      <4>1. x # w /\ x \in Range(listed) \intersect missed
        BY <3>2
      <4>2. PICK q \in Runs : x \in Range(sending[q])
        BY <3>4, <4>1 DEF ListInv
      <4>3. CASE q = r
        BY <2>2, <3>3, <4>1, <4>2, <4>3
      <4>4. CASE q # r
        BY <3>3, <4>2, <4>4
      <4>5. QED
        BY <4>3, <4>4
    <3>5. QED
      BY <2>1, <3>1, <3>2, <3>3, <3>4 DEF ListInv
  <2>4. CASE ~Contains(listed, w)
    <3>1. sending' = [sending EXCEPT ![r] = << >>] /\ cutShort' = TRUE /\ UNCHANGED listed
      BY <1>4, <2>4 DEF DropClient
    <3>2. << >> \in Seq(Clients)
      OBVIOUS
    <3>3. QED
      BY <1>0, <3>1, <3>2 DEF ListInv
  <2>5. QED
    BY <2>3, <2>4
<1>5. QED
  BY <1>1, <1>2, <1>3, <1>4 DEF ClientNext

ApiInv == ApiRunsInv /\ NotesInv /\ ListInv

LEMMA ApiInitially == ASSUME ApiInit PROVE ApiInv
  BY RunsInitially, NotesInitially, ListInitially DEF ApiInv

LEMMA ApiRests == ASSUME ApiInv, UNCHANGED apiVars PROVE ApiInv'
  BY RunsRest, NotesRest, ListRests DEF ApiInv, apiVars, runVars, memoryVars, wsVars, memoryState, wsState

LEMMA ThreadsKeepRest ==
  ASSUME ThreadNext PROVE UNCHANGED memoryState /\ UNCHANGED wsState
  BY DEF ThreadNext, PostRun, SaveStdout, SwapStdout, RestoreStdout, Report, memoryVars, wsVars, memoryState, wsState

LEMMA ApiStep == ASSUME ApiInv, RunNext \/ MemoryNext \/ ClientNext PROVE ApiInv'
<1>1. CASE ThreadNext
  BY <1>1, ThreadKeepsRuns, ThreadsKeepRest, NotesRest, ListRests DEF ApiInv
<1>2. CASE RunNext /\ ~ThreadNext
  <2>1. UNCHANGED <<memoryVars, wsVars>>
    BY <1>2 DEF RunNext, PollStatus, PrintLine
  <2>2. ApiRunsInv'
    <3>1. CASE PollStatus
      BY <3>1, RunsRest DEF ApiInv, PollStatus
    <3>2. QED
      BY <1>2, <3>1, PrintKeepsRuns DEF ApiInv, RunNext
  <2>3. QED
    BY <2>1, <2>2, NotesRest, ListRests DEF ApiInv, memoryVars, wsVars, memoryState, wsState
<1>3. CASE MemoryNext /\ ~ThreadNext
  <2>1. NotesInv'
    BY <1>3, MemoryKeepsNotes DEF ApiInv
  <2>2. CASE RestartServer
    <3>1. listed' = << >> /\ sending' = [r \in Runs |-> << >>] /\ missed' = {}
          /\ << >> \in Seq(Clients) /\ DOMAIN << >> = {}
      BY <2>2 DEF RestartServer
    <3>2. ListInv'
      BY <3>1 DEF ListInv
    <3>3. QED
      BY <2>1, <2>2, <3>2, RestartKeepsRuns DEF ApiInv
  <2>3. CASE ~RestartServer
    <3>1. UNCHANGED <<runVars, wsVars>>
      BY <1>3, <2>3 DEF MemoryNext, SaveMemory, OpenNotes, DumpNotes, ResetMemory, ReadNotes, AssignNotes, MemStep
    <3>2. QED
      BY <2>1, <3>1, RunsRest, ListRests DEF ApiInv, runVars, wsVars, wsState
  <2>4. QED
    BY <2>2, <2>3
<1>4. CASE ClientNext /\ ~ThreadNext
  <2>1. UNCHANGED <<runVars, memoryVars>>
    BY <1>4 DEF ClientNext, ConnectClient, DisconnectClient, EmitToClients, DropClient
  <2>2. QED
    BY <1>4, <2>1, ClientsKeepList, RunsRest, NotesRest DEF ApiInv, runVars, memoryVars, memoryState
<1>5. QED
  BY <1>1, <1>2, <1>3, <1>4

LEMMA ApiSafe == ASSUME ApiInv PROVE ApiIsSound
<1>1. StatusIsAlive /\ OutputIsCaptured
  BY DEF ApiInv, ApiRunsInv, OutputIsCaptured
<1>2. NotesAreKept
  BY DEF ApiInv, NotesInv, NotesAreKept
<1>3. ListIsHonest
  <2>1. /\ ~cutShort => \A w \in Range(listed) \intersect missed : \E r \in Runs : w \in Range(sending[r])
        /\ \A i, j \in DOMAIN listed : listed[i] = listed[j] => i = j
    BY DEF ApiInv, ListInv
  <2>2. Range(<< >>) = {}
    BY DEF Range
  <2>3. QED
    BY <2>1, <2>2 DEF ListIsHonest
<1>4. QED
  BY <1>1, <1>2, <1>3 DEF ApiIsSound

-----------------------------------------------------------------------------
(* The plugins of the terminal program (TerminalPlugins).                  *)

(* What Only leaves, as a set; no entry stands twice that did not.         *)
LEMMA OnlyRange ==
  ASSUME NEW E, NEW s \in Seq(E), NEW P
  PROVE  /\ Only(s, P) \in Seq(E)
         /\ \A x : x \in Range(Only(s, P)) <=> \E i \in P \intersect DOMAIN s : s[i] = x
         /\ IsInjective(s) => IsInjective(Only(s, P))
<1> DEFINE r == Only(s, P)
<1>1. PICK e \in [DOMAIN r -> P \intersect DOMAIN s] :
         /\ \A k \in DOMAIN r : r[k] = s[e[k]]
         /\ \A k, m \in DOMAIN r : k < m => e[k] < e[m]
         /\ \A i \in P \intersect DOMAIN s : \E k \in DOMAIN r : e[k] = i
  BY OnlyHolds
<1>2. r \in Seq(E)
  BY OnlyHolds
<1> HIDE DEF r
<1>3. \A x : x \in Range(r) <=> \E i \in P \intersect DOMAIN s : s[i] = x
  BY <1>1 DEF Range
<1>4. ASSUME IsInjective(s), NEW a \in DOMAIN r, NEW b \in DOMAIN r, r[a] = r[b] PROVE a = b
  <2>1. e[a] = e[b] /\ e[a] \in DOMAIN s
    BY <1>1, <1>4 DEF IsInjective
  <2>2. a \in Nat /\ b \in Nat /\ e[a] \in Nat
    BY <1>2, <2>1
  <2>3. ~(a < b) /\ ~(b < a)
    BY <1>1, <2>1, <2>2
  <2>4. QED
    BY <2>2, <2>3
<1>5. QED
  BY <1>2, <1>3, <1>4 DEF r, IsInjective

(* The shapes of the files and of the tables.                              *)
Files == JsonFiles \union {NoJson}
LoadedPlugin ==
  [name : KnownNames, hooks : SUBSET HookNames, commands : SUBSET OwnCommandNames, works : BOOLEAN,
   enabled : BOOLEAN]
SubsTable == [HookNames -> Seq(KnownNames)]
EntryTable == [KnownNames -> {"none", "pending", "approved"}]

LEMMA LoadedAsType ==
  ASSUME NEW f \in Files, Loadable(f)
  PROVE  /\ LoadedAs(f) \in LoadedPlugin /\ LoadedAs(f).name = f.name /\ LoadedAs(f).enabled = TRUE
         /\ LoadedAs(f).hooks = f.hooks /\ LoadedAs(f).commands = f.commands
         /\ LoadedAs(f).works = (f.entry = "runs") /\ f.name \in KnownNames
         /\ f.hooks \in SUBSET HookNames
<1>1. f \in JsonFiles
  BY DEF Files, Loadable
<1>2. f.name \in KnownNames /\ f.hooks \in SUBSET HookNames /\ f.commands \in SUBSET OwnCommandNames
  BY <1>1 DEF KnownNames, HookNames, OwnCommandNames
<1>3. (f.entry = "runs") \in BOOLEAN
  OBVIOUS
<1>4. QED
  BY <1>2, <1>3 DEF LoadedAs, LoadedPlugin

(* No name is loaded twice.                                                *)
DistinctNames(ps) == \A i, j \in DOMAIN ps : ps[i].name = ps[j].name => i = j

(* A plugin put among the loaded, in the place of its namesake.            *)
PluginPut(ps, p, r) ==
  /\ r \in Seq(LoadedPlugin) /\ DistinctNames(r)
  /\ \A i \in DOMAIN r : r[i] = p \/ (r[i].name # p.name /\ \E k \in DOMAIN ps : r[i] = ps[k])
  /\ \A k \in DOMAIN ps : ps[k].name # p.name => \E i \in DOMAIN r : r[i] = ps[k]
  /\ \E i \in DOMAIN r : r[i] = p

LEMMA PutPluginStep ==
  ASSUME NEW ps \in Seq(LoadedPlugin), DistinctNames(ps), NEW p \in LoadedPlugin
  PROVE  PluginPut(ps, p, PutPlugin(ps, p))
<1> DEFINE r == PutPlugin(ps, p)
<1>1. CASE \E i \in DOMAIN ps : ps[i].name = p.name
  <2>1. r = [i \in DOMAIN ps |-> IF ps[i].name = p.name THEN p ELSE ps[i]]
    BY <1>1 DEF PutPlugin
  <2>2. DOMAIN ps = 1..Len(ps) /\ Len(ps) \in Nat
    OBVIOUS
  <2> HIDE DEF r
  <2>3. DOMAIN r = DOMAIN ps /\ \A i \in DOMAIN ps : r[i] = IF ps[i].name = p.name THEN p ELSE ps[i]
    BY <2>1
  <2>4. r \in Seq(LoadedPlugin)
    <3>1. \A i \in 1..Len(ps) : r[i] \in LoadedPlugin
      BY <2>2, <2>3
    <3>2. r = [i \in 1..Len(ps) |-> r[i]]
      BY <2>1, <2>2
    <3>3. QED
      BY <2>2, <3>1, <3>2
  <2>5. \A i \in DOMAIN r : r[i].name = ps[i].name
    BY <2>3
  <2>6. DistinctNames(r)
    BY <2>3, <2>5 DEF DistinctNames
  <2>7. QED
    BY <1>1, <2>3, <2>4, <2>6 DEF r, PluginPut
<1>2. CASE ~\E i \in DOMAIN ps : ps[i].name = p.name
  <2>1. r = Append(ps, p)
    BY <1>2 DEF PutPlugin
  <2> HIDE DEF r
  <2>2. /\ DOMAIN ps = 1..Len(ps) /\ Len(ps) \in Nat /\ DOMAIN r = 1..(Len(ps) + 1) /\ r \in Seq(LoadedPlugin)
        /\ r[Len(ps) + 1] = p /\ \A i \in 1..Len(ps) : r[i] = ps[i]
    BY <2>1
  <2>3. DistinctNames(r)
    BY <1>2, <2>2 DEF DistinctNames
  <2>4. QED
    BY <1>2, <2>2, <2>3 DEF r, PluginPut
<1>3. QED
  BY <1>1, <1>2

(* x is what loading the first n files gives. *)
LoadsUpTo(base, s, n, x) ==
  /\ x \in Seq(LoadedPlugin) /\ DistinctNames(x)
  /\ \A k \in 1..n : Loadable(s[k]) => \E i \in DOMAIN x : x[i].name = s[k].name
  /\ \A i \in DOMAIN x : \E k \in 1..n :
       /\ Loadable(s[k]) /\ x[i] = LoadedAs(s[k])
       /\ \A j \in (k + 1)..n : Loadable(s[j]) => s[j].name # x[i].name

(* The first n of them subscribed, and registered.                         *)
SubscribesUpTo(base, s, n, x) ==
  /\ x \in SubsTable /\ \A h \in HookNames : IsInjective(x[h])
  /\ \A k \in 1..n : \A h \in s[k].hooks : s[k].name \in Range(x[h])

RegistersUpTo(base, s, n, x) ==
  /\ x \in EntryTable
  /\ \A m \in KnownNames : base[m] = "approved" => x[m] = "approved"

Loading     == INSTANCE FoldFacts WITH Op <- LoadFile, Holds <- LoadsUpTo
TermSubscribing == INSTANCE FoldFacts WITH Op <- SubscribePlugin, Holds <- SubscribesUpTo
Registering == INSTANCE FoldFacts WITH Op <- RegisterPlugin, Holds <- RegistersUpTo

LEMMA LoadsAreFolds ==
  ASSUME NEW base, NEW s
  PROVE  /\ FoldLeft(LoadFile, base, s) = Loading!Folded(base, s)
         /\ FoldLeft(SubscribePlugin, base, s) = TermSubscribing!Folded(base, s)
         /\ FoldLeft(RegisterPlugin, base, s) = Registering!Folded(base, s)
<1>1. FoldLeft(LoadFile, base, s) = Loading!Folded(base, s)
  BY DEF Loading!Folded, Loading!FoldLeft, FoldLeft, MapThenFoldSet, Loading!MapThenFoldSet, Max, Loading!Max
<1>2. FoldLeft(SubscribePlugin, base, s) = TermSubscribing!Folded(base, s)
  BY DEF TermSubscribing!Folded, TermSubscribing!FoldLeft, FoldLeft, MapThenFoldSet,
         TermSubscribing!MapThenFoldSet, Max, TermSubscribing!Max
<1>3. FoldLeft(RegisterPlugin, base, s) = Registering!Folded(base, s)
  BY DEF Registering!Folded, Registering!FoldLeft, FoldLeft, MapThenFoldSet,
         Registering!MapThenFoldSet, Max, Registering!Max
<1>4. QED
  BY <1>1, <1>2, <1>3

LEMMA LoadFileStep ==
  ASSUME NEW base, NEW s \in Seq(Files), NEW n \in 1..Len(s), NEW x, LoadsUpTo(base, s, n - 1, x)
  PROVE  LoadsUpTo(base, s, n, LoadFile(x, s[n]))
<1> DEFINE f == s[n]
           y == LoadFile(x, f)
<1>0. /\ x \in Seq(LoadedPlugin) /\ DistinctNames(x)
      /\ \A k \in 1..(n - 1) : Loadable(s[k]) => \E i \in DOMAIN x : x[i].name = s[k].name
      /\ \A i \in DOMAIN x : \E k \in 1..(n - 1) :
           /\ Loadable(s[k]) /\ x[i] = LoadedAs(s[k])
           /\ \A j \in (k + 1)..(n - 1) : Loadable(s[j]) => s[j].name # x[i].name
  BY DEF LoadsUpTo
<1>1. n \in Nat /\ n >= 1 /\ f \in Files /\ (\A k \in 1..n : k = n \/ k \in 1..(n - 1))
      /\ \A k \in 1..(n - 1) : k \in 1..n
  OBVIOUS
<1>2. CASE ~Loadable(f)
  <2>1. y = x
    BY <1>2 DEF LoadFile
  <2>2. \A k \in 1..n : Loadable(s[k]) => \E i \in DOMAIN x : x[i].name = s[k].name
    BY <1>0, <1>1, <1>2
  <2>3. ASSUME NEW i \in DOMAIN x
        PROVE  \E k \in 1..n : /\ Loadable(s[k]) /\ x[i] = LoadedAs(s[k])
                               /\ \A j \in (k + 1)..n : Loadable(s[j]) => s[j].name # x[i].name
    <3>1. PICK k \in 1..(n - 1) : /\ Loadable(s[k]) /\ x[i] = LoadedAs(s[k])
                                  /\ \A j \in (k + 1)..(n - 1) : Loadable(s[j]) => s[j].name # x[i].name
      BY <1>0
    <3>2. \A j \in (k + 1)..n : j = n \/ j \in (k + 1)..(n - 1)
      OBVIOUS
    <3>3. QED
      BY <1>1, <1>2, <3>1, <3>2
  <2>4. QED
    BY <1>0, <2>1, <2>2, <2>3 DEF LoadsUpTo
<1>3. CASE Loadable(f)
  <2> DEFINE p == LoadedAs(f)
  <2>1. y = PutPlugin(x, p)
    BY <1>3 DEF LoadFile
  <2>2. p \in LoadedPlugin /\ p.name = f.name
    BY <1>1, <1>3, LoadedAsType
  <2>3. /\ y \in Seq(LoadedPlugin) /\ DistinctNames(y)
        /\ \A i \in DOMAIN y : y[i] = p \/ (y[i].name # p.name /\ \E k \in DOMAIN x : y[i] = x[k])
        /\ \A k \in DOMAIN x : x[k].name # p.name => \E i \in DOMAIN y : y[i] = x[k]
        /\ \E i \in DOMAIN y : y[i] = p
    <3> HIDE DEF p, y, f
    <3>1. p \in LoadedPlugin /\ x \in Seq(LoadedPlugin) /\ DistinctNames(x)
      BY <1>0, <2>2
    <3>2. PluginPut(x, p, y)
      BY <2>1, <3>1, PutPluginStep
    <3>3. QED
      BY <3>2 DEF PluginPut
  <2> HIDE DEF y
  <2>4. \A k \in 1..n : Loadable(s[k]) => \E i \in DOMAIN y : y[i].name = s[k].name
    <3>1. ASSUME NEW k \in 1..n, Loadable(s[k]) PROVE \E i \in DOMAIN y : y[i].name = s[k].name
      <4>1. CASE s[k].name = p.name
        BY <2>3, <4>1
      <4>2. CASE s[k].name # p.name
        <5>1. k # n
          BY <2>2, <4>2
        <5>2. PICK i \in DOMAIN x : x[i].name = s[k].name
          BY <1>0, <1>1, <3>1, <5>1
        <5>3. QED
          BY <2>3, <4>2, <5>2
      <4>3. QED
        BY <4>1, <4>2
    <3>2. QED
      BY <3>1
  <2>5. ASSUME NEW i \in DOMAIN y
        PROVE  \E k \in 1..n : /\ Loadable(s[k]) /\ y[i] = LoadedAs(s[k])
                               /\ \A j \in (k + 1)..n : Loadable(s[j]) => s[j].name # y[i].name
    <3>1. CASE y[i] = p
      <4>1. n \in 1..n /\ \A j \in (n + 1)..n : FALSE
        BY <1>1
      <4>2. QED
        BY <1>3, <3>1, <4>1
    <3>2. ASSUME y[i].name # p.name, NEW m \in DOMAIN x, y[i] = x[m]
          PROVE  \E k \in 1..n : /\ Loadable(s[k]) /\ y[i] = LoadedAs(s[k])
                                 /\ \A j \in (k + 1)..n : Loadable(s[j]) => s[j].name # y[i].name
      <4>1. PICK k \in 1..(n - 1) : /\ Loadable(s[k]) /\ x[m] = LoadedAs(s[k])
                                    /\ \A j \in (k + 1)..(n - 1) : Loadable(s[j]) => s[j].name # x[m].name
        BY <1>0
      <4>2. \A j \in (k + 1)..n : j = n \/ j \in (k + 1)..(n - 1)
        OBVIOUS
      <4>3. QED
        BY <1>1, <2>2, <3>2, <4>1, <4>2
    <3>3. QED
      BY <2>3, <3>1, <3>2
  <2>6. QED
    BY <2>3, <2>4, <2>5 DEF LoadsUpTo, y
<1>4. QED
  BY <1>2, <1>3

LEMMA PluginFields ==
  ASSUME NEW p \in LoadedPlugin
  PROVE  /\ p.name \in KnownNames /\ p.hooks \in SUBSET HookNames /\ p.commands \in SUBSET OwnCommandNames
         /\ p.works \in BOOLEAN /\ p.enabled \in BOOLEAN
  BY DEF LoadedPlugin

(* The files in the order of the directories.                              *)
FilesOn(disk) == [i \in DOMAIN PluginDirs |-> disk[PluginDirs[i]]]

LEMMA DirsFact ==
  /\ PluginDirs \in Seq(DirNames) /\ Len(PluginDirs) \in Nat /\ DOMAIN PluginDirs = 1..Len(PluginDirs)
  /\ \A i \in DOMAIN PluginDirs : PluginDirs[i] \in DirNames
  BY TerminalPluginAssumption

LEMMA AllLoadedHolds ==
  ASSUME NEW disk \in [DirNames -> Files]
  PROVE  LoadsUpTo(<< >>, FilesOn(disk), Len(PluginDirs), AllLoaded(disk))
<1> DEFINE s == FilesOn(disk)
<1>1. s \in Seq(Files) /\ Len(s) = Len(PluginDirs)
  <2>1. \A i \in 1..Len(PluginDirs) : disk[PluginDirs[i]] \in Files
    BY DirsFact
  <2>2. s = [i \in 1..Len(PluginDirs) |-> disk[PluginDirs[i]]]
    BY DirsFact DEF FilesOn
  <2>3. QED
    BY <2>1, <2>2, DirsFact
<1>2. AllLoaded(disk) = Loading!Folded(<< >>, s)
  BY LoadsAreFolds DEF AllLoaded, FilesOn
<1> HIDE DEF s
<1>3. LoadsUpTo(<< >>, s, 0, << >>)
  BY DEF LoadsUpTo, DistinctNames
<1>4. \A n \in 1..Len(s) : \A x : LoadsUpTo(<< >>, s, n - 1, x) => LoadsUpTo(<< >>, s, n, LoadFile(x, s[n]))
  BY <1>1, LoadFileStep
<1>5. LoadsUpTo(<< >>, s, Len(s), Loading!Folded(<< >>, s))
  BY <1>1, <1>3, <1>4, Loading!FoldKeeps
<1>6. QED
  BY <1>1, <1>2, <1>5 DEF s

(* Subscriptions, registrations, and the plugins taken from them.          *)
LEMMA SubscribedStep ==
  ASSUME NEW subs \in SubsTable, \A h \in HookNames : IsInjective(subs[h]),
         NEW name \in KnownNames, NEW hooks \in SUBSET HookNames
  PROVE  /\ Subscribed(subs, name, hooks) \in SubsTable
         /\ \A h \in HookNames : IsInjective(Subscribed(subs, name, hooks)[h])
         /\ \A h \in hooks : name \in Range(Subscribed(subs, name, hooks)[h])
         /\ \A h \in HookNames : Range(subs[h]) \subseteq Range(Subscribed(subs, name, hooks)[h])
<1> DEFINE r == Subscribed(subs, name, hooks)
<1>1. \A h \in HookNames : r[h] = IF h \in hooks /\ name \notin Range(subs[h]) THEN Append(subs[h], name)
                                  ELSE subs[h]
  BY DEF Subscribed
<1>5. r = [h \in HookNames |-> r[h]]
  BY DEF Subscribed
<1> HIDE DEF r
<1>2. ASSUME NEW h \in HookNames
      PROVE  /\ r[h] \in Seq(KnownNames) /\ IsInjective(r[h]) /\ Range(subs[h]) \subseteq Range(r[h])
             /\ h \in hooks => name \in Range(r[h])
  <2> DEFINE a == subs[h]
             b == r[h]
  <2>1. a \in Seq(KnownNames) /\ IsInjective(a)
    BY DEF SubsTable
  <2>2. CASE ~(h \in hooks /\ name \notin Range(a))
    <3>1. b = a
      BY <1>1, <2>2
    <3>2. QED
      BY <2>1, <2>2, <3>1
  <2>3. CASE h \in hooks /\ name \notin Range(a)
    <3>5. b = Append(a, name)
      BY <1>1, <2>3
    <3> HIDE DEF a, b
    <3>1. /\ b \in Seq(KnownNames) /\ DOMAIN b = 1..(Len(a) + 1) /\ DOMAIN a = 1..Len(a) /\ Len(a) \in Nat
          /\ b[Len(a) + 1] = name /\ \A i \in DOMAIN a : b[i] = a[i]
      BY <2>1, <3>5
    <3>2. IsInjective(b)
      BY <2>1, <2>3, <3>1 DEF IsInjective, Range
    <3>3. name \in Range(b) /\ Range(a) \subseteq Range(b)
      BY <3>1 DEF Range
    <3>4. QED
      BY <3>1, <3>2, <3>3 DEF a, b
  <2>4. QED
    BY <1>1, <2>2, <2>3
<1>3. r \in SubsTable
  BY <1>2, <1>5 DEF SubsTable
<1>4. QED
  BY <1>2, <1>3 DEF r

LEMMA SubscribeAll ==
  ASSUME NEW subs \in SubsTable, \A h \in HookNames : IsInjective(subs[h]), NEW ps \in Seq(LoadedPlugin)
  PROVE  SubscribesUpTo(subs, ps, Len(ps), FoldLeft(SubscribePlugin, subs, ps))
<1>1. SubscribesUpTo(subs, ps, 0, subs)
  BY DEF SubscribesUpTo
<1>2. ASSUME NEW n \in 1..Len(ps), NEW x, SubscribesUpTo(subs, ps, n - 1, x)
      PROVE  SubscribesUpTo(subs, ps, n, SubscribePlugin(x, ps[n]))
  <2> DEFINE p == ps[n]
             y == Subscribed(x, p.name, p.hooks)
  <2>1. p \in LoadedPlugin /\ p.name \in KnownNames /\ p.hooks \in SUBSET HookNames
    <3>1. p \in LoadedPlugin
      OBVIOUS
    <3>2. QED
      BY <3>1, PluginFields
  <2>2. x \in SubsTable /\ \A h \in HookNames : IsInjective(x[h])
    BY <1>2 DEF SubscribesUpTo
  <2>3. /\ y \in SubsTable /\ \A h \in HookNames : IsInjective(y[h])
        /\ \A h \in p.hooks : p.name \in Range(y[h])
        /\ \A h \in HookNames : Range(x[h]) \subseteq Range(y[h])
    BY <2>1, <2>2, SubscribedStep
  <2>4. SubscribePlugin(x, ps[n]) = y
    BY DEF SubscribePlugin
  <2> HIDE DEF y
  <2>5. ASSUME NEW k \in 1..n, NEW h \in ps[k].hooks PROVE ps[k].name \in Range(y[h])
    <3>1. CASE k = n
      BY <2>3, <3>1
    <3>2. CASE k # n
      <4>1. k \in 1..(n - 1) /\ k \in 1..Len(ps)
        BY <3>2
      <4>2. ps[k].name \in Range(x[h])
        BY <1>2, <4>1 DEF SubscribesUpTo
      <4>3. h \in HookNames
        <5>1. ps[k] \in LoadedPlugin
          BY <4>1
        <5>2. QED
          BY <5>1, PluginFields
      <4>4. QED
        BY <2>3, <4>2, <4>3
    <3>3. QED
      BY <3>1, <3>2
  <2>6. QED
    BY <2>3, <2>4, <2>5 DEF SubscribesUpTo
<1>3. SubscribesUpTo(subs, ps, Len(ps), TermSubscribing!Folded(subs, ps))
  BY <1>1, <1>2, TermSubscribing!FoldKeeps
<1>4. QED
  BY <1>3, LoadsAreFolds

LEMMA RegisteredStep ==
  ASSUME NEW es \in EntryTable, NEW name \in KnownNames
  PROVE  /\ Registered(es, name) \in EntryTable
         /\ \A m \in KnownNames : es[m] = "approved" => Registered(es, name)[m] = "approved"
  BY DEF Registered, EntryTable

LEMMA RegisterAll ==
  ASSUME NEW es \in EntryTable, NEW ps \in Seq(LoadedPlugin)
  PROVE  RegistersUpTo(es, ps, Len(ps), FoldLeft(RegisterPlugin, es, ps))
<1>1. RegistersUpTo(es, ps, 0, es)
  BY DEF RegistersUpTo
<1>2. ASSUME NEW n \in 1..Len(ps), NEW x, RegistersUpTo(es, ps, n - 1, x)
      PROVE  RegistersUpTo(es, ps, n, RegisterPlugin(x, ps[n]))
  <2>1. ps[n].name \in KnownNames
    <3>1. ps[n] \in LoadedPlugin
      OBVIOUS
    <3>2. QED
      BY <3>1, PluginFields
  <2>2. QED
    BY <1>2, <2>1, RegisteredStep DEF RegistersUpTo, RegisterPlugin
<1>3. RegistersUpTo(es, ps, Len(ps), Registering!Folded(es, ps))
  BY <1>1, <1>2, Registering!FoldKeeps
<1>4. QED
  BY <1>3, LoadsAreFolds

LEMMA UnsubscribeHolds ==
  ASSUME NEW subs \in SubsTable, \A h \in HookNames : IsInjective(subs[h]), NEW names
  PROVE  /\ NotSubscribed(subs, names) \in SubsTable
         /\ \A h \in HookNames : IsInjective(NotSubscribed(subs, names)[h])
<1> DEFINE r == NotSubscribed(subs, names)
           P(h) == {i \in DOMAIN subs[h] : subs[h][i] \notin names}
<1>1. r = [h \in HookNames |-> Only(subs[h], P(h))]
  BY DEF NotSubscribed
<1> HIDE DEF r, P
<1>2. ASSUME NEW h \in HookNames PROVE r[h] \in Seq(KnownNames) /\ IsInjective(r[h])
  <2>1. subs[h] \in Seq(KnownNames) /\ IsInjective(subs[h]) /\ r[h] = Only(subs[h], P(h))
    BY <1>1 DEF SubsTable
  <2>2. QED
    BY <2>1, OnlyRange
<1>3. r \in SubsTable
  BY <1>1, <1>2 DEF SubsTable
<1>4. QED
  BY <1>2, <1>3 DEF r

(* The directory that wins a name is the last that has it.                 *)
LEMMA WinningIs ==
  ASSUME NEW i \in DOMAIN PluginDirs, NEW n, Loadable(onDisk[PluginDirs[i]]), onDisk[PluginDirs[i]].name = n,
         \A j \in (i + 1)..Len(PluginDirs) : Loadable(onDisk[PluginDirs[j]]) => onDisk[PluginDirs[j]].name # n
  PROVE  WinningDir(n) = onDisk[PluginDirs[i]]
<1> DEFINE its == {k \in DOMAIN PluginDirs : Loadable(onDisk[PluginDirs[k]]) /\ onDisk[PluginDirs[k]].name = n}
<1>1. i \in its /\ its # {} /\ its \subseteq DOMAIN PluginDirs
  OBVIOUS
<1>2. \A k \in its : k <= i
  <2>1. ASSUME NEW k \in its, ~(k <= i) PROVE FALSE
    <3>1. k \in (i + 1)..Len(PluginDirs)
      BY <1>1, <2>1, DirsFact
    <3>2. QED
      BY <3>1
  <2>2. QED
    BY <2>1
<1>3. WinningDir(n) = onDisk[PluginDirs[CHOOSE k \in its : \A m \in its : m <= k]]
  BY <1>1 DEF WinningDir
<1> HIDE DEF its
<1>4. \A k \in its : (\A m \in its : m <= k) => k = i
  BY <1>1, <1>2, DirsFact
<1>5. (CHOOSE k \in its : \A m \in its : m <= k) = i
  BY <1>1, <1>2, <1>4
<1>6. QED
  BY <1>3, <1>5

LEMMA WinningSome ==
  ASSUME NEW n, WinningDir(n) # NoJson
  PROVE  \E i \in DOMAIN PluginDirs : Loadable(onDisk[PluginDirs[i]]) /\ onDisk[PluginDirs[i]].name = n
  BY DEF WinningDir

(* Types of the loaded plugins and of what they are known by.              *)
TPTyped ==
  /\ onDisk \in [DirNames -> Files] /\ loaded \in Seq(LoadedPlugin) /\ hookSubs \in SubsTable
  /\ entries \in EntryTable /\ granted \in SUBSET KnownNames

SubsInv ==
  /\ DistinctNames(loaded) /\ \A h \in HookNames : IsInjective(hookSubs[h])
  /\ \A i \in DOMAIN loaded : loaded[i].name \in switchedOff => ~loaded[i].enabled

(* A plugin is loaded as its file says.                                    *)
FollowsDisk(p, f) ==
  /\ f # NoJson /\ p.hooks = f.hooks /\ p.commands = f.commands /\ (p.works <=> f.entry = "runs")
  /\ p.enabled <=> p.name \notin switchedOff
  /\ \A h \in p.hooks : p.name \in Range(hookSubs[h])

FreshInv ==
  isFresh =>
    /\ \A n \in KnownNames : WinningDir(n) # NoJson => \E i \in DOMAIN loaded : loaded[i].name = n
    /\ \A i \in DOMAIN loaded : FollowsDisk(loaded[i], WinningDir(loaded[i].name))

TPInv == SubsInv /\ FreshInv /\ ApprovalsLast

(* Each operation of the manager.                                          *)
LEMMA LoadPluginsStep ==
  ASSUME TPTyped, TPInv, UNCHANGED <<onDisk, granted>>, NEW subs \in SubsTable,
         \A h \in HookNames : IsInjective(subs[h]), Load(onDisk, subs)
  PROVE  TPTyped' /\ TPInv'
<1> DEFINE s == FilesOn(onDisk)
           N == Len(PluginDirs)
<1>1. /\ loaded' = AllLoaded(onDisk)
      /\ entries' = FoldLeft(RegisterPlugin, entries, loaded')
      /\ hookSubs' = FoldLeft(SubscribePlugin, subs, loaded')
      /\ isFresh' = TRUE /\ switchedOff' = {}
  BY DEF Load
<1>2. LoadsUpTo(<< >>, s, N, loaded')
  BY <1>1, AllLoadedHolds DEF TPTyped
<1>3. loaded' \in Seq(LoadedPlugin) /\ DistinctNames(loaded')
  BY <1>2 DEF LoadsUpTo
<1>4. RegistersUpTo(entries, loaded', Len(loaded'), entries')
  BY <1>1, <1>3, RegisterAll DEF TPTyped
<1>5. SubscribesUpTo(subs, loaded', Len(loaded'), hookSubs')
  BY <1>1, <1>3, SubscribeAll
<1>6. TPTyped'
  BY <1>3, <1>4, <1>5 DEF TPTyped, RegistersUpTo, SubscribesUpTo
<1>7. SubsInv'
  BY <1>1, <1>3, <1>5 DEF SubsInv, SubscribesUpTo
<1>8. ApprovalsLast'
  BY <1>4 DEF ApprovalsLast, RegistersUpTo, TPInv, TPTyped
<1>9. /\ \A k \in 1..N : s[k] = onDisk[PluginDirs[k]]
      /\ N \in Nat /\ DOMAIN PluginDirs = 1..N
  BY DirsFact DEF FilesOn
<1>10. \A n : WinningDir(n)' = WinningDir(n)
  BY DEF WinningDir
<1>11. ASSUME NEW n \in KnownNames, WinningDir(n)' # NoJson
       PROVE  \E i \in DOMAIN loaded' : loaded'[i].name = n
  <2>1. PICK k \in 1..N : Loadable(s[k]) /\ s[k].name = n
    BY <1>9, <1>10, <1>11, WinningSome
  <2> HIDE DEF s, N
  <2>2. QED
    BY <1>2, <2>1 DEF LoadsUpTo
<1>12. ASSUME NEW i \in DOMAIN loaded'
       PROVE  FollowsDisk(loaded[i], WinningDir(loaded[i].name))'
  <2> DEFINE p == loaded'[i]
  <2>1. PICK k \in 1..N : /\ Loadable(s[k]) /\ p = LoadedAs(s[k])
                          /\ \A j \in (k + 1)..N : Loadable(s[j]) => s[j].name # p.name
    <3> HIDE DEF s, N
    <3>1. QED
      BY <1>2 DEF LoadsUpTo
  <2>2. s[k] \in Files
    BY <1>9, DirsFact DEF TPTyped
  <2>3. /\ p.name = s[k].name /\ p.enabled = TRUE /\ p.hooks = s[k].hooks
        /\ p.commands = s[k].commands /\ p.works = (s[k].entry = "runs") /\ s[k] # NoJson
    <3> HIDE DEF s, p
    <3>1. QED
      BY <2>1, <2>2, LoadedAsType DEF Loadable
  <2>4. WinningDir(p.name) = s[k]
    <3> DEFINE nm == p.name
    <3>1. k \in DOMAIN PluginDirs /\ Loadable(onDisk[PluginDirs[k]]) /\ onDisk[PluginDirs[k]].name = nm
          /\ \A j \in (k + 1)..Len(PluginDirs) : Loadable(onDisk[PluginDirs[j]]) => onDisk[PluginDirs[j]].name # nm
      <4>1. \A j \in (k + 1)..N : j \in 1..N
        BY <1>9
      <4>2. QED
        BY <1>9, <2>1, <2>3, <4>1
    <3> HIDE DEF nm
    <3>2. WinningDir(nm) = onDisk[PluginDirs[k]]
      BY <3>1, WinningIs
    <3>3. QED
      BY <1>9, <3>2 DEF nm
  <2>5. i \in 1..Len(loaded')
    BY <1>3
  <2>6. \A h \in p.hooks : p.name \in Range(hookSubs'[h])
    BY <1>5, <2>5 DEF SubscribesUpTo
  <2> HIDE DEF s
  <2>7. QED
    BY <1>1, <1>10, <2>3, <2>4, <2>6 DEF FollowsDisk
<1>13. FreshInv'
  BY <1>11, <1>12 DEF FreshInv
<1>14. QED
  BY <1>6, <1>7, <1>8, <1>13 DEF TPInv

LEMMA TermPluginsInitially == TPInit => TPTyped /\ TPInv
<1> SUFFICES ASSUME TPInit PROVE TPTyped /\ TPInv
  OBVIOUS
<1>1. /\ onDisk \in [DirNames -> Files] /\ loaded = << >> /\ hookSubs = NoSubs
      /\ entries = [n \in KnownNames |-> "none"] /\ isFresh = FALSE /\ switchedOff = {} /\ granted = {}
  BY DEF TPInit, Files
<1>2. << >> \in Seq(KnownNames) /\ IsInjective(<< >>) /\ << >> \in Seq(LoadedPlugin) /\ DistinctNames(<< >>)
  BY DEF IsInjective, DistinctNames
<1>3. NoSubs \in SubsTable /\ \A h \in HookNames : IsInjective(NoSubs[h])
  BY <1>2 DEF NoSubs, SubsTable
<1>4. entries \in EntryTable
  BY <1>1 DEF EntryTable
<1>5. QED
  BY <1>1, <1>2, <1>3, <1>4 DEF TPTyped, TPInv, SubsInv, FreshInv, ApprovalsLast

LEMMA RemoveStep ==
  ASSUME TPTyped, TPInv, NEW d \in DirNames, RemovePlugin(d)
  PROVE  TPTyped' /\ TPInv'
<1>1. /\ entries' = [entries EXCEPT ![d] = "none"] /\ granted' = granted \ {d}
      /\ UNCHANGED <<isLoaded, loaded, hookSubs, diskEdits, switchedOff>>
      /\ \/ UNCHANGED <<onDisk, isFresh>>
         \/ /\ onDisk' = [onDisk EXCEPT ![d] = NoJson] /\ isFresh' = (isFresh /\ onDisk[d] = NoJson)
  BY DEF RemovePlugin
<1>2. d \in KnownNames /\ NoJson \in Files
  BY DEF KnownNames, Files
<1>3. entries' \in EntryTable /\ \A n \in KnownNames : n # d => entries'[n] = entries[n]
  BY <1>1, <1>2 DEF TPTyped, EntryTable
<1>4. TPTyped'
  BY <1>1, <1>2, <1>3 DEF TPTyped
<1>5. ApprovalsLast'
  BY <1>1, <1>3 DEF TPInv, TPTyped, ApprovalsLast
<1>6. SubsInv'
  BY <1>1 DEF TPInv, SubsInv
<1>7. isFresh' => isFresh /\ onDisk' = onDisk
  BY <1>1 DEF TPTyped
<1>8. FreshInv'
  <2>1. SUFFICES ASSUME isFresh' PROVE FreshInv'
    BY DEF FreshInv
  <2>2. isFresh /\ onDisk' = onDisk
    BY <1>7, <2>1
  <2>3. \A n : WinningDir(n)' = WinningDir(n)
    BY <2>2 DEF WinningDir
  <2>4. QED
    BY <1>1, <2>2, <2>3 DEF TPInv, FreshInv, FollowsDisk
<1>9. QED
  BY <1>4, <1>5, <1>6, <1>8 DEF TPInv

LEMMA ReloadOneStep ==
  ASSUME TPTyped, TPInv, NEW n \in KnownNames, ReloadPlugin(n)
  PROVE  TPTyped' /\ TPInv'
<1> DEFINE without == NotSubscribed(hookSubs, {n})
           f == onDisk[n]
<1>1. isFresh' = FALSE /\ UNCHANGED <<onDisk, granted>>
  BY DEF ReloadPlugin
<1>2. without \in SubsTable /\ \A h \in HookNames : IsInjective(without[h])
  BY UnsubscribeHolds DEF TPTyped, TPInv, SubsInv
<1>3. FreshInv'
  BY <1>1 DEF FreshInv
<1>4. CASE hookSubs' = without /\ UNCHANGED <<loaded, entries, switchedOff>>
  BY <1>1, <1>2, <1>3, <1>4 DEF TPTyped, TPInv, SubsInv, ApprovalsLast
<1>5. CASE /\ n \in NamesIn(loaded) /\ n \in DirNames /\ Loadable(onDisk[n])
           /\ loaded' = PutPlugin(loaded, LoadedAs(onDisk[n]))
           /\ hookSubs' = Subscribed(without, n, onDisk[n].hooks)
           /\ entries' = Registered(entries, n)
           /\ switchedOff' = switchedOff \ {onDisk[n].name}
  <2> DEFINE p == LoadedAs(f)
  <2>1. f \in Files /\ Loadable(f)
    BY <1>5 DEF TPTyped
  <2>2. p \in LoadedPlugin /\ p.name = f.name /\ p.enabled = TRUE /\ f.hooks \in SUBSET HookNames
    BY <2>1, LoadedAsType
  <2>3. loaded \in Seq(LoadedPlugin) /\ DistinctNames(loaded) /\ loaded' = PutPlugin(loaded, p)
    BY <1>5 DEF TPTyped, TPInv, SubsInv
  <2>4. hookSubs' \in SubsTable /\ \A h \in HookNames : IsInjective(hookSubs'[h])
    <3> HIDE DEF without
    <3>1. QED
      BY <1>2, <1>5, <2>2, SubscribedStep
  <2>5. entries' \in EntryTable /\ \A m \in KnownNames : entries[m] = "approved" => entries'[m] = "approved"
    BY <1>5, RegisteredStep DEF TPTyped
  <2> HIDE DEF p, f, without
  <2>6. PluginPut(loaded, p, loaded')
    BY <2>2, <2>3, PutPluginStep
  <2>7. \A i \in DOMAIN loaded' : loaded'[i].name \in switchedOff' => ~loaded'[i].enabled
    <3>1. switchedOff' = switchedOff \ {p.name}
      BY <1>5, <2>2 DEF f
    <3>2. QED
      BY <2>6, <3>1 DEF PluginPut, TPInv, SubsInv
  <2>8. TPTyped'
    BY <1>1, <2>4, <2>5, <2>6 DEF TPTyped, PluginPut
  <2>9. SubsInv'
    BY <2>4, <2>6, <2>7 DEF SubsInv, PluginPut
  <2>10. ApprovalsLast'
    BY <1>1, <2>5 DEF ApprovalsLast, TPInv, TPTyped
  <2>11. QED
    BY <1>3, <2>8, <2>9, <2>10 DEF TPInv
<1>6. QED
  BY <1>4, <1>5 DEF ReloadPlugin

LEMMA SwitchStep ==
  ASSUME TPTyped, TPInv, NEW n \in KnownNames, NEW on \in BOOLEAN, SwitchPlugin(n, on)
  PROVE  TPTyped' /\ TPInv'
<1>1. /\ loaded' = [i \in DOMAIN loaded |->
                      IF loaded[i].name = n THEN [loaded[i] EXCEPT !.enabled = on] ELSE loaded[i]]
      /\ switchedOff' = IF on THEN switchedOff \ {n} ELSE switchedOff \union {n}
      /\ UNCHANGED <<onDisk, hookSubs, entries, isFresh, granted>>
  BY DEF SwitchPlugin
<1>2. /\ Len(loaded) \in Nat /\ DOMAIN loaded = 1..Len(loaded)
      /\ \A i \in DOMAIN loaded : loaded[i] \in LoadedPlugin
  BY DEF TPTyped
<1>3. ASSUME NEW i \in DOMAIN loaded
      PROVE  /\ loaded'[i] \in LoadedPlugin /\ loaded'[i].name = loaded[i].name
             /\ loaded'[i].hooks = loaded[i].hooks /\ loaded'[i].commands = loaded[i].commands
             /\ loaded'[i].works = loaded[i].works
             /\ loaded'[i].enabled = IF loaded[i].name = n THEN on ELSE loaded[i].enabled
  <2> DEFINE p == loaded[i]
  <2>1. p \in LoadedPlugin
    BY <1>2
  <2>2. loaded'[i] = IF p.name = n THEN [p EXCEPT !.enabled = on] ELSE p
    BY <1>1
  <2> HIDE DEF p
  <2>3. [p EXCEPT !.enabled = on] \in LoadedPlugin /\ [p EXCEPT !.enabled = on].enabled = on
        /\ [p EXCEPT !.enabled = on].name = p.name /\ [p EXCEPT !.enabled = on].hooks = p.hooks
        /\ [p EXCEPT !.enabled = on].commands = p.commands /\ [p EXCEPT !.enabled = on].works = p.works
    BY <2>1 DEF LoadedPlugin
  <2>4. QED
    BY <2>1, <2>2, <2>3 DEF p
<1>4. DOMAIN loaded' = DOMAIN loaded
  BY <1>1
<1>5. loaded' \in Seq(LoadedPlugin)
  <2>1. loaded' = [i \in 1..Len(loaded) |-> loaded'[i]]
    BY <1>1, <1>2
  <2>2. QED
    BY <1>2, <1>3, <2>1
<1>6. SubsInv'
  <2>1. DistinctNames(loaded')
    BY <1>3, <1>4 DEF TPInv, SubsInv, DistinctNames
  <2>2. \A i \in DOMAIN loaded' : loaded'[i].name \in switchedOff' => ~loaded'[i].enabled
    BY <1>1, <1>3, <1>4 DEF TPInv, SubsInv
  <2>3. QED
    BY <1>1, <2>1, <2>2 DEF TPInv, SubsInv
<1>7. FreshInv'
  <2>1. SUFFICES ASSUME isFresh' PROVE FreshInv'
    BY DEF FreshInv
  <2>2. isFresh /\ FreshInv
    BY <1>1, <2>1 DEF TPInv
  <2>3. \A m : WinningDir(m)' = WinningDir(m)
    BY <1>1 DEF WinningDir
  <2>4. ASSUME NEW i \in DOMAIN loaded' PROVE FollowsDisk(loaded[i], WinningDir(loaded[i].name))'
    <3>1. FollowsDisk(loaded[i], WinningDir(loaded[i].name))
      BY <1>4, <2>2, <2>4 DEF FreshInv
    <3>2. loaded'[i].enabled <=> loaded'[i].name \notin switchedOff'
      BY <1>1, <1>3, <1>4, <2>4, <3>1 DEF FollowsDisk
    <3>3. QED
      BY <1>1, <1>3, <1>4, <2>3, <2>4, <3>1, <3>2 DEF FollowsDisk
  <2>5. \A m \in KnownNames : WinningDir(m)' # NoJson => \E i \in DOMAIN loaded' : loaded'[i].name = m
    BY <1>3, <1>4, <2>2, <2>3 DEF FreshInv
  <2>6. QED
    BY <2>4, <2>5 DEF FreshInv
<1>8. QED
  BY <1>1, <1>5, <1>6, <1>7 DEF TPTyped, TPInv, ApprovalsLast

LEMMA ApproveStep ==
  ASSUME TPTyped, TPInv, NEW n \in KnownNames, ApprovePlugin(n)
  PROVE  TPTyped' /\ TPInv'
<1>1. /\ entries' = [entries EXCEPT ![n] = "approved"] /\ granted' = granted \union {n}
      /\ UNCHANGED <<onDisk, loaded, hookSubs, isFresh, switchedOff>>
  BY DEF ApprovePlugin
<1>2. entries' \in EntryTable /\ \A m \in KnownNames : entries'[m] = IF m = n THEN "approved" ELSE entries[m]
  BY <1>1 DEF TPTyped, EntryTable
<1>3. \A m : WinningDir(m)' = WinningDir(m)
  BY <1>1 DEF WinningDir
<1>4. FreshInv'
  BY <1>1, <1>3 DEF TPInv, FreshInv, FollowsDisk
<1>5. ApprovalsLast'
  BY <1>1, <1>2 DEF ApprovalsLast, TPInv, TPTyped
<1>6. QED
  BY <1>1, <1>2, <1>4, <1>5 DEF TPTyped, TPInv, SubsInv

LEMMA RestartProgramStep ==
  ASSUME TPTyped, TPInv, NEW torn \in BOOLEAN, RestartTerminal(torn)
  PROVE  TPTyped' /\ TPInv'
<1>1. /\ loaded' = << >> /\ hookSubs' = NoSubs /\ isFresh' = FALSE /\ switchedOff' = {}
      /\ onDisk' = onDisk
      /\ \/ entries' = [n \in KnownNames |-> "none"] /\ granted' = {}
         \/ UNCHANGED <<entries, granted>>
  BY DEF RestartTerminal
<1>2. << >> \in Seq(KnownNames) /\ IsInjective(<< >>) /\ << >> \in Seq(LoadedPlugin) /\ DistinctNames(<< >>)
  BY DEF IsInjective, DistinctNames
<1>3. NoSubs \in SubsTable /\ \A h \in HookNames : IsInjective(NoSubs[h])
  BY <1>2 DEF NoSubs, SubsTable
<1>4. entries' \in EntryTable /\ ApprovalsLast'
  BY <1>1 DEF TPTyped, TPInv, EntryTable, ApprovalsLast
<1>5. granted' \in SUBSET KnownNames
  BY <1>1 DEF TPTyped
<1>6. QED
  BY <1>1, <1>2, <1>3, <1>4, <1>5 DEF TPTyped, TPInv, SubsInv, FreshInv

LEMMA TPStep ==
  ASSUME TPTyped, TPInv, [TPNext]_tpVars
  PROVE  TPTyped' /\ TPInv'
<1>0. /\ hookSubs \in SubsTable /\ \A h \in HookNames : IsInjective(hookSubs[h])
      /\ NotSubscribed(hookSubs, NamesIn(loaded)) \in SubsTable
      /\ \A h \in HookNames : IsInjective(NotSubscribed(hookSubs, NamesIn(loaded))[h])
  BY UnsubscribeHolds DEF TPTyped, TPInv, SubsInv
<1>1. CASE UNCHANGED tpVars
  <2>1. \A m : WinningDir(m)' = WinningDir(m)
    BY <1>1 DEF WinningDir, tpVars
  <2>2. FreshInv'
    BY <1>1, <2>1 DEF TPInv, FreshInv, FollowsDisk, tpVars
  <2>3. QED
    BY <1>1, <2>2 DEF TPTyped, TPInv, SubsInv, ApprovalsLast, tpVars
<1>2. CASE LoadPlugins
  <2>1. Load(onDisk, hookSubs) /\ UNCHANGED <<onDisk, granted>>
    BY <1>2 DEF LoadPlugins
  <2>2. QED
    BY <1>0, <2>1, LoadPluginsStep
<1>3. CASE ReloadPlugins \/ ListPlugins \/ \E d \in DirNames : InstallPlugin(d)
  <2>1. Load(onDisk, NotSubscribed(hookSubs, NamesIn(loaded))) /\ UNCHANGED <<onDisk, granted>>
    BY <1>3 DEF ReloadPlugins, ListPlugins, InstallPlugin, Reload
  <2>2. QED
    BY <1>0, <2>1, LoadPluginsStep
<1>4. ASSUME NEW d \in DirNames, NEW f \in Files, EditDirectory(d, f) PROVE TPTyped' /\ TPInv'
  <2>1. /\ onDisk' = [onDisk EXCEPT ![d] = f] /\ isFresh' = FALSE
        /\ UNCHANGED <<loaded, hookSubs, entries, switchedOff, granted>>
    BY <1>4 DEF EditDirectory
  <2>2. QED
    BY <2>1 DEF TPTyped, TPInv, SubsInv, FreshInv, ApprovalsLast
<1>5. QED
  BY <1>1, <1>2, <1>3, <1>4, RemoveStep, ReloadOneStep, SwitchStep, ApproveStep, RestartProgramStep DEF TPNext, Files

LEMMA TPInvMeans == TPTyped /\ TPInv => PluginsAreSound
<1> SUFFICES ASSUME TPTyped, TPInv PROVE PluginsAreSound
  OBVIOUS
<1>1. \A i \in DOMAIN loaded : loaded[i] \in LoadedPlugin
  BY DEF TPTyped
<1>2. ASSUME NEW i \in DOMAIN loaded PROVE loaded[i].name \in NamesIn(loaded) /\ Plugin(loaded[i].name) = loaded[i]
  <2>1. loaded[i] \in Range(loaded)
    BY DEF Range
  <2>2. \A p \in Range(loaded) : p.name = loaded[i].name => p = loaded[i]
    BY DEF Range, TPInv, SubsInv, DistinctNames
  <2>3. Plugin(loaded[i].name) = loaded[i]
    BY <2>1, <2>2 DEF Plugin
  <2>4. QED
    BY <2>3 DEF NamesIn
<1>3. ASSUME NEW n \in NamesIn(loaded) PROVE \E i \in DOMAIN loaded : loaded[i].name = n /\ Plugin(n) = loaded[i]
  BY <1>2 DEF NamesIn
<1>4. ASSUME NEW h \in HookNames, NEW x
      PROVE  x \in Range(CalledFor(h)) <=> x \in Range(hookSubs[h]) /\ IsCalled(x, h)
  <2> DEFINE P == {i \in DOMAIN hookSubs[h] : IsCalled(hookSubs[h][i], h)}
  <2>1. CalledFor(h) = Only(hookSubs[h], P) /\ hookSubs[h] \in Seq(KnownNames)
    BY DEF CalledFor, TPTyped, SubsTable
  <2> HIDE DEF P
  <2>2. x \in Range(Only(hookSubs[h], P)) <=> \E i \in P \intersect DOMAIN hookSubs[h] : hookSubs[h][i] = x
    BY <2>1, OnlyRange
  <2>3. QED
    BY <2>1, <2>2 DEF P, Range
<1>5. ASSUME NEW c, NEW x
      PROVE  x \in NamesIn(TriedFor(c)) <=>
               \E i \in DOMAIN loaded : loaded[i].name = x /\ loaded[i].enabled /\ c \in loaded[i].commands
  <2> DEFINE P == {i \in DOMAIN loaded : loaded[i].enabled /\ c \in loaded[i].commands}
  <2>1. TriedFor(c) = Only(loaded, P) /\ loaded \in Seq(LoadedPlugin)
    BY DEF TriedFor, TPTyped
  <2> HIDE DEF P
  <2>2. \A p : p \in Range(Only(loaded, P)) <=> \E i \in P \intersect DOMAIN loaded : loaded[i] = p
    BY <2>1, OnlyRange
  <2>3. x \in NamesIn(TriedFor(c)) <=> \E p \in Range(TriedFor(c)) : p.name = x
    BY DEF NamesIn, Range
  <2>4. QED
    BY <2>1, <2>2, <2>3 DEF P
<1>6. ASSUME NEW h \in HookNames PROVE Range(CalledFor(h)) \intersect switchedOff = {}
  <2>1. ASSUME NEW x \in Range(CalledFor(h)), x \in switchedOff PROVE FALSE
    <3>1. x \in NamesIn(loaded) /\ Plugin(x).enabled
      BY <1>4, <2>1 DEF IsCalled
    <3>2. PICK i \in DOMAIN loaded : loaded[i].name = x /\ Plugin(x) = loaded[i]
      BY <1>3, <3>1
    <3>3. QED
      BY <2>1, <3>1, <3>2 DEF TPInv, SubsInv
  <2>2. QED
    BY <2>1
<1> DEFINE On == {n \in KnownNames : WinningDir(n) # NoJson} \ switchedOff
<1>7. ASSUME isFresh, NEW x
      PROVE  /\ x \in On => \E i \in DOMAIN loaded : loaded[i].name = x /\ loaded[i].enabled
             /\ \A i \in DOMAIN loaded : loaded[i].name = x /\ loaded[i].enabled => x \in On
  <2>1. /\ \A n \in KnownNames : WinningDir(n) # NoJson => \E i \in DOMAIN loaded : loaded[i].name = n
        /\ \A i \in DOMAIN loaded : FollowsDisk(loaded[i], WinningDir(loaded[i].name))
    BY <1>7 DEF TPInv, FreshInv
  <2>2. \A i \in DOMAIN loaded : loaded[i].name \in KnownNames
    BY <1>1, PluginFields
  <2>3. QED
    BY <2>1, <2>2 DEF FollowsDisk
<1>8. ASSUME isFresh, NEW i \in DOMAIN loaded
      PROVE  FollowsDisk(loaded[i], WinningDir(loaded[i].name))
  BY <1>8 DEF TPInv, FreshInv
<1> HIDE DEF On
<1>9. ASSUME isFresh, NEW h \in HookNames
      PROVE  Range(CalledFor(h)) = {n \in On : h \in WinningDir(n).hooks /\ WinningDir(n).entry = "runs"}
  <2>1. ASSUME NEW x \in Range(CalledFor(h))
        PROVE  x \in On /\ h \in WinningDir(x).hooks /\ WinningDir(x).entry = "runs"
    <3>1. x \in NamesIn(loaded) /\ Plugin(x).enabled /\ h \in Plugin(x).hooks /\ Plugin(x).works
      BY <1>4, <2>1 DEF IsCalled, HasHook
    <3>2. PICK i \in DOMAIN loaded : loaded[i].name = x /\ Plugin(x) = loaded[i]
      BY <1>3, <3>1
    <3>3. FollowsDisk(loaded[i], WinningDir(x))
      BY <1>8, <1>9, <3>2
    <3>4. QED
      BY <1>7, <1>9, <3>1, <3>2, <3>3 DEF FollowsDisk
  <2>2. ASSUME NEW x \in On, h \in WinningDir(x).hooks, WinningDir(x).entry = "runs"
        PROVE  x \in Range(CalledFor(h))
    <3>1. PICK i \in DOMAIN loaded : loaded[i].name = x /\ loaded[i].enabled
      BY <1>7, <1>9
    <3>2. FollowsDisk(loaded[i], WinningDir(x))
      BY <1>8, <1>9, <3>1
    <3>3. x \in Range(hookSubs[h]) /\ h \in loaded[i].hooks /\ loaded[i].works
      BY <2>2, <3>1, <3>2 DEF FollowsDisk
    <3>4. x \in NamesIn(loaded) /\ Plugin(x) = loaded[i]
      BY <1>2, <3>1
    <3>5. QED
      BY <1>4, <3>1, <3>3, <3>4 DEF IsCalled, HasHook
  <2>3. QED
    BY <2>1, <2>2
<1>10. ASSUME isFresh, NEW c \in OwnCommandNames
       PROVE  NamesIn(TriedFor(c)) = {n \in On : c \in WinningDir(n).commands}
  <2>1. ASSUME NEW x \in NamesIn(TriedFor(c)) PROVE x \in On /\ c \in WinningDir(x).commands
    <3>1. PICK i \in DOMAIN loaded : loaded[i].name = x /\ loaded[i].enabled /\ c \in loaded[i].commands
      BY <1>5, <2>1
    <3>2. QED
      BY <1>7, <1>8, <1>10, <3>1 DEF FollowsDisk
  <2>2. ASSUME NEW x \in On, c \in WinningDir(x).commands PROVE x \in NamesIn(TriedFor(c))
    <3>1. PICK i \in DOMAIN loaded : loaded[i].name = x /\ loaded[i].enabled
      BY <1>7, <1>10
    <3>2. c \in loaded[i].commands
      BY <1>8, <1>10, <2>2, <3>1 DEF FollowsDisk
    <3>3. QED
      BY <1>5, <3>1, <3>2
  <2>3. QED
    BY <2>1, <2>2
<1>11. PluginsFollowDisk
  BY <1>6, <1>9, <1>10 DEF PluginsFollowDisk, TPInv, SubsInv, On
<1>12. QED
  BY <1>11 DEF PluginsAreSound, TPInv

-----------------------------------------------------------------------------
(* What follows for each, and for all of them side by side.                *)

(* What the watcher takes for known has been loaded, for any number of     *)
(* loops that were stopped and started (openvs/plugins/watcher.py).        *)
THEOREM WatcherSound == WatcherSpec => []WatcherIsSound
<1>1. WatcherInv => WatcherIsSound
  BY DEF WatcherInv, WatcherIsSound
<1>2. QED
  BY <1>1, WatcherInitially, WatcherStep, PTL DEF WatcherSpec

(* The terminal program and the engine keep each other's settings, and     *)
(* leave a file that both can read, for any keys and extensions, unless    *)
(* two changes overlap or a writer is killed (openvs/core/config.py and    *)
(* handle_config).                                                         *)
THEOREM SettingsSound == ConfigSpec => []ConfigIsKept
<1>1. QED
  BY ConfigInitially, ConfigStep, ConfigSafe, PTL DEF ConfigSpec

(* Updates are told of, asked for once in an interval and made in the      *)
(* channel that was chosen, whatever is published (openvs/core/updater.py).*)
THEOREM UpdatesSound == UpdaterSpec => []UpdatesAreSound
<1>1. UpdaterInit => UpdaterInv
  BY UpdaterInitially
<1>2. UpdaterInv /\ [UpdaterNext]_updateVars => UpdaterInv'
  BY UpdaterStep, UpdaterRests
<1>3. UpdaterInv => UpdatesAreSound
  BY UpdaterSafe
<1>4. QED
  BY <1>1, <1>2, <1>3, PTL DEF UpdaterSpec

(* The conversation is in order and the status is true, for any number of  *)
(* prompts, words and starts of the program (openvs/ui/app.py).            *)
THEOREM SessionsSound == TermSpec => []TerminalIsSound
<1>1. TermInit => TermInv
  BY TermInitially
<1>2. TermInv /\ [TermNext]_termVars => TermInv'
  BY TermStep, TermRests
<1>3. TermInv => TerminalIsSound
  BY TermSafe
<1>4. QED
  BY <1>1, <1>2, <1>3, PTL DEF TermSpec

(* The server: a status of running is of a run at work, the output of runs *)
(* one after the other is their own, notes are kept and the list of        *)
(* clients is honest, for any number of runs and clients (api.py).         *)
THEOREM ServerSound == ApiSpec => []ApiIsSound
<1>1. ApiInit => ApiInv
  BY ApiInitially
<1>2. ApiInv /\ [RunNext \/ MemoryNext \/ ClientNext]_apiVars => ApiInv'
  BY ApiStep, ApiRests
<1>3. ApiInv => ApiIsSound
  BY ApiSafe
<1>4. QED
  BY <1>1, <1>2, <1>3, PTL DEF ApiSpec

(* What is loaded follows the files as they were last read, the last       *)
(* directory with a name winning it, and an approval lasts, for any        *)
(* directories and files and however plugins are added, removed, switched  *)
(* and loaded again (openvs/plugins).                                      *)
THEOREM TerminalPluginsSound == TPSpec => []PluginsAreSound
<1>1. TPInit => TPTyped /\ TPInv
  BY TermPluginsInitially
<1>2. TPTyped /\ TPInv /\ [TPNext]_tpVars => (TPTyped /\ TPInv)'
  BY TPStep
<1>3. TPTyped /\ TPInv => PluginsAreSound
  BY TPInvMeans
<1>4. QED
  BY <1>1, <1>2, <1>3, PTL DEF TPSpec

(* In a behaviour of all the services each takes its own steps or none.    *)
LEMMA ServicesImplementEach ==
  ServicesSpec => /\ WatcherSpec /\ ConfigSpec /\ UpdaterSpec /\ TermSpec /\ NetSpec
                  /\ CacheSpec /\ RegistrySpec /\ ResilienceSpec /\ TiersSpec /\ ApiSpec
                  /\ PluginSpec /\ TPSpec /\ EngineSpec
<1>1. ServicesInit => /\ WatcherInit /\ ConfigInit /\ UpdaterInit /\ TermInit /\ NetInit
                      /\ CacheInit /\ RegistryInit /\ ResilienceInit /\ TiersInit /\ ApiInit
                      /\ PluginInit /\ TPInit /\ EngineInit
  BY DEF ServicesInit
<1>2. [ServicesNext]_serviceVars => ProgramsNext \/ UNCHANGED programVars
  BY DEF ServicesNext, serviceVars
<1>3. [ServicesNext]_serviceVars => [WatcherNext]_watcherVars
  BY <1>2 DEF ProgramsNext, programVars
<1>4. [ServicesNext]_serviceVars => [ConfigNext]_configVars
  BY <1>2 DEF ProgramsNext, programVars
<1>5. [ServicesNext]_serviceVars => [UpdaterNext]_updateVars
  BY <1>2 DEF ProgramsNext, programVars
<1>6. [ServicesNext]_serviceVars => [TermNext]_termVars
  BY <1>2 DEF ProgramsNext, programVars
<1>7. [ServicesNext]_serviceVars => [NetNext]_netVars
  BY <1>2 DEF ProgramsNext, programVars
<1>8. [ServicesNext]_serviceVars => LibrariesNext \/ UNCHANGED libraryVars
  BY DEF ServicesNext, serviceVars
<1>9. [ServicesNext]_serviceVars => [AnswerNext \/ ResultNext \/ ResumeNext]_cacheVars
  BY <1>8 DEF LibrariesNext, libraryVars
<1>10. [ServicesNext]_serviceVars => [PublisherNext \/ NodeNext \/ SecretNext]_registryVars
  BY <1>8 DEF LibrariesNext, libraryVars
<1>11. [ServicesNext]_serviceVars => [RetryNext \/ CareNext]_resilienceVars
  BY <1>8 DEF LibrariesNext, libraryVars
<1>12. [ServicesNext]_serviceVars => [TiersNext]_tierVars
  BY <1>8 DEF LibrariesNext, libraryVars
<1>13. [ServicesNext]_serviceVars => [RunNext \/ MemoryNext \/ ClientNext]_apiVars
  BY <1>8 DEF LibrariesNext, libraryVars
<1>14. ServicesSpec => WatcherSpec /\ ConfigSpec /\ UpdaterSpec /\ TermSpec /\ NetSpec
  BY <1>1, <1>3, <1>4, <1>5, <1>6, <1>7, PTL
     DEF ServicesSpec, WatcherSpec, ConfigSpec, UpdaterSpec, TermSpec, NetSpec
<1>15. ServicesSpec => CacheSpec /\ RegistrySpec /\ ResilienceSpec /\ TiersSpec /\ ApiSpec
  BY <1>1, <1>9, <1>10, <1>11, <1>12, <1>13, PTL
     DEF ServicesSpec, CacheSpec, RegistrySpec, ResilienceSpec, TiersSpec, ApiSpec
<1>16. [ServicesNext]_serviceVars => [PluginNext]_pluginVars
  BY <1>2 DEF ProgramsNext, programVars
<1>17. [ServicesNext]_serviceVars => [TPNext]_tpVars
  BY <1>2 DEF ProgramsNext, programVars
<1>18. ServicesSpec => PluginSpec /\ TPSpec
  BY <1>1, <1>16, <1>17, PTL DEF ServicesSpec, PluginSpec, TPSpec
<1>19. [ServicesNext]_serviceVars => [EngineNext]_engineVars
  BY <1>2 DEF ProgramsNext, programVars
<1>20. ServicesSpec => EngineSpec
  BY <1>1, <1>19, PTL DEF ServicesSpec, EngineSpec
<1>21. QED
  BY <1>14, <1>15, <1>18, <1>20

(* The terminal program serves its user, whatever else runs beside it:     *)
(* prompts and agents, the settings it shares with the engine, and its     *)
(* updates.                                                                *)
THEOREM UserServed == ServicesSpec => []TerminalServesUser
<1>1. TerminalIsSound /\ ConfigIsKept /\ UpdatesAreSound => TerminalServesUser
  BY DEF TerminalServesUser
<1>2. QED
  BY <1>1, ServicesImplementEach, SessionsSound, SettingsSound, UpdatesSound, PTL

(* The libraries and the server keep what they promise, whatever else runs *)
(* beside them: caches, tables in files, calls that are tried again, tiers *)
(* of memory, and the runs, notes and clients of the server.               *)
THEOREM LibraryServed == ServicesSpec => []LibraryHolds
<1>1. CachesAreSound /\ RegistriesAreSound /\ CallsAreTamed /\ TiersAreSound /\ ApiIsSound => LibraryHolds
  BY DEF LibraryHolds
<1>2. QED
  BY <1>1, ServicesImplementEach, CachesKept, RegistriesKept, CallsTamed, MemoriesKept, ServerSound, PTL

(* Plugins do what they were allowed to and no more, in the engine and in  *)
(* the terminal program, and what the watcher takes for loaded is loaded,  *)
(* whatever else runs beside them.                                         *)
THEOREM PluginsHeld == ServicesSpec => []PluginsHold
<1>1. PluginsContained /\ PluginsAreSound /\ WatcherIsSound => PluginsHold
  BY DEF PluginsHold
<1>2. QED
  BY <1>1, ServicesImplementEach, EnginePluginsContained, TerminalPluginsSound, WatcherSound, PTL

(* The engine keeps its ledger and its network layer tells what became of  *)
(* a submission, whatever else runs beside them.                           *)
THEOREM EngineHeld == ServicesSpec => []EngineHolds
<1>1. EngineLedger /\ NetworkIsSound => EngineHolds
  BY DEF EngineHolds
<1>2. QED
  BY <1>1, ServicesImplementEach, EngineLedgerKept, NetworkSound, PTL
=============================================================================
