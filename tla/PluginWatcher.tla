---------------------------- MODULE PluginWatcher ----------------------------
(***************************************************************************)
(* The watcher that reloads changed plugins (openvs/plugins/watcher.py),   *)
(* in its polling mode.  Every start makes a thread, and a thread looks at *)
(* _running only between two sleeps: stopped and started again within a    *)
(* sleep, the old loop goes on beside the new one.  The watched directory  *)
(* is a version number, 0 if it is missing.                                *)
(***************************************************************************)
EXTENDS Naturals

CONSTANTS
  Loops,      \* threads, each started once: a bound
  MaxVersions \* bound: changes of the directory

ASSUME WatcherAssumption == MaxVersions \in Nat

VARIABLES
  watching,    \* _running
  loopAt,      \* new, first, firstFill, head, asleep, reload, clear, fill or over
  directory,   \* the files there are, by their times
  versions,
  fileTimes,   \* _file_mtimes, 0 when empty
  loadedFiles, \* what the last on_reload that returned has read
  slipped      \* history: a change fell where the watcher cannot see it

watcherVars == <<watching, loopAt, directory, versions, fileTimes, loadedFiles, slipped>>

WatcherInit ==
  /\ watching = FALSE /\ loopAt = [l \in Loops |-> "new"]
  /\ directory = 1 /\ versions = 1 /\ fileTimes = 0 /\ loadedFiles = 1
  /\ slipped = FALSE

-----------------------------------------------------------------------------
StepLoop(l, from, to) == loopAt[l] = from /\ loopAt' = [loopAt EXCEPT ![l] = to]

(* A loop that has reloaded and not yet noted what was there. *)
Noting == \E l \in Loops : loopAt[l] \in {"clear", "fill"}

(* The files change, at any time. *)
EditPlugins(missing) ==
  /\ versions < MaxVersions /\ versions' = versions + 1
  /\ directory' = IF missing THEN 0 ELSE versions'
  /\ slipped' = (slipped \/ Noting)
  /\ UNCHANGED <<watching, loopAt, fileTimes, loadedFiles>>

(* start, unless it is running. *)
StartWatcher(l) ==
  /\ ~watching /\ watching' = TRUE
  /\ StepLoop(l, "new", "first")
  /\ UNCHANGED <<directory, versions, fileTimes, loadedFiles, slipped>>

StopWatcher ==
  /\ watching /\ watching' = FALSE
  /\ UNCHANGED <<loopAt, directory, versions, fileTimes, loadedFiles, slipped>>

(* _scan_mtimes empties the table and fills it.  The first scan of a loop  *)
(* takes for known what is there, loaded or not.                           *)
ClearTimes(l) ==
  /\ StepLoop(l, "first", "firstFill") \/ StepLoop(l, "clear", "fill")
  /\ fileTimes' = 0
  /\ UNCHANGED <<watching, directory, versions, loadedFiles, slipped>>

FillTimes(l) ==
  /\ StepLoop(l, "firstFill", "head") \/ StepLoop(l, "fill", "head")
  /\ fileTimes' = directory
  /\ slipped' = (slipped \/ (loopAt[l] = "firstFill" /\ directory # loadedFiles))
  /\ UNCHANGED <<watching, directory, versions, loadedFiles>>

(* while self._running *)
TurnLoop(l) ==
  /\ StepLoop(l, "head", IF watching THEN "asleep" ELSE "over")
  /\ UNCHANGED <<watching, directory, versions, fileTimes, loadedFiles, slipped>>

(* _detect_changes: nothing, when the directory is missing. *)
DetectChanges(l) ==
  /\ StepLoop(l, "asleep", IF directory # 0 /\ directory # fileTimes THEN "reload" ELSE "head")
  /\ UNCHANGED <<watching, directory, versions, fileTimes, loadedFiles, slipped>>

(* Slip: the times are noted although the reload has failed. *)
AfterFailure == "clear"

(* An exception ends the turn: the change will be found again. *)
AfterError == "head"

(* on_reload, which loads what is there or raises. *)
ReloadPluginFiles(l) ==
  /\ \/ StepLoop(l, "reload", "clear") /\ loadedFiles' = directory
     \/ StepLoop(l, "reload", AfterError) /\ UNCHANGED loadedFiles
  /\ UNCHANGED <<watching, directory, versions, fileTimes, slipped>>

WatcherNext ==
  \/ \E missing \in BOOLEAN : EditPlugins(missing)
  \/ StopWatcher
  \/ \E l \in Loops :
       StartWatcher(l) \/ ClearTimes(l) \/ FillTimes(l) \/ TurnLoop(l)
         \/ DetectChanges(l) \/ ReloadPluginFiles(l)

WatcherSpec == WatcherInit /\ [][WatcherNext]_watcherVars

-----------------------------------------------------------------------------
(* What the watcher takes for known has been loaded, however many loops    *)
(* there are and however often a reload fails: unless the files changed    *)
(* between a reload and the scan after it, or before the first scan, when  *)
(* the change goes unnoticed until the next one.                           *)
KnownIsLoaded == ~slipped /\ fileTimes # 0 => fileTimes = loadedFiles \/ Noting

WatcherIsSound == KnownIsLoaded
=============================================================================
