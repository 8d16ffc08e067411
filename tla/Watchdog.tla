------------------------------ MODULE Watchdog ------------------------------
(***************************************************************************)
(* The watchdog (core/watchdog.py): polling loops that check every watcher *)
(* and submit a job when a condition holds and the watcher has cooled down.*)
(*                                                                         *)
(* start() does not look whether a loop is running, and stop() does not    *)
(* wait for one, so several loops may check one watcher at the same time.  *)
(* A check reads the clock and last_triggered, takes a snapshot and writes *)
(* the watcher back, in four steps.  What is watched is a path that is     *)
(* absent (0) or has a version (the size and time of a file, the entries   *)
(* of a directory); some versions show a failure.                          *)
(***************************************************************************)
EXTENDS Naturals, Sequences, FiniteSets

CONSTANTS
  Watchers,
  Conditions,    \* "change", "failure", "exists", "error"
  Failing,       \* the versions that show a failure
  Cooldown,
  MaxLoops,      \* bound: calls of start
  MaxChanges,    \* bound: changes of the file system
  DogMaxTime     \* bound: seconds

Loops == 1..MaxLoops

ASSUME DogAssumption ==
  /\ Conditions \subseteq {"change", "failure", "exists", "error"}
  /\ Failing \subseteq Nat \ {0} /\ Cooldown \in Nat /\ MaxLoops \in Nat /\ MaxChanges \in Nat /\ DogMaxTime \in Nat

VARIABLES
  condition,  \* of each registered watcher, "none" of the others
  disk,       \* version of each watched path, 0 when it does not exist
  lastState,  \* last_state
  lastTrig,   \* last_triggered
  fired,      \* the times at which jobs were submitted (history)
  dogRunning, \* _running
  loopAt,     \* each loop: "off", "idle" or the step of its check
  loopOn,     \* the watcher it checks
  loopNow,    \* the time its check began
  loopSaw,    \* the snapshot it took
  started, changes, dogTime

fileVars == <<condition, disk, changes>>
loopVars == <<loopAt, loopOn, loopNow, loopSaw>>
dogVars  == <<fileVars, lastState, lastTrig, fired, dogRunning, loopVars, started, dogTime>>

DogInit ==
  /\ condition = [w \in Watchers |-> "none"]
  /\ disk = [w \in Watchers |-> 0]
  /\ lastState = disk
  /\ lastTrig = [w \in Watchers |-> 0]
  /\ fired = [w \in Watchers |-> <<>>]
  /\ dogRunning = FALSE
  /\ loopAt = [l \in Loops |-> "off"]
  /\ loopOn = [l \in Loops |-> CHOOSE w \in Watchers : TRUE]
  /\ loopNow = [l \in Loops |-> 0] /\ loopSaw = [l \in Loops |-> 0]
  /\ started = 0 /\ changes = 0 /\ dogTime = Cooldown

(* The file system. *)
Modify(w) ==
  /\ condition[w] # "none" /\ changes < MaxChanges
  /\ changes' = changes + 1
  /\ \E v \in {0, changes + 2} : disk' = [disk EXCEPT ![w] = v]
  /\ UNCHANGED <<condition, lastState, lastTrig, fired, dogRunning, loopVars, started, dogTime>>

(* register: the path is absent, or has its first version. *)
RegisterWatcher(w, c) ==
  /\ condition[w] = "none"
  /\ condition' = [condition EXCEPT ![w] = c]
  /\ \E v \in {0, 1} : disk' = [disk EXCEPT ![w] = v]
  /\ lastState' = [lastState EXCEPT ![w] = disk'[w]]
  /\ UNCHANGED <<lastTrig, fired, dogRunning, loopVars, started, changes, dogTime>>

(* start, stop, and a loop that sees that it is to end. *)
StartDog ==
  /\ started < MaxLoops
  /\ started' = started + 1
  /\ dogRunning' = TRUE
  /\ loopAt' = [loopAt EXCEPT ![started + 1] = "idle"]
  /\ UNCHANGED <<fileVars, lastState, lastTrig, fired, loopOn, loopNow, loopSaw, dogTime>>

StopDog ==
  /\ dogRunning
  /\ dogRunning' = FALSE
  /\ UNCHANGED <<fileVars, lastState, lastTrig, fired, loopVars, started, dogTime>>

LoopEnds(l) ==
  /\ loopAt[l] = "idle" /\ ~dogRunning
  /\ loopAt' = [loopAt EXCEPT ![l] = "off"]
  /\ UNCHANGED <<fileVars, lastState, lastTrig, fired, dogRunning, loopOn, loopNow, loopSaw,
                 started, dogTime>>

-----------------------------------------------------------------------------
(* Slip: the cooldown is not looked at. *)
NeverCooling(w) == FALSE

Cooling(w) == dogTime - lastTrig[w] < Cooldown

(* _check_watcher: the cooldown.  A loop goes from watcher to watcher.     *)
BeginCheck(l, w) ==
  /\ loopAt[l] = "idle" /\ dogRunning /\ condition[w] # "none"
  /\ loopOn' = [loopOn EXCEPT ![l] = w]
  /\ loopNow' = [loopNow EXCEPT ![l] = dogTime]
  /\ ~Cooling(w)
  /\ loopAt' = [loopAt EXCEPT ![l] = "snapshot"]
  /\ UNCHANGED <<fileVars, lastState, lastTrig, fired, dogRunning, loopSaw, started, dogTime>>

(* Slip: a path that is gone counts as one that has appeared. *)
HoldsAlsoGone(w, saw) == saw # lastState[w]

(* The conditions, on the snapshot, the file and the last snapshot; nothing *)
(* is done for "error".                                                    *)
Holds(w, saw) ==
  CASE condition[w] = "change"  -> saw # lastState[w]
    [] condition[w] = "failure" -> disk[w] \in Failing
    [] condition[w] = "exists"  -> disk[w] # 0 /\ lastState[w] = 0
    [] condition[w] = "error"   -> FALSE

TakeSnapshot(l) ==
  /\ loopAt[l] = "snapshot"
  /\ loopSaw' = [loopSaw EXCEPT ![l] = disk[loopOn[l]]]
  /\ loopAt' = [loopAt EXCEPT ![l] = "decide"]
  /\ UNCHANGED <<fileVars, lastState, lastTrig, fired, dogRunning, loopOn, loopNow, started, dogTime>>

(* A condition that holds: last_triggered becomes the time the check began,*)
(* and the job is submitted.                                               *)
Decide(l) ==
  LET w == loopOn[l]
  IN  /\ loopAt[l] = "decide"
      /\ IF Holds(w, loopSaw[l])
         THEN /\ lastTrig' = [lastTrig EXCEPT ![w] = loopNow[l]]
              /\ fired' = [fired EXCEPT ![w] = Append(@, loopNow[l])]
         ELSE UNCHANGED <<lastTrig, fired>>
      /\ loopAt' = [loopAt EXCEPT ![l] = "write"]
      /\ UNCHANGED <<fileVars, lastState, dogRunning, loopOn, loopNow, loopSaw, started, dogTime>>

WriteState(l) ==
  /\ loopAt[l] = "write"
  /\ lastState' = [lastState EXCEPT ![loopOn[l]] = loopSaw[l]]
  /\ loopAt' = [loopAt EXCEPT ![l] = "idle"]
  /\ loopNow' = [loopNow EXCEPT ![l] = 0] /\ loopSaw' = [loopSaw EXCEPT ![l] = 0]
  /\ UNCHANGED <<fileVars, lastTrig, fired, dogRunning, loopOn, started, dogTime>>

DogTick ==
  /\ dogTime < DogMaxTime
  /\ dogTime' = dogTime + 1
  /\ UNCHANGED <<fileVars, lastState, lastTrig, fired, dogRunning, loopVars, started>>

LoopStep(l) ==
  \/ \E w \in Watchers : BeginCheck(l, w)
  \/ TakeSnapshot(l) \/ Decide(l) \/ WriteState(l) \/ LoopEnds(l)

DogNext ==
  \/ \E w \in Watchers, c \in Conditions : RegisterWatcher(w, c)
  \/ \E w \in Watchers : Modify(w)
  \/ StartDog \/ StopDog \/ DogTick
  \/ \E l \in Loops : LoopStep(l)

DogSpec == DogInit /\ [][DogNext]_dogVars

-----------------------------------------------------------------------------
(* The firings of w whose checks began within a cooldown from time t. *)
Burst(w, t) == {i \in DOMAIN fired[w] : fired[w][i] \in t..(t + Cooldown - 1)}

(* As long as start was called once, two firings of a watcher are a        *)
(* cooldown apart.  Each further call of start, after a stop or not, makes *)
(* bursts longer: a loop whose check is old sets last_triggered back when  *)
(* it fires, and every loop without an old check may then fire again, so   *)
(* that the n-th call adds up to n firings.  A watcher fires only for what *)
(* happened on the disk: once per change at most, and twice for a path     *)
(* that appears, because a snapshot may be older than the look at the      *)
(* disk.  A change is never taken for seen without a firing.               *)
WatchdogIsSound ==
  \A w \in Watchers :
    /\ \A t \in 0..DogMaxTime : 2 * Cardinality(Burst(w, t)) <= started * (started + 1)
    /\ started <= 1 =>
         /\ condition[w] = "change" => Len(fired[w]) <= changes
         /\ condition[w] = "exists" => Len(fired[w]) <= 2 * changes
    /\ condition[w] = "change" /\ lastState[w] > 1 => fired[w] # <<>>
    /\ condition[w] = "error" => fired[w] = <<>>
=============================================================================
