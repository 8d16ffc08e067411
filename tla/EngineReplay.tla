---------------------------- MODULE EngineReplay ----------------------------
(***************************************************************************)
(* What a sequence of events is made of again: by the replay engine        *)
(* (engine/events/replay.py), whose handlers and state builders are folded *)
(* here into one step per event, and by the event store itself             *)
(* (EventStore.replay_reconstruct, engine/events/store.py).                *)
(*                                                                         *)
(* An event is [event, job] or [event, plugin].  Timestamps, the counts by *)
(* type and the builder of the swarm, which counts three events, are left  *)
(* out; and a file is taken to have no more than the 50000 events that the *)
(* replay of the store stops after.                                        *)
(***************************************************************************)
EXTENDS Naturals, Sequences, SequencesExt

(* reset() of every builder. *)
NothingReplayed ==
  [errors |-> 0, restored |-> FALSE, events |-> 0,                \* system
   started |-> 0, completed |-> 0, recovered |-> 0, jobs |-> <<>>,  \* jobs
   loaded |-> <<>>, unloaded |-> <<>>,                              \* plugins
   commands |-> 0,                                                  \* commands
   transitions |-> <<>>]                                            \* lifecycle

Transition(s, state) == [s EXCEPT !.transitions = Append(@, state)]

(* The handlers.  Every job_finished that is emitted says "completed". *)
Handled(s, e) ==
  CASE e.event = "job_started"      -> [s EXCEPT !.started = @ + 1]
    [] e.event = "job_finished"     -> [s EXCEPT !.completed = @ + 1]
    [] e.event = "job_recovered"    -> [s EXCEPT !.recovered = @ + 1]
    [] e.event = "command_executed" -> [s EXCEPT !.commands = @ + 1]
    [] e.event = "plugin_loaded"    -> [s EXCEPT !.loaded = Append(@, e.plugin)]
    [] e.event = "plugin_unloaded"  -> [s EXCEPT !.loaded = RemoveFirst(@, e.plugin),
                                                 !.unloaded = Append(@, e.plugin)]
    [] e.event = "error_occurred"   -> [s EXCEPT !.errors = @ + 1]
    [] e.event = "session_restoring"    -> [s EXCEPT !.restored = TRUE]
    [] e.event = "engine_starting"      -> Transition(s, "starting")
    [] e.event = "engine_ready"         -> Transition(s, "ready")
    [] e.event = "engine_shutting_down" -> Transition(s, "stopped")
    [] OTHER -> s

(* JobStateBuilder.apply.  A job_started has no job_id: the entry it makes *)
(* is job 0's, and no job_finished finds it.                               *)
JobsApplied(jobs, e) ==
  CASE e.event = "job_started"   -> Append(jobs, [job |-> 0, status |-> "running"])
    [] e.event = "job_recovered" -> Append(jobs, [job |-> e.job, status |-> "recovered"])
    [] e.event = "job_finished"  ->
         LET its == {i \in DOMAIN jobs : jobs[i].job = e.job}
         IN  [i \in DOMAIN jobs |-> IF i \in its /\ \A k \in its : i <= k
                                    THEN [jobs[i] EXCEPT !.status = "completed"] ELSE jobs[i]]
    [] OTHER -> jobs

(* ReplayEngine.replay of the events of a file, with all the builders. *)
ReplayEvent(s, e) == [Handled(s, e) EXCEPT !.events = @ + 1, !.jobs = JobsApplied(@, e)]

Replayed(events) == FoldLeft(ReplayEvent, NothingReplayed, events)

(* EventStore.replay_reconstruct. *)
NothingReconstructed == [completed |-> 0, loaded |-> <<>>, commands |-> 0, errors |-> 0]

ReconstructEvent(s, e) ==
  CASE e.event = "job_finished"     -> [s EXCEPT !.completed = @ + 1]
    [] e.event = "plugin_loaded"    -> [s EXCEPT !.loaded = Append(@, e.plugin)]
    [] e.event = "plugin_unloaded"  -> [s EXCEPT !.loaded = RemoveFirst(@, e.plugin)]
    [] e.event = "command_executed" -> [s EXCEPT !.commands = @ + 1]
    [] e.event = "error_occurred"   -> [s EXCEPT !.errors = @ + 1]
    [] OTHER -> s

Reconstructed(events) == FoldLeft(ReconstructEvent, NothingReconstructed, events)
=============================================================================
