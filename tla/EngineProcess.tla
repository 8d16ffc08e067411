---------------------------- MODULE EngineProcess ----------------------------
(***************************************************************************)
(* The engine process (engine/main.py): one thread that reads a request,   *)
(* carries it out and answers it, over three files that survive a crash:   *)
(* the job log (engine/jobs.py), written line by line, the event log       *)
(* (engine/events/store.py), written from a buffer, and the configuration  *)
(* with the key of the model's provider.  At the start the jobs that the   *)
(* last process left open are recovered; the event log can be replayed     *)
(* (EngineReplay).                                                         *)
(*                                                                         *)
(* A file is the sequence of its lines.  Of the events of engine_start the *)
(* first and the last are kept.  What the requests for plugins, for the    *)
(* swarm and for the coordinator do is in EnginePlugins and EngineSwarm.   *)
(* The hooks that execute calls are those of plugins, which the engine     *)
(* loads without their code: they do nothing.                              *)
(***************************************************************************)
EXTENDS Naturals, Sequences, FiniteSets, SequencesExt, EngineReplay, Tables

CONSTANTS
  BufferLimit,   \* _buffer_limit
  MaxJobs,       \* bound: jobs ever submitted
  MaxRequests,   \* bound: processes started and requests read
  MaxKills       \* bound: crashes

ASSUME EngineAssumption ==
  BufferLimit \in Nat \ {0} /\ MaxJobs \in Nat /\ MaxRequests \in Nat /\ MaxKills \in Nat

VARIABLES
  enginePc,    \* "down", "recover", "idle", or the step of execute that is next
  lifecycle,   \* LifecycleManager.state: starting, ready or stopped
  jobLog,      \* jobs.jsonl: [job, status]
  buffer,      \* _write_buffer: [event, job]
  eventFile,   \* events.jsonl
  todo,        \* jobs that recover() has yet to mark
  streamed,    \* whether the job is executed by execute_streaming
  outcome,     \* what the model call came to
  answered,    \* the last answer: [says, job]
  keyOnDisk,   \* whether config.json has the key
  keyOf,       \* PROVIDER_KEYS of each of the two copies of model_client.py
  client,      \* the copy that the orchestrator's client belongs to
  jobs, requests, kills

logVars == <<jobLog, buffer, eventFile>>
keyVars == <<keyOnDisk, keyOf, client>>
engineVars == <<enginePc, lifecycle, logVars, todo, streamed, outcome, answered, keyVars, jobs,
                requests, kills>>

(* The module is imported twice, as model_client by the orchestrator and   *)
(* as engine.model_client by the commands and by handle_config.            *)
Copies == {"model_client", "engine.model_client"}

EngineInit ==
  /\ enginePc = "down" /\ lifecycle = "stopped"
  /\ jobLog = <<>> /\ buffer = <<>> /\ eventFile = <<>>
  /\ todo = <<>> /\ streamed = FALSE /\ outcome = "none"
  /\ answered = [says |-> "nothing", job |-> 0]
  /\ keyOnDisk = FALSE /\ keyOf = [c \in Copies |-> FALSE] /\ client = "model_client"
  /\ jobs = 0 /\ requests = 0 /\ kills = 0

-----------------------------------------------------------------------------
(* The logs. *)
Ev(event, job) == [event |-> event, job |-> job]

(* EventStore.append, from a state of buffer and file: the buffer goes to  *)
(* the file when it is full.  By way of the bus, for each of the events.   *)
StoreEvent(s, e) ==
  IF Len(s.buf) + 1 >= BufferLimit
  THEN [buf |-> <<>>, file |-> s.file \o Append(s.buf, e)]
  ELSE [s EXCEPT !.buf = Append(@, e)]

Appended(from, events) == FoldLeft(StoreEvent, from, events)

Flushed == [buf |-> <<>>, file |-> eventFile \o buffer]

WriteLog(s) == buffer' = s.buf /\ eventFile' = s.file
Emit(events) == WriteLog(Appended([buf |-> buffer, file |-> eventFile], events))

Log(job, status) == jobLog' = Append(jobLog, [job |-> job, status |-> status])

(* JobStatus. *)
Open   == {"pending", "running"}
Closed == {"completed", "failed", "crashed"}

Logged == {jobLog[i].job : i \in DOMAIN jobLog}
LinesOf(j) == {i \in DOMAIN jobLog : jobLog[i].job = j}

(* What find_incomplete makes of a job: its last line. *)
LastStatus(j) == jobLog[Max(LinesOf(j))].status

(* Slip: a job counts as incomplete if it was ever open. *)
EverOpen(j) == \E i \in LinesOf(j) : jobLog[i].status \in Open

IsIncomplete(j) == LastStatus(j) \in Open

(* JobStore.find_incomplete, in the order of their first lines. *)
IsFirstLine(i) == \A k \in LinesOf(jobLog[i].job) : i <= k

FindIncomplete ==
  Only([i \in DOMAIN jobLog |-> jobLog[i].job],
       {i \in DOMAIN jobLog : IsFirstLine(i) /\ IsIncomplete(jobLog[i].job)})

-----------------------------------------------------------------------------
(* main(), up to the loop.  A new process reads the key file, in both      *)
(* copies of the module; recover() marks the open jobs one by one and      *)
(* tells of each; validate_backwards_compat flushes; engine_start.         *)
StartEngine ==
  /\ enginePc = "down" /\ requests < MaxRequests
  /\ requests' = requests + 1
  /\ enginePc' = "recover" /\ lifecycle' = "starting"
  /\ todo' = FindIncomplete
  /\ keyOf' = [c \in Copies |-> keyOnDisk] /\ client' = "model_client"
  /\ UNCHANGED <<logVars, streamed, outcome, answered, keyOnDisk, jobs, kills>>

RecoverJob ==
  /\ enginePc = "recover" /\ todo # <<>>
  /\ Log(Head(todo), "crashed")
  /\ Emit(<<Ev("job_recovered", Head(todo))>>
            \o IF Tail(todo) = <<>> THEN <<Ev("jobs_recovered", 0)>> ELSE <<>>)
  /\ todo' = Tail(todo)
  /\ UNCHANGED <<enginePc, lifecycle, streamed, outcome, answered, keyVars, jobs, requests, kills>>

EngineReady ==
  /\ enginePc = "recover" /\ todo = <<>>
  /\ WriteLog(Appended(Flushed, <<Ev("engine_starting", 0), Ev("engine_ready", 0)>>))
  /\ enginePc' = "idle" /\ lifecycle' = "ready"
  /\ UNCHANGED <<jobLog, todo, streamed, outcome, answered, keyVars, jobs, requests, kills>>

-----------------------------------------------------------------------------
(* The loop: dispatch of a request. *)
Request(says) ==
  /\ enginePc = "idle" /\ requests < MaxRequests
  /\ requests' = requests + 1
  /\ answered' = [says |-> says, job |-> 0]

(* handle_prompt and handle_stream with a task that sanitize_input         *)
(* refuses: only the first tells of it.                                    *)
RefuseTask(byStream) ==
  /\ Request("error")
  /\ Emit(IF byStream THEN <<>> ELSE <<Ev("error_occurred", 0)>>)
  /\ UNCHANGED <<enginePc, lifecycle, jobLog, todo, streamed, outcome, keyVars, jobs, kills>>

(* ... with one that is accepted: the start of execute and of              *)
(* execute_streaming.                                                      *)
ReadTask(byStream) ==
  /\ Request("nothing") /\ jobs < MaxJobs
  /\ enginePc' = "submit" /\ streamed' = byStream
  /\ Emit(<<Ev("job_started", 0)>>)
  /\ UNCHANGED <<lifecycle, jobLog, todo, outcome, keyVars, jobs, kills>>

(* JobPipeline.submit. *)
SubmitTask ==
  /\ enginePc = "submit" /\ enginePc' = "execute"
  /\ jobs' = jobs + 1
  /\ Log(jobs', "pending")
  /\ UNCHANGED <<lifecycle, buffer, eventFile, todo, streamed, outcome, answered, keyVars, requests,
                 kills>>

(* JobPipeline.execute: before the call of the model, the call, and after. *)
MarkJobRunning ==
  /\ enginePc = "execute" /\ enginePc' = "call"
  /\ Log(jobs, "running")
  /\ UNCHANGED <<lifecycle, buffer, eventFile, todo, streamed, outcome, answered, keyVars, jobs,
                 requests, kills>>

(* ModelClient.call: without a key the answer is a stub. *)
CallReturns ==
  /\ enginePc = "call" /\ enginePc' = "close"
  /\ outcome' \in IF keyOf[client] THEN {"text", "no_text", "error"} ELSE {"stub"}
  /\ UNCHANGED <<lifecycle, logVars, todo, streamed, answered, keyVars, jobs, requests, kills>>

(* A stub counts as completed. *)
StatusOf(o) == IF o = "error" THEN "failed" ELSE "completed"

CloseJob ==
  /\ enginePc = "close" /\ enginePc' = "tell"
  /\ Log(jobs, StatusOf(outcome))
  /\ UNCHANGED <<lifecycle, buffer, eventFile, todo, streamed, outcome, answered, keyVars, jobs,
                 requests, kills>>

(* The rest of execute and of execute_streaming.  A completed job whose    *)
(* answer has no text is told of by execute as finished and as an error;   *)
(* one that is streamed, as finished twice.                                *)
Told ==
  CASE outcome = "error"   -> <<Ev("error_occurred", jobs)>>
    [] outcome # "error" /\ streamed  -> <<Ev("job_finished", jobs), Ev("job_finished", jobs)>>
    [] outcome = "no_text" /\ ~streamed -> <<Ev("job_finished", jobs), Ev("error_occurred", jobs)>>
    [] outcome \notin {"error", "no_text"} /\ ~streamed -> <<Ev("job_finished", jobs)>>

TellAndAnswer ==
  /\ enginePc = "tell" /\ enginePc' = "idle"
  /\ Emit(Told)
  /\ answered' = [says |-> StatusOf(outcome), job |-> jobs]
  /\ outcome' = "none"
  /\ UNCHANGED <<lifecycle, jobLog, todo, streamed, keyVars, jobs, requests, kills>>

(* handle_init, with a session to restore or without. *)
HandleInit(withSession) ==
  /\ Request("ok")
  /\ Emit(<<Ev("command_executed", 0)>>
            \o IF withSession THEN <<Ev("session_restoring", 0), Ev("session_restored", 0)>> ELSE <<>>)
  /\ UNCHANGED <<enginePc, lifecycle, jobLog, todo, streamed, outcome, keyVars, jobs, kills>>

(* handle_command with a command that validate_command refuses. *)
RefuseCommand ==
  /\ Request("error")
  /\ Emit(<<Ev("error_occurred", 0)>>)
  /\ UNCHANGED <<enginePc, lifecycle, jobLog, todo, streamed, outcome, keyVars, jobs, kills>>

(* ... with one that is executed and told of; most of them only read. *)
CommandDone(from) ==
  /\ Request("ok")
  /\ WriteLog(Appended(from, <<Ev("command_executed", 0)>>))

HandleCommand ==
  /\ CommandDone([buf |-> buffer, file |-> eventFile])
  /\ UNCHANGED <<enginePc, lifecycle, jobLog, todo, streamed, outcome, keyVars, jobs, kills>>

(* ... /events query, replay, stats, compat and versions ask the store,    *)
(* which flushes.                                                          *)
EventsCommand ==
  /\ CommandDone(Flushed)
  /\ UNCHANGED <<enginePc, lifecycle, jobLog, todo, streamed, outcome, keyVars, jobs, kills>>

(* handle_diagnostics: the bundle has the statistics of the store, which   *)
(* flush it; the rest only reads.                                          *)
HandleDiagnostics(isBundle) ==
  /\ Request("ok")
  /\ IF isBundle THEN WriteLog(Flushed) ELSE UNCHANGED <<buffer, eventFile>>
  /\ UNCHANGED <<enginePc, lifecycle, jobLog, todo, streamed, outcome, keyVars, jobs, kills>>

(* handle_replay: it reads the file, and not what is in the buffer. *)
HandleReplay ==
  /\ Request("replayed")
  /\ UNCHANGED <<enginePc, lifecycle, logVars, todo, streamed, outcome, keyVars, jobs, kills>>

(* handle_events: each of its queries flushes first. *)
HandleEvents ==
  /\ Request("events")
  /\ WriteLog(Flushed)
  /\ UNCHANGED <<enginePc, lifecycle, jobLog, todo, streamed, outcome, keyVars, jobs, kills>>

(* _load_api_keys in the copy that the commands and handle_config import. *)
KeyLoaded ==
  /\ keyOnDisk' = TRUE
  /\ keyOf' = [keyOf EXCEPT !["engine.model_client"] = TRUE]

(* The command /config set-key leaves the client as it is ... *)
CommandSetsKey ==
  /\ CommandDone([buf |-> buffer, file |-> eventFile])
  /\ KeyLoaded
  /\ UNCHANGED <<enginePc, lifecycle, jobLog, todo, streamed, outcome, client, jobs, kills>>

(* ... and handle_config makes a new client, of its own copy. *)
RequestSetsKey ==
  /\ Request("ok")
  /\ KeyLoaded /\ client' = "engine.model_client"
  /\ Emit(<<Ev("config_updated", 0)>>)
  /\ UNCHANGED <<enginePc, lifecycle, jobLog, todo, streamed, outcome, jobs, kills>>

(* engine_shutdown, after a flush: what it tells stays in the buffer. *)
ShuttingDown == Appended(Flushed, <<Ev("engine_shutting_down", 0), Ev("engine_stopped", 0)>>)

(* handle_shutdown.  The loop goes on: the engine still takes requests. *)
HandleShutdown ==
  /\ Request("ok")
  /\ WriteLog(ShuttingDown)
  /\ lifecycle' = "stopped"
  /\ UNCHANGED <<enginePc, jobLog, todo, streamed, outcome, keyVars, jobs, kills>>

(* The end of the input, or an empty line; what is in the buffer is lost   *)
(* with the process.                                                       *)
LoopExit ==
  /\ enginePc = "idle" /\ enginePc' = "down"
  /\ eventFile' = ShuttingDown.file /\ buffer' = <<>>
  /\ lifecycle' = "stopped"
  /\ UNCHANGED <<jobLog, todo, streamed, outcome, answered, keyVars, jobs, requests, kills>>

(* The process is killed: what is in memory is lost. *)
Killed ==
  /\ enginePc # "down" /\ enginePc' = "down"
  /\ kills < MaxKills /\ kills' = kills + 1
  /\ buffer' = <<>> /\ todo' = <<>>
  /\ streamed' = FALSE /\ outcome' = "none"
  /\ UNCHANGED <<lifecycle, jobLog, eventFile, answered, keyVars, jobs, requests>>

EngineNext ==
  \/ StartEngine \/ RecoverJob \/ EngineReady
  \/ \E b \in BOOLEAN : RefuseTask(b) \/ ReadTask(b) \/ HandleInit(b) \/ HandleDiagnostics(b)
  \/ RefuseCommand \/ HandleCommand \/ EventsCommand \/ CommandSetsKey \/ RequestSetsKey
  \/ SubmitTask \/ MarkJobRunning \/ CallReturns \/ CloseJob \/ TellAndAnswer
  \/ HandleReplay \/ HandleEvents \/ HandleShutdown \/ LoopExit \/ Killed

EngineSpec == EngineInit /\ [][EngineNext]_engineVars

-----------------------------------------------------------------------------
(* The events told and not lost. *)
AllTold == eventFile \o buffer
ToldOf(name, j) == {i \in DOMAIN AllTold : AllTold[i] = Ev(name, j)}

(* The job log has the last word on every job, whenever the process was    *)
(* killed: when requests are taken, no job of an earlier request or        *)
(* process is open, and no job is ever closed twice, so that a recovery    *)
(* that was itself cut off changes nothing when it is done again.          *)
JobsAreClosedOnce ==
  /\ enginePc \in {"idle", "submit"} => \A j \in Logged : LastStatus(j) \in Closed
  /\ \A j \in Logged :
       Cardinality({i \in LinesOf(j) : jobLog[i].status \in Closed}) <= 1

(* The events, the answers and a replay of the events never run ahead of   *)
(* the job log: what they tell of a job is logged already, and stays so    *)
(* across crashes.  (They may tell less: a buffer is lost, a failure has   *)
(* no event, and a recovery may be logged and not told.)                   *)
EventsFollowLog ==
  /\ \A i \in DOMAIN AllTold : AllTold[i].job # 0 => AllTold[i].job \in Logged
  /\ \A j \in Logged :
       /\ ToldOf("job_finished", j) # {} => LastStatus(j) = "completed"
       /\ ToldOf("job_recovered", j) # {} => LastStatus(j) = "crashed"
       /\ Cardinality(ToldOf("job_recovered", j)) <= 1
  /\ answered.job # 0 => LastStatus(answered.job) = answered.says

EndedAs(status) == {j \in Logged : LastStatus(j) = status}

(* What a replay makes of the file, after any crashes: no more jobs than   *)
(* the log has ended, nothing recovered that did not crash, a lifecycle in *)
(* which every process that was ready had started and only one that was    *)
(* ready has stopped, and the same numbers as the store's own replay.      *)
ReplayIsPlausible ==
  LET r == Replayed(eventFile)
      Before(i) == IF i = 1 THEN "none" ELSE r.transitions[i - 1]
  IN  /\ r.completed <= 2 * Cardinality(EndedAs("completed"))
      /\ {r.jobs[i].job : i \in {k \in DOMAIN r.jobs : r.jobs[k].status = "recovered"}}
           \subseteq EndedAs("crashed")
      /\ \A i \in DOMAIN r.transitions :
           CASE r.transitions[i] = "ready"    -> Before(i) = "starting"
             [] r.transitions[i] = "stopped"  -> Before(i) \in {"ready", "stopped"}
             [] r.transitions[i] = "starting" -> TRUE
      /\ LET o == Reconstructed(eventFile)
         IN  \A field \in DOMAIN o : o[field] = r[field]

EngineLedger == JobsAreClosedOnce /\ EventsFollowLog /\ ReplayIsPlausible

(* The hint that a stub comes with (model_client.py:126, "run: /config     *)
(* set-key"): once the key is set, no task is answered with a stub.        *)
KeyIsUsed == outcome = "stub" => ~keyOnDisk
=============================================================================
