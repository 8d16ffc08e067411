----------------------------- MODULE JobScheduler -----------------------------
(***************************************************************************)
(* The job scheduler: QueueManager (core/queue_manager.py), Worker and     *)
(* WorkerPool (core/workers.py) and Scheduler (core/scheduler.py), as the  *)
(* HTTP API drives them from its own threads.                              *)
(*                                                                         *)
(* Three kinds of actor interleave.  Callers submit, cancel and requeue    *)
(* jobs and start, stop and tick the scheduler.  A dispatcher is either a  *)
(* thread inside WorkerPool.dispatch_loop or a caller inside               *)
(* Scheduler.tick: it walks over the workers and starts a thread for each  *)
(* one it sees idle.  A job thread runs Worker.run_job: it marks the       *)
(* worker busy, moves the job to running, executes it and gives the worker *)
(* back.  Between a dispatcher's look at worker.busy and the new thread's  *)
(* first statement anything can happen.                                    *)
(*                                                                         *)
(* next_job() is one step here; its own loop of pops is in JobQueue.       *)
(***************************************************************************)
EXTENDS JobModel, Integers, FiniteSets

CONSTANTS
  Jobs,         \* the Job objects that may ever be created
  NoJob,        \* None in Worker.current_job and in metadata["parent_job"]
  Priority,     \* Job.priority
  NumWorkers,   \* WorkerPool.size
  Threads,      \* bound: job threads alive at the same time
  Dispatchers,  \* bound: dispatch loops and ticks alive at the same time
  MaxRetries,   \* Job.max_retries
  MaxRequeues,  \* bound: calls of requeue_failed per job
  MaxStarts,    \* bound: calls of Scheduler.start
  Calls         \* the calls the environment of this instance makes

ASSUME PriorityAssumption == Priority \in [Jobs -> JobPriorities]
ASSUME NoJobAssumption == NoJob \notin Jobs
ASSUME BoundsAssumption ==
  /\ NumWorkers \in Nat \ {0}
  /\ MaxRetries \in Nat
  /\ MaxRequeues \in Nat
  /\ MaxStarts \in Nat
ASSUME JobsAssumption == IsFiniteSet(Jobs)

VARIABLES
  status,     \* Job.status, or "none" for a job nobody has created
  created,    \* Job.created_at, as a rank; 0 for a job nobody has created
  retries,    \* Job.retries
  recurring,  \* whether Job.recurring is set
  parent,     \* Job.metadata["parent_job"]
  due,        \* whether Job.schedule_at is absent or has passed
  requeues,   \* calls of requeue_failed that succeeded (history)
  heap,       \* how many entries of QueueManager._queue hold the job
  busy,       \* Worker.busy
  current,    \* Worker.current_job
  thread,     \* the threads started by maybe_dispatch
  disp,       \* the dispatch loops and the ticks in progress
  running,    \* WorkerPool._running
  starts      \* calls of Scheduler.start (history)

jobVars  == <<status, created, retries, recurring, parent, due, requeues>>
poolVars == <<busy, current, thread>>
vars == <<jobVars, heap, poolVars, disp, running, starts>>

Workers == 1..NumWorkers

Idle == [at |-> "none", worker |-> 0, job |-> NoJob]
At(phase, kind) == [phase |-> phase, kind |-> kind, worker |-> 0, job |-> NoJob, size |-> 0]
Off == At("off", "loop")

Known == {j \in Jobs : status[j] # "none"}

-----------------------------------------------------------------------------
Init ==
  /\ status    = [j \in Jobs |-> "none"]
  /\ created   = [j \in Jobs |-> 0]
  /\ retries   = [j \in Jobs |-> 0]
  /\ recurring = [j \in Jobs |-> FALSE]
  /\ parent    = [j \in Jobs |-> NoJob]
  /\ due       = [j \in Jobs |-> TRUE]
  /\ requeues  = [j \in Jobs |-> 0]
  /\ heap      = [j \in Jobs |-> 0]
  /\ busy      = [w \in Workers |-> FALSE]
  /\ current   = [w \in Workers |-> NoJob]
  /\ thread    = [t \in Threads |-> Idle]
  /\ disp      = [d \in Dispatchers |-> Off]
  /\ running   = FALSE
  /\ starts    = 0

-----------------------------------------------------------------------------
(* Callers: the queue.                                                     *)

(* QueueManager.submit of a new Job: one entry in the heap and in _jobs.   *)
Enqueue(j, isRecurring, isDue, par) ==
  /\ status[j] = "none"
  /\ status'    = [status EXCEPT ![j] = "queued"]
  /\ created'   = [created EXCEPT ![j] = 1 + Cardinality(Known)]
  /\ recurring' = [recurring EXCEPT ![j] = isRecurring]
  /\ parent'    = [parent EXCEPT ![j] = par]
  /\ due'       = [due EXCEPT ![j] = isDue]
  /\ heap'      = [heap EXCEPT ![j] = @ + 1]
  /\ UNCHANGED <<retries, requeues>>

(* Scheduler.submit, Scheduler.schedule and Scheduler.recurring.           *)
Submit(j) ==
  /\ \/ "submit" \in Calls /\ Enqueue(j, FALSE, TRUE, NoJob)
     \/ "schedule" \in Calls /\ Enqueue(j, FALSE, FALSE, NoJob)
     \/ "recurring" \in Calls /\ Enqueue(j, TRUE, TRUE, NoJob)
  /\ UNCHANGED <<poolVars, disp, running, starts>>

(* The clock reaches Job.schedule_at. *)
BecomeDue(j) ==
  /\ ~due[j]
  /\ due' = [due EXCEPT ![j] = TRUE]
  /\ UNCHANGED <<status, created, retries, recurring, parent, requeues,
                 heap, poolVars, disp, running, starts>>

(* QueueManager.cancel_job: the heap keeps the cancelled job's entry.      *)
Cancel(j) ==
  /\ "cancel" \in Calls
  /\ status[j] \notin Terminal \cup {"none"}
  /\ CanMove(status[j], "cancelled")
  /\ status' = [status EXCEPT ![j] = "cancelled"]
  /\ UNCHANGED <<created, retries, recurring, parent, due, requeues,
                 heap, poolVars, disp, running, starts>>

(* QueueManager.requeue_failed: pushes an entry whether or not the heap    *)
(* still holds one from before, and leaves retries as they are.            *)
Requeue(j) ==
  /\ "requeue" \in Calls
  /\ requeues[j] < MaxRequeues
  /\ status[j] # "none"
  /\ CanMove(status[j], "queued")
  /\ status'   = [status EXCEPT ![j] = "queued"]
  /\ heap'     = [heap EXCEPT ![j] = @ + 1]
  /\ requeues' = [requeues EXCEPT ![j] = @ + 1]
  /\ UNCHANGED <<created, retries, recurring, parent, due,
                 poolVars, disp, running, starts>>

-----------------------------------------------------------------------------
(* Callers: the scheduler.                                                 *)

(* Scheduler.start: sets the flag, then starts a thread that will call     *)
(* dispatch_loop; nothing stops a second loop from being started.          *)
Start(d) ==
  /\ "start" \in Calls
  /\ disp[d].phase = "off"
  /\ starts < MaxStarts
  /\ starts'  = starts + 1
  /\ running' = TRUE
  /\ disp'    = [disp EXCEPT ![d] = At("entering", "loop")]
  /\ UNCHANGED <<jobVars, heap, poolVars>>

(* Scheduler.stop *)
Stop ==
  /\ "stop" \in Calls
  /\ running
  /\ running' = FALSE
  /\ UNCHANGED <<jobVars, heap, poolVars, disp, starts>>

(* Scheduler.tick enters maybe_dispatch on the caller's own thread.        *)
Tick(d) ==
  /\ "tick" \in Calls
  /\ disp[d].phase = "off"
  /\ disp' = [disp EXCEPT ![d] = At("call", "tick")]
  /\ UNCHANGED <<jobVars, heap, poolVars, running, starts>>

-----------------------------------------------------------------------------
(* Dispatchers.                                                            *)

Goto(d, phase) == disp' = [disp EXCEPT ![d] = At(phase, disp[d].kind)]

(* What follows maybe_dispatch: _check_retries in a loop, the end of a tick. *)
AfterDispatch(d) == Goto(d, IF disp[d].kind = "loop" THEN "retries" ELSE "off")

(* dispatch_loop calls self.start() before its first turn. *)
EnterLoop(d) ==
  /\ disp[d].phase = "entering"
  /\ running' = TRUE
  /\ Goto(d, "top")
  /\ UNCHANGED <<jobVars, heap, poolVars, starts>>

(* while self._running *)
LoopTop(d) ==
  /\ disp[d].phase = "top"
  /\ Goto(d, IF running THEN "call" ELSE "off")
  /\ UNCHANGED <<jobVars, heap, poolVars, running, starts>>

(* Slip: workers counted from zero. *)
CallFromZero(d) ==
  /\ disp[d].phase = "call"
  /\ IF running
     THEN disp' = [disp EXCEPT ![d].phase = "dispatch", ![d].worker = 0]
     ELSE AfterDispatch(d)
  /\ UNCHANGED <<jobVars, heap, poolVars, running, starts>>

(* The first test of maybe_dispatch. *)
CallDispatch(d) ==
  /\ disp[d].phase = "call"
  /\ IF running
     THEN disp' = [disp EXCEPT ![d].phase = "dispatch", ![d].worker = 1]
     ELSE AfterDispatch(d)
  /\ UNCHANGED <<jobVars, heap, poolVars, running, starts>>

(* Job.is_ready of a job the heap holds, and the heap's order. *)
Ready(j) == heap[j] > 0 /\ status[j] = "queued" /\ due[j]
Before(j, k) ==
  \/ Priority[j] < Priority[k]
  \/ Priority[j] = Priority[k] /\ created[j] < created[k]

(* QueueManager.next_job returns j. *)
IsNext(j) == Ready(j) /\ \A k \in Jobs : Ready(k) => ~Before(k, j)

SkipBusy(d) ==
  /\ disp[d].phase = "dispatch"
  /\ disp[d].worker \in Workers
  /\ busy[disp[d].worker]
  /\ disp' = [disp EXCEPT ![d].worker = @ + 1]
  /\ UNCHANGED <<jobVars, heap, poolVars, running, starts>>

(* Slip: the job is looked at and stays in the heap. *)
DispatchPeek(d, t, j) ==
  /\ disp[d].phase = "dispatch"
  /\ disp[d].worker \in Workers
  /\ ~busy[disp[d].worker]
  /\ thread[t].at = "none"
  /\ IsNext(j)
  /\ thread' = [thread EXCEPT ![t] = [at |-> "spawned", worker |-> disp[d].worker, job |-> j]]
  /\ disp'   = [disp EXCEPT ![d].worker = @ + 1]
  /\ UNCHANGED <<jobVars, heap, busy, current, running, starts>>

(* The worker looks idle and next_job() returns j: start a thread. *)
Dispatch(d, t, j) ==
  /\ disp[d].phase = "dispatch"
  /\ disp[d].worker \in Workers
  /\ ~busy[disp[d].worker]
  /\ thread[t].at = "none"
  /\ IsNext(j)
  /\ heap'   = [heap EXCEPT ![j] = @ - 1]
  /\ thread' = [thread EXCEPT ![t] = [at |-> "spawned", worker |-> disp[d].worker, job |-> j]]
  /\ disp'   = [disp EXCEPT ![d].worker = @ + 1]
  /\ UNCHANGED <<jobVars, busy, current, running, starts>>

(* The walk ends after the last worker, or at an idle worker when the      *)
(* queue has nothing ready.                                                *)
EndDispatch(d) ==
  /\ disp[d].phase = "dispatch"
  /\ \/ disp[d].worker \notin Workers
     \/ /\ disp[d].worker \in Workers
        /\ ~busy[disp[d].worker]
        /\ \A j \in Jobs : ~Ready(j)
  /\ AfterDispatch(d)
  /\ UNCHANGED <<jobVars, heap, poolVars, running, starts>>

(* _check_retries iterates over queue._jobs.values() itself.  A waiting    *)
(* job is offered to transition(QUEUED), and ValueError is swallowed.  The *)
(* push that would follow a legal transition raises NameError, which is    *)
(* swallowed as well: workers.py imports heapq in _check_recurring only.   *)
BeginRetries(d) ==
  /\ disp[d].phase = "retries"
  /\ disp' = [disp EXCEPT ![d].phase = "iterating", ![d].size = Cardinality(Known)]
  /\ UNCHANGED <<jobVars, heap, poolVars, running, starts>>

RetryMove(j) ==
  IF status[j] = "waiting_retry" /\ CanMove("waiting_retry", "queued")
  THEN "queued" ELSE status[j]

EndRetries(d) ==
  /\ disp[d].phase = "iterating"
  /\ disp[d].size = Cardinality(Known)
  /\ status' = [j \in Jobs |-> RetryMove(j)]
  /\ Goto(d, "recurring")
  /\ UNCHANGED <<created, retries, recurring, parent, due, requeues,
                 heap, poolVars, running, starts>>

(* A job was added during the iteration: the dict iterator raises          *)
(* RuntimeError, which dispatch_loop does not catch, and the thread ends.  *)
LoopDies(d) ==
  /\ disp[d].phase = "iterating"
  /\ disp[d].size # Cardinality(Known)
  /\ Goto(d, "off")
  /\ UNCHANGED <<jobVars, heap, poolVars, running, starts>>

(* _check_recurring submits a successor of a completed recurring job, and  *)
(* marks the original in a later statement.                                *)
DueAgain(j) == recurring[j] /\ status[j] = "completed"

SubmitNext(d, j, n) ==
  /\ disp[d].phase = "recurring"
  /\ DueAgain(j)
  /\ Priority[n] = Priority[j]
  /\ Enqueue(n, TRUE, TRUE, j)
  /\ disp' = [disp EXCEPT ![d].phase = "clearing", ![d].job = j]
  /\ UNCHANGED <<poolVars, running, starts>>

(* Slip: the original is not marked. *)
ClearNothing(d) ==
  /\ disp[d].phase = "clearing"
  /\ Goto(d, "recurring")
  /\ UNCHANGED <<jobVars, heap, poolVars, running, starts>>

ClearRecurring(d) ==
  /\ disp[d].phase = "clearing"
  /\ recurring' = [recurring EXCEPT ![disp[d].job] = FALSE]
  /\ Goto(d, "recurring")
  /\ UNCHANGED <<status, created, retries, parent, due, requeues,
                 heap, poolVars, running, starts>>

(* No completed recurring job is left (or the bound on Jobs is reached).   *)
EndRecurring(d) ==
  /\ disp[d].phase = "recurring"
  /\ \A j \in Jobs : DueAgain(j) =>
       \A n \in Jobs : Priority[n] = Priority[j] => status[n] # "none"
  /\ Goto(d, "top")
  /\ UNCHANGED <<jobVars, heap, poolVars, running, starts>>

-----------------------------------------------------------------------------
(* Job threads: Worker.run_job.                                            *)

(* The worker is marked busy; then transition(RUNNING), outside the try:   *)
(* when it raises the thread ends and nobody gives the worker back.        *)
ThreadStart(t) ==
  LET w == thread[t].worker
      j == thread[t].job
  IN /\ thread[t].at = "spawned"
     /\ busy'    = [busy EXCEPT ![w] = TRUE]
     /\ current' = [current EXCEPT ![w] = j]
     /\ IF CanMove(status[j], "running")
        THEN /\ status' = [status EXCEPT ![j] = "running"]
             /\ thread' = [thread EXCEPT ![t].at = "executing"]
        ELSE /\ status' = status
             /\ thread' = [thread EXCEPT ![t] = Idle]
     /\ UNCHANGED <<created, retries, recurring, parent, due, requeues,
                    heap, disp, running, starts>>

(* Slip: the budget is tested before the retry is counted. *)
HandleFailureLate(st, r) ==
  LET to == IF r <= MaxRetries THEN "waiting_retry" ELSE "failed"
      ok == CanMove(st, to)
  IN [status |-> IF ok THEN to ELSE st, retries |-> r + 1, raised |-> ~ok]

(* _handle_failure on a job in state st that has been retried r times.     *)
HandleFailure(st, r) ==
  LET to == IF r + 1 <= MaxRetries THEN "waiting_retry" ELSE "failed"
      ok == CanMove(st, to)
  IN [status |-> IF ok THEN to ELSE st, retries |-> r + 1, raised |-> ~ok]

(* Slip: no except clause. *)
OutcomesUncaught(st, r) ==
  { IF CanMove(st, "completed")
      THEN [status |-> "completed", retries |-> r, raised |-> FALSE] ELSE HandleFailure(st, r),
    [status |-> st, retries |-> r, raised |-> TRUE] }

(* Slip: run_job assigns the state without transition(). *)
OutcomesUnchecked(st, r) ==
  { [status |-> to, retries |-> r + 1, raised |-> FALSE] : to \in {"completed", "failed"} }

(* The three ways the try block ends: orchestrator.run() reports success,  *)
(* it reports an error, or it raises.  A ValueError in the first two is    *)
(* handled as a failure of the job by the except clause.                   *)
Outcomes(st, r) ==
  LET once == HandleFailure(st, r) IN
  { IF CanMove(st, "completed")
      THEN [status |-> "completed", retries |-> r, raised |-> FALSE] ELSE once,
    IF once.raised THEN HandleFailure(once.status, once.retries) ELSE once,
    once }

(* Slip: no finally clause. *)
FinishAndKeepWorker(t) ==
  LET j == thread[t].job
  IN /\ thread[t].at = "executing"
     /\ \E out \in Outcomes(status[j], retries[j]) :
          /\ status'  = [status EXCEPT ![j] = out.status]
          /\ retries' = [retries EXCEPT ![j] = out.retries]
     /\ thread'  = [thread EXCEPT ![t] = Idle]
     /\ UNCHANGED <<created, recurring, parent, due, requeues,
                    heap, busy, current, disp, running, starts>>

ThreadFinish(t) ==
  LET w == thread[t].worker
      j == thread[t].job
  IN /\ thread[t].at = "executing"
     /\ \E out \in Outcomes(status[j], retries[j]) :
          /\ status'  = [status EXCEPT ![j] = out.status]
          /\ retries' = [retries EXCEPT ![j] = out.retries]
     /\ busy'    = [busy EXCEPT ![w] = FALSE]
     /\ current' = [current EXCEPT ![w] = NoJob]
     /\ thread'  = [thread EXCEPT ![t] = Idle]
     /\ UNCHANGED <<created, recurring, parent, due, requeues,
                    heap, disp, running, starts>>

-----------------------------------------------------------------------------
DispatcherStep(d) ==
  \/ EnterLoop(d) \/ LoopTop(d) \/ CallDispatch(d)
  \/ SkipBusy(d) \/ EndDispatch(d)
  \/ \E t \in Threads, j \in Jobs : Dispatch(d, t, j)
  \/ BeginRetries(d) \/ EndRetries(d) \/ LoopDies(d)
  \/ \E j, n \in Jobs : SubmitNext(d, j, n)
  \/ ClearRecurring(d) \/ EndRecurring(d)

ThreadStep(t) == ThreadStart(t) \/ ThreadFinish(t)

CallerStep ==
  \/ \E j \in Jobs : Submit(j) \/ Cancel(j) \/ Requeue(j)
  \/ \E d \in Dispatchers : Start(d) \/ Tick(d)
  \/ Stop

Next ==
  \/ CallerStep
  \/ \E j \in Jobs : BecomeDue(j)
  \/ \E d \in Dispatchers : DispatcherStep(d)
  \/ \E t \in Threads : ThreadStep(t)

Spec == Init /\ [][Next]_vars

(* The operating system runs every live thread and the clock advances; an  *)
(* orchestrator run ends; nothing is assumed of the callers.               *)
Fairness ==
  /\ \A d \in Dispatchers : WF_vars(DispatcherStep(d))
  /\ \A t \in Threads : WF_vars(ThreadStep(t))
  /\ \A j \in Jobs : WF_vars(BecomeDue(j))

FairSpec == Spec /\ Fairness

-----------------------------------------------------------------------------
(* The shape of every variable. *)
ThreadType ==
  [at : {"none", "spawned", "executing"}, worker : 0..NumWorkers, job : Jobs \cup {NoJob}]
DispType ==
  [phase : {"off", "entering", "top", "call", "dispatch", "retries", "iterating",
            "recurring", "clearing"},
   kind : {"loop", "tick"}, worker : 0..(NumWorkers + 1), job : Jobs \cup {NoJob},
   size : Nat]

TypeOK ==
  /\ status    \in [Jobs -> JobStates \cup {"none"}]
  /\ created   \in [Jobs -> Nat]
  /\ retries   \in [Jobs -> Nat]
  /\ recurring \in [Jobs -> BOOLEAN]
  /\ parent    \in [Jobs -> Jobs \cup {NoJob}]
  /\ due       \in [Jobs -> BOOLEAN]
  /\ requeues  \in [Jobs -> Nat]
  /\ heap      \in [Jobs -> Nat]
  /\ busy      \in [Workers -> BOOLEAN]
  /\ current   \in [Workers -> Jobs \cup {NoJob}]
  /\ thread    \in [Threads -> ThreadType]
  /\ disp      \in [Dispatchers -> DispType]
  /\ running   \in BOOLEAN
  /\ starts    \in Nat
  /\ \A t \in Threads : thread[t].at # "none" =>
       thread[t].worker \in Workers /\ thread[t].job \in Known
  /\ \A d \in Dispatchers : disp[d].phase = "clearing" => disp[d].job \in Known
  /\ \A d \in Dispatchers : disp[d].phase = "dispatch" => disp[d].worker > 0

-----------------------------------------------------------------------------
(* Safety.                                                                 *)

Carries(t, j) == thread[t].at = "spawned" /\ thread[t].job = j
Executes(t, j) == thread[t].at = "executing" /\ thread[t].job = j

(* A queued job is never forgotten: the heap holds it, or a thread that    *)
(* maybe_dispatch started is about to run it.  Cancelling and requeueing,  *)
(* duplicate entries and threads that die on their first transition must   *)
(* not leave a job queued that no dispatcher can find.                     *)
NoStrandedJob ==
  \A j \in Jobs : status[j] = "queued" =>
    heap[j] > 0 \/ \E t \in Threads : Carries(t, j)

(* A job that is running is being executed by some thread: whatever the    *)
(* order in which two executions of it end, the first to end takes it out  *)
(* of the running state.                                                   *)
RunningHasExecutor ==
  \A j \in Jobs : status[j] = "running" => \E t \in Threads : Executes(t, j)

Holds(t, j) == thread[t].at # "none" /\ thread[t].job = j

(* A job nobody has requeued is given to one thread at a time, however     *)
(* many loops and ticks dispatch at the same time.                         *)
SingleExecution ==
  \A j \in Jobs : requeues[j] = 0 =>
    \A t, u \in Threads : Holds(t, j) /\ Holds(u, j) => t = u

(* Why: until a job is requeued there is one token for it, either its      *)
(* entry in the heap or the thread that took the entry.                    *)
OneToken ==
  \A j \in Jobs :
    /\ status[j] = "none" => heap[j] = 0
    /\ requeues[j] = 0 =>
         /\ heap[j] <= 1
         /\ heap[j] = 1 => \A t \in Threads : ~Holds(t, j)
         /\ \A t, u \in Threads : Holds(t, j) /\ Holds(u, j) => t = u

(* The retry budget: a job waits for a retry only while it has retries     *)
(* left and fails only when it has used them all, although the retry       *)
(* counter is raised twice when the transition after a failure raises.     *)
RetryBudget ==
  \A j \in Jobs :
    /\ status[j] = "waiting_retry" => retries[j] <= MaxRetries
    /\ status[j] = "failed" => retries[j] > MaxRetries

(* A recurring job is followed by one successor at most (the comment in    *)
(* _check_recurring: "Mark the original as non-recurring so we don't       *)
(* re-queue it again").                                                    *)
OneSuccessor ==
  \A j, m, n \in Jobs : parent[m] = j /\ parent[n] = j => m = n

(* A cancelled or completed job stays so, whatever its thread reports      *)
(* later; only requeue_failed takes a cancelled job back.                  *)
TerminalSticks ==
  [][\A j \in Jobs :
       /\ status[j] = "completed" => status'[j] = "completed"
       /\ status[j] = "cancelled" /\ status'[j] # "cancelled" =>
            status'[j] = "queued" /\ requeues'[j] = requeues[j] + 1]_vars

-----------------------------------------------------------------------------
(* What the comments of the code promise.                                  *)

(* workers.py:4: "Each worker runs one job at a time". *)
OneJobPerWorker ==
  \A t, u \in Threads :
    thread[t].at = "executing" /\ thread[u].at = "executing"
      /\ thread[t].worker = thread[u].worker => t = u

(* workers.py:222: idle_workers is the "Count of workers not currently     *)
(* running a job", so a worker that is not counted runs one.               *)
BusyWorkerRuns ==
  \A w \in Workers : busy[w] =>
    \E t \in Threads : thread[t].at = "executing" /\ thread[t].worker = w

Serving == running /\ \E d \in Dispatchers : disp[d].phase # "off" /\ disp[d].kind = "loop"

(* workers.py:171: dispatch_loop is a "Blocking loop that continuously     *)
(* dispatches jobs": while the pool is running a loop is there to do so.   *)
RunningMeansServed == running => Serving

(* scheduler.py:152: "Stop the scheduler." holds until the next start.     *)
StopHolds == [][~running /\ running' => starts' > starts]_vars

(* workers.py:188: "Move WAITING_RETRY jobs back to QUEUED after a delay": *)
(* while a loop serves, no job waits for its retry for ever.               *)
RetriesResume ==
  \A j \in Jobs : status[j] = "waiting_retry" /\ Serving
                    ~> status[j] # "waiting_retry" \/ ~Serving

(* A queued job whose time has come leaves the queue as long as a loop     *)
(* goes on serving.                                                        *)
QueuedIsServed ==
  \A j \in Jobs : status[j] = "queued" /\ Serving
                    ~> status[j] # "queued" \/ ~Serving
===============================================================================
