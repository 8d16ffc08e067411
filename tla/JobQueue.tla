------------------------------- MODULE JobQueue -------------------------------
(***************************************************************************)
(* QueueManager (core/queue_manager.py) statement by statement: the heap   *)
(* that dispatchers pop without a lock, and the file that _save writes and *)
(* _load reads after a restart.                                            *)
(*                                                                         *)
(* submit, cancel_job and requeue_failed change the jobs in memory; then   *)
(* _save builds a snapshot of all jobs, opens job_queue.json, which        *)
(* empties it, and dumps the snapshot.  next_job takes entries off the     *)
(* heap one at a time, keeps those whose job is not ready in a list of its *)
(* own, and pushes them back when it has found a ready one or emptied the  *)
(* heap.  Workers move jobs in memory and save nothing.                    *)
(*                                                                         *)
(* JobScheduler has the dispatchers and threads in full, with next_job and *)
(* _save as single steps and no restart.                                   *)
(***************************************************************************)
EXTENDS JobModel, FiniteSets

CONSTANTS
  NumJobs,     \* bound: jobs ever created
  Savers,      \* the threads that call submit, cancel_job and requeue_failed
  Poppers,     \* the threads that call next_job
  Nothing,     \* no job, no snapshot, no file
  Torn,        \* a file that json.load refuses
  MaxRequeues, \* bound: jobs ever requeued, once each
  MaxCrashes,  \* bound: restarts
  CrashPoints  \* "quiet": only while no save is in progress; "anywhere"

(* A job is named by its place in the order of the heap, (priority,        *)
(* created_at): a smaller number is popped first.                          *)
Jobs == 1..NumJobs

(* What a process knows of the jobs, and what it saves.                    *)
States == [Jobs -> JobStates \cup {"none"}]

ASSUME BoundsAssumption == NumJobs \in Nat /\ MaxCrashes \in Nat
ASSUME NothingAssumption == Nothing \notin Nat
ASSUME FileAssumption == Nothing \notin States /\ Torn \notin States

VARIABLES
  status,     \* Job.status in memory, "none" for a job the process does not know
  late,       \* the jobs whose schedule_at has not passed
  heap,       \* how many entries of QueueManager._queue hold each job
  executing,  \* the jobs some worker thread executes
  file,       \* job_queue.json
  save,       \* where each saver is in its call
  pop,        \* where each popper is in next_job
  accepted,   \* the jobs whose submit has returned (history)
  cancelled,  \* those whose cancel_job has returned and that were not requeued (history)
  dropped,    \* the jobs whose entry went with an IndexError (history)
  requeued,   \* the jobs requeue_failed put back (history)
  crashes

memory  == <<status, late, heap, executing>>
history == <<accepted, cancelled, dropped, requeued, crashes>>
vars == <<memory, file, save, pop, history>>

Empty == [j \in Jobs |-> 0]
Idle  == [at |-> "idle", op |-> "submit", job |-> Nothing, data |-> Nothing]
Out   == [at |-> "out", skipped |-> Empty, result |-> Nothing, atEntry |-> {}]

Init ==
  /\ status = [j \in Jobs |-> "none"]
  /\ late = {} /\ heap = Empty /\ executing = {}
  /\ file = Nothing
  /\ save = [c \in Savers |-> Idle]
  /\ pop  = [c \in Poppers |-> Out]
  /\ accepted = {} /\ cancelled = {} /\ dropped = {}
  /\ requeued = {}
  /\ crashes = 0

-----------------------------------------------------------------------------
(* The half of each call that precedes _save. *)
Begin(c, op, j) ==
  /\ save[c].at = "idle"
  /\ save' = [save EXCEPT ![c] = [at |-> "changed", op |-> op, job |-> j, data |-> Nothing]]

Push(j) == heap' = [heap EXCEPT ![j] = @ + 1]

Submit(c, j, now) ==
  /\ Begin(c, "submit", j)
  /\ status[j] = "none" /\ j \notin accepted
  /\ status' = [status EXCEPT ![j] = "queued"]
  /\ late'   = IF now THEN late \ {j} ELSE late \cup {j}
  /\ Push(j)
  /\ UNCHANGED <<executing, file, pop, history>>

CancelJob(c, j) ==
  /\ Begin(c, "cancel", j)
  /\ status[j] \notin Terminal \cup {"none"}
  /\ status' = [status EXCEPT ![j] = "cancelled"]
  /\ UNCHANGED <<late, heap, executing, file, pop, history>>

RequeueFailed(c, j) ==
  /\ Begin(c, "requeue", j)
  /\ j \notin requeued /\ Cardinality(requeued) < MaxRequeues
  /\ status[j] # "none" /\ CanMove(status[j], "queued")
  /\ status'    = [status EXCEPT ![j] = "queued"]
  /\ Push(j)
  /\ requeued'  = requeued \cup {j}
  /\ cancelled' = cancelled \ {j}
  /\ UNCHANGED <<late, executing, file, pop, accepted, dropped, crashes>>

(* The clock passes Job.schedule_at. *)
BecomeDue(j) ==
  /\ j \in late
  /\ late' = late \ {j}
  /\ UNCHANGED <<status, heap, executing, file, save, pop, history>>

-----------------------------------------------------------------------------
(* _save: the snapshot, the open that truncates, the dump. *)
Snapshot(c) ==
  /\ save[c].at = "changed"
  /\ save' = [save EXCEPT ![c].at = "built", ![c].data = status]
  /\ UNCHANGED <<memory, file, pop, history>>

Open(c) ==
  /\ save[c].at = "built"
  /\ save' = [save EXCEPT ![c].at = "opened"]
  /\ file' = Torn
  /\ UNCHANGED <<memory, pop, history>>

(* A dump into a file nobody else has open leaves the snapshot; two dumps  *)
(* into the same file may leave a mixture of both.                         *)
Dump(c) ==
  /\ save[c].at = "opened"
  /\ \/ file' = save[c].data
     \/ (\E d \in Savers \ {c} : save[d].at = "opened") /\ file' = Torn
  /\ LET j == save[c].job IN
     /\ accepted' = IF save[c].op = "submit" THEN accepted \cup {j} ELSE accepted
     /\ cancelled' = IF save[c].op = "cancel" /\ status[j] = "cancelled"
                     THEN cancelled \cup {j} ELSE cancelled
  /\ save' = [save EXCEPT ![c] = Idle]
  /\ UNCHANGED <<memory, pop, dropped, requeued, crashes>>

-----------------------------------------------------------------------------
(* next_job. *)
Ready(j) == status[j] = "queued" /\ j \notin late
InHeap   == {j \in Jobs : heap[j] > 0}

Enter(c) ==
  /\ pop[c].at = "out"
  /\ pop' = [pop EXCEPT ![c] = [Out EXCEPT !.at = "test",
                                           !.atEntry = {j \in InHeap : Ready(j)}]]
  /\ UNCHANGED <<memory, file, save, history>>

(* while self._queue *)
Test(c) ==
  /\ pop[c].at = "test"
  /\ pop' = [pop EXCEPT ![c].at = IF InHeap # {} THEN "pop" ELSE "restore"]
  /\ UNCHANGED <<memory, file, save, history>>

(* Slip: any entry is taken. *)
PopAny(c) ==
  /\ pop[c].at = "pop"
  /\ \E j \in InHeap :
       /\ heap' = [heap EXCEPT ![j] = @ - 1]
       /\ pop' = IF Ready(j)
                 THEN [pop EXCEPT ![c].at = "restore", ![c].result = j]
                 ELSE [pop EXCEPT ![c].at = "test", ![c].skipped[j] = @ + 1]
  /\ UNCHANGED <<status, late, executing, file, save, history>>

(* Slip: a call that finds a ready job forgets the entries it skipped. *)
PopAndForget(c) ==
  /\ pop[c].at = "pop"
  /\ \E j \in InHeap :
       /\ \A k \in InHeap : j <= k
       /\ heap' = [heap EXCEPT ![j] = @ - 1]
       /\ pop' = IF Ready(j)
                 THEN [pop EXCEPT ![c].at = "restore", ![c].result = j, ![c].skipped = Empty]
                 ELSE [pop EXCEPT ![c].at = "test", ![c].skipped[j] = @ + 1]
  /\ UNCHANGED <<status, late, executing, file, save, history>>

(* heapq.heappop, and the test of job.is_ready. *)
Pop(c) ==
  /\ pop[c].at = "pop"
  /\ \E j \in InHeap :
       /\ \A k \in InHeap : j <= k
       /\ heap' = [heap EXCEPT ![j] = @ - 1]
       /\ pop' = IF Ready(j)
                 THEN [pop EXCEPT ![c].at = "restore", ![c].result = j]
                 ELSE [pop EXCEPT ![c].at = "test", ![c].skipped[j] = @ + 1]
  /\ UNCHANGED <<status, late, executing, file, save, history>>

(* Another popper emptied the heap after the test: heappop raises          *)
(* IndexError, and the entries this call had skipped go with it.           *)
PopEmpty(c) ==
  /\ pop[c].at = "pop"
  /\ InHeap = {}
  /\ pop' = [pop EXCEPT ![c] = Out]
  /\ dropped' = dropped \cup {j \in Jobs : pop[c].skipped[j] > 0}
  /\ UNCHANGED <<memory, file, save, accepted, cancelled, requeued, crashes>>

(* Slip: entries the call never skipped are pushed too. *)
PutBackAny(c, j) ==
  /\ pop[c].at = "restore"
  /\ Push(j)
  /\ pop' = [pop EXCEPT ![c].skipped[j] = @ - 1]
  /\ UNCHANGED <<status, late, executing, file, save, history>>

(* for entry in skipped: heapq.heappush *)
PutBack(c, j) ==
  /\ pop[c].at = "restore"
  /\ pop[c].skipped[j] > 0
  /\ Push(j)
  /\ pop' = [pop EXCEPT ![c].skipped[j] = @ - 1]
  /\ UNCHANGED <<status, late, executing, file, save, history>>

(* next_job returns, and a worker starts the job if it is still queued. *)
Return(c) ==
  /\ pop[c].at = "restore"
  /\ pop[c].skipped = Empty
  /\ pop' = [pop EXCEPT ![c] = Out]
  /\ LET j == pop[c].result IN
     IF j # Nothing /\ status[j] = "queued"
     THEN /\ status'    = [status EXCEPT ![j] = "running"]
          /\ executing' = executing \cup {j}
     ELSE UNCHANGED <<status, executing>>
  /\ UNCHANGED <<late, heap, file, save, history>>

(* Slip: the result overwrites whatever state the job is in. *)
FinishAnyway(j) ==
  /\ j \in executing
  /\ executing' = executing \ {j}
  /\ \E to \in {"completed", "failed", "waiting_retry"} :
       status' = [status EXCEPT ![j] = to]
  /\ UNCHANGED <<late, heap, file, save, pop, history>>

(* An execution ends: a job that left the running state keeps its state. *)
Finish(j) ==
  /\ j \in executing
  /\ executing' = executing \ {j}
  /\ IF status[j] = "running"
     THEN \E to \in {"completed", "failed", "waiting_retry"} :
            status' = [status EXCEPT ![j] = to]
     ELSE UNCHANGED status
  /\ UNCHANGED <<late, heap, file, save, pop, history>>

-----------------------------------------------------------------------------
(* Slip: only queued jobs are loaded. *)
LoadedQueued ==
  [j \in Jobs |-> IF file \notin {Nothing, Torn} /\ file[j] = "queued" THEN "queued" ELSE "none"]

(* _load: a missing or unreadable file is an empty queue; a job saved as   *)
(* queued gets an entry, any other keeps the state it was saved in.        *)
Loaded == IF file \in {Nothing, Torn} THEN [j \in Jobs |-> "none"] ELSE file
HeapOf(st) == [j \in Jobs |-> IF st[j] = "queued" THEN 1 ELSE 0]

Restart ==
  /\ crashes < MaxCrashes
  /\ CrashPoints = "quiet" => \A c \in Savers : save[c].at = "idle"
  /\ crashes'   = crashes + 1
  /\ status'    = Loaded
  /\ heap'      = HeapOf(Loaded)
  /\ executing' = {}
  /\ save'      = [c \in Savers |-> Idle]
  /\ pop'       = [c \in Poppers |-> Out]
  /\ dropped'   = {}
  /\ UNCHANGED <<late, file, accepted, cancelled, requeued>>

Next ==
  \/ \E c \in Savers, j \in Jobs, now \in BOOLEAN : Submit(c, j, now)
  \/ \E c \in Savers, j \in Jobs : CancelJob(c, j) \/ RequeueFailed(c, j)
  \/ \E c \in Savers : Snapshot(c) \/ Open(c) \/ Dump(c)
  \/ \E c \in Poppers : Enter(c) \/ Test(c) \/ Pop(c) \/ PopEmpty(c) \/ Return(c)
  \/ \E c \in Poppers, j \in Jobs : PutBack(c, j)
  \/ \E j \in Jobs : BecomeDue(j) \/ Finish(j)
  \/ Restart

Spec == Init /\ [][Next]_vars

-----------------------------------------------------------------------------
(* The shape of every variable. *)
TypeOK ==
  /\ status \in States
  /\ late \subseteq Jobs /\ executing \subseteq Jobs
  /\ heap \in [Jobs -> Nat]
  /\ file \in States \cup {Nothing, Torn}
  /\ save \in [Savers -> [at : {"idle", "changed", "built", "opened"},
                          op : {"submit", "cancel", "requeue"},
                          job : Jobs \cup {Nothing}, data : States \cup {Nothing}]]
  /\ pop \in [Poppers -> [at : {"out", "test", "pop", "restore"}, skipped : [Jobs -> Nat],
                          result : Jobs \cup {Nothing}, atEntry : SUBSET Jobs]]
  /\ accepted \subseteq Jobs /\ cancelled \subseteq Jobs /\ dropped \subseteq Jobs
  /\ requeued \subseteq Jobs
  /\ crashes \in 0..MaxCrashes

(* queue_manager.py:5: "Persists queue state to disk so jobs survive       *)
(* restarts": a job whose submit has returned is known to the process,     *)
(* whatever restarts have happened since.                                  *)
AcceptedSurvive == \A j \in accepted : status[j] # "none"

(* A cancellation that cancel_job has reported lasts until the job is      *)
(* requeued: no late execution, popper or restart brings the job back.     *)
CancelSurvives == \A j \in cancelled : status[j] = "cancelled"

(* What the queue has acknowledged outlives the process. *)
AcknowledgedSurvives == AcceptedSurvive /\ CancelSurvives

(* queue_manager.py:64: "Not ready yet — put it back later": a queued job  *)
(* has an entry in the heap or in the hands of a next_job call, through    *)
(* cancels, requeues and restarts in the middle of that call.  The one     *)
(* exception is an entry that an IndexError took with it.                  *)
NothingDropped ==
  \A j \in Jobs : status[j] = "queued" /\ j \notin dropped =>
    heap[j] > 0 \/ \E c \in Poppers : pop[c].skipped[j] > 0 \/ pop[c].result = j

(* Urgent jobs first: when next_job settles on a job, no more urgent one   *)
(* that was ready in the heap when the call began is still ready in it.    *)
UrgentFirst ==
  \A c \in Poppers : pop[c].result # Nothing =>
    \A k \in pop[c].atEntry :
      k < pop[c].result /\ Ready(k) /\ k \notin requeued => heap[k] = 0

(* Two poppers share the heap and each hides from the other the jobs it    *)
(* has set aside: no queued job is lost that way, and none is taken before *)
(* a more urgent one (next_job).                                           *)
SharedHeapIsSound == NothingDropped /\ UrgentFirst
===============================================================================
