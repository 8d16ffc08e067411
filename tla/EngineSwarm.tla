----------------------------- MODULE EngineSwarm -----------------------------
(***************************************************************************)
(* The engine's swarm: SwarmCoordinator (engine/distributed/coordinator.py)*)
(* over the WorkerRegistry, HeartbeatMonitor and RemoteExecution of        *)
(* engine/distributed/core.py, driven by the requests of engine/main.py.   *)
(*                                                                         *)
(* main.py reads one request at a time, so a request is atomic.  The two   *)
(* loops a request may end in are unrolled: while loop # "none" the        *)
(* request is not over and no other one is read.                           *)
(*                                                                         *)
(* Tasks and workers are numbered in the order of their submission and     *)
(* registration, which is the order of the dictionaries that hold them:    *)
(* a task enters _assignments when it is first assigned, and NoOvertaking  *)
(* says that this happens in the order of the submissions.                 *)
(***************************************************************************)
EXTENDS Naturals, Sequences, FiniteSets

CONSTANTS
  NumWorkers,  \* the registry is filled once, by SwarmFoundation.initialize
  Caps,        \* Worker.capabilities
  Wanted,      \* what a submission may ask for in required_capabilities
  MaxRetries,  \* TaskAssignment.max_retries
  NoWorker,    \* worker_id None
  NumTasks,    \* bound: submissions
  MaxStrays    \* bound: answers for tasks that are with no worker

Workers == 1..NumWorkers
Tasks   == 1..NumTasks

ASSUME SwarmAssumption ==
  /\ NumWorkers \in Nat /\ NumTasks \in Nat /\ MaxStrays \in Nat
  /\ MaxRetries \in Nat \ {0}
  /\ NoWorker \notin Workers

VARIABLES
  wstate,    \* Worker.state
  finished,  \* Worker.jobs_completed
  status,    \* TaskAssignment.status; "new" before the submission
  on,        \* TaskAssignment.worker_id
  needs,     \* TaskAssignment.required_capabilities
  retries,   \* TaskAssignment.retries
  pending,   \* _pending_queue
  recovery,  \* _recovery_queue
  loop,      \* the loop the current request is in
  strays     \* answers so far for tasks that were not assigned (history)

workerVars == <<wstate, finished>>
taskVars   == <<status, on, needs, retries>>
vars == <<workerVars, taskVars, pending, recovery, loop, strays>>

Final == {"completed", "failed"}

Init ==
  /\ wstate = [w \in Workers |-> "idle"] /\ finished = [w \in Workers |-> 0]
  /\ status = [t \in Tasks |-> "new"] /\ on = [t \in Tasks |-> NoWorker]
  /\ needs = [t \in Tasks |-> {}] /\ retries = [t \in Tasks |-> 0]
  /\ pending = <<>> /\ recovery = <<>>
  /\ loop = "none"
  /\ strays = 0

-----------------------------------------------------------------------------
(* Workers and assignments. *)
Idle(ws) == {w \in Workers : ws[w] = "idle"}

(* Slip: a worker that can do the task is taken, idle or not.              *)
CapableCandidates(need, ws) ==
  LET capable == {w \in Workers : need \subseteq Caps[w] /\ ws[w] # "failed"}
  IN  IF capable # {} THEN capable ELSE Idle(ws)

(* SelectionStrategy.select, least loaded: the capabilities asked for are  *)
(* a preference, and the first of the least loaded workers is taken.       *)
Candidates(need, ws) ==
  LET capable == {w \in Idle(ws) : need \subseteq Caps[w]}
  IN  IF capable # {} THEN capable ELSE Idle(ws)

Selected(need, ws, fin, w) ==
  /\ w \in Candidates(need, ws)
  /\ \A v \in Candidates(need, ws) : fin[w] < fin[v] \/ (fin[w] = fin[v] /\ w <= v)

(* Slip: the worker stays idle. *)
TakenIdle(ws, w) == ws

(* _assign, on the worker's side. *)
Taken(ws, w) == [ws EXCEPT ![w] = "busy"]

Assign(t, need, ws) ==
  \E w \in Workers :
    /\ Selected(need, ws, finished, w)
    /\ wstate' = Taken(ws, w)
    /\ status' = [status EXCEPT ![t] = "assigned"]
    /\ on' = [on EXCEPT ![t] = w]

(* Slip: a failing worker stays busy. *)
NotFreed(t) == wstate

(* RemoteExecution.complete and fail: whatever the worker's state was, and *)
(* whichever task it holds by now, it is idle.                             *)
Freed(t) == IF on[t] = NoWorker THEN wstate ELSE [wstate EXCEPT ![on[t]] = "idle"]

-----------------------------------------------------------------------------
(* SwarmCoordinator.submit.  Every call makes a task of its own: the       *)
(* request handler passes no id.  A task that waits is in no dictionary.   *)
Submit(t) ==
  /\ loop = "none"
  /\ status[t] = "new" /\ \A u \in Tasks : u < t => status[u] # "new"
  /\ \E need \in Wanted :
       /\ needs' = [needs EXCEPT ![t] = need]
       /\ \/ /\ Idle(wstate) # {}
             /\ Assign(t, need, wstate)
             /\ UNCHANGED pending
          \/ /\ Idle(wstate) = {}
             /\ status' = [status EXCEPT ![t] = "pending"]
             /\ pending' = Append(pending, t)
             /\ UNCHANGED <<wstate, on>>
  /\ UNCHANGED <<finished, retries, recovery, loop, strays>>

(* An answer is taken for every task of _assignments, whatever its status: *)
(* the caller names the task and nothing else.                             *)
Answered(t) ==
  /\ loop = "none"
  /\ status[t] \notin {"new", "pending"}
  /\ status[t] # "assigned" => strays < MaxStrays
  /\ strays' = IF status[t] = "assigned" THEN strays ELSE strays + 1

(* Slip: complete does not look at the queue. *)
AfterIgnored == "none"

(* complete and the last part of fail end in _process_pending. *)
AfterAnswer == "pending"

(* SwarmCoordinator.complete. *)
Complete(t) ==
  /\ Answered(t)
  /\ status' = [status EXCEPT ![t] = "completed"]
  /\ wstate' = Freed(t)
  /\ finished' = IF on[t] = NoWorker THEN finished ELSE [finished EXCEPT ![on[t]] = @ + 1]
  /\ loop' = AfterAnswer
  /\ UNCHANGED <<on, needs, retries, pending, recovery>>

(* Slip: one attempt too many. *)
TriesOneMore(r) == r <= MaxRetries

TriesAgain(r) == r < MaxRetries

(* Slip: the status a retry begins with is left. *)
StillRetrying == "retrying"

GivenUp == "failed"

(* SwarmCoordinator.fail.  The worker is freed before another one is       *)
(* sought.  A task that is to be tried again and finds none is queued and  *)
(* then failed all the same.                                               *)
Fail(t) ==
  /\ Answered(t)
  /\ retries' = [retries EXCEPT ![t] = @ + 1]
  /\ \/ /\ TriesAgain(retries[t] + 1)
        /\ Idle(Freed(t)) # {}
        /\ Assign(t, needs[t], Freed(t))
        /\ UNCHANGED <<pending, loop>>
     \/ /\ ~(TriesAgain(retries[t] + 1) /\ Idle(Freed(t)) # {})
        /\ status' = [status EXCEPT ![t] = GivenUp]
        /\ wstate' = Freed(t)
        /\ pending' = IF TriesAgain(retries[t] + 1) THEN Append(pending, t) ELSE pending
        /\ loop' = AfterAnswer
        /\ UNCHANGED on
  /\ UNCHANGED <<finished, needs, recovery>>

-----------------------------------------------------------------------------
(* HeartbeatMonitor.check, once 30 seconds have passed.  Nothing calls     *)
(* ping, so every worker's last heartbeat is its registration.             *)
HeartbeatCheck ==
  /\ loop = "none"
  /\ wstate' = [w \in Workers |-> "failed"]
  /\ UNCHANGED <<finished, taskVars, pending, recovery, loop, strays>>

(* Slip: the status of a worker's tasks is not looked at. *)
EverOn(w) == {t \in Tasks : on[t] = w}

AffectedBy(w) == {t \in Tasks : on[t] = w /\ status[t] = "assigned"}

(* SwarmCoordinator.handle_dead_worker: its tasks are taken from it in     *)
(* the order of _assignments, and _recover_orphaned is entered.            *)
DeadWorker(w) ==
  /\ loop = "none"
  /\ wstate' = [wstate EXCEPT ![w] = "failed"]
  /\ status' = [t \in Tasks |-> IF t \in AffectedBy(w) THEN "orphaned" ELSE status[t]]
  /\ on' = [t \in Tasks |-> IF t \in AffectedBy(w) THEN NoWorker ELSE on[t]]
  /\ \E orphans \in [1..Cardinality(AffectedBy(w)) -> AffectedBy(w)] :
       /\ \A i, j \in DOMAIN orphans : i < j => orphans[i] < orphans[j]
       /\ \A t \in AffectedBy(w) : \E i \in DOMAIN orphans : orphans[i] = t
       /\ recovery' = recovery \o orphans
  /\ loop' = "recovery"
  /\ UNCHANGED <<finished, needs, retries, pending, strays>>

(* Slip: a task that finds no worker is dropped. *)
LeftOut(t) == pending

LeftOver(t) == Append(pending, t)

(* A turn of _recover_orphaned: the first task without a worker ends the   *)
(* loop, and those behind it stay in the recovery queue.                   *)
Recover ==
  /\ loop = "recovery"
  /\ IF recovery = <<>>
       THEN /\ loop' = "none"
            /\ UNCHANGED <<wstate, status, on, pending, recovery>>
       ELSE /\ recovery' = Tail(recovery)
            /\ \/ /\ Idle(wstate) # {}
                  /\ Assign(Head(recovery), needs[Head(recovery)], wstate)
                  /\ UNCHANGED <<pending, loop>>
               \/ /\ Idle(wstate) = {}
                  /\ pending' = LeftOver(Head(recovery))
                  /\ loop' = "none"
                  /\ UNCHANGED <<wstate, status, on>>
  /\ UNCHANGED <<finished, needs, retries, strays>>

(* Slip: the youngest task is taken. *)
LastOf(q) == q[Len(q)]
FirstsOf(q) == SubSeq(q, 1, Len(q) - 1)

NextOf(q) == Head(q)
RestOf(q) == Tail(q)

(* A turn of _process_pending. *)
Drain ==
  /\ loop = "pending"
  /\ IF pending # <<>> /\ Idle(wstate) # {}
       THEN /\ Assign(NextOf(pending), needs[NextOf(pending)], wstate)
            /\ pending' = RestOf(pending)
            /\ UNCHANGED loop
       ELSE /\ loop' = "none"
            /\ UNCHANGED <<wstate, status, on, pending>>
  /\ UNCHANGED <<finished, needs, retries, recovery, strays>>

Next ==
  \/ \E t \in Tasks : Submit(t) \/ Complete(t) \/ Fail(t)
  \/ HeartbeatCheck
  \/ \E w \in Workers : DeadWorker(w)
  \/ Recover
  \/ Drain

Spec == Init /\ [][Next]_vars

(* A request runs to its end, and whoever holds a task answers for it in   *)
(* the end.  An answer waits only for the request before it to be over,    *)
(* so it is due as soon as it is possible again and again.                 *)
Fairness ==
  /\ WF_vars(Recover) /\ WF_vars(Drain)
  /\ \A t \in Tasks : SF_vars(status[t] = "assigned" /\ (Complete(t) \/ Fail(t)))

FairSpec == Spec /\ Fairness

-----------------------------------------------------------------------------
Members(q) == {q[i] : i \in DOMAIN q}

(* No state is "offline", and the status "retrying", for which             *)
(* handle_dead_worker looks, does not outlive the request that sets it.    *)
TypeOK ==
  /\ wstate \in [Workers -> {"idle", "busy", "failed"}]
  /\ finished \in [Workers -> Nat]
  /\ status \in [Tasks -> {"new", "pending", "assigned", "orphaned"} \cup Final]
  /\ on \in [Tasks -> Workers \cup {NoWorker}]
  /\ needs \in [Tasks -> Wanted \cup {{}}]
  /\ retries \in [Tasks -> Nat]
  /\ pending \in Seq(Tasks) /\ recovery \in Seq(Tasks)
  /\ loop \in {"none", "pending", "recovery"}
  /\ strays \in 0..MaxStrays

(* Whatever answers come, late ones and repeated ones included, and        *)
(* whichever workers die: a submitted task that is not over is with a      *)
(* worker or in a queue of the coordinator (submit, fail, handle_dead_     *)
(* worker, _recover_orphaned).                                             *)
NoTaskForgotten ==
  \A t \in Tasks :
    \/ status[t] \in Final \cup {"new"}
    \/ status[t] = "assigned" /\ on[t] \in Workers
    \/ status[t] \in {"pending", "orphaned"} /\ t \in Members(pending) \cup Members(recovery)

(* Between two requests no worker is idle while a task waits in the        *)
(* pending queue: every way a worker is freed looks at the queue, or is    *)
(* followed by an assignment (the first branch of fail does not look).     *)
NoIdleWhilePending == loop = "none" /\ pending # <<>> => Idle(wstate) = {}

(* As long as answers come for assigned tasks only: a busy worker has      *)
(* exactly one task, an idle one has none, and a failed one has at most    *)
(* the one it had when the heartbeat missed it.                            *)
OneTaskPerWorker ==
  strays = 0 =>
    \A w \in Workers :
      /\ \A t, u \in AffectedBy(w) : t = u
      /\ wstate[w] = "idle" => AffectedBy(w) = {}
      /\ wstate[w] = "busy" => AffectedBy(w) # {}

(* As long as answers come for assigned tasks only: a task that completed  *)
(* or failed for good is never run again, although both queues hold the    *)
(* assignments themselves and look at no status.                           *)
FinalIsFinal ==
  [][strays' = 0 => \A t \in Tasks : status[t] \in Final => status'[t] = status[t]]_vars

(* As long as answers come for assigned tasks only: a task fails for good  *)
(* exactly when its last attempt failed, never because no worker was free  *)
(* for the next one (the fall-through in fail).                            *)
FailsOnlyWhenExhausted ==
  strays = 0 => \A t \in Tasks : (status[t] = "failed") <=> (retries[t] >= MaxRetries)

(* Tasks are first assigned in the order of their submission: a            *)
(* submission that finds an idle worker finds no waiting task, and the     *)
(* orphans and retries in the queue do not change the order of the others. *)
NoOvertaking ==
  \A t, u \in Tasks : t < u /\ status[t] = "pending" => status[u] \in {"new", "pending"}

(* The abstract specification: a task waits while it is in a queue, and    *)
(* the lease of a running one is the worker it is assigned to.             *)
Phase ==
  [new |-> "unknown", pending |-> "waiting", orphaned |-> "waiting",
   assigned |-> "running", completed |-> "completed", failed |-> "failed"]

Leases ==
  INSTANCE TaskLeases
    WITH Task <- Tasks, Worker <- Workers, NoHolder <- NoWorker, Attempts <- MaxRetries,
         phase <- [t \in Tasks |-> Phase[status[t]]],
         lease <- [t \in Tasks |-> IF status[t] = "assigned" THEN on[t] ELSE NoWorker],
         failures <- retries

(* As long as answers come for assigned tasks only: queues, requests that  *)
(* end in loops, heartbeats and dead workers amount to exclusive leases    *)
(* and bounded attempts, every step being one of TaskLeases or none.       *)
ImplementsLeases ==
  Leases!Init /\ [][strays' = 0 => [Leases!Next]_(Leases!leaseVars)]_vars

(* If answers come for assigned tasks only and from some time on there is  *)
(* always a worker that is not failed, every submitted task ends.          *)
EveryTaskEnds ==
  [](strays = 0) /\ <>[](\E w \in Workers : wstate[w] # "failed")
    => \A t \in Tasks : status[t] # "new" ~> status[t] \in Final
=============================================================================
