---------------------------- MODULE WorkerFabric ----------------------------
(***************************************************************************)
(* The worker fabric (core/distributed_workers.py), the task router        *)
(* (core/task_router.py) and the tokens they ask for.                      *)
(*                                                                         *)
(* Every job has a caller of its own, a thread: it gets a token, finds a   *)
(* worker, by find_worker or by the router, and assigns the job to it.     *)
(* Finding and assigning are two steps, and anybody may register,          *)
(* deregister, complete or fail in between.  A WorkerNode is an object: it *)
(* lives on after its deregistration, with its jobs, and a worker that     *)
(* registers again under the same id is another node.                      *)
(***************************************************************************)
EXTENDS PolicyEngine, Sequences, FiniteSets, FiniteSetsExt

CONSTANTS
  WorkerIds,    \* worker_id
  Kinds,        \* what a worker may register with: [caps, max]
  FabricJobs,
  JobRole,      \* metadata agent_role
  JobToken,     \* the token the job's caller was issued
  JobBonus,     \* priority bonus of the job in the adaptive score
  NoNode,
  MaxNodes,     \* bound: registrations
  MaxAsks,      \* bound: searches
  MaxRecords,   \* bound: outcomes recorded
  FabricMaxTime \* bound: seconds

Nodes == 1..MaxNodes
Strategies == {"find", "round_robin", "least_loaded", "capability", "adaptive"}

ASSUME FabricAssumption ==
  /\ MaxNodes \in Nat /\ MaxAsks \in Nat /\ MaxRecords \in Nat /\ FabricMaxTime \in Nat
  /\ NoNode \notin Nodes
  /\ \A k \in Kinds : k.max \in Nat \ {0} /\ k.caps \in Seq(STRING)
  /\ JobBonus \in [FabricJobs -> Nat]

VARIABLES
  registry,   \* _workers: node numbers in the order of the dictionary
  workerId,   \* WorkerNode.id; the nodes made so far are its domain
  kind,       \* capabilities and max_concurrent
  nodeState,  \* WorkerNode.state
  active,     \* _active_jobs
  jobStatus,  \* Job.status
  found,      \* the node its search returned
  asks,       \* searches so far
  rrIndex,    \* _round_robin_idx
  record,     \* _worker_scores, by worker id
  fabricTime

nodeVars == <<nodeState, active>>
fabricVars == <<registry, workerId, kind, nodeVars, jobStatus, found, asks,
                rrIndex, record, fabricTime>>

FabricInit ==
  /\ registry = <<>>
  /\ workerId = <<>> /\ kind = <<>>
  /\ nodeState = [n \in Nodes |-> "idle"]
  /\ active = [n \in Nodes |-> {}]
  /\ jobStatus = [j \in FabricJobs |-> "queued"]
  /\ found = [j \in FabricJobs |-> NoNode]
  /\ asks = 0
  /\ rrIndex = 0
  /\ record = [i \in WorkerIds |-> [good |-> 0, bad |-> 0]]
  /\ fabricTime = 0

-----------------------------------------------------------------------------
(* Worker nodes. *)
Available(n) == nodeState[n] # "offline" /\ Cardinality(active[n]) < kind[n].max

CanHandle(n, role) == \E i \in DOMAIN kind[n].caps : kind[n].caps[i] = role

Load(n) == Cardinality(active[n])

(* register_worker: an id that is registered keeps its node. *)
RegisterWorker(i, k) ==
  /\ \A x \in DOMAIN registry : workerId[registry[x]] # i
  /\ Len(workerId) < MaxNodes
  /\ workerId' = Append(workerId, i)
  /\ kind' = Append(kind, k)
  /\ registry' = Append(registry, Len(workerId'))
  /\ UNCHANGED <<nodeVars, jobStatus, found, asks, rrIndex, record, fabricTime>>

(* deregister_worker: its jobs stay with the node. *)
DeregisterWorker(x) ==
  /\ x \in DOMAIN registry
  /\ nodeState' = [nodeState EXCEPT ![registry[x]] = "offline"]
  /\ registry' = SubSeq(registry, 1, x - 1) \o SubSeq(registry, x + 1, Len(registry))
  /\ UNCHANGED <<workerId, kind, active, jobStatus, found, asks,
                 rrIndex, record, fabricTime>>

-----------------------------------------------------------------------------
(* Choosing a worker: the places in the registry of those that can take    *)
(* the job.                                                                *)
Eligible(role) ==
  {x \in DOMAIN registry : CanHandle(registry[x], role) /\ Available(registry[x])}

(* Six times the adaptive score: 40 or 20 for the capability, 30 for the   *)
(* free share of the worker, 20 for its successes (10 when it has no       *)
(* record), and the priority's bonus, the same for every worker.           *)
Score(n, j) ==
  LET r     == record[workerId[n]]
      total == r.good + r.bad
  IN  (IF kind[n].caps[1] = JobRole[j] THEN 240 ELSE 120)
      + (180 * (kind[n].max - Load(n))) \div kind[n].max
      + (IF total = 0 THEN 60 ELSE (120 * r.good) \div total)
      + 6 * JobBonus[j]

(* What the strategies compare: pairs of a worker and one it is better than. *)
Made == DOMAIN workerId
Pairs == Made \X Made
LessLoaded == {p \in Pairs : Load(p[1]) * kind[p[2]].max < Load(p[2]) * kind[p[1]].max}
NearerRole(j) ==
  {p \in Pairs : kind[p[1]].caps[1] = JobRole[j] /\ kind[p[2]].caps[1] # JobRole[j]}
HigherScore(j) == {p \in Pairs : Score(p[1], j) > Score(p[2], j)}

(* No worker in places is better than the one at x, and it is better than  *)
(* those before it.                                                        *)
FirstBest(places, x, better) ==
  \A y \in places :
    /\ <<registry[y], registry[x]>> \notin better
    /\ y < x => <<registry[x], registry[y]>> \in better

(* The worker at x is the one a strategy takes.  find_worker takes the     *)
(* first, and so does a capability match when no worker has the role as    *)
(* its first capability.                                                   *)
Chosen(places, x, how, j) ==
  \/ how = "find" /\ \A y \in places : x <= y
  \/ how = "round_robin"
     /\ Cardinality({y \in places : y < x}) = rrIndex % Cardinality(places)
  \/ how = "least_loaded" /\ FirstBest(places, x, LessLoaded)
  \/ how = "capability"   /\ FirstBest(places, x, NearerRole(j))
  \/ how = "adaptive"     /\ FirstBest(places, x, HigherScore(j))

(* find_worker, or TaskRouter.route, in the thread of job j. *)
Find(j, how) ==
  /\ jobStatus[j] \in {"queued", "failed"}
  /\ found[j] = NoNode
  /\ asks < MaxAsks
  /\ asks' = asks + 1
  /\ LET places == Eligible(JobRole[j])
     IN  \/ places = {} /\ UNCHANGED <<found, rrIndex>>
         \/ \E x \in places :
              /\ Chosen(places, x, how, j)
              /\ found' = [found EXCEPT ![j] = registry[x]]
              /\ rrIndex' = IF how = "round_robin" THEN rrIndex + 1 ELSE rrIndex
  /\ UNCHANGED <<registry, workerId, kind, nodeVars, jobStatus, record, fabricTime>>

(* Slip: the capacity is read before the lock, when the worker is found.   *)
HasRoomStale(n) == TRUE

HasRoom(n) == Cardinality(active[n]) < kind[n].max

(* assign_job.  Only the token and the capacity are looked at again: a     *)
(* node that has been deregistered takes the job too, and is RUNNING.      *)
AssignJob(j) ==
  LET n == found[j]
  IN  /\ n # NoNode
      /\ found' = [found EXCEPT ![j] = NoNode]
      /\ IF HasPermission(JobToken[j], "read", fabricTime) /\ HasRoom(n)
         THEN /\ active' = [active EXCEPT ![n] = @ \cup {j}]
              /\ jobStatus' = [jobStatus EXCEPT ![j] = "running"]
              /\ nodeState' = [nodeState EXCEPT ![n] = "running"]
         ELSE UNCHANGED <<active, jobStatus, nodeState>>
      /\ UNCHANGED <<registry, workerId, kind, asks, rrIndex,
                     record, fabricTime>>

-----------------------------------------------------------------------------
(* Slip: the job stays with the worker. *)
NotPopped(n, j) == active

Popped(n, j) == [active EXCEPT ![n] = @ \ {j}]

(* The state of a node whose last job has gone, OFFLINE or not. *)
Settled(n, left) == IF left[n] = {} THEN [nodeState EXCEPT ![n] = "idle"] ELSE nodeState

(* complete_job. *)
CompleteJob(n, j) ==
  /\ j \in active[n]
  /\ active' = Popped(n, j)
  /\ jobStatus' = [jobStatus EXCEPT ![j] = "completed"]
  /\ nodeState' = Settled(n, active')
  /\ UNCHANGED <<registry, workerId, kind, found, asks, rrIndex, record,
                 fabricTime>>

(* fail_job. *)
FailJob(n, j) ==
  /\ j \in active[n]
  /\ active' = Popped(n, j)
  /\ jobStatus' = [jobStatus EXCEPT ![j] = "failed"]
  /\ nodeState' = Settled(n, active')
  /\ UNCHANGED <<registry, workerId, kind, found, asks, rrIndex, record,
                 fabricTime>>

(* TaskRouter.record_success and record_failure: the caller's word on how a *)
(* worker did, whatever the node says.                                     *)
RecordOutcome(i, field) ==
  /\ MapThenSumSet(LAMBDA k : record[k].good + record[k].bad, WorkerIds) < MaxRecords
  /\ record' = [record EXCEPT ![i] = [@ EXCEPT ![field] = @ + 1]]
  /\ UNCHANGED <<registry, workerId, kind, nodeVars, jobStatus, found, asks, rrIndex,
                 fabricTime>>

FabricTick ==
  /\ fabricTime < FabricMaxTime
  /\ fabricTime' = fabricTime + 1
  /\ UNCHANGED <<registry, workerId, kind, nodeVars, jobStatus, found, asks,
                 rrIndex, record>>

FabricNext ==
  \/ \E i \in WorkerIds, k \in Kinds : RegisterWorker(i, k)
  \/ \E x \in 1..MaxNodes : DeregisterWorker(x)
  \/ \E j \in FabricJobs, how \in Strategies : Find(j, how)
  \/ \E j \in FabricJobs : AssignJob(j)
  \/ \E n \in Nodes, j \in FabricJobs : CompleteJob(n, j) \/ FailJob(n, j)
  \/ \E i \in WorkerIds, field \in {"good", "bad"} : RecordOutcome(i, field)
  \/ FabricTick

FabricSpec == FabricInit /\ [][FabricNext]_fabricVars

-----------------------------------------------------------------------------
(* However finding, assigning, answering and leaving interleave: no worker *)
(* holds more jobs than it has room for; a job is RUNNING exactly while    *)
(* one worker, registered or not, holds it; and a worker that holds none   *)
(* is never RUNNING, nor one that holds some IDLE.                         *)
JobsAccounted ==
  /\ \A n \in DOMAIN workerId : Cardinality(active[n]) <= kind[n].max
  /\ \A j \in FabricJobs :
       /\ (jobStatus[j] = "running") <=> (\E n \in Nodes : j \in active[n])
       /\ \A m, n \in Nodes : j \in active[m] /\ j \in active[n] => m = n
  /\ \A n \in Nodes :
       /\ nodeState[n] = "running" => active[n] # {}
       /\ nodeState[n] = "idle" => active[n] = {}
=============================================================================
