---------------------------- MODULE Swarm_proofs ----------------------------
(***************************************************************************)
(* Proofs about the services of the swarm, and about the swarm of the      *)
(* engine: for each the invariant that its steps preserve, for any number  *)
(* of threads, actors, messages, runs, models, workers and tasks, and what *)
(* follows from it.                                                        *)
(***************************************************************************)
EXTENDS Swarm, EngineSwarm, SequenceTheorems, FiniteSetTheorems, TLAPS

-----------------------------------------------------------------------------
(* The workers and their router (WorkerFabric): however searches,          *)
(* assignments, answers and deregistrations interleave, every job is       *)
(* accounted for, for any number of workers, jobs and registrations.       *)

JobStatuses == {"queued", "running", "completed", "failed"}

(* The shape of what the argument needs: what is registered was made, and  *)
(* only what was made holds jobs, finitely many.                           *)
FabricTyped ==
  /\ workerId \in Seq(WorkerIds) /\ kind \in Seq(Kinds)
  /\ Len(kind) = Len(workerId) /\ Len(workerId) <= MaxNodes
  /\ registry \in Seq(DOMAIN workerId)
  /\ nodeState \in [Nodes -> {"idle", "running", "offline"}]
  /\ active \in [Nodes -> SUBSET FabricJobs]
  /\ jobStatus \in [FabricJobs -> JobStatuses]
  /\ found \in [FabricJobs -> Nodes \cup {NoNode}]
  /\ \A n \in Nodes : IsFiniteSet(active[n])
  /\ \A n \in Nodes \ DOMAIN workerId : active[n] = {}

(* A job for which a worker was found is not running yet, and the worker   *)
(* exists: nobody else moves the job before its caller assigns it.         *)
FoundWaits ==
  \A j \in FabricJobs : found[j] # NoNode =>
    found[j] \in DOMAIN workerId /\ jobStatus[j] \in {"queued", "failed"}

FabricInv == FabricTyped /\ FoundWaits /\ JobsAccounted

LEMMA MadeAreNodes ==
  ASSUME FabricTyped
  PROVE  /\ DOMAIN workerId = 1..Len(workerId) /\ DOMAIN kind = DOMAIN workerId
         /\ Len(workerId) \in Nat /\ DOMAIN workerId \subseteq Nodes
         /\ \A n \in DOMAIN workerId : kind[n].max \in Nat
         /\ NoNode \notin DOMAIN workerId
  BY FabricAssumption DEF FabricTyped, Nodes

(* Jobs of a worker when one is added or taken away. *)
LEMMA Counted ==
  ASSUME NEW S, IsFiniteSet(S), NEW j
  PROVE  /\ Cardinality(S) \in Nat
         /\ IsFiniteSet(S \cup {j}) /\ IsFiniteSet(S \ {j})
         /\ j \notin S => Cardinality(S \cup {j}) = Cardinality(S) + 1
         /\ Cardinality(S \ {j}) \in Nat /\ Cardinality(S \ {j}) <= Cardinality(S)
  BY FS_CardinalityType, FS_AddElement, FS_RemoveElement, FS_Subset

LEMMA InitFabric == FabricInit => FabricInv
<1> SUFFICES ASSUME FabricInit PROVE FabricInv
  OBVIOUS
<1>1. FabricTyped
  BY FabricAssumption, FS_EmptySet DEF FabricInit, FabricTyped, JobStatuses
<1>2. FoundWaits
  BY DEF FabricInit, FoundWaits
<1>3. JobsAccounted
  BY DEF FabricInit, JobsAccounted
<1>4. QED
  BY <1>1, <1>2, <1>3 DEF FabricInv

(* A step that changes neither what the workers hold nor the jobs.         *)
LEMMA Untouched ==
  ASSUME FabricInv, UNCHANGED <<workerId, kind, nodeState, active, jobStatus>>, FabricTyped', FoundWaits'
  PROVE  FabricInv'
<1>1. JobsAccounted'
  BY DEF FabricInv, JobsAccounted
<1>2. QED
  BY <1>1 DEF FabricInv

LEMMA RegisterStep ==
  ASSUME FabricInv, NEW i \in WorkerIds, NEW k \in Kinds, RegisterWorker(i, k)
  PROVE  FabricInv'
<1>0. FabricTyped /\ FoundWaits /\ JobsAccounted
  BY DEF FabricInv
<1> DEFINE new == Len(workerId) + 1
<1>1. /\ workerId' = Append(workerId, i) /\ kind' = Append(kind, k)
      /\ registry' = Append(registry, Len(workerId'))
      /\ Len(workerId) < MaxNodes
      /\ UNCHANGED <<nodeState, active, jobStatus, found>>
  BY DEF RegisterWorker, nodeVars
<1>2. /\ workerId' \in Seq(WorkerIds) /\ kind' \in Seq(Kinds)
      /\ Len(workerId') = new /\ Len(kind') = new
      /\ DOMAIN workerId' = 1..new
      /\ \A n \in DOMAIN workerId : kind'[n] = kind[n]
      /\ new \in Nodes \ DOMAIN workerId /\ kind'[new] = k
  <2>1. /\ workerId \in Seq(WorkerIds) /\ kind \in Seq(Kinds) /\ Len(kind) = Len(workerId)
        /\ Len(workerId) \in Nat /\ DOMAIN workerId = 1..Len(workerId) /\ DOMAIN kind = DOMAIN workerId
    BY <1>0 DEF FabricTyped
  <2>2. /\ workerId' \in Seq(WorkerIds) /\ Len(workerId') = new /\ DOMAIN workerId' = 1..new
    BY <1>1, <2>1
  <2>3. /\ kind' \in Seq(Kinds) /\ Len(kind') = new /\ kind'[new] = k
        /\ \A n \in 1..Len(workerId) : kind'[n] = kind[n]
    BY <1>1, <2>1
  <2>4. new \in Nodes /\ new \notin 1..Len(workerId)
    BY <1>1, <2>1, FabricAssumption DEF Nodes
  <2>5. QED
    BY <2>1, <2>2, <2>3, <2>4
<1>3. DOMAIN workerId \subseteq DOMAIN workerId' /\ \A n \in DOMAIN workerId' : n \in DOMAIN workerId \/ n = new
  BY <1>0, <1>2, MadeAreNodes
<1>4. registry' \in Seq(DOMAIN workerId')
  <2>1. registry \in Seq(DOMAIN workerId') /\ new \in DOMAIN workerId'
    BY <1>0, <1>2, <1>3 DEF FabricTyped
  <2>2. QED
    BY <1>1, <1>2, <2>1
<1>5. FabricTyped'
  BY <1>0, <1>1, <1>2, <1>3, <1>4, FabricAssumption, MadeAreNodes DEF FabricTyped
<1>6. FoundWaits'
  BY <1>0, <1>1, <1>3 DEF FoundWaits
<1>7. JobsAccounted'
  <2>1. active[new] = {} /\ Cardinality(active[new]) <= k.max
    <3>1. active[new] = {}
      BY <1>0, <1>2 DEF FabricTyped
    <3>2. Cardinality(active[new]) = 0 /\ k.max \in Nat
      BY <3>1, FS_EmptySet, FabricAssumption
    <3>3. QED
      BY <3>1, <3>2
  <2>2. \A n \in DOMAIN workerId' : Cardinality(active'[n]) <= kind'[n].max
    <3>1. \A n \in DOMAIN workerId : Cardinality(active[n]) <= kind'[n].max
      BY <1>0, <1>2 DEF JobsAccounted
    <3>2. QED
      BY <1>1, <1>2, <1>3, <2>1, <3>1
  <2>3. QED
    BY <1>0, <1>1, <2>2 DEF JobsAccounted
<1>8. QED
  BY <1>5, <1>6, <1>7 DEF FabricInv

(* A sequence without one of its elements. *)
LEMMA WithoutOne ==
  ASSUME NEW S, NEW s \in Seq(S), NEW x \in 1..Len(s)
  PROVE  SubSeq(s, 1, x - 1) \o SubSeq(s, x + 1, Len(s)) \in Seq(S)
<1>1. Len(s) \in Nat /\ x \in Nat /\ x - 1 \in Nat /\ x + 1 \in Nat /\ \A i \in 1..Len(s) : s[i] \in S
  OBVIOUS
<1>2. SubSeq(s, 1, x - 1) \in Seq(S)
  BY <1>1
<1>3. SubSeq(s, x + 1, Len(s)) \in Seq(S)
  BY <1>1
<1> DEFINE front == SubSeq(s, 1, x - 1)
           back == SubSeq(s, x + 1, Len(s))
<1>4. front \in Seq(S) /\ back \in Seq(S)
  BY <1>2, <1>3
<1> HIDE DEF front, back
<1>5. front \o back \in Seq(S)
  BY <1>4
<1>6. QED
  BY <1>5 DEF front, back

LEMMA DeregisterStep ==
  ASSUME FabricInv, NEW x \in 1..MaxNodes, DeregisterWorker(x)
  PROVE  FabricInv'
<1>0. FabricTyped /\ FoundWaits /\ JobsAccounted
  BY DEF FabricInv
<1>1. /\ x \in DOMAIN registry
      /\ nodeState' = [nodeState EXCEPT ![registry[x]] = "offline"]
      /\ registry' = SubSeq(registry, 1, x - 1) \o SubSeq(registry, x + 1, Len(registry))
      /\ UNCHANGED <<workerId, kind, active, jobStatus, found>>
  BY DEF DeregisterWorker
<1>2. registry' \in Seq(DOMAIN workerId)
  <2>1. registry \in Seq(DOMAIN workerId)
    BY <1>0 DEF FabricTyped
  <2>2. x \in 1..Len(registry)
    BY <2>1, <1>1
  <2>3. QED
    BY <2>1, <2>2, <1>1, WithoutOne
<1>3. FabricTyped' /\ FoundWaits'
  BY <1>0, <1>1, <1>2 DEF FabricTyped, FoundWaits
<1>4. JobsAccounted'
  BY <1>0, <1>1 DEF FabricTyped, JobsAccounted
<1>5. QED
  BY <1>3, <1>4 DEF FabricInv

LEMMA FindStep ==
  ASSUME FabricInv, NEW j \in FabricJobs, NEW by \in Strategies, Find(j, by)
  PROVE  FabricInv'
<1>0. FabricTyped /\ FoundWaits
  BY DEF FabricInv
<1>1. /\ jobStatus[j] \in {"queued", "failed"}
      /\ UNCHANGED <<registry, workerId, kind, nodeState, active, jobStatus>>
      /\ \/ found' = found
         \/ \E x \in DOMAIN registry : found' = [found EXCEPT ![j] = registry[x]]
  BY DEF Find, nodeVars, Eligible
<1>2. \/ found' = found
      \/ \E n \in DOMAIN workerId : found' = [found EXCEPT ![j] = n]
  BY <1>0, <1>1 DEF FabricTyped
<1>3. found \in [FabricJobs -> Nodes \cup {NoNode}] /\ DOMAIN workerId \subseteq Nodes
  BY <1>0, MadeAreNodes DEF FabricTyped
<1>4. found' \in [FabricJobs -> Nodes \cup {NoNode}]
  BY <1>2, <1>3
<1>5. FabricTyped'
  BY <1>0, <1>1, <1>4 DEF FabricTyped
<1>6. FoundWaits'
  BY <1>0, <1>1, <1>2, <1>3 DEF FoundWaits
<1>7. QED
  BY <1>1, <1>5, <1>6, Untouched

LEMMA AssignStep ==
  ASSUME FabricInv, NEW j \in FabricJobs, AssignJob(j)
  PROVE  FabricInv'
<1>0. FabricTyped /\ FoundWaits /\ JobsAccounted
  BY DEF FabricInv
<1> DEFINE n == found[j]
<1>1. /\ n # NoNode
      /\ found' = [found EXCEPT ![j] = NoNode]
      /\ \/ /\ HasRoom(n)
            /\ active' = [active EXCEPT ![n] = @ \cup {j}]
            /\ jobStatus' = [jobStatus EXCEPT ![j] = "running"]
            /\ nodeState' = [nodeState EXCEPT ![n] = "running"]
         \/ UNCHANGED <<active, jobStatus, nodeState>>
      /\ UNCHANGED <<registry, workerId, kind>>
  BY DEF AssignJob
<1>2. n \in DOMAIN workerId /\ n \in Nodes /\ jobStatus[j] # "running"
  BY <1>0, <1>1, MadeAreNodes DEF FoundWaits
<1>3. \A m \in Nodes : j \notin active[m]
  BY <1>0, <1>2 DEF JobsAccounted
<1> HIDE DEF n
<1>4. CASE UNCHANGED <<active, jobStatus, nodeState>>
  <2>1. FabricTyped' /\ FoundWaits'
    BY <1>0, <1>1, <1>4 DEF FabricTyped, FoundWaits
  <2>2. QED
    BY <1>1, <1>4, <2>1, Untouched
<1>5. CASE /\ HasRoom(n)
           /\ active' = [active EXCEPT ![n] = @ \cup {j}]
           /\ jobStatus' = [jobStatus EXCEPT ![j] = "running"]
           /\ nodeState' = [nodeState EXCEPT ![n] = "running"]
  <2>1. /\ active'[n] = active[n] \cup {j} /\ \A m \in Nodes \ {n} : active'[m] = active[m]
        /\ nodeState'[n] = "running" /\ \A m \in Nodes \ {n} : nodeState'[m] = nodeState[m]
        /\ jobStatus'[j] = "running" /\ \A i \in FabricJobs \ {j} : jobStatus'[i] = jobStatus[i]
    BY <1>0, <1>2, <1>5, SMTT(20) DEF FabricTyped
  <2>2. /\ IsFiniteSet(active'[n]) /\ Cardinality(active'[n]) = Cardinality(active[n]) + 1
        /\ Cardinality(active[n]) \in Nat
    BY <1>0, <1>2, <1>3, <2>1, Counted, SMTT(20) DEF FabricTyped
  <2>3. Cardinality(active'[n]) <= kind[n].max
    BY <1>0, <1>2, <1>5, <2>2, MadeAreNodes DEF HasRoom
  <2>4. FabricTyped'
    <3>1. active' \in [Nodes -> SUBSET FabricJobs] /\ jobStatus' \in [FabricJobs -> JobStatuses]
          /\ nodeState' \in [Nodes -> {"idle", "running", "offline"}]
          /\ found' \in [FabricJobs -> Nodes \cup {NoNode}]
      BY <1>0, <1>1, <1>2, <1>5 DEF FabricTyped, JobStatuses
    <3>2. \A m \in Nodes : IsFiniteSet(active'[m])
      BY <1>0, <2>1, <2>2 DEF FabricTyped
    <3>3. \A m \in Nodes \ DOMAIN workerId : active'[m] = {}
      BY <1>0, <1>2, <2>1 DEF FabricTyped
    <3>4. QED
      BY <1>0, <1>1, <3>1, <3>2, <3>3 DEF FabricTyped
  <2>5. FoundWaits'
    BY <1>0, <1>1, <2>1 DEF FoundWaits, FabricTyped
  <2>6. JobsAccounted'
    <3>1. \A m \in DOMAIN workerId : Cardinality(active'[m]) <= kind[m].max
      BY <1>0, <2>1, <2>3, MadeAreNodes DEF JobsAccounted
    <3>2. \A i \in FabricJobs, m \in Nodes : i \in active'[m] <=> i \in active[m] \/ (i = j /\ m = n)
      BY <2>1
    <3>3. \A i \in FabricJobs :
            /\ (jobStatus'[i] = "running") <=> (\E m \in Nodes : i \in active'[m])
            /\ \A l, m \in Nodes : i \in active'[l] /\ i \in active'[m] => l = m
      BY <1>0, <1>2, <1>3, <2>1, <3>2 DEF JobsAccounted
    <3>4. \A m \in Nodes : /\ nodeState'[m] = "running" => active'[m] # {}
                           /\ nodeState'[m] = "idle" => active'[m] = {}
      BY <1>0, <2>1 DEF JobsAccounted
    <3>5. QED
      BY <1>1, <3>1, <3>3, <3>4 DEF JobsAccounted
  <2>7. QED
    BY <2>4, <2>5, <2>6 DEF FabricInv
<1>6. QED
  BY <1>1, <1>4, <1>5

(* complete_job and fail_job. *)
LEMMA AnswerStep ==
  ASSUME FabricInv, NEW n \in Nodes, NEW j \in FabricJobs, CompleteJob(n, j) \/ FailJob(n, j)
  PROVE  FabricInv'
<1>0. FabricTyped /\ FoundWaits /\ JobsAccounted
  BY DEF FabricInv
<1>1. PICK st \in {"completed", "failed"} :
        /\ j \in active[n]
        /\ active' = [active EXCEPT ![n] = @ \ {j}]
        /\ jobStatus' = [jobStatus EXCEPT ![j] = st]
        /\ nodeState' = IF active'[n] = {} THEN [nodeState EXCEPT ![n] = "idle"] ELSE nodeState
        /\ UNCHANGED <<registry, workerId, kind, found>>
  BY DEF CompleteJob, FailJob, Popped, Settled
<1>2. /\ active'[n] = active[n] \ {j} /\ \A m \in Nodes \ {n} : active'[m] = active[m]
      /\ jobStatus'[j] = st /\ \A i \in FabricJobs \ {j} : jobStatus'[i] = jobStatus[i]
      /\ \A m \in Nodes \ {n} : nodeState'[m] = nodeState[m]
      /\ nodeState'[n] = IF active'[n] = {} THEN "idle" ELSE nodeState[n]
      /\ nodeState' \in [Nodes -> {"idle", "running", "offline"}]
  BY <1>0, <1>1 DEF FabricTyped
<1>3. /\ IsFiniteSet(active'[n]) /\ Cardinality(active'[n]) <= Cardinality(active[n])
      /\ Cardinality(active'[n]) \in Nat /\ Cardinality(active[n]) \in Nat
  <2>1. IsFiniteSet(active[n])
    BY <1>0 DEF FabricTyped
  <2>2. /\ Cardinality(active[n]) \in Nat /\ IsFiniteSet(active[n] \ {j})
        /\ Cardinality(active[n] \ {j}) \in Nat
        /\ Cardinality(active[n] \ {j}) <= Cardinality(active[n])
    BY <2>1, Counted
  <2>3. QED
    BY <1>2, <2>2
<1>4. jobStatus[j] = "running" /\ \A m \in Nodes : j \in active[m] => m = n
  BY <1>0, <1>1 DEF JobsAccounted
<1>5. FabricTyped'
  <2>1. active' \in [Nodes -> SUBSET FabricJobs] /\ jobStatus' \in [FabricJobs -> JobStatuses]
    BY <1>0, <1>1 DEF FabricTyped, JobStatuses
  <2>2. /\ \A m \in Nodes : IsFiniteSet(active'[m])
        /\ \A m \in Nodes \ DOMAIN workerId : active'[m] = {}
    BY <1>0, <1>2, <1>3 DEF FabricTyped
  <2>3. QED
    BY <1>0, <1>1, <1>2, <2>1, <2>2 DEF FabricTyped
<1>6. FoundWaits'
  BY <1>0, <1>1, <1>2, <1>4 DEF FoundWaits
<1>7. JobsAccounted'
  <2>1. \A m \in DOMAIN workerId : Cardinality(active'[m]) <= kind[m].max
    <3>1. SUFFICES ASSUME NEW m \in DOMAIN workerId PROVE Cardinality(active'[m]) <= kind[m].max
      OBVIOUS
    <3>2. m \in Nodes /\ kind[m].max \in Nat /\ Cardinality(active[m]) <= kind[m].max
      BY <1>0, MadeAreNodes DEF JobsAccounted
    <3>3. CASE m = n
      BY <1>3, <3>2, <3>3
    <3>4. CASE m # n
      BY <1>2, <3>2, <3>4
    <3>5. QED
      BY <3>3, <3>4
  <2>2. \A i \in FabricJobs, m \in Nodes : i \in active'[m] <=> i \in active[m] /\ i # j
    BY <1>2, <1>4
  <2>3. \A i \in FabricJobs :
          /\ (jobStatus'[i] = "running") <=> (\E m \in Nodes : i \in active'[m])
          /\ \A l, m \in Nodes : i \in active'[l] /\ i \in active'[m] => l = m
    BY <1>0, <1>2, <2>2 DEF JobsAccounted
  <2>4. \A m \in Nodes : /\ nodeState'[m] = "running" => active'[m] # {}
                         /\ nodeState'[m] = "idle" => active'[m] = {}
    BY <1>0, <1>2 DEF JobsAccounted
  <2>5. QED
    BY <1>1, <2>1, <2>3, <2>4 DEF JobsAccounted
<1>8. QED
  BY <1>5, <1>6, <1>7 DEF FabricInv

LEMMA FabricStep == FabricInv /\ [FabricNext]_fabricVars => FabricInv'
<1> SUFFICES ASSUME FabricInv, [FabricNext]_fabricVars PROVE FabricInv'
  OBVIOUS
<1>1. ASSUME UNCHANGED <<registry, workerId, kind, nodeState, active, jobStatus, found>>
      PROVE  FabricInv'
  BY <1>1, Untouched DEF FabricInv, FabricTyped, FoundWaits
<1>2. ASSUME NEW i \in WorkerIds, NEW field \in {"good", "bad"}, RecordOutcome(i, field) PROVE FabricInv'
  BY <1>1, <1>2 DEF RecordOutcome, nodeVars
<1>3. CASE FabricTick
  BY <1>1, <1>3 DEF FabricTick, nodeVars
<1>4. CASE UNCHANGED fabricVars
  BY <1>1, <1>4 DEF fabricVars, nodeVars
<1>5. QED
  BY <1>2, <1>3, <1>4, RegisterStep, DeregisterStep, FindStep, AssignStep, AnswerStep DEF FabricNext

(* No interleaving of searches, assignments, answers and deregistrations   *)
(* overloads a worker, gives a job to two, or leaves a worker RUNNING with *)
(* nothing to run; the check of the capacity in assign_job is what makes   *)
(* the stale answer of find_worker harmless.                               *)
THEOREM EveryJobAccounted == FabricSpec => []JobsAccounted
<1>1. FabricInv => JobsAccounted
  BY DEF FabricInv
<1>2. QED
  BY <1>1, InitFabric, FabricStep, PTL DEF FabricSpec

-----------------------------------------------------------------------------
(* The graph of a swarm and its coordinator (SwarmCoordinator).            *)

(* In every plan a node depends on nodes of lower number only.             *)
LEMMA PlanFacts ==
  ASSUME NEW m
  PROVE  \E k \in 1..5 :
           /\ DOMAIN Decompose(m) = 1..k /\ Len(Decompose(m)) = k
           /\ \A n \in 1..k : Decompose(m)[n] \subseteq 1..(n - 1)
<1>1. CASE m = "parallel"
  <2>1. Decompose(m) = <<{}, {}, {2}, {2, 3}, {2}>>
    BY <1>1 DEF Decompose, Plans
  <2>2. QED
    BY <2>1
<1>2. CASE m = "pipeline"
  <2>1. Decompose(m) = <<{}, {1}, {2}, {3}, {4}>>
    BY <1>2 DEF Decompose, Plans
  <2>2. QED
    BY <2>1
<1>3. CASE m = "debate"
  <2>1. Decompose(m) = <<{}, {}, {1, 2}>>
    BY <1>3 DEF Decompose, Plans
  <2>2. QED
    BY <2>1
<1>4. CASE m = "map_reduce"
  <2>1. Decompose(m) = <<{}, {1}, {1}, {1}, {2, 3, 4}>>
    BY <1>4 DEF Decompose, Plans
  <2>2. QED
    BY <2>1
<1>5. CASE m \notin {"parallel", "pipeline", "debate", "map_reduce"}
  <2>1. Decompose(m) = <<{}>>
    BY <1>5 DEF Decompose, Plans
  <2>2. QED
    BY <2>1
<1>6. QED
  BY <1>1, <1>2, <1>3, <1>4, <1>5

(* The nodes of a graph are few, and any of them have a first.             *)
LEMMA FirstNode ==
  ASSUME NEW S \in SUBSET (1..5), S # {}
  PROVE  Min(S) \in S /\ \A n \in S : Min(S) <= n
<1>1. \E x \in S : \A y \in S : x <= y
  <2>1. \A y \in S : y \in {1, 2, 3, 4, 5}
    OBVIOUS
  <2>2. CASE 1 \in S
    BY <2>1, <2>2
  <2>3. CASE 1 \notin S /\ 2 \in S
    BY <2>1, <2>3
  <2>4. CASE 1 \notin S /\ 2 \notin S /\ 3 \in S
    BY <2>1, <2>4
  <2>5. CASE 1 \notin S /\ 2 \notin S /\ 3 \notin S /\ 4 \in S
    BY <2>1, <2>5
  <2>6. CASE 1 \notin S /\ 2 \notin S /\ 3 \notin S /\ 4 \notin S
    <3>1. 5 \in S /\ \A y \in S : y = 5
      BY <2>1, <2>6
    <3>2. QED
      BY <3>1
  <2>7. QED
    BY <2>2, <2>3, <2>4, <2>5, <2>6
<1>2. QED
  BY <1>1 DEF Min

CoordTyped ==
  /\ mode \in Modes \/ coordPc = "done"
  /\ dag \in [DagNodes -> {"pending", "ready", "running", "completed"}]
  /\ poolJob \in [DagNodes -> {"none", "queued", "running", "completed", "failed"}]
  /\ turns \in Nat
  /\ coordPc \in {"turn", "submit", "mark", "done"}

(* The nodes that wait for their dispatch are the ready ones, which exist, *)
(* like the running ones, only within a turn.                              *)
ReadyAreDispatched ==
  /\ ready = InState("ready")
  /\ coordPc = "mark" => ready # {}
  /\ coordPc \in {"turn", "done"} => InState("ready") = {} /\ InState("running") = {}
  /\ coordPc = "done" => \A n \in DagNodes : dag[n] = "completed"

DependenciesFirst == \A n \in DagNodes : dag[n] # "pending" => \A d \in deps[n] : dag[d] = "completed"

SubmittedOnce ==
  \A n \in DagNodes : poolJob[n] = "none" <=>
    \/ dag[n] = "pending"
    \/ dag[n] = "ready" /\ ~(coordPc = "mark" /\ n = Min(ready))

(* Every turn completes a node, the one that is going on will.             *)
EveryTurnCounts ==
  LET done == Cardinality(InState("completed"))
  IN  \/ turns <= done
      \/ /\ coordPc \in {"submit", "mark"} /\ turns = done + 1
         /\ InState("ready") # {} \/ InState("running") # {}

CoordInv == CoordTyped /\ ReadyAreDispatched /\ DependenciesFirst /\ SubmittedOnce /\ EveryTurnCounts

(* What stays the same as long as the mode does.                           *)
LEMMA GraphFacts ==
  /\ \E k \in 1..5 :
       /\ DagNodes = 1..k /\ Len(deps) = k
       /\ \A n \in 1..k : deps[n] \subseteq 1..(n - 1)
  /\ mode \in Modes => Len(deps) <= MaxIterations
  /\ DagNodes \subseteq 1..5
<1>1. PICK m : m = mode
  OBVIOUS
<1>2. PICK k \in 1..5 :
           /\ DOMAIN Decompose(m) = 1..k /\ Len(Decompose(m)) = k
           /\ \A n \in 1..k : Decompose(m)[n] \subseteq 1..(n - 1)
  BY PlanFacts
<1>3. deps = Decompose(m)
  BY <1>1 DEF deps
<1>4. QED
  BY <1>1, <1>2, <1>3, CoordAssumption DEF DagNodes

(* The steps of the coordinator and of the pool keep the invariant.        *)
LEMMA CoordInitially == CoordInit => CoordInv
<1> SUFFICES ASSUME CoordInit PROVE CoordInv
  OBVIOUS
<1>1. deps = <<{}>> /\ DagNodes = {1} /\ dag[1] = "completed" /\ deps[1] = {} /\ poolJob[1] = "completed"
  BY DEF CoordInit, deps, DagNodes, Decompose, Plans
<1>2. InState("ready") = {} /\ InState("running") = {} /\ InState("completed") = {1}
  BY <1>1 DEF InState
<1>3. CoordTyped
  BY <1>1 DEF CoordInit, CoordTyped
<1>4. ReadyAreDispatched /\ DependenciesFirst /\ SubmittedOnce
  BY <1>1, <1>2 DEF CoordInit, ReadyAreDispatched, DependenciesFirst, SubmittedOnce
<1>5. EveryTurnCounts
  BY <1>2, FS_Singleton DEF CoordInit, EveryTurnCounts
<1>6. QED
  BY <1>3, <1>4, <1>5 DEF CoordInv

LEMMA NodeFacts ==
  ASSUME CoordTyped
  PROVE  /\ InState("completed") \subseteq DagNodes /\ IsFiniteSet(DagNodes) /\ Cardinality(DagNodes) = Len(deps)
         /\ IsFiniteSet(InState("completed")) /\ Cardinality(InState("completed")) \in Nat
         /\ Cardinality(InState("completed")) <= Len(deps)
         /\ Cardinality(InState("completed")) = Len(deps) => InState("completed") = DagNodes
<1>1. PICK k \in 1..5 : DagNodes = 1..k /\ Len(deps) = k
  BY GraphFacts
<1>2. IsFiniteSet(DagNodes) /\ Cardinality(DagNodes) = Len(deps)
  BY <1>1, FS_Interval
<1>3. PICK C : C = InState("completed")
  OBVIOUS
<1>4. C \in SUBSET DagNodes
  BY <1>3 DEF InState
<1>5. IsFiniteSet(C) /\ Cardinality(C) <= Cardinality(DagNodes) /\ (Cardinality(DagNodes) = Cardinality(C) => DagNodes = C)
  BY <1>2, <1>4, FS_Subset
<1>6. Cardinality(C) \in Nat
  BY <1>5, FS_CardinalityType
<1>7. QED
  BY <1>2, <1>3, <1>4, <1>5, <1>6

LEMMA BeginTurnStep == ASSUME CoordInv, BeginTurn PROVE CoordInv'
<1>0. CoordTyped /\ ReadyAreDispatched /\ DependenciesFirst /\ SubmittedOnce /\ EveryTurnCounts
  BY DEF CoordInv
<1>a. PICK N, D : N = DagNodes /\ D = deps
  OBVIOUS
<1>b. /\ coordPc = "turn" /\ UNCHANGED <<mode, poolJob>>
      /\ DagNodes' = N /\ deps' = D
  BY <1>a DEF BeginTurn, DagNodes, deps
<1>c. /\ InState("ready") = {} /\ InState("running") = {} /\ ready = {}
      /\ \A n \in N : dag[n] \in {"pending", "completed"}
  BY <1>0, <1>a, <1>b DEF ReadyAreDispatched, CoordTyped, InState
<1>d. PICK done : done = Cardinality(InState("completed"))
  OBVIOUS
<1>e. done \in Nat /\ turns <= done /\ turns \in Nat
  BY <1>0, <1>b, <1>d, NodeFacts DEF EveryTurnCounts, CoordTyped
<1>1. CASE \A n \in DagNodes : dag[n] \in Terminal
  <2>1. coordPc' = "done" /\ UNCHANGED <<dag, turns, ready>>
    BY <1>1, <1>b DEF BeginTurn
  <2>2. \A n \in N : dag[n] = "completed"
    BY <1>1, <1>a, <1>c DEF Terminal
  <2>3. /\ InState("ready")' = {} /\ InState("running")' = {} /\ InState("completed")' = InState("completed")
    BY <1>a, <1>b, <1>c, <2>1 DEF InState
  <2>4. CoordTyped'
    BY <1>0, <1>a, <1>b, <2>1 DEF CoordTyped
  <2>5. ReadyAreDispatched'
    BY <1>b, <1>c, <2>1, <2>2, <2>3 DEF ReadyAreDispatched
  <2>6. DependenciesFirst'
    BY <1>0, <1>a, <1>b, <2>1 DEF DependenciesFirst
  <2>7. SubmittedOnce'
    BY <1>0, <1>a, <1>b, <2>1, <2>2 DEF SubmittedOnce
  <2>8. EveryTurnCounts'
    BY <1>0, <1>b, <2>1, <2>3 DEF EveryTurnCounts
  <2>9. QED
    BY <2>4, <2>5, <2>6, <2>7, <2>8 DEF CoordInv
<1>2. CASE ~\A n \in DagNodes : dag[n] \in Terminal
  <2>1. turns # MaxIterations
    <3>1. InState("completed") # DagNodes
      BY <1>2 DEF InState, Terminal
    <3>2. done < Len(deps)
      <4>1. PICK k \in 1..5 : Len(deps) = k
        BY GraphFacts
      <4>2. QED
        BY <1>0, <1>d, <1>e, <3>1, <4>1, NodeFacts
    <3>3. Len(deps) <= MaxIterations /\ Len(deps) \in Nat
      BY <1>0, <1>b, GraphFacts DEF CoordTyped
    <3>4. QED
      BY <1>e, <3>2, <3>3, CoordAssumption
  <2>2. ReadyNodes # {}
    <3>1. PICK S : S = InState("pending")
      OBVIOUS
    <3>2. S # {} /\ S \in SUBSET (1..5) /\ \A n \in N : n \in S <=> dag[n] = "pending"
      BY <1>2, <1>a, <1>c, <3>1, GraphFacts DEF InState, Terminal
    <3>3. Min(S) \in S /\ \A n \in S : Min(S) <= n
      BY <3>2, FirstNode
    <3>4. PICK x : x = Min(S)
      OBVIOUS
    <3>5. x \in S /\ x \in N /\ dag[x] = "pending" /\ \A n \in S : x <= n
      BY <1>a, <3>1, <3>3, <3>4 DEF InState
    <3>6. \A d \in D[x] : d \in N /\ d < x
      <4>1. PICK k \in 1..5 : N = 1..k /\ \A n \in 1..k : D[n] \subseteq 1..(n - 1)
        BY <1>a, GraphFacts
      <4>2. QED
        BY <3>5, <4>1
    <3>7. \A d \in D[x] : d \in N /\ d \notin S
      <4>1. \A n \in N : n \in Nat
        BY <1>a, GraphFacts
      <4>2. QED
        BY <3>5, <3>6, <4>1
    <3>8. \A d \in deps[x] : d \in DagNodes /\ dag[d] = "completed"
      BY <1>a, <1>c, <3>2, <3>7
    <3>9. x \in ReadyNodes
      BY <1>a, <3>1, <3>5, <3>8 DEF ReadyNodes, DependenciesMet
    <3>10. QED
      BY <3>9
  <2>3. PICK R : R = ReadyNodes
    OBVIOUS
  <2>4. /\ R \subseteq N /\ \A n \in R : dag[n] = "pending" /\ \A d \in D[n] : d \in N /\ dag[d] = "completed"
    BY <1>a, <2>3 DEF ReadyNodes, DependenciesMet, InState
  <2>5. /\ dag' = [n \in N |-> IF n \in R THEN "ready" ELSE dag[n]] /\ ready' = R
        /\ turns' = turns + 1 /\ coordPc' = "submit"
    BY <1>2, <1>a, <1>b, <2>1, <2>2, <2>3 DEF BeginTurn
  <2>6. /\ InState("ready")' = R /\ InState("running")' = {} /\ InState("completed")' = InState("completed")
    BY <1>a, <1>b, <1>c, <2>4, <2>5 DEF InState
  <2>7. CoordTyped'
    BY <1>0, <1>a, <1>b, <1>e, <2>5 DEF CoordTyped
  <2>8. ReadyAreDispatched'
    BY <2>5, <2>6 DEF ReadyAreDispatched
  <2>9. DependenciesFirst'
    <3>1. \A n \in N : \A d \in D[n] : dag'[n] # "pending" => d \in N /\ d \notin R /\ dag[d] = "completed"
      <4>1. \A n \in N : D[n] \subseteq N
        <5>1. PICK k \in 1..5 : N = 1..k /\ \A n \in 1..k : D[n] \subseteq 1..(n - 1)
          BY <1>a, GraphFacts
        <5>2. QED
          BY <5>1
      <4>2. QED
        BY <1>0, <1>a, <2>4, <2>5, <4>1 DEF DependenciesFirst
    <3>2. QED
      BY <1>b, <2>5, <3>1 DEF DependenciesFirst
  <2>10. SubmittedOnce'
    BY <1>0, <1>a, <1>b, <1>c, <2>4, <2>5 DEF SubmittedOnce
  <2>11. EveryTurnCounts'
    <3>1. Cardinality(InState("completed"))' = done
      BY <1>d, <2>6
    <3>2. QED
      BY <1>e, <2>2, <2>3, <2>5, <2>6, <3>1 DEF EveryTurnCounts
  <2>12. QED
    BY <2>7, <2>8, <2>9, <2>10, <2>11 DEF CoordInv
<1>3. QED
  BY <1>1, <1>2

LEMMA SubmitNodeStep == ASSUME CoordInv, SubmitNode PROVE CoordInv'
<1>0. CoordTyped /\ ReadyAreDispatched /\ DependenciesFirst /\ SubmittedOnce /\ EveryTurnCounts
  BY DEF CoordInv
<1>a. PICK N, D, x : N = DagNodes /\ D = deps /\ x = Min(ready)
  OBVIOUS
<1>1. /\ coordPc = "submit" /\ coordPc' = "mark" /\ UNCHANGED <<mode, dag, turns, ready>> /\ ready # {}
      /\ poolJob' = [poolJob EXCEPT ![x] = "queued"]
      /\ DagNodes' = N /\ deps' = D
  BY <1>a DEF SubmitNode, DagNodes, deps
<1>2. x \in ready /\ x \in N /\ dag[x] = "ready" /\ ready = {n \in N : dag[n] = "ready"}
  <2>1. ready \in SUBSET (1..5)
    BY <1>0, GraphFacts DEF ReadyAreDispatched, InState
  <2>2. QED
    BY <1>0, <1>1, <1>a, <2>1, FirstNode DEF ReadyAreDispatched, InState
<1>3. \A s : InState(s)' = InState(s)
  BY <1>1, <1>a DEF InState
<1>4. CoordTyped'
  BY <1>0, <1>1, <1>2, <1>a DEF CoordTyped
<1>5. ReadyAreDispatched' /\ DependenciesFirst' /\ EveryTurnCounts'
  BY <1>0, <1>1, <1>3, <1>a DEF ReadyAreDispatched, DependenciesFirst, EveryTurnCounts
<1>6. SubmittedOnce'
  BY <1>0, <1>1, <1>2, <1>a DEF SubmittedOnce, CoordTyped
<1>7. QED
  BY <1>4, <1>5, <1>6 DEF CoordInv

LEMMA MarkRunningStep == ASSUME CoordInv, MarkRunning PROVE CoordInv'
<1>0. CoordTyped /\ ReadyAreDispatched /\ DependenciesFirst /\ SubmittedOnce /\ EveryTurnCounts
  BY DEF CoordInv
<1>a. PICK N, D, x : N = DagNodes /\ D = deps /\ x = Min(ready)
  OBVIOUS
<1>1. /\ coordPc = "mark" /\ coordPc' = "submit" /\ UNCHANGED <<mode, turns, poolJob>>
      /\ dag' = [dag EXCEPT ![x] = "running"] /\ ready' = ready \ {x}
      /\ DagNodes' = N /\ deps' = D
  BY <1>a DEF MarkRunning, DagNodes, deps
<1>2. x \in ready /\ x \in N /\ dag[x] = "ready" /\ ready = {n \in N : dag[n] = "ready"}
  <2>1. ready \in SUBSET (1..5) /\ ready # {}
    BY <1>0, <1>1, GraphFacts DEF ReadyAreDispatched, InState
  <2>2. QED
    BY <1>0, <1>1, <1>a, <2>1, FirstNode DEF ReadyAreDispatched, InState
<1>3. DOMAIN dag = N /\ dag'[x] = "running" /\ \A n \in N : n # x => dag'[n] = dag[n]
  BY <1>0, <1>1, <1>2, <1>a DEF CoordTyped
<1>4. /\ InState("ready")' = ready' /\ x \in InState("running")' /\ InState("completed")' = InState("completed")
  BY <1>1, <1>2, <1>3, <1>a DEF InState
<1>5. CoordTyped'
  BY <1>0, <1>1, <1>2, <1>a DEF CoordTyped
<1>6. ReadyAreDispatched'
  BY <1>1, <1>4 DEF ReadyAreDispatched
<1>7. DependenciesFirst'
  <2>1. dag[x] # "pending" /\ dag[x] # "completed"
    BY <1>2
  <2>2. \A n \in N : D[n] \subseteq N
    <3>1. PICK k \in 1..5 : N = 1..k /\ \A n \in 1..k : D[n] \subseteq 1..(n - 1)
      BY <1>a, GraphFacts
    <3>2. QED
      BY <3>1
  <2>3. QED
    BY <1>0, <1>1, <1>2, <1>3, <1>a, <2>1, <2>2 DEF DependenciesFirst
<1>8. SubmittedOnce'
  BY <1>0, <1>1, <1>2, <1>3, <1>a DEF SubmittedOnce
<1>9. EveryTurnCounts'
  BY <1>0, <1>1, <1>4 DEF EveryTurnCounts
<1>10. QED
  BY <1>5, <1>6, <1>7, <1>8, <1>9 DEF CoordInv

LEMMA CompleteNodeStep == ASSUME CoordInv, CompleteNode PROVE CoordInv'
<1>0. CoordTyped /\ ReadyAreDispatched /\ DependenciesFirst /\ SubmittedOnce /\ EveryTurnCounts
  BY DEF CoordInv
<1>a. PICK N, D, x, C : N = DagNodes /\ D = deps /\ x = Min(InState("running")) /\ C = InState("completed")
  OBVIOUS
<1>1. /\ coordPc = "submit" /\ ready = {} /\ UNCHANGED <<mode, turns, ready, poolJob>>
      /\ DagNodes' = N /\ deps' = D
  BY <1>a DEF CompleteNode, DagNodes, deps
<1>b. Cardinality(C) \in Nat /\ turns \in Nat /\ IsFiniteSet(C)
  BY <1>0, <1>a, NodeFacts DEF CoordTyped
<1>2. CASE InState("running") = {}
  <2>1. coordPc' = "turn" /\ UNCHANGED dag
    BY <1>2 DEF CompleteNode
  <2>2. \A s : InState(s)' = InState(s)
    BY <1>1, <1>a, <2>1 DEF InState
  <2>3. CoordTyped'
    BY <1>0, <1>1, <1>a, <2>1 DEF CoordTyped
  <2>4. ReadyAreDispatched' /\ DependenciesFirst' /\ SubmittedOnce'
    BY <1>0, <1>1, <1>2, <1>a, <2>1, <2>2 DEF ReadyAreDispatched, DependenciesFirst, SubmittedOnce
  <2>5. EveryTurnCounts'
    BY <1>0, <1>1, <1>2, <2>1, <2>2 DEF EveryTurnCounts, ReadyAreDispatched
  <2>6. QED
    BY <2>3, <2>4, <2>5 DEF CoordInv
<1>3. CASE InState("running") # {}
  <2>1. UNCHANGED coordPc /\ dag' = [dag EXCEPT ![x] = "completed"]
    BY <1>3, <1>a DEF CompleteNode
  <2>2. x \in N /\ dag[x] = "running"
    <3>1. PICK S : S = InState("running")
      OBVIOUS
    <3>2. S \in SUBSET (1..5) /\ S # {} /\ x = Min(S)
      BY <1>3, <1>a, <3>1, GraphFacts DEF InState
    <3>3. x \in S
      BY <3>2, FirstNode
    <3>4. QED
      BY <1>a, <3>1, <3>3 DEF InState
  <2>3. DOMAIN dag = N /\ dag'[x] = "completed" /\ \A n \in N : n # x => dag'[n] = dag[n]
    BY <1>0, <1>a, <2>1, <2>2 DEF CoordTyped
  <2>4. InState("ready")' = InState("ready") /\ InState("completed")' = C \union {x} /\ x \notin C
    BY <1>1, <1>a, <2>2, <2>3 DEF InState
  <2>5. CoordTyped'
    BY <1>0, <1>1, <1>a, <2>1, <2>2 DEF CoordTyped
  <2>6. ReadyAreDispatched'
    BY <1>0, <1>1, <2>1, <2>4 DEF ReadyAreDispatched
  <2>7. DependenciesFirst'
    <3>1. \A n \in N : D[n] \subseteq N
      <4>1. PICK k \in 1..5 : N = 1..k /\ \A n \in 1..k : D[n] \subseteq 1..(n - 1)
        BY <1>a, GraphFacts
      <4>2. QED
        BY <4>1
    <3>2. QED
      BY <1>0, <1>1, <1>a, <2>2, <2>3, <3>1 DEF DependenciesFirst
  <2>8. SubmittedOnce'
    BY <1>0, <1>1, <1>a, <2>1, <2>2, <2>3 DEF SubmittedOnce
  <2>9. EveryTurnCounts'
    <3>1. Cardinality(C \union {x}) = Cardinality(C) + 1
      BY <1>b, <2>4, FS_AddElement
    <3>2. turns <= Cardinality(C) + 1
      BY <1>0, <1>b, <1>a DEF EveryTurnCounts
    <3>3. QED
      BY <1>1, <2>4, <3>1, <3>2 DEF EveryTurnCounts
  <2>10. QED
    BY <2>5, <2>6, <2>7, <2>8, <2>9 DEF CoordInv
<1>4. QED
  BY <1>2, <1>3

LEMMA ExecuteStep == ASSUME CoordInv, NEW m \in Modes, Execute(m) PROVE CoordInv'
<1>a. PICK N : N = DOMAIN Decompose(m)
  OBVIOUS
<1>1. /\ mode' = m /\ dag' = [n \in N |-> "pending"] /\ turns' = 0 /\ ready' = {} /\ coordPc' = "turn"
      /\ poolJob' = [n \in N |-> "none"]
      /\ DagNodes' = N
  BY <1>a DEF Execute, DagNodes, deps
<1>2. InState("ready")' = {} /\ InState("running")' = {} /\ InState("completed")' = {}
  BY <1>1 DEF InState
<1>3. CoordTyped' /\ ReadyAreDispatched' /\ DependenciesFirst' /\ SubmittedOnce'
  BY <1>1, <1>2 DEF CoordTyped, ReadyAreDispatched, DependenciesFirst, SubmittedOnce
<1>4. EveryTurnCounts'
  BY <1>1, <1>2, FS_EmptySet DEF EveryTurnCounts
<1>5. QED
  BY <1>3, <1>4 DEF CoordInv

LEMMA PoolStep == ASSUME CoordInv, NEW n \in DagNodes, PoolStarts(n) \/ PoolEnds(n) PROVE CoordInv'
<1>0. CoordTyped /\ ReadyAreDispatched /\ DependenciesFirst /\ SubmittedOnce /\ EveryTurnCounts
  BY DEF CoordInv
<1>1. PICK s \in {"running", "completed", "failed"} : poolJob' = [poolJob EXCEPT ![n] = s]
  BY DEF PoolStarts, PoolEnds
<1>2. /\ poolJob[n] # "none" /\ UNCHANGED <<mode, dag, turns, ready, coordPc>>
      /\ DagNodes' = DagNodes /\ deps' = deps
  BY DEF PoolStarts, PoolEnds, DagNodes, deps
<1>3. \A t : InState(t)' = InState(t)
  BY <1>2 DEF InState
<1>4. CoordTyped'
  BY <1>0, <1>1, <1>2 DEF CoordTyped
<1>5. ReadyAreDispatched' /\ DependenciesFirst' /\ EveryTurnCounts'
  BY <1>0, <1>2, <1>3 DEF ReadyAreDispatched, DependenciesFirst, EveryTurnCounts
<1>6. SubmittedOnce'
  BY <1>0, <1>1, <1>2 DEF SubmittedOnce, CoordTyped
<1>7. QED
  BY <1>4, <1>5, <1>6 DEF CoordInv

LEMMA CoordStep == CoordInv /\ [CoordNext]_coordVars => CoordInv'
<1> SUFFICES ASSUME CoordInv, [CoordNext]_coordVars PROVE CoordInv'
  OBVIOUS
<1>1. CASE UNCHANGED coordVars
  <2>1. /\ UNCHANGED <<mode, dag, turns, ready, coordPc, poolJob>>
        /\ DagNodes' = DagNodes /\ deps' = deps
    BY <1>1 DEF coordVars, DagNodes, deps
  <2>2. \A t : InState(t)' = InState(t)
    BY <2>1 DEF InState
  <2>3. QED
    BY <2>1, <2>2 DEF CoordInv, CoordTyped, ReadyAreDispatched, DependenciesFirst, SubmittedOnce, EveryTurnCounts
<1>2. CASE CoordNext
  BY <1>2, ExecuteStep, BeginTurnStep, SubmitNodeStep, MarkRunningStep, CompleteNodeStep, PoolStep
     DEF CoordNext, Coordinate
<1>3. QED
  BY <1>1, <1>2

LEMMA GraphSafe == CoordInit /\ [][CoordNext]_coordVars => []DagIsRespected
<1>1. CoordInv => DagIsRespected
  BY DEF CoordInv, DependenciesFirst, SubmittedOnce, ReadyAreDispatched, DagIsRespected, Terminal
<1>2. QED
  BY <1>1, CoordInitially, CoordStep, PTL

(* Dependencies come first, every node is one job of the queue, and        *)
(* execute leaves no node open (swarm_coordinator.py:142), for any list of *)
(* modes it may be asked for and however slow the pool is.                 *)
THEOREM DagSound == CoordSpec => []DagIsRespected
BY GraphSafe, PTL DEF CoordSpec

-----------------------------------------------------------------------------
(* What sorted() returns (Tables), and the order of a graph's nodes        *)
(* (SwarmCoordinator): a topological order, of any graph whose nodes       *)
(* depend on nodes of lower number only.                                   *)

(* A list has each member of a set once, in a given order.                 *)
IsRanked(list, S, order) ==
  /\ list \in [1..Cardinality(S) -> S]
  /\ \A p, q \in 1..Cardinality(S) : p < q => <<list[p], list[q]>> \in order
  /\ \A x \in S : \E p \in 1..Cardinality(S) : list[p] = x

(* Ranked does so, in any strict order that compares any two members.      *)
LEMMA RankedHolds ==
  ASSUME NEW S, IsFiniteSet(S), NEW order,
         \A x \in S : <<x, x>> \notin order,
         \A x, y, z \in S : <<x, y>> \in order /\ <<y, z>> \in order => <<x, z>> \in order,
         \A x, y \in S : x = y \/ <<x, y>> \in order \/ <<y, x>> \in order
  PROVE  IsRanked(Ranked(S, order), S, order)
<1> DEFINE Below(x) == {y \in S : <<y, x>> \in order}
           c(x) == Cardinality(Below(x))
           N == Cardinality(S)
           R == Ranked(S, order)
<1>1. N \in Nat
  BY FS_CardinalityType
<1>2. ASSUME NEW x \in S PROVE IsFiniteSet(Below(x)) /\ c(x) \in 0..(N - 1)
  <2>1. Below(x) \in SUBSET (S \ {x})
    OBVIOUS
  <2>2. IsFiniteSet(S \ {x}) /\ Cardinality(S \ {x}) = N - 1
    BY FS_RemoveElement
  <2>3. IsFiniteSet(Below(x)) /\ c(x) <= Cardinality(S \ {x})
    BY <2>1, <2>2, FS_Subset
  <2>4. c(x) \in Nat
    BY <2>3, FS_CardinalityType
  <2>5. QED
    BY <1>1, <2>2, <2>3, <2>4
<1>3. ASSUME NEW x \in S, NEW y \in S, <<x, y>> \in order PROVE c(x) < c(y)
  <2>1. Below(x) \union {x} \in SUBSET Below(y) /\ x \notin Below(x)
    BY <1>3
  <2>2. Cardinality(Below(x) \union {x}) = c(x) + 1
    BY <1>2, <2>1, FS_AddElement
  <2>3. Cardinality(Below(x) \union {x}) <= c(y)
    BY <1>2, <2>1, FS_Subset
  <2>4. c(x) \in 0..(N - 1) /\ c(y) \in 0..(N - 1)
    BY <1>2
  <2> HIDE DEF c, N
  <2>5. QED
    BY <1>1, <2>2, <2>3, <2>4
<1>4. ASSUME NEW x \in S, NEW y \in S, c(x) = c(y) PROVE x = y
  <2>1. c(x) \in Nat
    BY <1>1, <1>2
  <2>2. ~(c(x) < c(y))
    BY <1>4, <2>1
  <2>3. ~(c(y) < c(x))
    BY <1>4, <2>1
  <2> HIDE DEF c
  <2>4. QED
    BY <1>3, <2>2, <2>3
<1>5. ASSUME NEW p \in 1..N PROVE \E x \in S : c(x) = p - 1
  <2>1. SUFFICES ASSUME \A x \in S : c(x) # p - 1 PROVE FALSE
    OBVIOUS
  <2> DEFINE T == (0..(N - 1)) \ {p - 1}
             f == [x \in S |-> c(x)]
  <2>2. IsFiniteSet(T) /\ Cardinality(T) = N - 1
    <3> HIDE DEF N
    <3>1. 0 \in Int /\ N - 1 \in Int /\ N >= 1
      BY <1>1
    <3>2. IsFiniteSet(0..(N - 1)) /\ Cardinality(0..(N - 1)) = IF 0 > N - 1 THEN 0 ELSE (N - 1) - 0 + 1
      BY ONLY <3>1, FS_Interval
    <3>3. p - 1 \in 0..(N - 1)
      BY <1>1
    <3> DEFINE U == 0..(N - 1)
               e == p - 1
    <3>4. (IF 0 > N - 1 THEN 0 ELSE (N - 1) - 0 + 1) = N
      BY <1>1, <3>1
    <3>5. Cardinality(U) = N /\ IsFiniteSet(U) /\ e \in U
      BY <3>2, <3>3, <3>4
    <3> HIDE DEF U, e
    <3>6. Cardinality(U \ {e}) = Cardinality(U) - 1 /\ IsFiniteSet(U \ {e})
      BY <3>5, FS_RemoveElement
    <3>7. QED
      BY <3>5, <3>6 DEF U, e
  <2>3. f \in [S -> T]
    BY <1>2, <2>1
  <2>4. Cardinality(T) < Cardinality(S)
    BY <1>1, <2>2
  <2> HIDE DEF T, f
  <2>5. PICK x \in S, y \in S : x # y /\ f[x] = f[y]
    BY <2>2, <2>3, <2>4, FS_PigeonHole
  <2>6. c(x) = c(y)
    BY <2>5 DEF f
  <2>7. QED
    BY <1>4, <2>5, <2>6
<1>6. ASSUME NEW p \in 1..N PROVE R[p] \in S /\ c(R[p]) = p - 1
  <2>1. R[p] = CHOOSE x \in S : Cardinality({y \in S : <<y, x>> \in order}) = p - 1
    BY DEF Ranked
  <2>2. QED
    BY <1>5, <2>1
<1>7. R \in [1..N -> S]
  <2>1. R = [p \in 1..N |-> CHOOSE x \in S : Cardinality({y \in S : <<y, x>> \in order}) = p - 1]
    BY DEF Ranked
  <2>2. \A p \in 1..N : R[p] \in S
    BY <1>6
  <2>3. DOMAIN R = 1..N /\ R = [p \in 1..N |-> R[p]]
    BY <2>1
  <2> HIDE DEF R, N
  <2>4. QED
    BY <2>2, <2>3
<1> HIDE DEF c, R, N
<1>8. ASSUME NEW p \in 1..N, NEW q \in 1..N, p < q PROVE <<R[p], R[q]>> \in order
  <2>1. R[p] \in S /\ R[q] \in S /\ c(R[p]) < c(R[q])
    BY <1>1, <1>6, <1>8
  <2>2. R[p] # R[q] /\ ~(c(R[q]) < c(R[p]))
    <3>1. c(R[p]) = p - 1 /\ c(R[q]) = q - 1 /\ p \in Int /\ q \in Int
      BY <1>6
    <3>2. QED
      BY <1>8, <3>1
  <2>3. QED
    BY <1>3, <2>1, <2>2
<1>9. ASSUME NEW x \in S PROVE \E p \in 1..N : R[p] = x
  <2>1. c(x) \in 0..(N - 1)
    BY <1>2 DEF c
  <2>2. c(x) + 1 \in 1..N /\ (c(x) + 1) - 1 = c(x)
    BY <1>1, <2>1
  <2>3. R[c(x) + 1] \in S /\ c(R[c(x) + 1]) = c(x)
    BY <1>6, <2>2
  <2>4. R[c(x) + 1] = x
    BY <1>4, <2>3
  <2>5. QED
    BY <2>2, <2>4
<1>10. QED
  BY <1>7, <1>8, <1>9 DEF IsRanked, R, N

(* Numbers in ascending order.                                             *)
LEMMA AscendingHolds ==
  ASSUME NEW S, IsFiniteSet(S), S \subseteq Nat
  PROVE  /\ Ascending(S) \in Seq(S)
         /\ \A p, q \in DOMAIN Ascending(S) : p < q => Ascending(S)[p] < Ascending(S)[q]
         /\ \A x \in S : \E p \in DOMAIN Ascending(S) : Ascending(S)[p] = x
<1> DEFINE order == {e \in S \X S : e[1] < e[2]}
           R == Ranked(S, order)
<1>1. \A x, y \in S : <<x, y>> \in order <=> x < y
  OBVIOUS
<1>2. \A x, y \in S : x \in Nat /\ y \in Nat
  OBVIOUS
<1> HIDE DEF order
<1>3. \A x \in S : <<x, x>> \notin order
  BY <1>1, <1>2
<1>4. \A x, y, z \in S : <<x, y>> \in order /\ <<y, z>> \in order => <<x, z>> \in order
  BY <1>1, <1>2
<1>5. \A x, y \in S : x = y \/ x < y \/ y < x
  BY <1>2
<1>6. \A x, y \in S : x = y \/ <<x, y>> \in order \/ <<y, x>> \in order
  BY <1>1, <1>5
<1>7. IsRanked(R, S, order)
  BY <1>3, <1>4, <1>6, RankedHolds
<1>8. /\ R \in [1..Cardinality(S) -> S]
      /\ \A p, q \in 1..Cardinality(S) : p < q => <<R[p], R[q]>> \in order
      /\ \A x \in S : \E p \in 1..Cardinality(S) : R[p] = x
  BY <1>7 DEF IsRanked
<1>9. Cardinality(S) \in Nat
  BY FS_CardinalityType
<1>10. Ascending(S) = R
  BY DEF Ascending, order
<1> HIDE DEF R
<1>11. R \in Seq(S) /\ DOMAIN R = 1..Cardinality(S)
  BY <1>8, <1>9
<1>12. \A p, q \in DOMAIN R : p < q => R[p] < R[q]
  BY <1>1, <1>8, <1>11
<1>13. QED
  BY <1>8, <1>10, <1>11, <1>12

(* The nodes that are in order already, or whose turn it is.               *)
InLine(x) == x.result \o x.queue

(* The first n nodes of the order.                                         *)
Out(x, n) == {x.result[i] : i \in 1..n}

(* The state of the loop after n turns: every node is counted the          *)
(* dependencies that are not in the order yet, ...                         *)
KahnTyped(plan, n, x) ==
  /\ x = [needs |-> plan, queue |-> x.queue, result |-> x.result, count |-> x.count]
  /\ x.result \in Seq(DOMAIN plan) /\ x.queue \in Seq(DOMAIN plan) /\ Len(x.result) = n
  /\ \A m \in DOMAIN plan : x.count[m] = Cardinality(plan[m] \ Out(x, n))

(* ... and in line, once each, are the nodes that wait for none, every one *)
(* behind what it depends on.                                              *)
KahnLine(plan, n, x) ==
  /\ \A i, k \in DOMAIN InLine(x) : i < k => InLine(x)[i] # InLine(x)[k]
  /\ \A m \in DOMAIN plan : (\E i \in DOMAIN InLine(x) : InLine(x)[i] = m) <=> x.count[m] = 0
  /\ \A k \in DOMAIN InLine(x) : \A d \in plan[InLine(x)[k]] : \E i \in 1..n : i < k /\ x.result[i] = d

KahnHolds(start, plan, n, x) == KahnTyped(plan, n, x) /\ KahnLine(plan, n, x)

Ordering == INSTANCE FoldFacts WITH Op <- NextInOrder, Holds <- KahnHolds

(* A graph of N nodes that depend on nodes of lower number only.           *)
IsPlan(plan, N) ==
  /\ N \in Nat /\ DOMAIN plan = 1..N
  /\ \A m \in 1..N : plan[m] \subseteq 1..(m - 1) /\ IsFiniteSet(plan[m])

KahnStart(plan) ==
  [needs  |-> plan,
   queue  |-> Ascending({n \in DOMAIN plan : plan[n] = {}}), result |-> <<>>,
   count  |-> [n \in DOMAIN plan |-> Cardinality(plan[n])]]

LEMMA KahnStarts ==
  ASSUME NEW plan, NEW N, IsPlan(plan, N)
  PROVE  KahnHolds(KahnStart(plan), plan, 0, KahnStart(plan))
<1> DEFINE x == KahnStart(plan)
           S == {n \in DOMAIN plan : plan[n] = {}}
           A == Ascending(S)
<1>1. /\ x = [needs |-> plan, queue |-> A, result |-> <<>>, count |-> [n \in DOMAIN plan |-> Cardinality(plan[n])]]
      /\ x.result = <<>> /\ x.queue = A /\ \A m \in DOMAIN plan : x.count[m] = Cardinality(plan[m])
      /\ x = [needs |-> plan, queue |-> x.queue, result |-> x.result, count |-> x.count]
  BY DEF KahnStart
<1>2. S \subseteq 1..N /\ IsFiniteSet(S) /\ S \subseteq Nat
  <2>1. S \in SUBSET (1..N) /\ IsFiniteSet(1..N)
    BY FS_Interval DEF IsPlan
  <2>2. QED
    BY <2>1, FS_Subset DEF IsPlan
<1>3. /\ A \in Seq(S) /\ \A p, q \in DOMAIN A : p < q => A[p] < A[q]
      /\ \A m \in S : \E p \in DOMAIN A : A[p] = m
  BY <1>2, AscendingHolds
<1>4. \A m \in DOMAIN plan : m \in S <=> plan[m] = {}
  OBVIOUS
<1>5. \A m \in DOMAIN plan : Cardinality(plan[m]) = 0 <=> plan[m] = {}
  BY FS_EmptySet DEF IsPlan
<1>6. S \subseteq DOMAIN plan /\ A \in Seq(DOMAIN plan)
  BY <1>3
<1> HIDE DEF x, A, S
<1>7. InLine(x) = A
  BY <1>1, <1>6 DEF InLine
<1>8. Out(x, 0) = {}
  BY DEF Out
<1>9. KahnTyped(plan, 0, x)
  <2>1. <<>> \in Seq(DOMAIN plan) /\ Len(<<>>) = 0
    OBVIOUS
  <2>2. \A m \in DOMAIN plan : plan[m] \ Out(x, 0) = plan[m]
    BY <1>8
  <2>3. \A m \in DOMAIN plan : x.count[m] = Cardinality(plan[m] \ Out(x, 0))
    BY <1>1, <2>2
  <2>4. x.result \in Seq(DOMAIN plan) /\ x.queue \in Seq(DOMAIN plan) /\ Len(x.result) = 0
    BY <1>1, <1>6, <2>1
  <2>5. QED
    BY <1>1, <2>3, <2>4 DEF KahnTyped
<1>10. \A k \in DOMAIN A : A[k] \in S
  BY <1>3
<1>11. KahnLine(plan, 0, x)
  <2>1. \A i, k \in DOMAIN A : i < k => A[i] # A[k]
    <3>1. \A i \in DOMAIN A : A[i] \in Nat
      BY <1>2, <1>10
    <3>2. QED
      BY <1>3, <3>1
  <2>2. \A m \in DOMAIN plan : (\E i \in DOMAIN A : A[i] = m) <=> x.count[m] = 0
    BY <1>1, <1>3, <1>4, <1>5, <1>10
  <2>3. \A k \in DOMAIN A : plan[A[k]] = {}
    BY <1>4, <1>6, <1>10
  <2>4. QED
    BY <1>7, <2>1, <2>2, <2>3 DEF KahnLine
<1>12. QED
  BY <1>9, <1>11 DEF KahnHolds, x

(* What a concatenation has at its places.                                 *)
LEMMA ConcatFacts ==
  ASSUME NEW T, NEW a \in Seq(T), NEW b \in Seq(T)
  PROVE  /\ a \o b \in Seq(T) /\ Len(a \o b) = Len(a) + Len(b) /\ DOMAIN (a \o b) = 1..(Len(a) + Len(b))
         /\ \A k \in 1..Len(a) : (a \o b)[k] = a[k]
         /\ \A k \in 1..Len(b) : (a \o b)[Len(a) + k] = b[k]
  OBVIOUS

(* A list of some things is a list of more.                                *)
LEMMA WiderType ==
  ASSUME NEW S, NEW T, S \subseteq T, NEW s \in Seq(S)
  PROVE  s \in Seq(T)
  OBVIOUS

LEMMA EntriesTyped ==
  ASSUME NEW T, NEW s \in Seq(T)
  PROVE  \A k \in 1..Len(s) : s[k] \in T
  OBVIOUS

LEMMA FirstFacts ==
  ASSUME NEW T, NEW b \in Seq(T), b # << >>
  PROVE  Head(b) \in T /\ Tail(b) \in Seq(T) /\ Len(b) \in Nat /\ Len(b) >= 1 /\ b[1] = Head(b)
  OBVIOUS

(* Moving the first of one list to the end of the list before it.          *)
LEMMA FirstMoves ==
  ASSUME NEW T, NEW a \in Seq(T), NEW b \in Seq(T), NEW c \in Seq(T), b # << >>
  PROVE  Append(a, Head(b)) \o (Tail(b) \o c) = (a \o b) \o c
<1>1. a \o b \in Seq(T) /\ Len(a \o b) = Len(a) + Len(b)
  OBVIOUS
<1>2. Head(b) \in T /\ Tail(b) \in Seq(T) /\ Len(Tail(b)) = Len(b) - 1 /\ Len(b) >= 1
  OBVIOUS
<1>3. Append(a, Head(b)) \o Tail(b) = a \o b
  OBVIOUS
<1>4. Append(a, Head(b)) \in Seq(T)
  BY <1>2
<1>5. \A u, v, w \in Seq(T) : (u \o v) \o w = u \o (v \o w)
  BY ConcatAssociative
<1>6. Append(a, Head(b)) \o (Tail(b) \o c) = (Append(a, Head(b)) \o Tail(b)) \o c
  BY <1>2, <1>4, <1>5
<1>7. QED
  BY <1>3, <1>6

(* While nodes are left there is one whose turn it is: the first of those  *)
(* that are not in the order depends on none of them.                      *)
LEMMA KahnGoesOn ==
  ASSUME NEW plan, NEW N, IsPlan(plan, N), NEW n \in 0..(N - 1), NEW x,
         KahnTyped(plan, n, x), KahnLine(plan, n, x)
  PROVE  x.queue # <<>>
<1>1. /\ x.result \in Seq(1..N) /\ x.queue \in Seq(1..N) /\ Len(x.result) = n /\ N \in Nat
      /\ \A m \in 1..N : x.count[m] = Cardinality(plan[m] \ Out(x, n))
  BY DEF KahnTyped, IsPlan
<1> DEFINE Left == {m \in 1..N : m \notin Out(x, n)}
<1>2. Left # {}
  <2>1. SUFFICES ASSUME \A m \in 1..N : \E i \in 1..n : x.result[i] = m PROVE FALSE
    BY DEF Out
  <2> DEFINE f == [m \in 1..N |-> CHOOSE i \in 1..n : x.result[i] = m]
  <2>2. \A m \in 1..N : f[m] \in 1..n /\ x.result[f[m]] = m
    BY <2>1
  <2>3. f \in [1..N -> 1..n]
    BY <2>2
  <2>4. /\ IsFiniteSet(1..N) /\ Cardinality(1..N) = N
        /\ IsFiniteSet(1..n) /\ Cardinality(1..n) = n /\ n < N
    <3>1. N \in Int /\ n \in Int /\ 1 \in Int /\ n < N /\ 0 <= n
      BY <1>1
    <3>2. \A k \in Nat : IsFiniteSet(1..k) /\ Cardinality(1..k) = k
      BY FS_Interval
    <3>3. QED
      BY <1>1, <3>1, <3>2
  <2> HIDE DEF f
  <2>5. PICK a \in 1..N, b \in 1..N : a # b /\ f[a] = f[b]
    BY <2>3, <2>4, FS_PigeonHole
  <2>6. QED
    BY <2>2, <2>5
<1>3. PICK m \in Left : \A k \in Left : m <= k
  <2>1. Left \in SUBSET Nat
    OBVIOUS
  <2>2. QED
    BY <1>2, <2>1, Ordering!LeastMember
<1>4. plan[m] \ Out(x, n) = {}
  <2>1. \A k \in 1..(m - 1) : k \in 1..N /\ ~(m <= k)
    BY <1>1
  <2>2. \A k \in 1..(m - 1) : k \in Out(x, n)
    BY <1>3, <2>1
  <2>3. QED
    BY <1>3, <2>2 DEF IsPlan
<1>5. x.count[m] = 0
  BY <1>1, <1>4, FS_EmptySet
<1>6. PICK i \in DOMAIN InLine(x) : InLine(x)[i] = m
  BY <1>1, <1>5 DEF KahnLine, IsPlan
<1>7. SUFFICES ASSUME x.queue = <<>> PROVE FALSE
  OBVIOUS
<1>8. InLine(x) = x.result
  BY <1>1, <1>7 DEF InLine
<1>9. i \in 1..n /\ x.result[i] = m
  BY <1>1, <1>6, <1>8
<1>10. QED
  BY <1>3, <1>9 DEF Out

(* A turn of the loop keeps this.                                          *)
LEMMA KahnStep ==
  ASSUME NEW plan, NEW N, IsPlan(plan, N), NEW start, NEW n \in 1..N, NEW x, NEW t,
         KahnHolds(start, plan, n - 1, x)
  PROVE  KahnHolds(start, plan, n, NextInOrder(x, t))
<1> DEFINE h == Head(x.queue)
           F == {m \in DOMAIN x.needs : h \in x.needs[m] /\ x.count[m] = 1}
           new == Ascending(F)
           y == NextInOrder(x, t)
           o == InLine(x)
           D == Out(x, n - 1)
           E == Out(y, n)
           z == o \o new
<1> HIDE DEF h, F, new, y, o, D, E, z
<1>0. KahnTyped(plan, n - 1, x) /\ KahnLine(plan, n - 1, x)
  BY DEF KahnHolds
<1>1. /\ x.result \in Seq(1..N) /\ x.queue \in Seq(1..N) /\ Len(x.result) = n - 1 /\ N \in Nat
      /\ x.needs = plan /\ DOMAIN plan = 1..N /\ n - 1 \in 0..(N - 1)
      /\ \A m \in 1..N : x.count[m] = Cardinality(plan[m] \ D)
  <2>1. x.needs = plan
    BY DEF KahnHolds, KahnTyped
  <2>2. DOMAIN plan = 1..N /\ N \in Nat
    BY DEF IsPlan
  <2>3. /\ x.result \in Seq(1..N) /\ x.queue \in Seq(1..N) /\ Len(x.result) = n - 1
        /\ \A m \in 1..N : x.count[m] = Cardinality(plan[m] \ D)
    BY <2>2 DEF KahnHolds, KahnTyped, D
  <2>4. n - 1 \in 0..(N - 1)
    BY <2>2
  <2>5. QED
    BY <2>1, <2>2, <2>3, <2>4
<1>2. x.queue # <<>>
  BY <1>0, <1>1, KahnGoesOn
<1>3. h \in 1..N /\ Tail(x.queue) \in Seq(1..N) /\ Len(x.queue) >= 1
  <2>1. x.queue \in Seq(1..N)
    BY <1>1
  <2>2. QED
    BY <1>2, <2>1, FirstFacts DEF h
<1>4. F \subseteq 1..N /\ IsFiniteSet(F) /\ F \subseteq Nat
  <2>1. F \in SUBSET (1..N) /\ IsFiniteSet(1..N) /\ F \subseteq Nat
    <3>1. F \in SUBSET (1..N)
      BY <1>1 DEF F
    <3>2. IsFiniteSet(1..N)
      BY <1>1, FS_Interval
    <3>3. QED
      BY <3>1, <3>2
  <2>2. IsFiniteSet(F)
    BY <2>1, FS_Subset
  <2>3. QED
    BY <2>1, <2>2
<1>5. /\ new \in Seq(F) /\ new \in Seq(1..N)
      /\ \A p, q \in DOMAIN new : p < q => new[p] < new[q]
      /\ \A m \in F : \E p \in DOMAIN new : new[p] = m
  <2> DEFINE A == Ascending(F)
  <2>1. A \in Seq(F)
    BY <1>4, AscendingHolds
  <2>2. \A p, q \in DOMAIN A : p < q => A[p] < A[q]
    BY <1>4, AscendingHolds
  <2>3. \A m \in F : \E p \in DOMAIN A : A[p] = m
    BY <1>4, AscendingHolds
  <2> HIDE DEF A
  <2>4. /\ new \in Seq(F)
        /\ \A p, q \in DOMAIN new : p < q => new[p] < new[q]
        /\ \A m \in F : \E p \in DOMAIN new : new[p] = m
    BY <2>1, <2>2, <2>3 DEF new, A
  <2>5. new \in Seq(1..N)
    BY <1>4, <2>4, WiderType
  <2>6. QED
    BY <2>4, <2>5
<1>6. /\ y = [needs |-> y.needs, queue |-> y.queue, result |-> y.result, count |-> y.count]
      /\ y.needs = plan /\ y.queue = Tail(x.queue) \o new /\ y.result = Append(x.result, h)
      /\ \A m \in 1..N : y.count[m] = IF h \in plan[m] THEN x.count[m] - 1 ELSE x.count[m]
  <2>1. y = [needs  |-> x.needs,
             queue  |-> Tail(x.queue) \o new,
             result |-> Append(x.result, h),
             count  |-> [m \in DOMAIN x.needs |->
                           IF h \in x.needs[m] THEN x.count[m] - 1 ELSE x.count[m]]]
    BY <1>2 DEF NextInOrder, y, new, F, h
  <2>2. QED
    BY <1>1, <2>1
<1>7. \A m \in 1..N : m \in F <=> h \in plan[m] /\ x.count[m] = 1
  BY <1>1 DEF F
<1>8. /\ y.result \in Seq(1..N) /\ y.queue \in Seq(1..N) /\ Len(y.result) = n
      /\ \A i \in 1..(n - 1) : y.result[i] = x.result[i]
      /\ y.result[n] = h
  BY <1>1, <1>3, <1>5, <1>6
<1>9. /\ o \in Seq(1..N) /\ Len(o) = n - 1 + Len(x.queue) /\ n \in DOMAIN o /\ o[n] = h
      /\ \A i \in 1..(n - 1) : o[i] = x.result[i]
  <2>1. h = x.queue[1]
    BY <1>2 DEF h
  <2>2. /\ o \in Seq(1..N) /\ Len(o) = n - 1 + Len(x.queue) /\ DOMAIN o = 1..Len(o)
        /\ \A i \in 1..(n - 1) : o[i] = x.result[i]
        /\ \A i \in 1..Len(x.queue) : o[(n - 1) + i] = x.queue[i]
    <3> DEFINE a == x.result
               b == x.queue
    <3>1. a \in Seq(1..N) /\ b \in Seq(1..N)
      BY <1>1
    <3>2. o = a \o b
      BY DEF o, InLine
    <3> HIDE DEF a, b
    <3>3. /\ o \in Seq(1..N) /\ Len(o) = Len(a) + Len(b) /\ DOMAIN o = 1..(Len(a) + Len(b))
          /\ \A i \in 1..Len(a) : o[i] = a[i]
          /\ \A i \in 1..Len(b) : o[Len(a) + i] = b[i]
      BY <3>1, <3>2, ConcatFacts
    <3>4. QED
      BY <1>1, <3>3 DEF a, b
  <2>3. 1 \in 1..Len(x.queue) /\ (n - 1) + 1 = n /\ n \in 1..(n - 1 + Len(x.queue))
    BY <1>1, <1>3
  <2>4. QED
    BY <2>1, <2>2, <2>3
<1>10. InLine(y) = z
  <2>1. Append(x.result, h) \o (Tail(x.queue) \o new) = (x.result \o x.queue) \o new
    <3> DEFINE a == x.result
               b == x.queue
    <3>1. a \in Seq(1..N) /\ b \in Seq(1..N) /\ new \in Seq(1..N) /\ b # << >> /\ h = Head(b)
      BY <1>1, <1>2, <1>5 DEF h
    <3> HIDE DEF a, b
    <3>2. Append(a, Head(b)) \o (Tail(b) \o new) = (a \o b) \o new
      <4> DEFINE T == 1..N
      <4>1. a \in Seq(T) /\ b \in Seq(T) /\ new \in Seq(T) /\ b # << >>
        BY <3>1
      <4> HIDE DEF T
      <4>2. QED
        BY ONLY <4>1, FirstMoves
    <3>3. QED
      BY <3>1, <3>2 DEF a, b
  <2>2. QED
    BY <1>6, <2>1 DEF InLine, o, z
<1>11. E = D \union {h} /\ h \notin D
  <2>1. \A m : m \in E <=> \E i \in 1..n : y.result[i] = m
    BY DEF Out, E
  <2>2. \A m : m \in D <=> \E i \in 1..(n - 1) : x.result[i] = m
    BY DEF Out, D
  <2>3. \A i : i \in 1..n <=> i \in 1..(n - 1) \/ i = n
    BY <1>1
  <2>4. \A i \in 1..(n - 1) : i \in DOMAIN o /\ i < n /\ o[i] # o[n]
    <3>1. \A i, k \in DOMAIN o : i < k => o[i] # o[k]
      BY <1>0 DEF KahnLine, o
    <3>2. \A i \in 1..(n - 1) : i \in DOMAIN o /\ i < n
      <4>1. DOMAIN o = 1..Len(o) /\ Len(o) \in Nat /\ n <= Len(o)
        BY <1>9
      <4>2. QED
        BY <4>1
    <3>3. QED
      BY <1>9, <3>1, <3>2
  <2>5. E = D \union {h}
    BY <1>8, <2>1, <2>2, <2>3
  <2>6. QED
    BY <1>9, <2>2, <2>4, <2>5
<1>12. ASSUME NEW m \in 1..N
       PROVE  /\ IsFiniteSet(plan[m] \ D) /\ x.count[m] \in Nat /\ y.count[m] \in Nat
              /\ y.count[m] = Cardinality(plan[m] \ E)
              /\ IsFiniteSet(plan[m] \ E)
              /\ h \in plan[m] => x.count[m] >= 1
  <2>1. IsFiniteSet(plan[m] \ D) /\ x.count[m] = Cardinality(plan[m] \ D) /\ x.count[m] \in Nat
    BY <1>1, FS_Difference, FS_CardinalityType DEF IsPlan
  <2>2. CASE h \in plan[m]
    <3>1. h \in plan[m] \ D /\ plan[m] \ E = (plan[m] \ D) \ {h}
      BY <1>11, <2>2
    <3>2. Cardinality(plan[m] \ E) = x.count[m] - 1 /\ IsFiniteSet(plan[m] \ E)
      BY <2>1, <3>1, FS_RemoveElement
    <3>3. y.count[m] = x.count[m] - 1
      BY <1>6, <2>2
    <3>4. Cardinality(plan[m] \ E) \in Nat
      BY <3>2, FS_CardinalityType
    <3>5. QED
      BY <2>1, <3>2, <3>3, <3>4
  <2>3. CASE h \notin plan[m]
    <3>1. plan[m] \ E = plan[m] \ D
      BY <1>11, <2>3
    <3>2. QED
      BY <1>6, <2>1, <2>3, <3>1
  <2>4. QED
    BY <2>2, <2>3
<1>13. KahnTyped(plan, n, y)
  <2>1. \A m \in DOMAIN plan : y.count[m] = Cardinality(plan[m] \ Out(y, n))
    BY <1>1, <1>12 DEF E
  <2>2. y = [needs |-> plan, queue |-> y.queue, result |-> y.result, count |-> y.count]
    BY <1>6
  <2>3. QED
    BY <1>1, <1>8, <2>1, <2>2 DEF KahnTyped
<1>14. /\ \A i, k \in DOMAIN o : i < k => o[i] # o[k]
       /\ \A m \in 1..N : (\E i \in DOMAIN o : o[i] = m) <=> x.count[m] = 0
       /\ \A k \in DOMAIN o : \A d \in plan[o[k]] : \E i \in 1..(n - 1) : i < k /\ x.result[i] = d
  BY <1>0, <1>1 DEF KahnLine, o
<1>15. /\ Len(o \o new) = Len(o) + Len(new) /\ Len(o) \in Nat /\ Len(new) \in Nat /\ Len(o) >= n
       /\ \A k \in 1..Len(o) : (o \o new)[k] = o[k] /\ o[k] \in 1..N
       /\ \A k \in 1..Len(new) : (o \o new)[Len(o) + k] = new[k] /\ new[k] \in F
       /\ DOMAIN o = 1..Len(o) /\ DOMAIN new = 1..Len(new) /\ DOMAIN (o \o new) = 1..(Len(o) + Len(new))
  <2>0. x.queue \in Seq(1..N) /\ o \in Seq(1..N) /\ new \in Seq(1..N)
    BY <1>1, <1>5, <1>9
  <2>1. Len(o) \in Nat /\ Len(new) \in Nat /\ Len(o) >= n
    <3>1. Len(o) \in Nat /\ DOMAIN o = 1..Len(o) /\ Len(new) \in Nat
      BY <2>0
    <3>2. Len(o) = n - 1 + Len(x.queue) /\ Len(x.queue) >= 1 /\ Len(x.queue) \in Nat
      BY <1>3, <1>9, <2>0
    <3>3. QED
      BY <3>1, <3>2
  <2>2. \A k \in 1..Len(o) : o[k] \in 1..N
    BY ONLY <2>0, EntriesTyped
  <2>3. \A k \in 1..Len(new) : new[k] \in F
    BY <1>5
  <2>4. DOMAIN o = 1..Len(o) /\ DOMAIN new = 1..Len(new)
    BY <1>5, <1>9
  <2>5. /\ Len(o \o new) = Len(o) + Len(new) /\ DOMAIN (o \o new) = 1..(Len(o) + Len(new))
        /\ \A k \in 1..Len(o) : (o \o new)[k] = o[k]
        /\ \A k \in 1..Len(new) : (o \o new)[Len(o) + k] = new[k]
    BY <2>0, ConcatFacts
  <2>6. QED
    BY <2>1, <2>2, <2>3, <2>4, <2>5
<1>16. \A k \in DOMAIN z : \/ k \in DOMAIN o /\ z[k] = o[k]
                           \/ /\ k - Len(o) \in DOMAIN new /\ k > Len(o)
                              /\ z[k] = new[k - Len(o)] /\ z[k] \in F
  <2>1. ASSUME NEW k \in DOMAIN z, k > Len(o)
        PROVE  k - Len(o) \in DOMAIN new /\ z[k] = new[k - Len(o)] /\ z[k] \in F
    <3>1. k - Len(o) \in 1..Len(new) /\ Len(o) + (k - Len(o)) = k
      BY <1>15, <2>1 DEF z
    <3>2. (o \o new)[Len(o) + (k - Len(o))] = new[k - Len(o)] /\ new[k - Len(o)] \in F
      BY <1>15, <3>1
    <3>3. QED
      BY <1>15, <3>1, <3>2 DEF z
  <2>2. ASSUME NEW k \in DOMAIN z, ~(k > Len(o)) PROVE k \in DOMAIN o /\ z[k] = o[k]
    BY <1>15, <2>2 DEF z
  <2>3. QED
    BY <2>1, <2>2
<1>17. \A m \in F : m \in 1..N /\ ~\E i \in DOMAIN o : o[i] = m
  BY <1>4, <1>7, <1>14
<1>18. \A i, k \in DOMAIN z : i < k => z[i] # z[k]
  <2> SUFFICES ASSUME NEW i \in DOMAIN z, NEW k \in DOMAIN z, i < k PROVE z[i] # z[k]
    OBVIOUS
  <2>0. i \in Nat /\ k \in Nat
    BY <1>15 DEF z
  <2>1. CASE k \in DOMAIN o /\ z[k] = o[k]
    <3>1. i \in DOMAIN o /\ ~(i > Len(o))
      BY <1>15, <2>0, <2>1 DEF z
    <3>2. z[i] = o[i]
      BY <1>16, <3>1
    <3>3. QED
      BY <1>14, <2>1, <3>1, <3>2
  <2>2. CASE k - Len(o) \in DOMAIN new /\ z[k] = new[k - Len(o)] /\ z[k] \in F
    <3>1. CASE i \in DOMAIN o /\ z[i] = o[i]
      BY <1>17, <2>2, <3>1
    <3>2. CASE i - Len(o) \in DOMAIN new /\ z[i] = new[i - Len(o)] /\ z[i] \in F
      <4>1. i - Len(o) < k - Len(o)
        BY <1>15, <2>0
      <4>2. z[i] < z[k] /\ z[i] \in Nat /\ z[k] \in Nat
        BY <1>4, <1>5, <2>2, <3>2, <4>1
      <4>3. QED
        BY <4>2
    <3>3. QED
      BY <1>16, <3>1, <3>2
  <2>3. QED
    BY <1>16, <2>1, <2>2
<1>19. ASSUME NEW m \in 1..N PROVE (\E i \in DOMAIN z : z[i] = m) <=> y.count[m] = 0
  <2>1. (\E i \in DOMAIN z : z[i] = m) <=> (\E i \in DOMAIN o : o[i] = m) \/ m \in F
    <3>1. \A i \in DOMAIN o : i \in DOMAIN z /\ z[i] = o[i]
      BY <1>15 DEF z
    <3>2. \A p \in DOMAIN new : Len(o) + p \in DOMAIN z /\ z[Len(o) + p] = new[p]
      BY <1>15 DEF z
    <3>3. QED
      BY <1>5, <1>16, <3>1, <3>2
  <2>2. (\E i \in DOMAIN o : o[i] = m) <=> x.count[m] = 0
    BY <1>14
  <2>3. m \in F <=> h \in plan[m] /\ x.count[m] = 1
    BY <1>7
  <2>4. y.count[m] = IF h \in plan[m] THEN x.count[m] - 1 ELSE x.count[m]
    BY <1>6
  <2>5. x.count[m] \in Nat /\ (h \in plan[m] => x.count[m] >= 1)
    BY <1>12
  <2>6. (x.count[m] = 0 \/ (h \in plan[m] /\ x.count[m] = 1)) <=> y.count[m] = 0
    <3>1. CASE h \in plan[m]
      BY <2>4, <2>5, <3>1
    <3>2. CASE h \notin plan[m]
      BY <2>4, <2>5, <3>2
    <3>3. QED
      BY <3>1, <3>2
  <2>7. QED
    BY <2>1, <2>2, <2>3, <2>6
<1>20. ASSUME NEW k \in DOMAIN z, NEW d \in plan[z[k]] PROVE \E i \in 1..n : i < k /\ y.result[i] = d
  <2>0. k \in Nat
    BY <1>15 DEF z
  <2>1. CASE k \in DOMAIN o /\ z[k] = o[k]
    <3>1. PICK i \in 1..(n - 1) : i < k /\ x.result[i] = d
      BY <1>14, <1>20, <2>1
    <3>2. i \in 1..n
      BY <3>1
    <3>3. y.result[i] = d
      BY <1>8, <3>1
    <3>4. QED
      BY <3>1, <3>2, <3>3
  <2>2. CASE k > Len(o) /\ z[k] \in F
    <3>1. y.count[z[k]] = 0 /\ z[k] \in 1..N
      BY <1>17, <1>19, <2>2
    <3>2. plan[z[k]] \ E = {}
      BY <1>12, <3>1, FS_EmptySet
    <3>3. d \in E
      BY <1>20, <3>2
    <3>4. PICK i \in 1..n : y.result[i] = d
      BY <3>3 DEF E, Out
    <3>5. i < k
      BY <1>1, <1>15, <2>0, <2>2
    <3>6. QED
      BY <3>4, <3>5
  <2>3. QED
    BY <1>16, <2>1, <2>2
<1>21. KahnLine(plan, n, y)
  <2>1. \A m \in DOMAIN plan : (\E i \in DOMAIN z : z[i] = m) <=> y.count[m] = 0
    BY <1>1, <1>19
  <2>2. \A k \in DOMAIN z : \A d \in plan[z[k]] : \E i \in 1..n : i < k /\ y.result[i] = d
    BY <1>20
  <2>3. QED
    BY <1>10, <1>18, <2>1, <2>2 DEF KahnLine
<1>22. QED
  BY <1>13, <1>21 DEF KahnHolds, y

(* The order has every node once, behind what it depends on.               *)
LEMMA OrderHolds ==
  ASSUME NEW plan, NEW N, IsPlan(plan, N), plan \in Seq(SUBSET Nat)
  PROVE  /\ TopologicalOrder(plan) \in Seq(1..N) /\ Len(TopologicalOrder(plan)) = N
         /\ \A i, k \in 1..N : TopologicalOrder(plan)[i] \in plan[TopologicalOrder(plan)[k]] => i < k
<1> DEFINE x == Ordering!Folded(KahnStart(plan), plan)
<1>1. TopologicalOrder(plan) = x.result
  BY DEF TopologicalOrder, Ordering!Folded, Ordering!FoldLeft, FoldLeft, MapThenFoldSet, Ordering!MapThenFoldSet,
         Max, Ordering!Max, KahnStart
<1>2. Len(plan) = N /\ N \in Nat /\ DOMAIN plan = 1..N
  BY DEF IsPlan
<1>3. KahnHolds(KahnStart(plan), plan, Len(plan), x)
  <2>1. KahnHolds(KahnStart(plan), plan, 0, KahnStart(plan))
    BY KahnStarts
  <2>2. \A n \in 1..Len(plan) : \A s :
          KahnHolds(KahnStart(plan), plan, n - 1, s) => KahnHolds(KahnStart(plan), plan, n, NextInOrder(s, plan[n]))
    BY <1>2, KahnStep
  <2>3. QED
    BY <2>1, <2>2, Ordering!FoldKeeps
<1> HIDE DEF x
<1>4. /\ x.result \in Seq(1..N) /\ Len(x.result) = N /\ x.queue \in Seq(1..N)
  BY <1>2, <1>3 DEF KahnHolds, KahnTyped
<1>5. KahnLine(plan, N, x)
  BY <1>2, <1>3 DEF KahnHolds
<1>6. /\ DOMAIN InLine(x) = 1..(N + Len(x.queue)) /\ Len(x.queue) \in Nat
      /\ \A i \in 1..N : InLine(x)[i] = x.result[i]
  <2> DEFINE a == x.result
             b == x.queue
  <2>1. a \in Seq(1..N) /\ b \in Seq(1..N) /\ Len(a) = N
    BY <1>4
  <2>2. InLine(x) = a \o b
    BY DEF InLine
  <2> HIDE DEF a, b
  <2>3. DOMAIN (a \o b) = 1..(Len(a) + Len(b)) /\ \A k \in 1..Len(a) : (a \o b)[k] = a[k]
    <3> DEFINE T == 1..N
    <3>1. a \in Seq(T) /\ b \in Seq(T)
      BY <2>1
    <3> HIDE DEF T
    <3>2. QED
      BY ONLY <3>1, ConcatFacts
  <2>4. Len(b) \in Nat
    BY <2>1
  <2>5. DOMAIN InLine(x) = 1..(N + Len(b)) /\ \A i \in 1..N : InLine(x)[i] = a[i]
    BY <2>1, <2>2, <2>3
  <2>6. QED
    BY <2>4, <2>5 DEF a, b
<1>7. ASSUME NEW i \in 1..N, NEW k \in 1..N, x.result[i] \in plan[x.result[k]] PROVE i < k
  <2>0. i \in DOMAIN InLine(x) /\ k \in DOMAIN InLine(x)
    BY <1>2, <1>6
  <2>1. PICK j \in 1..N : j < k /\ x.result[j] = x.result[i]
    <3>1. \A d \in plan[InLine(x)[k]] : \E j \in 1..N : j < k /\ x.result[j] = d
      BY <1>5, <2>0 DEF KahnLine
    <3>2. InLine(x)[k] = x.result[k]
      BY <1>6
    <3>3. QED
      BY <1>7, <3>1, <3>2
  <2>2. j \in DOMAIN InLine(x)
    BY <1>2, <1>6
  <2>3. InLine(x)[i] = InLine(x)[j]
    BY <1>6, <2>1
  <2>4. ~(i < j) /\ ~(j < i)
    BY <1>5, <2>0, <2>2, <2>3 DEF KahnLine
  <2>5. QED
    BY <2>1, <2>4
<1>8. QED
  BY <1>1, <1>4, <1>7

LEMMA DecomposedIsPlan ==
  ASSUME NEW m
  PROVE  \E N \in Nat : IsPlan(Decompose(m), N) /\ Decompose(m) \in Seq(SUBSET Nat)
<1>1. PICK k \in 1..5 :
           /\ DOMAIN Decompose(m) = 1..k /\ Len(Decompose(m)) = k
           /\ \A n \in 1..k : Decompose(m)[n] \subseteq 1..(n - 1)
  BY PlanFacts
<1>2. \A n \in 1..k : IsFiniteSet(Decompose(m)[n])
  <2>1. \A n \in 1..k : IsFiniteSet(1..(n - 1)) /\ Decompose(m)[n] \in SUBSET (1..(n - 1))
    BY <1>1, FS_Interval
  <2>2. QED
    BY <2>1, FS_Subset
<1>3. IsPlan(Decompose(m), k)
  BY <1>1, <1>2 DEF IsPlan
<1>4. Decompose(m) \in Seq(SUBSET Nat)
  <2>1. CASE m \in DOMAIN Plans
    <3>1. /\ DOMAIN Plans = {"parallel", "pipeline", "debate", "map_reduce"}
          /\ Plans["parallel"] = <<{}, {}, {2}, {2, 3}, {2}>>
          /\ Plans["pipeline"] = <<{}, {1}, {2}, {3}, {4}>>
          /\ Plans["debate"] = <<{}, {}, {1, 2}>>
          /\ Plans["map_reduce"] = <<{}, {1}, {1}, {1}, {2, 3, 4}>>
      BY DEF Plans
    <3>2. Decompose(m) = Plans[m]
      BY <2>1 DEF Decompose
    <3>3. /\ <<{}, {}, {2}, {2, 3}, {2}>> \in Seq(SUBSET Nat)
          /\ <<{}, {1}, {2}, {3}, {4}>> \in Seq(SUBSET Nat)
          /\ <<{}, {}, {1, 2}>> \in Seq(SUBSET Nat)
          /\ <<{}, {1}, {1}, {1}, {2, 3, 4}>> \in Seq(SUBSET Nat)
      OBVIOUS
    <3>4. QED
      BY <2>1, <3>1, <3>2, <3>3
  <2>2. CASE m \notin DOMAIN Plans
    <3>1. Decompose(m) = <<{}>>
      BY <2>2 DEF Decompose
    <3>2. QED
      BY <3>1
  <2>3. QED
    BY <2>1, <2>2
<1>5. QED
  BY <1>3, <1>4

(* The order that topological_order promises is one, of every plan that    *)
(* _decompose makes (core/delegation_graph.py): in every state.            *)
LEMMA OrderSound == OrderIsTopological
<1>1. PICK N \in Nat : IsPlan(Decompose(mode), N) /\ Decompose(mode) \in Seq(SUBSET Nat)
  BY DecomposedIsPlan
<1>2. deps = Decompose(mode) /\ DagNodes = 1..N
  BY <1>1 DEF deps, DagNodes, IsPlan
<1>3. IsFiniteSet(1..N) /\ Cardinality(1..N) = N
  BY FS_Interval
<1>4. /\ TopologicalOrder(deps) \in Seq(1..N) /\ Len(TopologicalOrder(deps)) = N
      /\ \A i, k \in 1..N : TopologicalOrder(deps)[i] \in deps[TopologicalOrder(deps)[k]] => i < k
  BY <1>1, <1>2, OrderHolds
<1>5. DOMAIN TopologicalOrder(deps) = 1..N
  BY <1>4
<1>6. QED
  BY <1>2, <1>3, <1>4, <1>5 DEF OrderIsTopological

-----------------------------------------------------------------------------
(* The event bus and its triggers (EventTriggers).                         *)

Phases == {"count", "number", "write", "check", "fire", "announce"}
Frames == [id : Nat, phase : Phases, seq : Nat, todo : Seq(Triggers), since : Nat]

BusTyped ==
  /\ stack \in [Threads -> Seq(Frames)]
  /\ lastFired \in [Triggers -> Nat]
  /\ seqNo \in Nat /\ busTime \in Nat /\ nextId \in Nat
  /\ \A g \in Triggers : lastFired[g] <= busTime

(* What holds of one emit in progress, when the log has written, count     *)
(* events were counted and the triggers fired last at last: past the log   *)
(* it is in the log, and a trigger that fires has noted when.              *)
FrameSound(f, written, count, last) ==
  /\ f.seq <= count
  /\ f.phase \in {"count", "number"} => f.seq = 0
  /\ f.phase \in {"check", "fire", "announce"} => f.id \in written
  /\ f.phase \in {"fire", "announce"} => f.todo # <<>>
  /\ f.phase = "announce" => f.since <= last[Head(f.todo)]

Fires(f) == f.phase \in {"fire", "announce"}

(* The emit f waits for g, at the time now: f has its number before g, and *)
(* when the same trigger fires in both, the throttle has run out between.  *)
Below(f, g, count, now) ==
  /\ f.phase \in {"check", "announce"}
  /\ g.phase = "number" => f.seq < count
  /\ g.seq # 0 => f.seq < g.seq
  /\ f.phase = "announce" /\ g.phase = "fire" /\ Head(f.todo) = Head(g.todo) => now - f.since >= Throttle
  /\ f.phase = "announce" /\ g.phase = "announce" /\ Head(f.todo) = Head(g.todo) => g.since - f.since >= Throttle

StackSound(s, written, count, now, last) ==
  /\ \A i \in 1..Len(s) : FrameSound(s[i], written, count, last)
  /\ \A i, k \in 1..Len(s) : i < k => Below(s[i], s[k], count, now)

StacksSound == \A t \in Threads : StackSound(stack[t], log, seqNo, busTime, lastFired)

BusInv == BusTyped /\ StacksSound

-----------------------------------------------------------------------------
LEMMA HeadIsATrigger == ASSUME NEW f \in Frames, f.todo # <<>> PROVE Head(f.todo) \in Triggers /\ Tail(f.todo) \in Seq(Triggers)
<1>1. f.todo \in Seq(Triggers)
  BY DEF Frames
<1>2. QED
  BY <1>1

(* All of a sequence but its last element.                                 *)
LEMMA FrontFacts ==
  ASSUME NEW S, NEW s \in Seq(S), s # <<>>
  PROVE  /\ Front(s) \in Seq(S) /\ Len(Front(s)) = Len(s) - 1
         /\ \A i \in 1..(Len(s) - 1) : Front(s)[i] = s[i]
<1> DEFINE n == Len(s) - 1
<1>1. n \in Nat /\ \A i \in 1..n : s[i] \in S
  BY EmptySeq, LenProperties
<1>2. Front(s) = SubSeq(s, 1, n)
  BY DEF Front
<1> HIDE DEF n
<1>3. /\ SubSeq(s, 1, n) \in Seq(S) /\ Len(SubSeq(s, 1, n)) = n
      /\ \A i \in 1..n : SubSeq(s, 1, n)[i] = s[i]
  BY <1>1, SubSeqProperties
<1>4. QED
  BY <1>2, <1>3 DEF n

LEMMA TopReplaced ==
  ASSUME NEW s \in Seq(Frames), s # <<>>, NEW f \in Frames
  PROVE  LET u == Append(Front(s), f)
         IN  /\ u \in Seq(Frames) /\ Len(u) = Len(s) /\ u[Len(s)] = f
             /\ \A i \in 1..Len(s) : i # Len(s) => u[i] = s[i]
<1> DEFINE w == Front(s)
<1>1. w \in Seq(Frames) /\ Len(w) = Len(s) - 1 /\ \A i \in 1..(Len(s) - 1) : w[i] = s[i]
  BY FrontFacts
<1> HIDE DEF w
<1>2. QED
  BY <1>1 DEF w

LEMMA TopCalls ==
  ASSUME NEW s \in Seq(Frames), s # <<>>, NEW f \in Frames, NEW g \in Frames
  PROVE  LET u == Front(s) \o <<f, g>>
         IN  /\ u \in Seq(Frames) /\ Len(u) = Len(s) + 1 /\ u[Len(s)] = f /\ u[Len(s) + 1] = g
             /\ \A i \in 1..Len(s) : i # Len(s) => u[i] = s[i]
<1> DEFINE w == Front(s)
           v == <<f, g>>
<1>1. w \in Seq(Frames) /\ Len(w) = Len(s) - 1 /\ \A i \in 1..(Len(s) - 1) : w[i] = s[i]
  BY FrontFacts
<1>2. v \in Seq(Frames) /\ Len(v) = 2 /\ v[1] = f /\ v[2] = g
  OBVIOUS
<1> HIDE DEF w, v
<1>3. /\ w \o v \in Seq(Frames) /\ Len(w \o v) = Len(w) + Len(v)
      /\ \A i \in 1..(Len(w) + Len(v)) : (w \o v)[i] = IF i <= Len(w) THEN w[i] ELSE v[i - Len(w)]
  BY <1>1, <1>2, ConcatProperties
<1>4. /\ Len(s) \in Nat /\ Len(w) + Len(v) = Len(s) + 1
      /\ (w \o v)[Len(s)] = v[1] /\ (w \o v)[Len(s) + 1] = v[2]
      /\ \A i \in 1..(Len(s) - 1) : (w \o v)[i] = w[i]
  BY <1>1, <1>2, <1>3
<1>5. /\ w \o v \in Seq(Frames) /\ Len(w \o v) = Len(s) + 1
      /\ (w \o v)[Len(s)] = f /\ (w \o v)[Len(s) + 1] = g
      /\ \A i \in 1..Len(s) : i # Len(s) => (w \o v)[i] = s[i]
  BY <1>1, <1>2, <1>3, <1>4
<1>6. w \o v = Front(s) \o <<f, g>>
  BY DEF w, v
<1>7. QED
  BY <1>5, <1>6

(* Time goes on, and nothing is unwritten.                                 *)
TimeGoesOn ==
  /\ log \subseteq log' /\ seqNo' \in Nat /\ seqNo <= seqNo'
  /\ busTime' \in Nat /\ busTime <= busTime' /\ nextId' \in Nat
  /\ lastFired' \in [Triggers -> Nat]
  /\ \A g \in Triggers : lastFired[g] <= lastFired'[g] /\ lastFired'[g] <= busTime'

LEMMA Later ==
  ASSUME BusTyped, NEW s \in Seq(Frames), StackSound(s, log, seqNo, busTime, lastFired), TimeGoesOn
  PROVE  StackSound(s, log', seqNo', busTime', lastFired')
<1>1. ASSUME NEW i \in 1..Len(s) PROVE FrameSound(s[i], log', seqNo', lastFired')
  <2>1. s[i] \in Frames /\ FrameSound(s[i], log, seqNo, lastFired)
    BY DEF StackSound
  <2>2. s[i].phase = "announce" => s[i].since <= lastFired'[Head(s[i].todo)]
    <3>1. SUFFICES ASSUME s[i].phase = "announce" PROVE s[i].since <= lastFired'[Head(s[i].todo)]
      OBVIOUS
    <3>2. s[i].since <= lastFired[Head(s[i].todo)] /\ Head(s[i].todo) \in Triggers
      BY <2>1, <3>1, HeadIsATrigger DEF FrameSound
    <3>3. s[i].since \in Nat
      BY <2>1 DEF Frames
    <3>4. QED
      BY <3>2, <3>3 DEF BusTyped, TimeGoesOn
  <2>3. s[i].seq \in Nat
    BY <2>1 DEF Frames
  <2>4. QED
    BY <2>1, <2>2, <2>3 DEF FrameSound, BusTyped, TimeGoesOn
<1>2. ASSUME NEW i \in 1..Len(s), NEW k \in 1..Len(s), i < k
      PROVE  Below(s[i], s[k], seqNo', busTime')
  <2>1. s[i] \in Frames /\ s[k] \in Frames /\ Below(s[i], s[k], seqNo, busTime)
    BY <1>2 DEF StackSound
  <2>2. s[i].seq \in Nat /\ s[i].since \in Nat
    BY <2>1 DEF Frames
  <2>3. QED
    BY <2>1, <2>2, BusAssumption, SMTT(20) DEF Below, BusTyped, TimeGoesOn
<1>3. QED
  BY <1>1, <1>2 DEF StackSound

(* An emit at the top of a stack goes on, and perhaps calls another one.   *)
LEMMA TopGoesOn ==
  ASSUME NEW s \in Seq(Frames), s # <<>>, NEW f \in Frames, NEW written, NEW count, NEW now, NEW last,
         StackSound(s, written, count, now, last),
         FrameSound(f, written, count, last),
         \A i \in 1..Len(s) : i # Len(s) => Below(s[i], f, count, now)
  PROVE  StackSound(Append(Front(s), f), written, count, now, last)
<1> DEFINE u == Append(Front(s), f)
<1>1. /\ Len(u) = Len(s) /\ u[Len(s)] = f /\ \A i \in 1..Len(s) : i # Len(s) => u[i] = s[i]
  BY TopReplaced
<1> HIDE DEF u
<1>2. \A i \in 1..Len(u) : FrameSound(u[i], written, count, last)
  BY <1>1 DEF StackSound
<1>3. ASSUME NEW i \in 1..Len(u), NEW k \in 1..Len(u), i < k PROVE Below(u[i], u[k], count, now)
  <2>1. i # Len(s) /\ u[i] = s[i]
    BY <1>1, <1>3
  <2>2. CASE k = Len(s)
    BY <1>1, <2>1, <2>2
  <2>3. CASE k # Len(s)
    BY <1>1, <1>3, <2>1, <2>3 DEF StackSound
  <2>4. QED
    BY <2>2, <2>3
<1>4. StackSound(u, written, count, now, last)
  BY <1>2, <1>3 DEF StackSound
<1>5. QED
  BY <1>4 DEF u

LEMMA TopCallsOn ==
  ASSUME NEW s \in Seq(Frames), s # <<>>, NEW f \in Frames, NEW h \in Frames,
         NEW written, NEW count \in Nat, NEW now, NEW last,
         StackSound(s, written, count, now, last),
         FrameSound(f, written, count, last), f.phase \in {"check", "announce"},
         \A i \in 1..Len(s) : i # Len(s) => Below(s[i], f, count, now),
         h.phase = "count", h.seq = 0
  PROVE  StackSound(Front(s) \o <<f, h>>, written, count, now, last)
<1> DEFINE u == Front(s) \o <<f, h>>
<1>1. /\ Len(u) = Len(s) + 1 /\ u[Len(s)] = f /\ u[Len(s) + 1] = h
      /\ \A i \in 1..Len(s) : i # Len(s) => u[i] = s[i]
  BY TopCalls
<1> HIDE DEF u
<1>2. \A i \in 1..Len(u) : FrameSound(u[i], written, count, last)
  <2>1. FrameSound(h, written, count, last)
    BY DEF FrameSound
  <2>2. QED
    BY <1>1, <2>1 DEF StackSound
<1>3. ASSUME NEW i \in 1..Len(u), NEW k \in 1..Len(u), i < k PROVE Below(u[i], u[k], count, now)
  <2>1. CASE k = Len(s) + 1
    <3>1. u[i].phase \in {"check", "announce"}
      <4>1. CASE i = Len(s)
        BY <1>1, <4>1
      <4>2. CASE i # Len(s)
        BY <1>1, <1>3, <4>2 DEF Below
      <4>3. QED
        BY <4>1, <4>2
    <3>2. QED
      BY <1>1, <2>1, <3>1 DEF Below
  <2>2. CASE k # Len(s) + 1
    <3>1. i # Len(s) /\ i \in 1..Len(s) /\ k \in 1..Len(s) /\ u[i] = s[i]
      BY <1>1, <1>3, <2>2
    <3>2. CASE k = Len(s)
      BY <1>1, <3>1, <3>2
    <3>3. CASE k # Len(s)
      BY <1>1, <1>3, <3>1, <3>3 DEF StackSound
    <3>4. QED
      BY <3>2, <3>3
  <2>3. QED
    BY <2>1, <2>2
<1>4. StackSound(u, written, count, now, last)
  BY <1>2, <1>3 DEF StackSound
<1>5. QED
  BY <1>4 DEF u

(* Every stack but one's own only sees time go on.                         *)
LEMMA OneStackMoves ==
  ASSUME BusInv, NEW t \in Threads, NEW u \in Seq(Frames), stack' = [stack EXCEPT ![t] = u], TimeGoesOn,
         StackSound(stack[t], log', seqNo', busTime', lastFired') => StackSound(u, log', seqNo', busTime', lastFired')
  PROVE  BusInv'
<1>1. BusTyped /\ StacksSound
  BY DEF BusInv
<1>2. \A q \in Threads : StackSound(stack[q], log', seqNo', busTime', lastFired')
  <2>1. \A q \in Threads : stack[q] \in Seq(Frames)
    BY <1>1 DEF BusTyped
  <2>2. QED
    BY <1>1, <2>1, Later DEF StacksSound
<1>3. stack'[t] = u /\ \A q \in Threads \ {t} : stack'[q] = stack[q]
  BY <1>1 DEF BusTyped
<1>4. StacksSound'
  BY <1>2, <1>3 DEF StacksSound
<1>5. BusTyped'
  BY <1>1 DEF BusTyped, TimeGoesOn
<1>6. QED
  BY <1>4, <1>5 DEF BusInv

LEMMA NewFrame ==
  ASSUME BusTyped, NEW type
  PROVE  Emit(type) \in Frames /\ Emit(type).phase = "count" /\ Emit(type).seq = 0
<1>1. (IF type \in DOMAIN TriggersOn THEN TriggersOn[type] ELSE <<>>) \in Seq(Triggers)
  BY BusAssumption
<1>2. QED
  BY <1>1 DEF Emit, Frames, Phases, BusTyped

(* The top of a busy thread.                                               *)
LEMMA TopFacts ==
  ASSUME BusInv, NEW t \in Threads, Busy(t)
  PROVE  /\ stack[t] \in Seq(Frames) /\ stack[t] # <<>> /\ Top(t) \in Frames
         /\ Top(t) = stack[t][Len(stack[t])]
         /\ StackSound(stack[t], log, seqNo, busTime, lastFired)
         /\ FrameSound(Top(t), log, seqNo, lastFired)
         /\ \A i \in 1..Len(stack[t]) : i # Len(stack[t]) =>
              stack[t][i] \in Frames /\ Below(stack[t][i], Top(t), seqNo, busTime)
              /\ FrameSound(stack[t][i], log, seqNo, lastFired)
<1>1. stack[t] \in Seq(Frames) /\ stack[t] # <<>> /\ StackSound(stack[t], log, seqNo, busTime, lastFired)
  BY DEF BusInv, BusTyped, StacksSound, Busy
<1> DEFINE s == stack[t]
<1>2. Top(t) = s[Len(s)] /\ Len(s) \in 1..Len(s)
  BY <1>1 DEF Top, Last
<1> HIDE DEF s
<1>3. s \in Seq(Frames) /\ s # <<>> /\ StackSound(s, log, seqNo, busTime, lastFired)
  BY <1>1 DEF s
<1>4. QED
  BY <1>2, <1>3 DEF StackSound, s

LEMMA EmitOutsideStep == ASSUME BusInv, NEW t \in Threads, EmitOutside(t) PROVE BusInv'
<1>1. PICK type \in Outside : stack' = [stack EXCEPT ![t] = <<Emit(type)>>]
  BY DEF EmitOutside
<1>2. nextId' = nextId + 1 /\ UNCHANGED <<log, seqNo, lastFired, busTime>>
  BY DEF EmitOutside
<1> DEFINE f == Emit(type)
<1>3. f \in Frames /\ f.phase = "count" /\ f.seq = 0
  BY NewFrame DEF BusInv
<1> HIDE DEF f
<1> DEFINE u == <<f>>
<1>4. u \in Seq(Frames) /\ Len(u) = 1 /\ u[1] = f
  BY <1>3
<1> HIDE DEF u
<1>5. FrameSound(f, log', seqNo', lastFired')
  BY <1>2, <1>3 DEF FrameSound, BusInv, BusTyped
<1>6. StackSound(u, log', seqNo', busTime', lastFired')
  BY <1>4, <1>5 DEF StackSound
<1>7. stack' = [stack EXCEPT ![t] = u]
  BY <1>1 DEF u, f
<1>8. TimeGoesOn
  BY <1>2 DEF BusInv, BusTyped, TimeGoesOn
<1>9. QED
  BY <1>4, <1>6, <1>7, <1>8, OneStackMoves

(* The three parts of write_event.                                         *)
LEMMA CountStep == ASSUME BusInv, NEW t \in Threads, CountEvent(t) PROVE BusInv'
<1> DEFINE f == [Top(t) EXCEPT !.phase = "number"]
           s == stack[t]
<1>1. /\ Busy(t) /\ Top(t).phase = "count" /\ seqNo' = seqNo + 1
      /\ stack' = [stack EXCEPT ![t] = Append(Front(s), f)]
      /\ UNCHANGED <<log, lastFired, busTime, nextId>>
  BY DEF CountEvent, SetTop, NextPhase
<1>2. /\ s \in Seq(Frames) /\ s # <<>> /\ Top(t) \in Frames /\ FrameSound(Top(t), log, seqNo, lastFired)
      /\ \A i \in 1..Len(s) : i # Len(s) => /\ s[i] \in Frames /\ Below(s[i], Top(t), seqNo, busTime)
                                            /\ FrameSound(s[i], log, seqNo, lastFired)
  BY <1>1, TopFacts
<1>3. seqNo \in Nat
  BY DEF BusInv, BusTyped
<1>4. f \in Frames /\ f.phase = "number" /\ f.seq = 0 /\ Top(t).seq = 0
  BY <1>1, <1>2 DEF Frames, Phases, FrameSound
<1> HIDE DEF f, s
<1>5. FrameSound(f, log', seqNo', lastFired')
  BY <1>1, <1>3, <1>4 DEF FrameSound
<1>6. ASSUME NEW i \in 1..Len(s), i # Len(s) PROVE Below(s[i], f, seqNo', busTime')
  <2>1. s[i] \in Frames /\ s[i].phase \in {"check", "announce"} /\ s[i].seq <= seqNo
    BY <1>2, <1>6 DEF Below, FrameSound
  <2>2. s[i].seq \in Nat
    BY <2>1 DEF Frames
  <2>3. QED
    BY <1>1, <1>3, <1>4, <2>1, <2>2 DEF Below
<1>7. StackSound(s, log', seqNo', busTime', lastFired') => StackSound(Append(Front(s), f), log', seqNo', busTime', lastFired')
  BY <1>2, <1>4, <1>5, <1>6, TopGoesOn
<1>8. Append(Front(s), f) \in Seq(Frames)
  BY <1>2, <1>4, TopReplaced
<1>9. TimeGoesOn
  BY <1>1 DEF BusInv, BusTyped, TimeGoesOn
<1>10. QED
  BY <1>1, <1>7, <1>8, <1>9, OneStackMoves DEF s

LEMMA NumberStep == ASSUME BusInv, NEW t \in Threads, Number(t) PROVE BusInv'
<1> DEFINE f == [Top(t) EXCEPT !.phase = "write", !.seq = seqNo]
           s == stack[t]
<1>1. /\ Busy(t) /\ Top(t).phase = "number"
      /\ stack' = [stack EXCEPT ![t] = Append(Front(s), f)]
      /\ UNCHANGED <<log, seqNo, lastFired, busTime, nextId>>
  BY DEF Number, SetTop, NextPhase
<1>2. /\ s \in Seq(Frames) /\ s # <<>> /\ Top(t) \in Frames /\ FrameSound(Top(t), log, seqNo, lastFired)
      /\ \A i \in 1..Len(s) : i # Len(s) => s[i] \in Frames /\ Below(s[i], Top(t), seqNo, busTime)
  BY <1>1, TopFacts
<1>3. seqNo \in Nat /\ BusTyped
  BY DEF BusInv, BusTyped
<1>4. f \in Frames /\ f.phase = "write" /\ f.seq = seqNo
  BY <1>1, <1>2, <1>3 DEF Frames, Phases
<1> HIDE DEF f, s
<1>5. FrameSound(f, log', seqNo', lastFired')
  BY <1>1, <1>3, <1>4 DEF FrameSound
<1>6. \A i \in 1..Len(s) : i # Len(s) => Below(s[i], f, seqNo', busTime')
  BY <1>1, <1>2, <1>4 DEF Below
<1>7. StackSound(s, log', seqNo', busTime', lastFired') => StackSound(Append(Front(s), f), log', seqNo', busTime', lastFired')
  BY <1>2, <1>4, <1>5, <1>6, TopGoesOn
<1>8. Append(Front(s), f) \in Seq(Frames)
  BY <1>2, <1>4, TopReplaced
<1>9. TimeGoesOn
  BY <1>1, <1>3 DEF BusTyped, TimeGoesOn
<1>10. QED
  BY <1>1, <1>7, <1>8, <1>9, OneStackMoves DEF s

LEMMA WriteStep == ASSUME BusInv, NEW t \in Threads, Write(t) PROVE BusInv'
<1> DEFINE f == [Top(t) EXCEPT !.phase = "check"]
           s == stack[t]
<1>1. /\ Busy(t) /\ Top(t).phase = "write" /\ log' = log \cup {Top(t).id}
      /\ stack' = [stack EXCEPT ![t] = Append(Front(s), f)]
      /\ UNCHANGED <<seqNo, lastFired, busTime, nextId>>
  BY DEF Write, SetTop, NextPhase
<1>2. /\ s \in Seq(Frames) /\ s # <<>> /\ Top(t) \in Frames /\ FrameSound(Top(t), log, seqNo, lastFired)
      /\ \A i \in 1..Len(s) : i # Len(s) => s[i] \in Frames /\ Below(s[i], Top(t), seqNo, busTime)
  BY <1>1, TopFacts
<1>3. seqNo \in Nat /\ BusTyped
  BY DEF BusInv, BusTyped
<1>4. f \in Frames /\ f.phase = "check" /\ f.seq = Top(t).seq /\ f.id = Top(t).id
  BY <1>1, <1>2 DEF Frames, Phases
<1> HIDE DEF f, s
<1>5. FrameSound(f, log', seqNo', lastFired')
  BY <1>1, <1>2, <1>4 DEF FrameSound
<1>6. \A i \in 1..Len(s) : i # Len(s) => Below(s[i], f, seqNo', busTime')
  BY <1>1, <1>2, <1>4 DEF Below
<1>7. StackSound(s, log', seqNo', busTime', lastFired') => StackSound(Append(Front(s), f), log', seqNo', busTime', lastFired')
  BY <1>2, <1>4, <1>5, <1>6, TopGoesOn
<1>8. Append(Front(s), f) \in Seq(Frames)
  BY <1>2, <1>4, TopReplaced
<1>9. TimeGoesOn
  BY <1>1, <1>3 DEF BusTyped, TimeGoesOn
<1>10. QED
  BY <1>1, <1>7, <1>8, <1>9, OneStackMoves DEF s

LEMMA CheckStep == ASSUME BusInv, NEW t \in Threads, CheckTrigger(t) PROVE BusInv'
<1> DEFINE s == stack[t]
           g == Head(Top(t).todo)
<1>1. /\ Busy(t) /\ Top(t).phase = "check" /\ Top(t).todo # <<>>
      /\ UNCHANGED <<log, seqNo, lastFired, busTime, nextId>>
      /\ \/ stack' = [stack EXCEPT ![t] = Append(Front(s), [Top(t) EXCEPT !.todo = Tail(@)])]
         \/ /\ ~(busTime - lastFired[g] < Throttle)
            /\ stack' = [stack EXCEPT ![t] = Append(Front(s), [Top(t) EXCEPT !.phase = "fire"])]
  BY DEF CheckTrigger, SetTop
<1>2. /\ s \in Seq(Frames) /\ s # <<>> /\ Top(t) \in Frames /\ FrameSound(Top(t), log, seqNo, lastFired)
      /\ \A i \in 1..Len(s) : i # Len(s) => /\ s[i] \in Frames /\ Below(s[i], Top(t), seqNo, busTime)
                                            /\ FrameSound(s[i], log, seqNo, lastFired)
  BY <1>1, TopFacts
<1>3. seqNo \in Nat /\ BusTyped
  BY DEF BusInv, BusTyped
<1>4. g \in Triggers /\ Tail(Top(t).todo) \in Seq(Triggers)
  BY <1>1, <1>2, HeadIsATrigger
<1>5. PICK f : /\ stack' = [stack EXCEPT ![t] = Append(Front(s), f)]
               /\ \/ f = [Top(t) EXCEPT !.todo = Tail(@)]
                  \/ ~(busTime - lastFired[g] < Throttle) /\ f = [Top(t) EXCEPT !.phase = "fire"]
  BY <1>1
<1>6. /\ f \in Frames /\ f.seq = Top(t).seq /\ f.id = Top(t).id
      /\ \/ f.phase = "check"
         \/ f.phase = "fire" /\ f.todo = Top(t).todo /\ ~(busTime - lastFired[g] < Throttle)
  BY <1>1, <1>2, <1>4, <1>5 DEF Frames, Phases
<1> HIDE DEF s
<1>7. FrameSound(f, log', seqNo', lastFired')
  BY <1>1, <1>2, <1>6 DEF FrameSound
<1>8. ASSUME NEW i \in 1..Len(s), i # Len(s) PROVE Below(s[i], f, seqNo', busTime')
  <2>1. /\ s[i] \in Frames /\ Below(s[i], Top(t), seqNo, busTime)
        /\ s[i].phase = "announce" => s[i].since <= lastFired[Head(s[i].todo)]
    BY <1>2, <1>8 DEF FrameSound
  <2>2. f.phase = "fire" /\ s[i].phase = "announce" /\ Head(s[i].todo) = Head(f.todo)
          => busTime - s[i].since >= Throttle
    <3>1. SUFFICES ASSUME f.phase = "fire", s[i].phase = "announce", Head(s[i].todo) = Head(f.todo)
                   PROVE  busTime - s[i].since >= Throttle
      OBVIOUS
    <3>2. s[i].since <= lastFired[g] /\ ~(busTime - lastFired[g] < Throttle)
      BY <1>6, <2>1, <3>1
    <3>3. s[i].since \in Nat /\ lastFired[g] \in Nat /\ busTime \in Nat
      BY <1>3, <1>4, <2>1 DEF Frames, BusTyped
    <3>4. QED
      BY <3>2, <3>3, BusAssumption
  <2>3. QED
    BY <1>1, <1>6, <2>1, <2>2 DEF Below
<1>9. StackSound(s, log', seqNo', busTime', lastFired') => StackSound(Append(Front(s), f), log', seqNo', busTime', lastFired')
  BY <1>2, <1>6, <1>7, <1>8, TopGoesOn
<1>10. Append(Front(s), f) \in Seq(Frames)
  BY <1>2, <1>6, TopReplaced
<1>11. TimeGoesOn
  BY <1>1, <1>3 DEF BusTyped, TimeGoesOn
<1>12. QED
  BY <1>5, <1>9, <1>10, <1>11, OneStackMoves DEF s

LEMMA FireStep == ASSUME BusInv, NEW t \in Threads, FireTrigger(t) PROVE BusInv'
<1> DEFINE s == stack[t]
           g == Head(Top(t).todo)
           f == [Top(t) EXCEPT !.phase = "announce", !.since = busTime]
           h == Emit("job.queued")
<1>1. /\ Busy(t) /\ Top(t).phase = "fire" /\ lastFired' = [lastFired EXCEPT ![g] = busTime]
      /\ stack' = [stack EXCEPT ![t] = Front(s) \o <<f, h>>] /\ nextId' = nextId + 1
      /\ UNCHANGED <<log, seqNo, busTime>>
  BY DEF FireTrigger, Call, FiredNow
<1>2. /\ s \in Seq(Frames) /\ s # <<>> /\ Top(t) \in Frames /\ FrameSound(Top(t), log, seqNo, lastFired)
      /\ \A i \in 1..Len(s) : i # Len(s) => s[i] \in Frames /\ Below(s[i], Top(t), seqNo, busTime)
  BY <1>1, TopFacts
<1>3. seqNo \in Nat /\ busTime \in Nat /\ nextId \in Nat /\ lastFired \in [Triggers -> Nat] /\ BusTyped
  BY DEF BusInv, BusTyped
<1>4. Top(t).todo # <<>> /\ g \in Triggers
  BY <1>1, <1>2, HeadIsATrigger DEF FrameSound
<1>5. /\ f \in Frames /\ f.phase = "announce" /\ f.since = busTime /\ f.seq = Top(t).seq
      /\ f.id = Top(t).id /\ f.todo = Top(t).todo /\ Head(f.todo) = g
  BY <1>1, <1>2, <1>3 DEF Frames, Phases
<1>6. h \in Frames /\ h.phase = "count" /\ h.seq = 0
  BY <1>3, NewFrame
<1>7. lastFired' \in [Triggers -> Nat] /\ lastFired'[g] = busTime /\ \A k \in Triggers \ {g} : lastFired'[k] = lastFired[k]
  BY <1>1, <1>3, <1>4
<1> HIDE DEF f, s, h, g
<1>8. FrameSound(f, log', seqNo', lastFired')
  BY <1>1, <1>2, <1>3, <1>4, <1>5, <1>7 DEF FrameSound
<1>9. \A i \in 1..Len(s) : i # Len(s) => Below(s[i], f, seqNo', busTime')
  BY <1>1, <1>2, <1>5 DEF Below, g
<1>10. StackSound(s, log', seqNo', busTime', lastFired')
         => StackSound(Front(s) \o <<f, h>>, log', seqNo', busTime', lastFired')
  BY <1>1, <1>2, <1>3, <1>5, <1>6, <1>8, <1>9, TopCallsOn
<1>11. Front(s) \o <<f, h>> \in Seq(Frames)
  BY <1>2, <1>5, <1>6, TopCalls
<1>12. TimeGoesOn
  BY <1>1, <1>3, <1>4, <1>7 DEF BusTyped, TimeGoesOn
<1>13. QED
  BY <1>1, <1>10, <1>11, <1>12, OneStackMoves DEF s

LEMMA AnnounceStep == ASSUME BusInv, NEW t \in Threads, Announce(t) PROVE BusInv'
<1> DEFINE s == stack[t]
           f == [Top(t) EXCEPT !.phase = "check", !.todo = Tail(@)]
           h == Emit("job.event_triggered")
<1>1. /\ Busy(t) /\ Top(t).phase = "announce" /\ nextId' = nextId + 1
      /\ stack' = [stack EXCEPT ![t] = Front(s) \o <<f, h>>]
      /\ UNCHANGED <<log, seqNo, lastFired, busTime>>
  BY DEF Announce, Call
<1>2. /\ s \in Seq(Frames) /\ s # <<>> /\ Top(t) \in Frames /\ FrameSound(Top(t), log, seqNo, lastFired)
      /\ \A i \in 1..Len(s) : i # Len(s) => s[i] \in Frames /\ Below(s[i], Top(t), seqNo, busTime)
  BY <1>1, TopFacts
<1>3. seqNo \in Nat /\ BusTyped
  BY DEF BusInv, BusTyped
<1>4. Tail(Top(t).todo) \in Seq(Triggers)
  BY <1>1, <1>2, HeadIsATrigger DEF FrameSound
<1>5. f \in Frames /\ f.phase = "check" /\ f.seq = Top(t).seq /\ f.id = Top(t).id
  BY <1>1, <1>2, <1>4 DEF Frames, Phases
<1>6. h \in Frames /\ h.phase = "count" /\ h.seq = 0
  BY <1>3, NewFrame
<1> HIDE DEF f, s, h
<1>7. FrameSound(f, log', seqNo', lastFired')
  BY <1>1, <1>2, <1>5 DEF FrameSound
<1>8. \A i \in 1..Len(s) : i # Len(s) => Below(s[i], f, seqNo', busTime')
  BY <1>1, <1>2, <1>5 DEF Below
<1>9. StackSound(s, log', seqNo', busTime', lastFired')
        => StackSound(Front(s) \o <<f, h>>, log', seqNo', busTime', lastFired')
  BY <1>1, <1>2, <1>3, <1>5, <1>6, <1>7, <1>8, TopCallsOn
<1>10. Front(s) \o <<f, h>> \in Seq(Frames)
  BY <1>2, <1>5, <1>6, TopCalls
<1>11. TimeGoesOn
  BY <1>1, <1>3 DEF BusTyped, TimeGoesOn
<1>12. QED
  BY <1>1, <1>9, <1>10, <1>11, OneStackMoves DEF s

LEMMA ReturnStep == ASSUME BusInv, NEW t \in Threads, Return(t) PROVE BusInv'
<1> DEFINE s == stack[t]
           u == Front(s)
<1>1. Busy(t) /\ stack' = [stack EXCEPT ![t] = u] /\ UNCHANGED <<log, seqNo, lastFired, busTime, nextId>>
  BY DEF Return
<1>2. s \in Seq(Frames) /\ s # <<>>
  BY <1>1, TopFacts
<1>3. u \in Seq(Frames) /\ Len(u) = Len(s) - 1 /\ \A i \in 1..(Len(s) - 1) : u[i] = s[i]
  BY <1>2, FrontFacts
<1> HIDE DEF s, u
<1>4. StackSound(s, log', seqNo', busTime', lastFired') => StackSound(u, log', seqNo', busTime', lastFired')
  <2>1. \A i \in 1..Len(u) : i \in 1..Len(s) /\ u[i] = s[i]
    BY <1>2, <1>3
  <2>2. QED
    BY <2>1 DEF StackSound
<1>5. TimeGoesOn
  BY <1>1 DEF BusInv, BusTyped, TimeGoesOn
<1>6. QED
  BY <1>1, <1>3, <1>4, <1>5, OneStackMoves DEF s

LEMMA BusTickStep == ASSUME BusInv, BusTick PROVE BusInv'
<1>1. busTime' = busTime + 1 /\ UNCHANGED <<log, seqNo, stack, lastFired, nextId>>
  BY DEF BusTick
<1>2. BusTyped /\ StacksSound
  BY DEF BusInv
<1>3. TimeGoesOn
  BY <1>1, <1>2 DEF BusTyped, TimeGoesOn
<1>4. \A q \in Threads : StackSound(stack[q], log', seqNo', busTime', lastFired')
  <2>1. \A q \in Threads : stack[q] \in Seq(Frames)
    BY <1>2 DEF BusTyped
  <2>2. QED
    BY <1>2, <1>3, <2>1, Later DEF StacksSound
<1>5. BusTyped'
  BY <1>1, <1>2, <1>3 DEF BusTyped, TimeGoesOn
<1>6. QED
  BY <1>1, <1>4, <1>5 DEF BusInv, StacksSound

LEMMA EmptyStacks ==
  ASSUME stack = [t \in Threads |-> <<>>]
  PROVE  stack \in [Threads -> Seq(Frames)] /\ StacksSound
  BY DEF StacksSound, StackSound

LEMMA BusCrashStep == ASSUME BusInv, BusCrash PROVE BusInv'
<1>1. /\ seqNo' = 0 /\ stack' = [t \in Threads |-> <<>>] /\ lastFired' = [g \in Triggers |-> 0]
      /\ UNCHANGED <<log, busTime, nextId>>
  BY DEF BusCrash
<1>2. StacksSound'
  BY <1>1 DEF StacksSound, StackSound
<1>3. BusTyped'
  BY <1>1 DEF BusInv, BusTyped
<1>4. QED
  BY <1>2, <1>3 DEF BusInv

LEMMA BusInitially == BusInit => BusInv
<1> SUFFICES ASSUME BusInit PROVE BusInv
  OBVIOUS
<1>1. StacksSound
  BY DEF BusInit, StacksSound, StackSound
<1>2. BusTyped
  BY BusAssumption DEF BusInit, BusTyped
<1>3. QED
  BY <1>1, <1>2 DEF BusInv

LEMMA BusStep == BusInv /\ [BusNext]_busVars => BusInv'
<1> SUFFICES ASSUME BusInv, [BusNext]_busVars PROVE BusInv'
  OBVIOUS
<1>1. ASSUME NEW t \in Threads, EmitOutside(t) \/ EmitStep(t) PROVE BusInv'
  BY <1>1, EmitOutsideStep, CountStep, NumberStep, WriteStep, CheckStep, FireStep, AnnounceStep,
     ReturnStep DEF EmitStep
<1>2. CASE BusTick \/ BusCrash
  BY <1>2, BusTickStep, BusCrashStep
<1>3. CASE UNCHANGED busVars
  BY <1>3 DEF busVars, BusInv, BusTyped, StacksSound
<1>4. QED
  BY <1>1, <1>2, <1>3 DEF BusNext

LEMMA StacksTell == BusInv => BusIsSound
<1> SUFFICES ASSUME BusInv PROVE BusIsSound
  OBVIOUS
<1>1. ASSUME NEW t \in Threads
      PROVE  stack[t] \in Seq(Frames) /\ StackSound(stack[t], log, seqNo, busTime, lastFired)
  BY DEF BusInv, BusTyped, StacksSound
<1>2. NoTriggerStorm
  <2>1. SUFFICES ASSUME NEW t \in Threads, NEW i \in DOMAIN stack[t], NEW k \in DOMAIN stack[t], i < k,
                        stack[t][i].phase = "announce", stack[t][k].phase = "announce",
                        Head(stack[t][i].todo) = Head(stack[t][k].todo)
                 PROVE  stack[t][k].since - stack[t][i].since >= Throttle
    BY DEF NoTriggerStorm
  <2>2. Below(stack[t][i], stack[t][k], seqNo, busTime)
    BY <1>1, <2>1 DEF StackSound
  <2>3. QED
    BY <2>1, <2>2 DEF Below
<1>3. CauseBeforeEffect
  <2>1. SUFFICES ASSUME NEW t \in Threads, NEW i \in 1..(Len(stack[t]) - 1)
                 PROVE  /\ stack[t][i].id \in log
                        /\ stack[t][i + 1].seq # 0 => stack[t][i].seq < stack[t][i + 1].seq
    BY DEF CauseBeforeEffect
  <2>2. i \in 1..Len(stack[t]) /\ i + 1 \in 1..Len(stack[t]) /\ i < i + 1
    BY <1>1
  <2>3. /\ Below(stack[t][i], stack[t][i + 1], seqNo, busTime)
        /\ FrameSound(stack[t][i], log, seqNo, lastFired)
    BY <1>1, <2>2 DEF StackSound
  <2>4. QED
    BY <2>3 DEF Below, FrameSound
<1>4. QED
  BY <1>2, <1>3 DEF BusIsSound

(* However threads and triggers emit inside one another (EventBus.emit,    *)
(* event_bus.py:59), with crashes in between: an event that is being       *)
(* delivered is in the log, with a smaller number than what its delivery   *)
(* emits, and a trigger in whose firing it fires again has let its         *)
(* throttle pass.                                                          *)
THEOREM BusSound == BusSpec => []BusIsSound
<1>1. BusInit => BusInv
  BY BusInitially
<1>2. BusInv /\ [BusNext]_busVars => BusInv'
  BY BusStep
<1>3. BusInv => BusIsSound
  BY StacksTell
<1>4. QED
  BY <1>1, <1>2, <1>3, PTL DEF BusSpec

-----------------------------------------------------------------------------
(* The conversations of actors (ActorProtocol).                            *)

Messages == [type : MessageTypes, conv : 1..MaxMessages, replyTo : Nat, inside : BOOLEAN]
Sends    == [msg : Nat, next : Nat, running : BOOLEAN]
Sent     == 1..Len(messageLog)

ActorTyped ==
  /\ messageLog \in Seq(Messages) /\ Len(messageLog) <= MaxMessages
  /\ sends \in Seq(Sends)
  /\ handlersOf \in [MessageTypes -> Seq(Handlers)]
  /\ conversation \in [1..MaxMessages -> Seq(Nat)]
  /\ heard \in Seq(Seq(Handlers)) /\ Len(heard) = Len(messageLog)
  /\ due \in Seq(Seq(Handlers)) /\ Len(due) = Len(messageLog)

(* The sends in progress are those of messages in the log, the later ones  *)
(* inside the earlier ones.                                                *)
SendsNested ==
  /\ \A i \in 1..Len(sends) : sends[i].msg \in Sent /\ sends[i].next # 0
  /\ \A i, k \in 1..Len(sends) : i < k => sends[i].msg < sends[k].msg

(* A reply belongs to the conversation of its original; it is sent inside  *)
(* the original's delivery, and then ends first, or after it is over.      *)
RepliesBelong ==
  /\ \A m \in Sent : messageLog[m].replyTo \in 0..(m - 1)
  /\ \A m, o \in Sent : messageLog[m].replyTo = o =>
       /\ messageLog[m].conv = messageLog[o].conv
       /\ InProgress(m) /\ messageLog[m].inside => InProgress(o)
       /\ ~messageLog[m].inside => ~InProgress(o)

(* A conversation holds the messages of its own that are delivered, once.  *)
ConversationsHold ==
  /\ \A c \in 1..MaxMessages : \A i \in 1..Len(conversation[c]) :
       /\ conversation[c][i] \in Sent /\ messageLog[conversation[c][i]].conv = c
       /\ \A k \in 1..Len(conversation[c]) : conversation[c][i] = conversation[c][k] => i = k
       /\ \A m \in Sent : conversation[c][i] = m => ~InProgress(m)
  /\ \A m \in Sent : ~InProgress(m) =>
       \E i \in 1..Len(conversation[messageLog[m].conv]) : conversation[messageLog[m].conv][i] = m

(* During its delivery the first handlers of a message have heard of it,   *)
(* and those it was due to are still at the head of the list.              *)
HearsInTurn(m, next) ==
  LET list == handlersOf[messageLog[m].type]
  IN  /\ Len(due[m]) <= Len(list) /\ \A j \in 1..Len(due[m]) : due[m][j] = list[j]
      /\ next <= Len(list) + 1 /\ Len(heard[m]) = next - 1
      /\ \A j \in 1..(next - 1) : heard[m][j] = list[j]

Hearing ==
  \A i \in 1..Len(sends), m \in Sent, next \in Nat :
    sends[i].msg = m /\ sends[i].next = next /\ m \notin unsubscribed => HearsInTurn(m, next)

ActorInv ==
  /\ ActorTyped /\ SendsNested /\ RepliesBelong /\ ConversationsHold
  /\ RepliesStandInOrder /\ Hearing /\ EveryHandlerHears

LEMMA ActorInitially == ActorInit => ActorInv
<1> SUFFICES ASSUME ActorInit PROVE ActorInv
  OBVIOUS
<1>1. ActorTyped
  BY ActorAssumption DEF ActorInit, ActorTyped
<1>2. SendsNested /\ RepliesBelong /\ ConversationsHold /\ Hearing
  BY DEF ActorInit, SendsNested, RepliesBelong, ConversationsHold, Hearing, Sent
<1>3. RepliesStandInOrder /\ EveryHandlerHears
  BY DEF ActorInit, RepliesStandInOrder, EveryHandlerHears
<1>4. QED
  BY <1>1, <1>2, <1>3 DEF ActorInv

(* A message that is sent belongs to a conversation.                       *)
Proper(message) ==
  /\ message.type \in MessageTypes /\ message.conv \in 1..MaxMessages
  /\ message.replyTo \in Nat /\ message.inside \in BOOLEAN /\ message \in Messages
  /\ message.replyTo # 0 =>
       /\ message.replyTo \in Sent /\ message.conv = messageLog[message.replyTo].conv
       /\ message.inside <=> InProgress(message.replyTo)

LEMMA SendStep ==
  ASSUME ActorInv, NEW message, Proper(message), Send(message)
  PROVE  ActorInv'
<1>0. /\ ActorTyped /\ SendsNested /\ RepliesBelong /\ ConversationsHold
      /\ RepliesStandInOrder /\ Hearing /\ EveryHandlerHears
  BY DEF ActorInv
<1> DEFINE n == Len(messageLog) + 1
           s == [msg |-> n, next |-> 1, running |-> FALSE]
           h == handlersOf[message.type]
<1>1. /\ n <= MaxMessages /\ messageLog' = Append(messageLog, message)
      /\ heard' = Append(heard, <<>>) /\ due' = Append(due, h)
      /\ UNCHANGED <<handlersOf, conversation, unsubscribed>>
  BY <1>0, ActorAssumption DEF Send, ActorTyped
<1>2. /\ messageLog' \in Seq(Messages) /\ Len(messageLog') = n /\ messageLog'[n] = message
      /\ \A m \in Sent : messageLog'[m] = messageLog[m]
      /\ n \in 1..MaxMessages /\ n \notin Sent /\ \A m \in 1..n : m = n \/ m \in Sent
  BY <1>0, <1>1, ActorAssumption, SMTT(20) DEF ActorTyped, Proper, Sent
<1>3. h \in Seq(Handlers) /\ <<>> \in Seq(Handlers)
  BY <1>0 DEF ActorTyped, Proper
<1>4. /\ s \in Sends /\ s.msg = n /\ s.next = 1 /\ sends' = Append(sends, s)
  <2>1. n \in Nat /\ Len(messageLog') = n
    BY <1>2
  <2>2. sends' = Append(sends, s)
    BY <2>1 DEF Send
  <2>3. QED
    BY <2>1, <2>2 DEF Sends
<1> HIDE DEF s, h
<1>5. /\ sends' \in Seq(Sends) /\ Len(sends') = Len(sends) + 1 /\ sends'[Len(sends) + 1] = s
      /\ \A i \in 1..Len(sends) : sends'[i] = sends[i]
      /\ Len(sends) \in Nat
      /\ \A i \in 1..(Len(sends) + 1) : i = Len(sends) + 1 \/ i \in 1..Len(sends)
  BY <1>0, <1>4 DEF ActorTyped
<1>6. /\ heard' \in Seq(Seq(Handlers)) /\ Len(heard') = n /\ heard'[n] = <<>>
      /\ \A m \in Sent : heard'[m] = heard[m]
  BY <1>0, <1>1, <1>3 DEF ActorTyped, Sent
<1>7. /\ due' \in Seq(Seq(Handlers)) /\ Len(due') = n /\ due'[n] = h
      /\ \A m \in Sent : due'[m] = due[m]
  BY <1>0, <1>1, <1>3 DEF ActorTyped, Sent
<1>8. /\ Sent' = Sent \cup {n} /\ n \in Nat \ {0} /\ \A m \in Sent : m < n /\ m \in Nat \ {0}
  BY <1>0, <1>2 DEF Sent, ActorTyped
<1> HIDE DEF n
<1>9. \A m \in Sent : InProgress(m)' <=> InProgress(m)
  <2>1. DOMAIN sends = 1..Len(sends) /\ DOMAIN sends' = 1..(Len(sends) + 1)
    BY <1>0, <1>5 DEF ActorTyped
  <2>2. \A i \in 1..(Len(sends) + 1) : sends'[i].msg = n \/ (i \in 1..Len(sends) /\ sends'[i].msg = sends[i].msg)
    BY <1>4, <1>5
  <2>3. \A m \in Sent : m # n
    BY <1>2
  <2>4. \A i \in 1..Len(sends) : i \in 1..(Len(sends) + 1) /\ sends'[i].msg = sends[i].msg
    BY <1>5
  <2>5. QED
    BY <2>1, <2>2, <2>3, <2>4 DEF InProgress
<1>10. \A m : m = n => InProgress(m)'
  BY <1>4, <1>5 DEF InProgress
<1>11. ActorTyped'
  BY <1>0, <1>1, <1>2, <1>5, <1>6, <1>7 DEF ActorTyped
<1>12. SendsNested'
  <2>1. \A i \in 1..Len(sends) : sends[i].msg \in Sent /\ sends[i].next # 0
    BY <1>0 DEF SendsNested
  <2>2. \A i \in 1..Len(sends') : sends'[i].msg \in Sent' /\ sends'[i].next # 0
    BY <1>4, <1>5, <1>8, <2>1
  <2>3. \A i, k \in 1..Len(sends') : i < k => sends'[i].msg < sends'[k].msg
    BY <1>0, <1>4, <1>5, <1>8, <2>1 DEF SendsNested
  <2>4. QED
    BY <2>2, <2>3 DEF SendsNested
<1>13. RepliesBelong'
  <2>1. ASSUME NEW m \in Sent' PROVE messageLog'[m].replyTo \in 0..(m - 1)
    <3>1. CASE m = n
      BY <1>2, <1>8, <3>1 DEF Proper
    <3>2. CASE m \in Sent
      BY <1>0, <1>2, <3>2 DEF RepliesBelong
    <3>3. QED
      BY <1>8, <2>1, <3>1, <3>2
  <2>2. ASSUME NEW m \in Sent', NEW o \in Sent', messageLog'[m].replyTo = o
        PROVE  /\ messageLog'[m].conv = messageLog'[o].conv
               /\ InProgress(m)' /\ messageLog'[m].inside => InProgress(o)'
               /\ ~messageLog'[m].inside => ~InProgress(o)'
    <3>1. CASE m = n
      <4>1. message.replyTo = o /\ o # 0
        BY <1>2, <1>8, <2>2, <3>1
      <4>2. o \in Sent /\ message.conv = messageLog[o].conv /\ (message.inside <=> InProgress(o))
        BY <4>1 DEF Proper
      <4>3. QED
        BY <1>2, <1>9, <3>1, <4>2
    <3>2. CASE m \in Sent
      <4>1. messageLog[m].replyTo = o /\ o \in 0..(m - 1)
        BY <1>0, <1>2, <2>2, <3>2 DEF RepliesBelong
      <4>2. o \in Sent
        BY <1>8, <3>2, <4>1
      <4>3. QED
        BY <1>0, <1>2, <1>9, <3>2, <4>1, <4>2 DEF RepliesBelong
    <3>3. QED
      BY <1>8, <3>1, <3>2
  <2>3. QED
    BY <2>1, <2>2 DEF RepliesBelong
<1>14. ConversationsHold'
  <2>1. ASSUME NEW c \in 1..MaxMessages, NEW i \in 1..Len(conversation[c])
        PROVE  /\ conversation[c][i] \in Sent /\ messageLog'[conversation[c][i]].conv = c
               /\ \A k \in 1..Len(conversation[c]) : conversation[c][i] = conversation[c][k] => i = k
               /\ \A m \in Sent : conversation[c][i] = m => ~InProgress(m)'
    BY <1>0, <1>2, <1>9 DEF ConversationsHold
  <2>2. ASSUME NEW m \in Sent', ~InProgress(m)'
        PROVE  \E i \in 1..Len(conversation[messageLog'[m].conv]) : conversation[messageLog'[m].conv][i] = m
    <3>1. m \in Sent
      BY <1>8, <1>10, <2>2
    <3>2. QED
      BY <1>0, <1>2, <1>9, <2>2, <3>1 DEF ConversationsHold
  <2>3. ASSUME NEW c \in 1..MaxMessages, NEW i \in 1..Len(conversation[c]), NEW m \in Sent', conversation[c][i] = m
        PROVE  ~InProgress(m)'
    BY <2>1, <2>3
  <2>4. \A c \in 1..MaxMessages : \A i \in 1..Len(conversation[c]) :
          /\ conversation[c][i] \in Sent' /\ messageLog'[conversation[c][i]].conv = c
          /\ \A k \in 1..Len(conversation[c]) : conversation[c][i] = conversation[c][k] => i = k
    BY <1>8, <2>1
  <2>5. \A c \in 1..MaxMessages : \A i \in 1..Len(conversation'[c]) :
          /\ conversation'[c][i] \in Sent' /\ messageLog'[conversation'[c][i]].conv = c
          /\ \A k \in 1..Len(conversation'[c]) : conversation'[c][i] = conversation'[c][k] => i = k
          /\ \A m \in Sent' : conversation'[c][i] = m => ~InProgress(m)'
    <3>1. conversation' = conversation
      BY <1>1
    <3>2. QED
      BY <3>1, <2>3, <2>4
  <2>6. \A m \in Sent' : ~InProgress(m)' =>
          \E i \in 1..Len(conversation'[messageLog'[m].conv]) : conversation'[messageLog'[m].conv][i] = m
    BY <1>1, <2>2
  <2>7. QED
    BY <2>5, <2>6 DEF ConversationsHold
<1>15. RepliesStandInOrder'
  <2>1. SUFFICES ASSUME NEW c \in DOMAIN conversation, NEW i \in DOMAIN conversation[c], NEW k \in DOMAIN conversation[c],
                        messageLog'[conversation[c][k]].replyTo = conversation[c][i]
                 PROVE  (k < i) = messageLog'[conversation[c][k]].inside
    BY <1>1 DEF RepliesStandInOrder
  <2>2. c \in 1..MaxMessages /\ k \in 1..Len(conversation[c])
    BY <1>0 DEF ActorTyped
  <2>3. conversation[c][k] \in Sent
    BY <1>0, <2>2 DEF ConversationsHold
  <2>4. QED
    BY <1>0, <1>2, <2>1, <2>3 DEF RepliesStandInOrder
<1>16. Hearing'
  <2>1. SUFFICES ASSUME NEW i \in 1..Len(sends'), NEW m \in Sent', NEW next \in Nat,
                        sends'[i].msg = m, sends'[i].next = next, m \notin unsubscribed
                 PROVE  HearsInTurn(m, next)'
    BY <1>1 DEF Hearing
  <2>2. CASE i = Len(sends) + 1
    <3>1. m = n /\ next = 1 /\ messageLog'[m] = message /\ due'[m] = h /\ heard'[m] = <<>>
      BY <1>2, <1>4, <1>5, <1>6, <1>7, <2>1, <2>2
    <3>2. handlersOf'[messageLog'[m].type] = h
      BY <1>1, <3>1 DEF h
    <3>3. Len(h) \in Nat
      BY <1>3
    <3>4. QED
      BY <3>1, <3>2, <3>3 DEF HearsInTurn
  <2>3. CASE i \in 1..Len(sends)
    <3>1. m \in Sent /\ sends[i].msg = m /\ sends[i].next = next
      BY <1>0, <1>5, <2>1, <2>3 DEF SendsNested
    <3>2. HearsInTurn(m, next)
      BY <1>0, <2>1, <2>3, <3>1 DEF Hearing
    <3>3. /\ messageLog'[m] = messageLog[m] /\ heard'[m] = heard[m] /\ due'[m] = due[m]
          /\ handlersOf' = handlersOf
      BY <1>1, <1>2, <1>6, <1>7, <3>1
    <3>4. QED
      BY <3>2, <3>3 DEF HearsInTurn
  <2>4. QED
    BY <1>5, <2>2, <2>3
<1>17. EveryHandlerHears'
  <2>1. SUFFICES ASSUME NEW m \in DOMAIN messageLog', m \notin unsubscribed, ~InProgress(m)'
                 PROVE  IsPrefix(due'[m], heard'[m])
    BY <1>1 DEF EveryHandlerHears
  <2>2. m \in Sent /\ m \in DOMAIN messageLog
    BY <1>0, <1>2, <1>8, <1>10, <2>1 DEF ActorTyped, Sent
  <2>3. IsPrefix(due[m], heard[m])
    BY <1>0, <1>9, <2>1, <2>2 DEF EveryHandlerHears
  <2>4. QED
    BY <1>6, <1>7, <2>2, <2>3
<1>18. QED
  BY <1>11, <1>12, <1>13, <1>14, <1>15, <1>16, <1>17 DEF ActorInv

(* Nothing is sent and nothing delivered.                                  *)
LEMMA NothingMoves ==
  ASSUME ActorInv, UNCHANGED <<messageLog, conversation>>, sends' \in Seq(Sends), Len(sends') = Len(sends),
         \A i \in 1..Len(sends) : sends'[i].msg = sends[i].msg /\ sends'[i].next # 0
  PROVE  /\ SendsNested' /\ RepliesBelong' /\ ConversationsHold' /\ RepliesStandInOrder'
         /\ Sent' = Sent /\ \A m : InProgress(m)' <=> InProgress(m)
<1>1. DOMAIN sends = 1..Len(sends) /\ DOMAIN sends' = 1..Len(sends)
  BY DEF ActorInv, ActorTyped
<1>2. \A m : InProgress(m)' <=> InProgress(m)
  BY <1>1 DEF InProgress
<1>3. Sent' = Sent
  BY DEF Sent
<1>4. SendsNested'
  BY <1>3 DEF ActorInv, SendsNested
<1>5. RepliesBelong'
  BY <1>2, <1>3 DEF ActorInv, RepliesBelong
<1>6. ConversationsHold'
  BY <1>2, <1>3 DEF ActorInv, ConversationsHold
<1>7. RepliesStandInOrder'
  BY DEF ActorInv, RepliesStandInOrder
<1>8. QED
  BY <1>2, <1>3, <1>4, <1>5, <1>6, <1>7

(* The send at the top, and the handlers of its message.                   *)
LEMMA CurrentFacts ==
  ASSUME ActorInv, Sending
  PROVE  LET m == Current.msg
         IN  /\ Len(sends) \in 1..Len(sends) /\ Current = sends[Len(sends)] /\ Current \in Sends
             /\ m \in Sent /\ InProgress(m) /\ messageLog[m].type \in MessageTypes
             /\ messageLog[m].conv \in 1..MaxMessages
             /\ HandlersFor(m) = handlersOf[messageLog[m].type] /\ HandlersFor(m) \in Seq(Handlers)
             /\ Current.next \in Nat \ {0}
             /\ \A mm, nn : mm = m /\ nn = Current.next /\ mm \notin unsubscribed => HearsInTurn(mm, nn)
             /\ \A i \in 1..Len(sends) : i # Len(sends) => sends[i].msg < m
<1> DEFINE m == Current.msg
<1>0. ActorTyped /\ SendsNested /\ Hearing
  BY DEF ActorInv
<1>1. Len(sends) \in 1..Len(sends) /\ Current = sends[Len(sends)] /\ DOMAIN sends = 1..Len(sends)
  BY <1>0 DEF Sending, Current, Last, ActorTyped
<1>2. Current \in Sends /\ m \in Sent /\ Current.next # 0
  BY <1>0, <1>1 DEF ActorTyped, SendsNested
<1>3. Current.next \in Nat \ {0} /\ InProgress(m)
  BY <1>1, <1>2 DEF Sends, InProgress
<1>4. messageLog[m] \in Messages
  BY <1>0, <1>2 DEF ActorTyped, Sent
<1>5. messageLog[m].type \in MessageTypes /\ messageLog[m].conv \in 1..MaxMessages
  BY <1>4 DEF Messages
<1>6. HandlersFor(m) = handlersOf[messageLog[m].type] /\ HandlersFor(m) \in Seq(Handlers)
  BY <1>0, <1>5 DEF HandlersFor, ActorTyped
<1>7. \A mm, nn : mm = m /\ nn = Current.next /\ mm \notin unsubscribed => HearsInTurn(mm, nn)
  <2>1. ASSUME NEW mm, NEW nn, mm = Current.msg, nn = Current.next, mm \notin unsubscribed
        PROVE  HearsInTurn(mm, nn)
    <3>1. /\ Len(sends) \in 1..Len(sends) /\ mm \in Sent /\ nn \in Nat
          /\ sends[Len(sends)].msg = mm /\ sends[Len(sends)].next = nn
      BY <1>1, <1>2, <1>3, <2>1
    <3>2. QED
      BY <1>0, <2>1, <3>1 DEF Hearing
  <2>2. QED
    BY <2>1
<1>8. \A i \in 1..Len(sends) : i # Len(sends) => sends[i].msg < m
  <2>1. \A i \in 1..Len(sends) : i # Len(sends) => i < Len(sends)
    BY <1>0 DEF ActorTyped
  <2>2. QED
    BY <1>0, <1>1, <2>1 DEF SendsNested
<1>9. QED
  BY <1>1, <1>2, <1>3, <1>5, <1>6, <1>7, <1>8

LEMMA CallHandlerStep == ASSUME ActorInv, CallHandler PROVE ActorInv'
<1>0. /\ ActorTyped /\ SendsNested /\ Hearing /\ EveryHandlerHears
  BY DEF ActorInv
<1> DEFINE m0 == Current.msg
           n0 == Current.next
           L  == Len(sends)
           list == handlersOf[messageLog[m0].type]
<1>1. /\ Sending /\ n0 <= Len(HandlersFor(m0))
      /\ heard' = [heard EXCEPT ![m0] = Append(@, HandlersFor(m0)[n0])]
      /\ sends' = [sends EXCEPT ![L].next = @ + 1, ![L].running = TRUE]
      /\ UNCHANGED <<messageLog, handlersOf, conversation, due, unsubscribed>>
  BY DEF CallHandler
<1>2. /\ L \in 1..L /\ Current = sends[L] /\ Current \in Sends /\ m0 \in Sent /\ InProgress(m0)
      /\ HandlersFor(m0) = list /\ list \in Seq(Handlers) /\ n0 \in Nat \ {0}
      /\ \A mm, nn : mm = m0 /\ nn = n0 /\ mm \notin unsubscribed => HearsInTurn(mm, nn)
      /\ \A i \in 1..L : i # L => sends[i].msg < m0
  BY <1>1, CurrentFacts
<1>3. /\ sends' \in Seq(Sends) /\ Len(sends') = L /\ sends'[L].msg = m0 /\ sends'[L].next = n0 + 1
      /\ \A i \in 1..L : i # L => sends'[i] = sends[i]
  <2>1. sends \in Seq(Sends)
    BY <1>0 DEF ActorTyped
  <2> DEFINE r == [sends[L] EXCEPT !.next = @ + 1]
             s == [r EXCEPT !.running = TRUE]
  <2>2. s \in Sends /\ s.msg = m0 /\ s.next = n0 + 1
    <3>1. sends[L] \in Sends /\ sends[L].msg = m0 /\ sends[L].next = n0 /\ n0 \in Nat
      BY <1>2
    <3> HIDE DEF m0, n0
    <3>2. r \in Sends /\ r.msg = m0 /\ r.next = n0 + 1
      BY <3>1 DEF Sends
    <3> HIDE DEF r
    <3>3. QED
      BY <3>2 DEF Sends
  <2>3. sends' = [sends EXCEPT ![L] = s]
    BY <1>1, <1>2, <2>1
  <2> HIDE DEF s
  <2>4. QED
    BY <1>2, <2>1, <2>2, <2>3
<1>4. n0 \in 1..Len(list) /\ list[n0] \in Handlers
  BY <1>1, <1>2
<1>5. /\ heard' \in Seq(Seq(Handlers)) /\ Len(heard') = Len(heard)
      /\ heard'[m0] = Append(heard[m0], list[n0]) /\ \A m \in Sent : m # m0 => heard'[m] = heard[m]
      /\ heard[m0] \in Seq(Handlers)
  <2>1. heard \in Seq(Seq(Handlers)) /\ DOMAIN heard = Sent /\ heard[m0] \in Seq(Handlers)
    BY <1>0, <1>2 DEF ActorTyped, Sent
  <2> DEFINE v == Append(heard[m0], list[n0])
  <2>2. v \in Seq(Handlers) /\ heard' = [heard EXCEPT ![m0] = v]
    BY <1>1, <1>2, <1>4, <2>1
  <2> HIDE DEF v
  <2>3. QED
    BY <1>2, <2>1, <2>2, SMTT(20) DEF v
<1>6. ActorTyped'
  BY <1>0, <1>1, <1>3, <1>5 DEF ActorTyped
<1>7. /\ SendsNested' /\ RepliesBelong' /\ ConversationsHold' /\ RepliesStandInOrder'
      /\ Sent' = Sent /\ \A m : InProgress(m)' <=> InProgress(m)
  <2>1. \A i \in 1..L : sends'[i].msg = sends[i].msg /\ sends'[i].next # 0
    BY <1>0, <1>2, <1>3 DEF SendsNested
  <2>2. QED
    BY <1>1, <1>3, <2>1, NothingMoves
<1>8. Hearing'
  <2>1. SUFFICES ASSUME NEW i \in 1..L, NEW m \in Sent, NEW next \in Nat,
                        sends'[i].msg = m, sends'[i].next = next, m \notin unsubscribed
                 PROVE  HearsInTurn(m, next)'
    BY <1>1, <1>3, <1>7 DEF Hearing
  <2>2. CASE i = L
    <3>1. m = m0 /\ next = n0 + 1
      BY <1>3, <2>1, <2>2
    <3> HIDE DEF m0, n0
    <3>2. /\ Len(due[m0]) <= Len(list) /\ \A j \in 1..Len(due[m0]) : due[m0][j] = list[j]
          /\ Len(heard[m0]) = n0 - 1 /\ \A j \in 1..(n0 - 1) : heard[m0][j] = list[j]
      BY <1>2, <2>1, <3>1 DEF HearsInTurn
    <3>3. /\ Len(heard'[m0]) = n0 /\ heard'[m0][n0] = list[n0]
          /\ \A j \in 1..(n0 - 1) : heard'[m0][j] = heard[m0][j]
      <4> DEFINE told == heard[m0]
      <4>1. told \in Seq(Handlers) /\ Len(told) = n0 - 1 /\ n0 \in Nat \ {0}
        BY <1>2, <1>5, <3>2
      <4>2. heard'[m0] = Append(told, list[n0])
        BY <1>5
      <4> HIDE DEF told
      <4>3. /\ Len(Append(told, list[n0])) = n0 /\ Append(told, list[n0])[n0] = list[n0]
            /\ \A j \in 1..(n0 - 1) : Append(told, list[n0])[j] = told[j]
        BY <4>1
      <4>4. QED
        BY <4>2, <4>3 DEF told
    <3>4. \A j \in 1..n0 : heard'[m0][j] = list[j]
      <4>1. \A j \in 1..n0 : j = n0 \/ j \in 1..(n0 - 1)
        BY <1>2
      <4>2. QED
        BY <3>2, <3>3, <4>1
    <3>5. n0 + 1 <= Len(list) + 1 /\ n0 + 1 - 1 = n0
      BY <1>2, <1>4
    <3>6. QED
      BY <1>1, <3>1, <3>2, <3>3, <3>4, <3>5, SMTT(20) DEF HearsInTurn
  <2>3. CASE i # L
    <3>1. sends[i].msg = m /\ sends[i].next = next
      BY <1>3, <2>1, <2>3
    <3>2. m # m0
      BY <1>2, <2>3, <3>1 DEF Sent
    <3>3. HearsInTurn(m, next)
      BY <1>0, <2>1, <3>1 DEF Hearing
    <3>4. QED
      BY <1>1, <1>5, <2>1, <3>2, <3>3 DEF HearsInTurn
  <2>4. QED
    BY <2>2, <2>3
<1>9. EveryHandlerHears'
  <2>1. SUFFICES ASSUME NEW m \in DOMAIN messageLog, m \notin unsubscribed, ~InProgress(m)
                 PROVE  IsPrefix(due[m], heard'[m])
    BY <1>1, <1>7 DEF EveryHandlerHears
  <2>2. m \in Sent /\ m # m0
    BY <1>0, <1>2, <2>1 DEF ActorTyped, Sent
  <2>3. QED
    BY <1>0, <1>5, <2>1, <2>2 DEF EveryHandlerHears
<1>10. QED
  BY <1>6, <1>7, <1>8, <1>9 DEF ActorInv

LEMMA HandlerEndsStep == ASSUME ActorInv, HandlerEnds PROVE ActorInv'
<1>0. /\ ActorTyped /\ SendsNested /\ Hearing /\ EveryHandlerHears
  BY DEF ActorInv
<1> DEFINE L  == Len(sends)
<1>1. /\ Sending /\ sends' = [sends EXCEPT ![L].running = FALSE]
      /\ UNCHANGED <<messageLog, handlersOf, conversation, heard, due, unsubscribed>>
  BY DEF HandlerEnds, Running
<1>2. L \in 1..L /\ sends[L] \in Sends
  BY <1>1, CurrentFacts
<1>3. /\ sends' \in Seq(Sends) /\ Len(sends') = L
      /\ \A i \in 1..L : sends'[i].msg = sends[i].msg /\ sends'[i].next = sends[i].next
  <2>1. sends \in Seq(Sends)
    BY <1>0 DEF ActorTyped
  <2> DEFINE s == [sends[L] EXCEPT !.running = FALSE]
  <2>2. s \in Sends /\ s.msg = sends[L].msg /\ s.next = sends[L].next
    BY <1>2 DEF Sends
  <2>3. sends' = [sends EXCEPT ![L] = s]
    BY <1>1, <1>2, <2>1
  <2> HIDE DEF s
  <2>4. QED
    BY <1>2, <2>1, <2>2, <2>3
<1>4. ActorTyped'
  BY <1>0, <1>1, <1>3 DEF ActorTyped
<1>5. /\ SendsNested' /\ RepliesBelong' /\ ConversationsHold' /\ RepliesStandInOrder'
      /\ Sent' = Sent /\ \A m : InProgress(m)' <=> InProgress(m)
  <2>1. \A i \in 1..L : sends'[i].msg = sends[i].msg /\ sends'[i].next # 0
    BY <1>0, <1>3 DEF SendsNested
  <2>2. QED
    BY <1>1, <1>3, <2>1, NothingMoves
<1>6. Hearing'
  <2>1. \A m \in Sent, next \in Nat : HearsInTurn(m, next)' <=> HearsInTurn(m, next)
    BY <1>1 DEF HearsInTurn
  <2>2. QED
    BY <1>0, <1>1, <1>3, <1>5, <2>1 DEF Hearing
<1>7. EveryHandlerHears'
  BY <1>0, <1>1, <1>5 DEF EveryHandlerHears
<1>8. QED
  BY <1>4, <1>5, <1>6, <1>7 DEF ActorInv

(* A sequence that agrees with another as far as it goes is its prefix.    *)
LEMMA PrefixPointwise ==
  ASSUME NEW S, NEW p \in Seq(S), NEW q \in Seq(S), Len(p) <= Len(q), \A j \in 1..Len(p) : p[j] = q[j]
  PROVE  IsPrefix(p, q)
<1>1. /\ SubSeq(q, 1, Len(p)) \in Seq(S) /\ Len(SubSeq(q, 1, Len(p))) = Len(p)
      /\ \A j \in 1..Len(p) : SubSeq(q, 1, Len(p))[j] = q[j]
  OBVIOUS
<1>2. SubSeq(q, 1, Len(p)) = p
  BY <1>1, SeqEqual
<1>3. QED
  BY <1>2 DEF IsPrefix

LEMMA LogFacts ==
  ASSUME ActorTyped, NEW m \in Sent
  PROVE  /\ messageLog[m] \in Messages /\ messageLog[m].type \in MessageTypes /\ messageLog[m].conv \in 1..MaxMessages
         /\ messageLog[m].inside \in BOOLEAN /\ due[m] \in Seq(Handlers) /\ heard[m] \in Seq(Handlers)
<1>1. messageLog[m] \in Messages
  BY DEF ActorTyped, Sent
<1>2. due[m] \in Seq(Handlers) /\ heard[m] \in Seq(Handlers)
  BY DEF ActorTyped, Sent
<1>3. QED
  BY <1>1, <1>2 DEF Messages

LEMMA DeliveredStep == ASSUME ActorInv, Delivered PROVE ActorInv'
<1>0. /\ ActorTyped /\ SendsNested /\ RepliesBelong /\ ConversationsHold
      /\ RepliesStandInOrder /\ Hearing /\ EveryHandlerHears
  BY DEF ActorInv
<1>a. PICK m0, c0, L, told :
        m0 = Current.msg /\ c0 = messageLog[m0].conv /\ L = Len(sends) /\ told = conversation[c0]
  OBVIOUS
<1>1. /\ Sending /\ Current.next > Len(HandlersFor(m0))
      /\ conversation' = [conversation EXCEPT ![c0] = Append(@, m0)]
      /\ sends' = Front(sends)
      /\ UNCHANGED <<messageLog, handlersOf, heard, due, unsubscribed>>
  BY <1>a DEF Delivered
<1>2. /\ L \in 1..L /\ m0 = sends[L].msg /\ m0 \in Sent /\ c0 \in 1..MaxMessages
      /\ \A i \in 1..L : i # L => sends[i].msg < m0
  BY <1>1, <1>a, CurrentFacts
<1>3. /\ sends' \in Seq(Sends) /\ Len(sends') = L - 1
      /\ \A i \in 1..(L - 1) : sends'[i] = sends[i] /\ i \in 1..L /\ i # L
      /\ \A i \in 1..L : i # L => i \in 1..(L - 1)
  <2>1. L \in Nat /\ sends \in Seq(Sends) /\ sends # <<>> /\ Len(sends) = L
    BY <1>0, <1>a, <1>1 DEF ActorTyped, Sending
  <2>2. /\ Front(sends) \in Seq(Sends) /\ Len(Front(sends)) = Len(sends) - 1
        /\ \A i \in 1..(Len(sends) - 1) : Front(sends)[i] = sends[i]
    BY <2>1, FrontFacts
  <2>3. sends' \in Seq(Sends) /\ Len(sends') = L - 1 /\ \A i \in 1..(L - 1) : sends'[i] = sends[i]
    BY <1>1, <2>1, <2>2
  <2>4. QED
    BY <2>1, <2>3
<1>4. \A m : InProgress(m)' <=> InProgress(m) /\ m # m0
  <2>1. DOMAIN sends = 1..L /\ DOMAIN sends' = 1..(L - 1)
    BY <1>0, <1>3, <1>a DEF ActorTyped
  <2>2. \A i \in 1..(L - 1) : sends'[i].msg # m0
    BY <1>2, <1>3 DEF Sent
  <2>3. \A m : InProgress(m) /\ m # m0 => InProgress(m)'
    BY <1>2, <1>3, <2>1 DEF InProgress
  <2>4. \A m : InProgress(m)' => InProgress(m) /\ m # m0
    BY <1>3, <2>1, <2>2 DEF InProgress
  <2>5. QED
    BY <2>3, <2>4, Zenon
<1>5. \A m : m = m0 => InProgress(m)
  <2>1. DOMAIN sends = 1..L
    BY <1>0, <1>a DEF ActorTyped
  <2>2. QED
    BY <1>2, <2>1 DEF InProgress
<1>6. Sent' = Sent /\ m0 \in Nat /\ Sent \subseteq Nat \ {0}
  BY <1>0, <1>1, <1>2 DEF Sent, ActorTyped
<1>7. /\ told \in Seq(Nat) /\ Len(told) \in Nat
      /\ conversation' \in [1..MaxMessages -> Seq(Nat)]
      /\ conversation'[c0] = Append(told, m0)
      /\ \A c \in 1..MaxMessages : c # c0 => conversation'[c] = conversation[c]
  <2>1. /\ conversation \in [1..MaxMessages -> Seq(Nat)] /\ told \in Seq(Nat)
        /\ conversation' = [conversation EXCEPT ![c0] = Append(told, m0)]
    BY <1>0, <1>1, <1>2, <1>a DEF ActorTyped
  <2>2. Append(told, m0) \in Seq(Nat) /\ Len(told) \in Nat
    BY <1>6, <2>1
  <2>3. QED
    BY <1>2, <2>1, <2>2
<1>8. /\ Len(conversation'[c0]) = Len(told) + 1 /\ conversation'[c0][Len(told) + 1] = m0
      /\ \A i \in 1..Len(told) : conversation'[c0][i] = told[i]
      /\ \A i \in 1..(Len(told) + 1) : i = Len(told) + 1 \/ i \in 1..Len(told)
  BY <1>6, <1>7
<1>9. ActorTyped'
  BY <1>0, <1>1, <1>3, <1>7 DEF ActorTyped
<1>10. SendsNested'
  <2>1. \A i \in 1..L : sends[i].msg \in Sent /\ sends[i].next # 0
    BY <1>0, <1>a DEF SendsNested
  <2>2. \A i, k \in 1..L : i < k => sends[i].msg < sends[k].msg
    BY <1>0, <1>a DEF SendsNested
  <2>3. QED
    BY <1>3, <1>6, <2>1, <2>2 DEF SendsNested
<1>11. RepliesBelong'
  <2>1. ASSUME NEW m \in Sent, NEW o \in Sent, messageLog[m].replyTo = o
        PROVE  /\ InProgress(m)' /\ messageLog[m].inside => InProgress(o)'
               /\ ~messageLog[m].inside => ~InProgress(o)'
    <3>1. /\ InProgress(m) /\ messageLog[m].inside => InProgress(o)
          /\ ~messageLog[m].inside => ~InProgress(o)
          /\ o < m
      <4>1. o \in 0..(m - 1) /\ m \in Nat /\ o \in Nat
        BY <1>0, <1>6, <2>1 DEF RepliesBelong
      <4>2. QED
        BY <1>0, <2>1, <4>1 DEF RepliesBelong
    <3>2. InProgress(m) => m <= m0
      <4>1. DOMAIN sends = 1..L
        BY <1>0, <1>a DEF ActorTyped
      <4>2. \A i \in 1..L : sends[i].msg = m => m <= m0
        BY <1>2, <1>6, <2>1
      <4>3. QED
        BY <4>1, <4>2 DEF InProgress
    <3>3. QED
      BY <1>4, <1>6, <3>1, <3>2
  <2>2. QED
    BY <1>0, <1>1, <1>6, <2>1 DEF RepliesBelong
<1>12. \A i \in 1..Len(told) : told[i] \in Sent /\ told[i] # m0
  BY <1>0, <1>2, <1>5, <1>a DEF ConversationsHold
<1>13. ConversationsHold'
  <2>1. ASSUME NEW c \in 1..MaxMessages, NEW i \in 1..Len(conversation'[c])
        PROVE  /\ conversation'[c][i] \in Sent /\ messageLog[conversation'[c][i]].conv = c
               /\ \A k \in 1..Len(conversation'[c]) : conversation'[c][i] = conversation'[c][k] => i = k
               /\ \A m \in Sent : conversation'[c][i] = m => ~InProgress(m)'
    <3>1. CASE c # c0
      <4>1. conversation'[c] = conversation[c]
        BY <1>7, <3>1
      <4>2. i \in 1..Len(conversation[c])
        BY <4>1
      <4>3. /\ conversation[c][i] \in Sent /\ messageLog[conversation[c][i]].conv = c
            /\ \A k \in 1..Len(conversation[c]) : conversation[c][i] = conversation[c][k] => i = k
            /\ \A m \in Sent : conversation[c][i] = m => ~InProgress(m)
        BY <1>0, <4>2 DEF ConversationsHold
      <4>4. QED
        BY <1>4, <4>1, <4>3
    <3>2. CASE c = c0
      <4>1. /\ \A j \in 1..Len(told) : /\ told[j] \in Sent /\ messageLog[told[j]].conv = c0
                                       /\ \A k \in 1..Len(told) : told[j] = told[k] => j = k
                                       /\ \A m \in Sent : told[j] = m => ~InProgress(m)
        BY <1>0, <1>2, <1>a DEF ConversationsHold
      <4>2. messageLog[m0].conv = c0 /\ m0 \in Sent
        BY <1>2, <1>a
      <4>3. i \in 1..(Len(told) + 1)
        BY <1>8, <3>2
      <4>4. CASE i = Len(told) + 1
        BY <1>4, <1>8, <1>12, <3>2, <4>2, <4>4
      <4>5. CASE i \in 1..Len(told)
        BY <1>4, <1>8, <1>12, <3>2, <4>1, <4>5
      <4>6. QED
        BY <1>8, <4>3, <4>4, <4>5
    <3>3. QED
      BY <3>1, <3>2
  <2>2. ASSUME NEW m \in Sent, ~InProgress(m)'
        PROVE  \E i \in 1..Len(conversation'[messageLog[m].conv]) : conversation'[messageLog[m].conv][i] = m
    <3>1. CASE m = m0
      <4>1. Len(told) + 1 \in 1..Len(conversation'[c0])
        BY <1>7, <1>8
      <4>2. QED
        BY <1>8, <1>a, <3>1, <4>1
    <3>2. CASE m # m0
      <4>1. PICK i \in 1..Len(conversation[messageLog[m].conv]) : conversation[messageLog[m].conv][i] = m
        BY <1>0, <1>4, <2>2, <3>2 DEF ConversationsHold
      <4>2. messageLog[m].conv \in 1..MaxMessages
        BY <1>0, <2>2, LogFacts
      <4>3. i \in 1..Len(conversation'[messageLog[m].conv]) /\ conversation'[messageLog[m].conv][i] = m
        <5>1. CASE messageLog[m].conv # c0
          BY <1>7, <4>1, <4>2, <5>1
        <5>2. CASE messageLog[m].conv = c0
          <6>1. i \in 1..Len(told) /\ told[i] = m
            BY <1>a, <4>1, <5>2
          <6>2. conversation'[c0][i] = m /\ i \in 1..Len(conversation'[c0])
            <7>1. i \in 1..(Len(told) + 1)
              BY <1>7, <6>1
            <7>2. QED
              BY <1>8, <6>1, <7>1
          <6>3. QED
            BY <5>2, <6>2
        <5>3. QED
          BY <5>1, <5>2
      <4>4. QED
        BY <4>3
    <3>3. QED
      BY <3>1, <3>2
  <2>3. \A c \in 1..MaxMessages : \A i \in 1..Len(conversation'[c]) :
          /\ conversation'[c][i] \in Sent' /\ messageLog'[conversation'[c][i]].conv = c
          /\ \A k \in 1..Len(conversation'[c]) : conversation'[c][i] = conversation'[c][k] => i = k
          /\ \A m \in Sent' : conversation'[c][i] = m => ~InProgress(m)'
    BY <1>1, <1>6, <2>1
  <2>4. \A m \in Sent' : ~InProgress(m)' =>
          \E i \in 1..Len(conversation'[messageLog'[m].conv]) : conversation'[messageLog'[m].conv][i] = m
    BY <1>1, <1>6, <2>2
  <2>5. QED
    BY <2>3, <2>4 DEF ConversationsHold
<1>14. RepliesStandInOrder'
  <2>1. SUFFICES ASSUME NEW c \in 1..MaxMessages, NEW i \in 1..Len(conversation'[c]), NEW k \in 1..Len(conversation'[c]),
                        messageLog[conversation'[c][k]].replyTo = conversation'[c][i]
                 PROVE  (k < i) = messageLog[conversation'[c][k]].inside
    <3>1. DOMAIN conversation' = 1..MaxMessages /\ \A c \in 1..MaxMessages : DOMAIN conversation'[c] = 1..Len(conversation'[c])
      BY <1>7
    <3>2. QED
      BY <1>1, <3>1 DEF RepliesStandInOrder
  <2>2. CASE c # c0
    <3>1. conversation'[c] = conversation[c] /\ DOMAIN conversation = 1..MaxMessages
          /\ DOMAIN conversation[c] = 1..Len(conversation[c])
      BY <1>0, <1>7, <2>2 DEF ActorTyped
    <3>2. QED
      BY <1>0, <2>1, <3>1 DEF RepliesStandInOrder
  <2>3. CASE c = c0
    <3>1. \A a, b \in 1..Len(told) : messageLog[told[b]].replyTo = told[a] => (b < a) = messageLog[told[b]].inside
      <4>1. c0 \in DOMAIN conversation /\ DOMAIN told = 1..Len(told)
        BY <1>0, <1>2, <1>7 DEF ActorTyped
      <4>2. QED
        BY <1>0, <1>a, <4>1 DEF RepliesStandInOrder
    <3>2. \A a \in 1..Len(told) : \A m \in Sent : told[a] = m => ~InProgress(m)
      BY <1>0, <1>2, <1>a DEF ConversationsHold
    <3>3. \A m, o \in Sent : messageLog[m].replyTo = o =>
            /\ o # m /\ messageLog[m].inside \in BOOLEAN
            /\ InProgress(m) /\ messageLog[m].inside => InProgress(o)
            /\ ~messageLog[m].inside => ~InProgress(o)
      <4>1. \A m \in Sent : messageLog[m].inside \in BOOLEAN
        BY <1>0, LogFacts
      <4>2. \A m \in Sent : messageLog[m].replyTo # m
        <5>1. \A m \in Sent : messageLog[m].replyTo \in 0..(m - 1) /\ m \in Nat
          BY <1>0, <1>6 DEF RepliesBelong
        <5>2. QED
          BY <5>1
      <4>3. QED
        BY <1>0, <4>1, <4>2 DEF RepliesBelong
    <3>4. /\ i \in 1..(Len(told) + 1) /\ k \in 1..(Len(told) + 1)
          /\ messageLog[conversation'[c0][k]].replyTo = conversation'[c0][i]
      BY <1>8, <2>1, <2>3
    <3>5. CASE i \in 1..Len(told) /\ k \in 1..Len(told)
      BY <1>8, <2>3, <3>1, <3>4, <3>5
    <3>6. CASE i \in 1..Len(told) /\ k = Len(told) + 1
      <4>1. conversation'[c0][k] = m0 /\ conversation'[c0][i] = told[i] /\ told[i] \in Sent
        BY <1>8, <1>12, <3>6
      <4>2. messageLog[m0].inside = FALSE
        BY <1>2, <1>5, <3>2, <3>3, <3>4, <3>6, <4>1
      <4>3. (k < i) = FALSE
        BY <1>7, <3>6
      <4>4. QED
        BY <2>3, <4>1, <4>2, <4>3
    <3>7. CASE i = Len(told) + 1 /\ k \in 1..Len(told)
      <4>1. conversation'[c0][k] = told[k] /\ conversation'[c0][i] = m0 /\ told[k] \in Sent
        BY <1>8, <1>12, <3>7
      <4>2. messageLog[told[k]].inside = TRUE
        BY <1>2, <1>5, <3>3, <3>4, <4>1
      <4>3. k < i
        BY <1>7, <3>7
      <4>4. QED
        BY <2>3, <4>1, <4>2, <4>3
    <3>8. CASE i = Len(told) + 1 /\ k = Len(told) + 1
      BY <1>2, <1>8, <3>3, <3>4, <3>8
    <3>9. QED
      BY <1>8, <3>4, <3>5, <3>6, <3>7, <3>8
  <2>4. QED
    BY <2>2, <2>3
<1>15. Hearing'
  <2>1. \A m, next : HearsInTurn(m, next)' <=> HearsInTurn(m, next)
    BY <1>1 DEF HearsInTurn
  <2>2. QED
    BY <1>0, <1>1, <1>3, <1>6, <1>a, <2>1 DEF Hearing
<1>16. EveryHandlerHears'
  <2>1. SUFFICES ASSUME NEW m \in DOMAIN messageLog, m \notin unsubscribed, ~InProgress(m)'
                 PROVE  IsPrefix(due[m], heard[m])
    BY <1>1 DEF EveryHandlerHears
  <2>2. CASE m # m0
    BY <1>0, <1>4, <2>1, <2>2 DEF EveryHandlerHears
  <2>3. CASE m = m0
    <3>1. PICK nn : nn = Current.next
      OBVIOUS
    <3>2. HearsInTurn(m, nn) /\ nn \in Nat /\ nn > Len(handlersOf[messageLog[m].type])
      BY <1>1, <1>a, <2>1, <2>3, <3>1, CurrentFacts
    <3>3. due[m] \in Seq(Handlers) /\ heard[m] \in Seq(Handlers) /\ handlersOf[messageLog[m].type] \in Seq(Handlers)
      BY <1>0, <1>2, <2>3, LogFacts DEF ActorTyped
    <3>4. /\ Len(due[m]) <= Len(heard[m]) /\ \A j \in 1..Len(due[m]) : due[m][j] = heard[m][j]
      BY <3>2, <3>3 DEF HearsInTurn
    <3>5. QED
      BY <3>3, <3>4, PrefixPointwise
  <2>4. QED
    BY <2>2, <2>3
<1>17. QED
  BY <1>9, <1>10, <1>11, <1>13, <1>14, <1>15, <1>16 DEF ActorInv

LEMMA OnStep == ASSUME ActorInv, NEW type \in MessageTypes, NEW h \in Handlers, On(type, h) PROVE ActorInv'
<1>0. /\ ActorTyped /\ SendsNested /\ Hearing /\ EveryHandlerHears
  BY DEF ActorInv
<1>a. PICK list : list = handlersOf[type]
  OBVIOUS
<1>1. /\ handlersOf' = [handlersOf EXCEPT ![type] = Append(list, h)]
      /\ UNCHANGED <<messageLog, sends, conversation, heard, due, unsubscribed>>
  BY <1>a DEF On
<1>2. /\ list \in Seq(Handlers) /\ Append(list, h) \in Seq(Handlers) /\ Len(Append(list, h)) = Len(list) + 1
      /\ Len(list) \in Nat /\ \A j \in 1..Len(list) : Append(list, h)[j] = list[j]
  <2>1. list \in Seq(Handlers)
    BY <1>0, <1>a DEF ActorTyped
  <2>2. QED
    BY <2>1
<1>3. ActorTyped'
  BY <1>0, <1>1, <1>2 DEF ActorTyped
<1>4. /\ SendsNested' /\ RepliesBelong' /\ ConversationsHold' /\ RepliesStandInOrder'
      /\ Sent' = Sent /\ \A m : InProgress(m)' <=> InProgress(m)
  <2>1. sends \in Seq(Sends) /\ \A i \in 1..Len(sends) : sends[i].next # 0
    BY <1>0 DEF ActorTyped, SendsNested
  <2>2. QED
    BY <1>1, <2>1, NothingMoves
<1>5. ASSUME NEW m \in Sent, NEW next \in Nat, HearsInTurn(m, next) PROVE HearsInTurn(m, next)'
  <2>1. CASE messageLog[m].type # type
    BY <1>0, <1>1, <1>5, <2>1, LogFacts DEF HearsInTurn, ActorTyped
  <2>2. CASE messageLog[m].type = type
    <3>1. handlersOf[messageLog[m].type] = list /\ handlersOf'[messageLog'[m].type] = Append(list, h)
      BY <1>0, <1>1, <1>a, <2>2 DEF ActorTyped
    <3>2. /\ Len(due[m]) <= Len(list) /\ \A j \in 1..Len(due[m]) : due[m][j] = list[j]
          /\ next <= Len(list) + 1 /\ Len(heard[m]) = next - 1
          /\ \A j \in 1..(next - 1) : heard[m][j] = list[j]
      BY <1>5, <3>1 DEF HearsInTurn
    <3>3. /\ Len(due[m]) \in Nat /\ next - 1 <= Len(list)
      <4>1. due[m] \in Seq(Handlers)
        BY <1>0, LogFacts
      <4>2. QED
        BY <1>2, <3>2, <4>1
    <3>4. /\ \A j \in 1..Len(due[m]) : j \in 1..Len(list)
          /\ \A j \in 1..(next - 1) : j \in 1..Len(list)
      BY <1>2, <3>2, <3>3
    <3>5. /\ Len(due[m]) <= Len(Append(list, h)) /\ \A j \in 1..Len(due[m]) : due[m][j] = Append(list, h)[j]
          /\ next <= Len(Append(list, h)) + 1 /\ Len(heard[m]) = next - 1
          /\ \A j \in 1..(next - 1) : heard[m][j] = Append(list, h)[j]
      BY <1>2, <3>2, <3>3, <3>4
    <3>6. QED
      BY <1>1, <3>1, <3>5 DEF HearsInTurn
  <2>3. QED
    BY <2>1, <2>2
<1>6. Hearing'
  BY <1>0, <1>1, <1>4, <1>5 DEF Hearing
<1>7. EveryHandlerHears'
  BY <1>0, <1>1, <1>4 DEF EveryHandlerHears
<1>8. QED
  BY <1>3, <1>4, <1>6, <1>7 DEF ActorInv

LEMMA RemoveAtFacts ==
  ASSUME NEW S, NEW s \in Seq(S), NEW i \in 1..Len(s)
  PROVE  RemoveAt(s, i) \in Seq(S)
<1>1. i - 1 \in Int /\ i + 1 \in Int /\ Len(s) \in Nat
  OBVIOUS
<1>2. SubSeq(s, 1, i - 1) \in Seq(S)
  BY <1>1, SubSeqProperties
<1>3. SubSeq(s, i + 1, Len(s)) \in Seq(S)
  BY <1>1, SubSeqProperties
<1>4. QED
  BY <1>2, <1>3, ConcatProperties DEF RemoveAt

LEMMA OffStep == ASSUME ActorInv, NEW type \in MessageTypes, NEW h \in Handlers, Off(type, h) PROVE ActorInv'
<1>0. /\ ActorTyped /\ SendsNested /\ Hearing /\ EveryHandlerHears
  BY DEF ActorInv
<1>a. PICK list : list = handlersOf[type]
  OBVIOUS
<1>1. PICK i \in DOMAIN list : handlersOf' = [handlersOf EXCEPT ![type] = RemoveAt(list, i)]
  BY <1>a DEF Off
<1>2. /\ unsubscribed' = unsubscribed \union {m \in DOMAIN messageLog : InProgress(m) /\ messageLog[m].type = type}
      /\ UNCHANGED <<messageLog, sends, conversation, heard, due>>
  BY DEF Off
<1>3. list \in Seq(Handlers) /\ i \in 1..Len(list)
  BY <1>0, <1>1, <1>a DEF ActorTyped
<1>4. RemoveAt(list, i) \in Seq(Handlers)
  BY <1>3, RemoveAtFacts
<1>5. ActorTyped'
  BY <1>0, <1>1, <1>2, <1>4 DEF ActorTyped
<1>6. /\ SendsNested' /\ RepliesBelong' /\ ConversationsHold' /\ RepliesStandInOrder'
      /\ Sent' = Sent /\ \A m : InProgress(m)' <=> InProgress(m)
  <2>1. sends \in Seq(Sends) /\ \A k \in 1..Len(sends) : sends[k].next # 0
    BY <1>0 DEF ActorTyped, SendsNested
  <2>2. QED
    BY <1>2, <2>1, NothingMoves
<1>7. Hearing'
  <2>1. SUFFICES ASSUME NEW k \in 1..Len(sends), NEW m \in Sent, NEW next \in Nat,
                        sends[k].msg = m, sends[k].next = next, m \notin unsubscribed'
                 PROVE  HearsInTurn(m, next)'
    BY <1>2, <1>6 DEF Hearing
  <2>2. InProgress(m) /\ m \in DOMAIN messageLog
    BY <1>0, <2>1 DEF InProgress, ActorTyped, Sent
  <2>3. m \notin unsubscribed /\ messageLog[m].type # type
    BY <1>2, <2>1, <2>2
  <2>4. HearsInTurn(m, next)
    BY <1>0, <2>1, <2>3 DEF Hearing
  <2>5. handlersOf'[messageLog[m].type] = handlersOf[messageLog[m].type]
    BY <1>0, <1>1, <2>3, LogFacts DEF ActorTyped
  <2>6. QED
    BY <1>2, <2>4, <2>5 DEF HearsInTurn
<1>8. EveryHandlerHears'
  BY <1>0, <1>2, <1>6 DEF EveryHandlerHears
<1>9. QED
  BY <1>5, <1>6, <1>7, <1>8 DEF ActorInv

LEMMA ActorStep == ActorInv /\ [ActorNext]_actorVars => ActorInv'
<1> SUFFICES ASSUME ActorInv, [ActorNext]_actorVars PROVE ActorInv'
  OBVIOUS
<1>0. ActorTyped
  BY DEF ActorInv
<1>1. ASSUME NEW t \in MessageTypes, SendNew(t) PROVE ActorInv'
  <2>1. PICK message : message = Message(t, Len(messageLog) + 1, 0)
    OBVIOUS
  <2>2. Send(message) /\ Len(messageLog) < MaxMessages /\ Len(messageLog) \in Nat
    BY <1>0, <1>1, <2>1 DEF SendNew, Send, ActorTyped
  <2>3. /\ message.type = t /\ message.conv = Len(messageLog) + 1 /\ message.replyTo = 0 /\ message.inside = FALSE
        /\ message \in Messages /\ Len(messageLog) + 1 \in 1..MaxMessages
    <3>1. PICK b : b = (0 # 0 /\ InProgress(0))
      OBVIOUS
    <3>2. b = FALSE
      BY <3>1
    <3>3. message = [type |-> t, conv |-> Len(messageLog) + 1, replyTo |-> 0, inside |-> FALSE]
      BY <2>1, <3>1, <3>2 DEF Message
    <3>4. Len(messageLog) + 1 \in 1..MaxMessages
      BY <2>2, ActorAssumption
    <3>5. QED
      BY <3>3, <3>4 DEF Messages
  <2>4. Proper(message)
    <3>1. /\ message.type \in MessageTypes /\ message.conv \in 1..MaxMessages
          /\ message.replyTo \in Nat /\ message.inside \in BOOLEAN /\ message \in Messages
      <4>1. message \in Messages
        BY <2>3
      <4>2. QED
        BY <4>1 DEF Messages
    <3>2. ~(message.replyTo # 0)
      BY <2>3
    <3>3. QED
      BY <3>1, <3>2, Zenon DEF Proper
  <2>5. QED
    BY <2>2, <2>4, SendStep
<1>2. ASSUME NEW t \in MessageTypes, NEW o \in DOMAIN messageLog, Reply(o, t) PROVE ActorInv'
  <2>1. PICK message : message = Message(t, messageLog[o].conv, o)
    OBVIOUS
  <2>2. Send(message)
    BY <1>2, <2>1 DEF Reply
  <2>3. o \in Sent /\ o \in Nat \ {0} /\ messageLog[o].conv \in 1..MaxMessages
    <3>1. o \in Sent /\ o \in Nat \ {0}
      BY <1>0 DEF Sent, ActorTyped
    <3>2. QED
      BY <1>0, <3>1, LogFacts
  <2>4. /\ message.type = t /\ message.conv = messageLog[o].conv /\ message.replyTo = o
        /\ message.inside <=> InProgress(o)
        /\ message \in Messages /\ message.inside \in BOOLEAN
    <3>1. PICK b \in BOOLEAN : b <=> InProgress(o)
      OBVIOUS
    <3>2. message = [type |-> t, conv |-> messageLog[o].conv, replyTo |-> o, inside |-> b]
      BY <2>1, <2>3, <3>1 DEF Message
    <3>3. QED
      BY <2>3, <3>1, <3>2 DEF Messages
  <2>5. QED
    BY <2>2, <2>3, <2>4, SendStep DEF Proper
<1>3. ASSUME UNCHANGED actorVars PROVE ActorInv'
  <2>1. UNCHANGED <<messageLog, handlersOf, sends, conversation, heard, due, unsubscribed>>
    BY <1>3 DEF actorVars
  <2>2. /\ SendsNested' /\ RepliesBelong' /\ ConversationsHold' /\ RepliesStandInOrder'
        /\ Sent' = Sent /\ \A m : InProgress(m)' <=> InProgress(m)
    <3>1. sends \in Seq(Sends) /\ \A k \in 1..Len(sends) : sends[k].next # 0
      BY DEF ActorTyped, SendsNested, ActorInv
    <3>2. QED
      BY <2>1, <3>1, NothingMoves
  <2>3. \A m, next : HearsInTurn(m, next)' <=> HearsInTurn(m, next)
    BY <2>1 DEF HearsInTurn
  <2>4. ActorTyped' /\ Hearing' /\ EveryHandlerHears'
    BY <2>1, <2>2, <2>3 DEF ActorInv, ActorTyped, Hearing, EveryHandlerHears
  <2>5. QED
    BY <2>2, <2>4 DEF ActorInv
<1>4. QED
  BY <1>1, <1>2, <1>3, OnStep, OffStep, CallHandlerStep, HandlerEndsStep, DeliveredStep DEF ActorNext

LEMMA ActorsSafe == ActorInv => ConversationsAreSound
<1> SUFFICES ASSUME ActorInv PROVE ConversationsAreSound
  OBVIOUS
<1>0. ActorTyped /\ RepliesBelong /\ ConversationsHold /\ RepliesStandInOrder /\ EveryHandlerHears
  BY DEF ActorInv
<1>1. ConversationsAreComplete
  <2> SUFFICES ASSUME NEW m \in Sent
               PROVE  LET origin == IF messageLog[m].replyTo = 0 THEN m ELSE messageLog[m].replyTo
                          thread == conversation[messageLog[origin].conv]
                          places == {i \in DOMAIN thread : thread[i] = m}
                      IN  IF InProgress(m) THEN places = {} ELSE \E i \in places : places = {i}
    <3>1. DOMAIN messageLog = Sent
      BY <1>0, SMTT(20) DEF Sent, ActorTyped
    <3>2. QED
      BY <3>1, Zenon DEF ConversationsAreComplete
  <2>1. PICK origin, thread, places :
          /\ origin = IF messageLog[m].replyTo = 0 THEN m ELSE messageLog[m].replyTo
          /\ thread = conversation[messageLog[origin].conv]
          /\ places = {i \in DOMAIN thread : thread[i] = m}
    OBVIOUS
  <2>2. origin \in Sent /\ messageLog[origin].conv = messageLog[m].conv
    <3>1. messageLog[m].replyTo \in 0..(m - 1) /\ m \in Nat /\ \A k \in 1..(m - 1) : k \in Sent
      BY <1>0 DEF RepliesBelong, Sent, ActorTyped
    <3>2. origin \in Sent
      BY <2>1, <3>1
    <3>3. QED
      BY <1>0, <2>1, <3>2 DEF RepliesBelong
  <2>3. PICK c \in 1..MaxMessages : c = messageLog[m].conv
    BY <1>0, LogFacts
  <2>4. thread = conversation[c] /\ thread \in Seq(Nat) /\ DOMAIN thread = 1..Len(thread)
    BY <1>0, <2>1, <2>2, <2>3 DEF ActorTyped
  <2>5. \A i, k \in 1..Len(thread) : thread[i] = thread[k] => i = k
    BY <1>0, <2>4 DEF ConversationsHold
  <2>6. \A i \in 1..Len(thread) : thread[i] = m => ~InProgress(m)
    BY <1>0, <2>4 DEF ConversationsHold
  <2>7. ~InProgress(m) => \E i \in 1..Len(thread) : thread[i] = m
    BY <1>0, <2>3, <2>4 DEF ConversationsHold
  <2>8. ASSUME InProgress(m) PROVE places = {}
    BY <2>1, <2>4, <2>6, <2>8
  <2>9. ASSUME ~InProgress(m) PROVE \E i \in places : places = {i}
    <3>1. PICK i \in 1..Len(thread) : thread[i] = m
      BY <2>7, <2>9
    <3>2. i \in places /\ places = {i}
      BY <2>1, <2>4, <2>5, <3>1
    <3>3. QED
      BY <3>2
  <2>10. IF InProgress(m) THEN places = {} ELSE \E i \in places : places = {i}
    <3>1. InProgress(m) => places = {}
      BY <2>8
    <3>2. ~InProgress(m) => \E i \in places : places = {i}
      BY <2>9
    <3>3. QED
      BY <3>1, <3>2
  <2>11. QED
    BY <2>1, <2>10, Zenon
<1>2. QED
  BY <1>0, <1>1 DEF ConversationsAreSound

(* Whatever handlers send, reply, subscribe and unsubscribe inside one     *)
(* another (actor_protocol.py:117-170): each message delivered is once in  *)
(* its conversation, a reply before its original only when a handler of    *)
(* the original sent it, and only an off makes a handler miss a message.   *)
THEOREM ActorsSound == ActorSpec => []ConversationsAreSound
<1>1. QED
  BY ActorInitially, ActorStep, ActorsSafe, PTL DEF ActorSpec

-----------------------------------------------------------------------------
(* The traces of runs (Tracer).                                            *)

Stages  == {"new", "working", "opening", "dumping", "returned"}
Results == {"none", "completed", "failed", "error", "raised"}
Ended   == {"opening", "dumping", "returned"}

TracesTyped ==
  /\ tracing \in [Tracked -> Stages] /\ dumpedOver \in [Tracked -> BOOLEAN]
  /\ began \in [Tracked -> 0..LastSecond] /\ second \in 0..LastSecond
  /\ spans \in [Tracked -> Seq(SpanSet)]
  /\ rootStatus \in [Tracked -> RootStatuses] /\ runResult \in [Tracked -> Results]
  /\ traceFiles \in [0..LastSecond -> Traces \cup {NoTrace, TornTrace}]

(* Only the last span of a run may be open, and it is closed when the run  *)
(* is verified; the root tells what run() is going to return.              *)
RunTold(r) ==
  /\ \A i \in DOMAIN spans[r] : spans[r][i].status = "running" => i = Len(spans[r])
  /\ tracing[r] # "returned" => runResult[r] # "raised"
  /\ tracing[r] \in Ended =>
       /\ rootStatus[r] \in {"ok", "failed", "error"}
       /\ rootStatus[r] # "error" => ~OpenSpan(r)
       /\ runResult[r] # "raised" => ((rootStatus[r] = "ok") <=> (runResult[r] = "completed"))

RunsTold == \A r \in Tracked : RunTold(r)

(* What is whole in a file is what a run that returned has to tell; and    *)
(* only a run that began in the same second gets between its open and its  *)
(* close.                                                                  *)
FilesAreWhole ==
  \A s \in 0..LastSecond : traceFiles[s] \notin {NoTrace, TornTrace} =>
    \E r \in Tracked : tracing[r] = "returned" /\ traceFiles[s] = Saved(r)

AloneIsKept ==
  \A r \in Tracked : Alone(r) =>
    /\ tracing[r] = "dumping" => ~dumpedOver[r]
    /\ tracing[r] = "returned" /\ runResult[r] # "raised" => traceFiles[began[r]] = Saved(r)

TracerInv == TracesTyped /\ RunsTold /\ FilesAreWhole /\ AloneIsKept

LEMMA SpanNamed == \A n \in Nat \ {0} : SpanName(n) \in SpanNames
<1> SUFFICES ASSUME NEW n \in Nat, n # 0 PROVE SpanName(n) \in SpanNames
  OBVIOUS
<1>1. CASE n <= 4
  <2>1. /\ FirstSpans[1] \in SpanNames /\ FirstSpans[2] \in SpanNames
        /\ FirstSpans[3] \in SpanNames /\ FirstSpans[4] \in SpanNames
    BY DEF FirstSpans, SpanNames
  <2>2. n = 1 \/ n = 2 \/ n = 3 \/ n = 4
    BY <1>1
  <2>3. SpanName(n) = FirstSpans[n]
    BY <1>1 DEF SpanName
  <2>4. QED
    BY <2>1, <2>2, <2>3
<1>2. CASE ~(n <= 4)
  <2>1. PatchSpans[1] \in SpanNames /\ PatchSpans[2] \in SpanNames /\ PatchSpans[3] \in SpanNames
    BY DEF PatchSpans, SpanNames
  <2> DEFINE k == (n - 5) % 3
  <2>2. k \in 0..2
    BY <1>2
  <2>3. SpanName(n) = PatchSpans[k + 1]
    BY <1>2 DEF SpanName
  <2> HIDE DEF k
  <2>4. k + 1 = 1 \/ k + 1 = 2 \/ k + 1 = 3
    BY <2>2
  <2>5. QED
    BY <2>1, <2>3, <2>4
<1>3. QED
  BY <1>1, <1>2

LEMMA SavedIsATrace ==
  ASSUME TracesTyped, NEW r \in Tracked
  PROVE  /\ Saved(r) \in Traces /\ Saved(r) \notin {NoTrace, TornTrace}
         /\ Saved(r).run = r /\ Saved(r).status = rootStatus[r] /\ Saved(r).spans = spans[r]
  BY TracerAssumption DEF TracesTyped, Saved, Traces

LEMMA TracerInitially == TracerInit => TracerInv
<1> SUFFICES ASSUME TracerInit PROVE TracerInv
  OBVIOUS
<1>1. TracesTyped
  BY TracerAssumption DEF TracerInit, TracesTyped, Stages, Results, RootStatuses
<1>2. RunsTold
  BY DEF TracerInit, RunsTold, RunTold, Ended
<1>3. FilesAreWhole /\ AloneIsKept
  BY DEF TracerInit, FilesAreWhole, AloneIsKept
<1>4. QED
  BY <1>1, <1>2, <1>3 DEF TracerInv

(* What one run does leaves what is told of the others.                    *)
LEMMA OthersTold ==
  ASSUME TracesTyped, RunsTold, NEW r \in Tracked,
         \A q \in Tracked \ {r} : /\ tracing'[q] = tracing[q] /\ spans'[q] = spans[q]
                                  /\ rootStatus'[q] = rootStatus[q] /\ runResult'[q] = runResult[q],
         RunTold(r)'
  PROVE  RunsTold'
<1>1. ASSUME NEW q \in Tracked, q # r PROVE RunTold(q)'
  BY <1>1 DEF RunsTold, RunTold, OpenSpan
<1>2. QED
  BY <1>1 DEF RunsTold

(* A step of run r that leaves the files.                                  *)
LEMMA FilesStay ==
  ASSUME TracerInv, NEW r \in Tracked, UNCHANGED <<began, traceFiles, dumpedOver>>,
         tracing[r] # "new", tracing[r] # "returned", tracing'[r] # "new", tracing'[r] # "dumping" \/ tracing[r] = "dumping",
         tracing'[r] # "returned" \/ runResult'[r] = "raised",
         \A q \in Tracked \ {r} : /\ tracing'[q] = tracing[q] /\ spans'[q] = spans[q]
                                  /\ rootStatus'[q] = rootStatus[q] /\ runResult'[q] = runResult[q]
  PROVE  FilesAreWhole' /\ AloneIsKept'
<1>1. FilesAreWhole'
  <2>1. SUFFICES ASSUME NEW s \in 0..LastSecond, traceFiles[s] \notin {NoTrace, TornTrace}
                 PROVE  \E q \in Tracked : tracing'[q] = "returned" /\ traceFiles[s] = Saved(q)'
    BY DEF FilesAreWhole
  <2>2. PICK q \in Tracked : tracing[q] = "returned" /\ traceFiles[s] = Saved(q)
    BY <2>1 DEF TracerInv, FilesAreWhole
  <2>3. q # r
    BY <2>2
  <2>4. Saved(q)' = Saved(q)
    BY <2>3 DEF Saved
  <2>5. QED
    BY <2>2, <2>3, <2>4
<1>2. AloneIsKept'
  <2>1. SUFFICES ASSUME NEW q \in Tracked, Alone(q)'
                 PROVE  /\ tracing'[q] = "dumping" => ~dumpedOver[q]
                        /\ tracing'[q] = "returned" /\ runResult'[q] # "raised" => traceFiles[began[q]] = Saved(q)'
    BY DEF AloneIsKept
  <2>2. Alone(q)
    BY <2>1 DEF Alone
  <2>3. CASE q = r
    BY <2>2, <2>3 DEF TracerInv, AloneIsKept
  <2>4. CASE q # r
    <3>1. Saved(q)' = Saved(q)
      BY <2>4 DEF Saved
    <3>2. QED
      BY <2>2, <2>4, <3>1 DEF TracerInv, AloneIsKept
  <2>5. QED
    BY <2>3, <2>4
<1>3. QED
  BY <1>1, <1>2

LEMMA StartTraceStep == ASSUME TracerInv, NEW r \in Tracked, StartTrace(r) PROVE TracerInv'
<1>0. TracesTyped /\ RunsTold /\ FilesAreWhole /\ AloneIsKept
  BY DEF TracerInv
<1>1. /\ tracing[r] = "new" /\ tracing' = [tracing EXCEPT ![r] = "working"]
      /\ began' = [began EXCEPT ![r] = second] /\ rootStatus' = [rootStatus EXCEPT ![r] = "running"]
      /\ UNCHANGED <<spans, runResult, traceFiles, dumpedOver, second>>
  BY DEF StartTrace
<1>2. /\ tracing'[r] = "working"
      /\ \A q \in Tracked \ {r} : tracing'[q] = tracing[q] /\ began'[q] = began[q] /\ rootStatus'[q] = rootStatus[q]
  BY <1>0, <1>1 DEF TracesTyped
<1>3. TracesTyped'
  BY <1>0, <1>1 DEF TracesTyped, Stages, RootStatuses
<1>4. RunsTold'
  <2>1. RunTold(r)'
    BY <1>0, <1>1, <1>2 DEF RunsTold, RunTold, Ended
  <2>2. QED
    BY <1>0, <1>1, <1>2, <2>1, OthersTold
<1>5. FilesAreWhole'
  <2>1. SUFFICES ASSUME NEW s \in 0..LastSecond, traceFiles[s] \notin {NoTrace, TornTrace}
                 PROVE  \E q \in Tracked : tracing'[q] = "returned" /\ traceFiles[s] = Saved(q)'
    BY <1>1 DEF FilesAreWhole
  <2>2. PICK q \in Tracked : tracing[q] = "returned" /\ traceFiles[s] = Saved(q)
    BY <1>0, <2>1 DEF FilesAreWhole
  <2>3. Saved(q)' = Saved(q)
    BY <1>1, <1>2, <2>2 DEF Saved
  <2>4. QED
    BY <1>1, <1>2, <2>2, <2>3
<1>6. AloneIsKept'
  <2>1. SUFFICES ASSUME NEW q \in Tracked \ {r}, Alone(q)'
                 PROVE  /\ tracing'[q] = "dumping" => ~dumpedOver'[q]
                        /\ tracing'[q] = "returned" /\ runResult'[q] # "raised" => traceFiles'[began'[q]] = Saved(q)'
    BY <1>2 DEF AloneIsKept
  <2>2. Alone(q)
    BY <1>1, <1>2, <2>1 DEF Alone
  <2>3. Saved(q)' = Saved(q)
    BY <1>1, <1>2 DEF Saved
  <2>4. QED
    BY <1>0, <1>1, <1>2, <2>2, <2>3 DEF AloneIsKept
<1>7. QED
  BY <1>3, <1>4, <1>5, <1>6 DEF TracerInv

LEMMA SpanStep == ASSUME TracerInv, NEW r \in Tracked, StartSpan(r) \/ FinishSpan(r) PROVE TracerInv'
<1>0. TracesTyped /\ RunsTold
  BY DEF TracerInv
<1>1. /\ tracing[r] = "working"
      /\ UNCHANGED <<tracing, began, rootStatus, runResult, traceFiles, dumpedOver, second>>
  BY DEF StartSpan, FinishSpan
<1>2. /\ spans' \in [Tracked -> Seq(SpanSet)]
      /\ \A q \in Tracked \ {r} : spans'[q] = spans[q]
      /\ \A i \in DOMAIN spans'[r] : spans'[r][i].status = "running" => i = Len(spans'[r])
  <2>1. spans[r] \in Seq(SpanSet)
    BY <1>0 DEF TracesTyped
  <2>2. CASE StartSpan(r)
    <3> DEFINE span == [name |-> SpanName(Len(spans[r]) + 1), status |-> "running"]
    <3>1. span \in SpanSet
      BY <2>1, SpanNamed DEF SpanSet
    <3>2. spans' = [spans EXCEPT ![r] = Append(@, span)] /\ ~OpenSpan(r)
      BY <2>2 DEF StartSpan
    <3> HIDE DEF span
    <3>3. spans'[r] = Append(spans[r], span) /\ \A q \in Tracked \ {r} : spans'[q] = spans[q]
      BY <1>0, <3>2 DEF TracesTyped
    <3>4. Append(spans[r], span) \in Seq(SpanSet)
      BY <2>1, <3>1
    <3>5. \A i \in DOMAIN spans'[r] : i = Len(spans'[r]) \/ (i \in DOMAIN spans[r] /\ spans'[r][i] = spans[r][i])
      BY <2>1, <3>1, <3>3
    <3>6. QED
      BY <1>0, <3>2, <3>3, <3>4, <3>5 DEF OpenSpan, TracesTyped
  <2>3. CASE FinishSpan(r)
    <3> DEFINE n == Len(spans[r])
    <3>1. spans' = [spans EXCEPT ![r][n].status = "ok"] /\ OpenSpan(r)
      BY <2>3 DEF FinishSpan
    <3>2. n \in DOMAIN spans[r]
      BY <1>0, <3>1 DEF OpenSpan, RunsTold, RunTold
    <3>3. [spans[r][n] EXCEPT !.status = "ok"] \in SpanSet
      <4>1. spans[r][n] \in SpanSet
        BY <2>1, <3>2
      <4>2. QED
        BY <4>1 DEF SpanSet
    <3>4. spans'[r] = [spans[r] EXCEPT ![n].status = "ok"]
          /\ \A q \in Tracked \ {r} : spans'[q] = spans[q]
      BY <1>0, <3>1 DEF TracesTyped
    <3>5. spans'[r] \in Seq(SpanSet) /\ Len(spans'[r]) = Len(spans[r])
          /\ \A i \in DOMAIN spans[r] \ {n} : spans'[r][i] = spans[r][i]
      BY <2>1, <3>2, <3>3, <3>4
    <3>6. QED
      BY <1>0, <2>1, <3>1, <3>4, <3>5 DEF RunsTold, RunTold, TracesTyped
  <2>4. QED
    BY <2>2, <2>3
<1>3. TracesTyped'
  BY <1>0, <1>1, <1>2 DEF TracesTyped
<1>4. RunTold(r)'
  BY <1>0, <1>1, <1>2 DEF RunsTold, RunTold, Ended
<1>5. RunsTold'
  BY <1>0, <1>1, <1>2, <1>4, OthersTold
<1>6. FilesAreWhole' /\ AloneIsKept'
  BY <1>1, <1>2, FilesStay
<1>7. QED
  BY <1>3, <1>5, <1>6 DEF TracerInv

(* The run ends, or its file cannot be written and it ends once more.      *)
LEMMA EndStep ==
  ASSUME TracerInv, NEW r \in Tracked, EndRun(r) \/ SaveFails(r)
  PROVE  TracerInv'
<1>0. TracesTyped /\ RunsTold
  BY DEF TracerInv
<1>1. /\ tracing[r] \in {"working", "opening", "dumping"}
      /\ UNCHANGED <<began, spans, traceFiles, dumpedOver, second>>
      /\ \/ FinishTrace(r, "ok", "completed") /\ ~OpenSpan(r)
         \/ FinishTrace(r, "failed", "failed") /\ ~OpenSpan(r)
         \/ FinishTrace(r, "error", "error")
         \/ /\ tracing[r] # "working"
            /\ tracing' = [tracing EXCEPT ![r] = "returned"]
            /\ runResult' = [runResult EXCEPT ![r] = "raised"]
            /\ UNCHANGED rootStatus
  BY DEF EndRun, SaveFails, Verified
<1>2. \/ /\ tracing'[r] = "opening"
         /\ \/ rootStatus'[r] = "ok" /\ runResult'[r] = "completed" /\ ~OpenSpan(r)
            \/ rootStatus'[r] = "failed" /\ runResult'[r] = "failed" /\ ~OpenSpan(r)
            \/ rootStatus'[r] = "error" /\ runResult'[r] = "error"
      \/ /\ tracing[r] # "working" /\ tracing'[r] = "returned" /\ runResult'[r] = "raised"
         /\ rootStatus'[r] = rootStatus[r]
  BY <1>0, <1>1 DEF FinishTrace, TracesTyped
<1>3. \A q \in Tracked \ {r} : /\ tracing'[q] = tracing[q] /\ spans'[q] = spans[q]
                               /\ rootStatus'[q] = rootStatus[q] /\ runResult'[q] = runResult[q]
  BY <1>0, <1>1 DEF FinishTrace, TracesTyped
<1>4. TracesTyped'
  BY <1>0, <1>1 DEF FinishTrace, TracesTyped, Stages, RootStatuses, Results
<1>5. OpenSpan(r)' <=> OpenSpan(r)
  BY <1>1 DEF OpenSpan
<1>6. RunTold(r)'
  BY <1>0, <1>1, <1>2, <1>5 DEF RunsTold, RunTold, Ended
<1>7. RunsTold'
  BY <1>0, <1>3, <1>6, OthersTold
<1>8. FilesAreWhole' /\ AloneIsKept'
  BY <1>1, <1>2, <1>3, FilesStay
<1>9. QED
  BY <1>4, <1>7, <1>8 DEF TracerInv

LEMMA OpenTraceStep == ASSUME TracerInv, NEW r \in Tracked, OpenTrace(r) PROVE TracerInv'
<1>0. TracesTyped /\ RunsTold /\ FilesAreWhole /\ AloneIsKept
  BY DEF TracerInv
<1>1. /\ tracing[r] = "opening" /\ tracing' = [tracing EXCEPT ![r] = "dumping"]
      /\ traceFiles' = [traceFiles EXCEPT ![began[r]] = TornTrace]
      /\ dumpedOver' = [dumpedOver EXCEPT ![r] = FALSE]
      /\ UNCHANGED <<began, spans, rootStatus, runResult, second>>
  BY DEF OpenTrace, TraceName
<1>2. /\ tracing'[r] = "dumping" /\ ~dumpedOver'[r] /\ began[r] \in 0..LastSecond
      /\ traceFiles'[began[r]] = TornTrace
      /\ \A s \in 0..LastSecond : s # began[r] => traceFiles'[s] = traceFiles[s]
      /\ \A q \in Tracked \ {r} : tracing'[q] = tracing[q] /\ dumpedOver'[q] = dumpedOver[q]
  BY <1>0, <1>1 DEF TracesTyped
<1>3. TracesTyped'
  BY <1>0, <1>1 DEF TracesTyped, Stages
<1>4. RunsTold'
  <2>1. RunTold(r)'
    BY <1>0, <1>1, <1>2 DEF RunsTold, RunTold, Ended, OpenSpan
  <2>2. QED
    BY <1>0, <1>1, <1>2, <2>1, OthersTold
<1>5. \A q : Saved(q)' = Saved(q)
  BY <1>1 DEF Saved
<1>6. FilesAreWhole'
  <2>1. SUFFICES ASSUME NEW s \in 0..LastSecond, traceFiles'[s] \notin {NoTrace, TornTrace}
                 PROVE  \E q \in Tracked : tracing'[q] = "returned" /\ traceFiles'[s] = Saved(q)'
    BY DEF FilesAreWhole
  <2>2. traceFiles'[s] = traceFiles[s]
    BY <1>2, <2>1
  <2>3. PICK q \in Tracked : tracing[q] = "returned" /\ traceFiles[s] = Saved(q)
    BY <1>0, <2>1, <2>2 DEF FilesAreWhole
  <2>4. q # r
    BY <1>1, <2>3
  <2>5. QED
    BY <1>2, <1>5, <2>2, <2>3, <2>4
<1>7. AloneIsKept'
  <2>1. SUFFICES ASSUME NEW q \in Tracked \ {r}, Alone(q)'
                 PROVE  /\ tracing'[q] = "dumping" => ~dumpedOver'[q]
                        /\ tracing'[q] = "returned" /\ runResult'[q] # "raised" => traceFiles'[began'[q]] = Saved(q)'
    BY <1>2 DEF AloneIsKept
  <2>2. Alone(q) /\ began[q] # began[r] /\ began[q] \in 0..LastSecond
    BY <1>0, <1>1, <1>2, <2>1 DEF Alone, TracesTyped
  <2>3. QED
    BY <1>0, <1>1, <1>2, <1>5, <2>2 DEF AloneIsKept
<1>8. QED
  BY <1>3, <1>4, <1>6, <1>7 DEF TracerInv

LEMMA DumpTraceStep == ASSUME TracerInv, NEW r \in Tracked, DumpTrace(r) PROVE TracerInv'
<1>0. TracesTyped /\ RunsTold /\ FilesAreWhole /\ AloneIsKept
  BY DEF TracerInv
<1>1. PICK content \in {Saved(r)} \union (IF dumpedOver[r] THEN {TornTrace} ELSE {}) :
        /\ tracing[r] = "dumping" /\ tracing' = [tracing EXCEPT ![r] = "returned"]
        /\ traceFiles' = [traceFiles EXCEPT ![began[r]] = content]
        /\ dumpedOver' = [q \in Tracked |-> dumpedOver[q] \/ (q # r /\ began[q] = began[r])]
        /\ UNCHANGED <<began, spans, rootStatus, runResult, second>>
  BY DEF DumpTrace, TraceName
<1>2. /\ tracing'[r] = "returned" /\ began[r] \in 0..LastSecond
      /\ traceFiles'[began[r]] = content
      /\ \A s \in 0..LastSecond : s # began[r] => traceFiles'[s] = traceFiles[s]
      /\ \A q \in Tracked \ {r} : tracing'[q] = tracing[q]
  BY <1>0, <1>1 DEF TracesTyped
<1>3. content = Saved(r) \/ (dumpedOver[r] /\ content = TornTrace)
  OBVIOUS
<1>4. TracesTyped'
  <2>1. content \in Traces \cup {NoTrace, TornTrace}
    BY <1>0, <1>3, SavedIsATrace
  <2>2. dumpedOver' \in [Tracked -> BOOLEAN]
    BY <1>1
  <2>3. QED
    BY <1>0, <1>1, <2>1, <2>2 DEF TracesTyped, Stages
<1>5. RunsTold'
  <2>1. RunTold(r)'
    BY <1>0, <1>1, <1>2 DEF RunsTold, RunTold, Ended, OpenSpan
  <2>2. QED
    BY <1>0, <1>1, <1>2, <2>1, OthersTold
<1>6. \A q : Saved(q)' = Saved(q)
  BY <1>1 DEF Saved
<1>7. FilesAreWhole'
  <2>1. SUFFICES ASSUME NEW s \in 0..LastSecond, traceFiles'[s] \notin {NoTrace, TornTrace}
                 PROVE  \E q \in Tracked : tracing'[q] = "returned" /\ traceFiles'[s] = Saved(q)'
    BY DEF FilesAreWhole
  <2>2. CASE s = began[r]
    <3>1. traceFiles'[s] = Saved(r)
      BY <1>0, <1>2, <1>3, <2>1, <2>2, SavedIsATrace
    <3>2. QED
      BY <1>2, <1>6, <3>1
  <2>3. CASE s # began[r]
    <3>1. traceFiles'[s] = traceFiles[s]
      BY <1>2, <2>3
    <3>2. PICK q \in Tracked : tracing[q] = "returned" /\ traceFiles[s] = Saved(q)
      BY <1>0, <2>1, <3>1 DEF FilesAreWhole
    <3>3. q # r
      BY <1>1, <3>2
    <3>4. QED
      BY <1>2, <1>6, <3>1, <3>2, <3>3
  <2>4. QED
    BY <2>2, <2>3
<1>8. AloneIsKept'
  <2>1. SUFFICES ASSUME NEW q \in Tracked, Alone(q)'
                 PROVE  /\ tracing'[q] = "dumping" => ~dumpedOver'[q]
                        /\ tracing'[q] = "returned" /\ runResult'[q] # "raised" => traceFiles'[began'[q]] = Saved(q)'
    BY DEF AloneIsKept
  <2>2. Alone(q)
    BY <1>1, <1>2, <2>1 DEF Alone
  <2>3. CASE q = r
    <3>1. content = Saved(r)
      BY <1>0, <1>1, <1>3, <2>2, <2>3 DEF AloneIsKept
    <3>2. QED
      BY <1>1, <1>2, <1>6, <2>3, <3>1
  <2>4. CASE q # r
    <3>1. began[q] # began[r] /\ began[q] \in 0..LastSecond
      BY <1>0, <1>1, <1>2, <2>1, <2>4 DEF Alone, TracesTyped
    <3>2. dumpedOver'[q] = dumpedOver[q]
      BY <1>0, <1>1, <3>1 DEF TracesTyped
    <3>3. QED
      BY <1>0, <1>1, <1>2, <1>6, <2>2, <2>4, <3>1, <3>2 DEF AloneIsKept
  <2>5. QED
    BY <2>3, <2>4
<1>9. QED
  BY <1>4, <1>5, <1>7, <1>8 DEF TracerInv

LEMMA TracerStep == TracerInv /\ [TracerNext]_traceVars => TracerInv'
<1> SUFFICES ASSUME TracerInv, [TracerNext]_traceVars PROVE TracerInv'
  OBVIOUS
<1>1. CASE UNCHANGED <<tracing, began, spans, rootStatus, runResult, traceFiles, dumpedOver>> /\ second' \in 0..LastSecond
  BY <1>1 DEF TracerInv, TracesTyped, RunsTold, RunTold, OpenSpan, FilesAreWhole, AloneIsKept, Alone, Saved
<1>2. CASE NextSecond
  BY <1>1, <1>2, TracerAssumption DEF NextSecond, TracerInv, TracesTyped
<1>3. CASE UNCHANGED traceVars
  BY <1>1, <1>3 DEF traceVars, TracerInv, TracesTyped
<1>4. ASSUME NEW r \in Tracked,
             StartTrace(r) \/ StartSpan(r) \/ FinishSpan(r) \/ EndRun(r)
               \/ OpenTrace(r) \/ DumpTrace(r) \/ SaveFails(r)
      PROVE  TracerInv'
  BY <1>4, StartTraceStep, SpanStep, EndStep, OpenTraceStep, DumpTraceStep
<1>5. QED
  BY <1>2, <1>3, <1>4 DEF TracerNext

LEMMA TracesTell == TracerInv => TracesAreSound
<1> SUFFICES ASSUME TracerInv PROVE TracesAreSound
  OBVIOUS
<1>0. TracesTyped /\ RunsTold /\ FilesAreWhole /\ AloneIsKept
  BY DEF TracerInv
<1>1. TraceTellsTheOutcome
  <2>1. SUFFICES ASSUME NEW r \in Tracked, tracing[r] = "returned", Alone(r), runResult[r] # "raised"
                 PROVE  /\ began[r] \in Listed /\ traceFiles[began[r]].run = r
                        /\ (traceFiles[began[r]].status = "ok") = (runResult[r] = "completed")
    BY DEF TraceTellsTheOutcome
  <2>2. traceFiles[began[r]] = Saved(r) /\ began[r] \in DOMAIN traceFiles
    BY <1>0, <2>1 DEF AloneIsKept, TracesTyped
  <2>3. (rootStatus[r] = "ok") <=> (runResult[r] = "completed")
    BY <1>0, <2>1 DEF RunsTold, RunTold, Ended
  <2>4. Saved(r) \notin {NoTrace, TornTrace} /\ Saved(r).run = r /\ Saved(r).status = rootStatus[r]
    BY <1>0, SavedIsATrace
  <2>5. QED
    BY <2>2, <2>3, <2>4 DEF Listed
<1>2. ListedTracesAreWhole
  <2>1. SUFFICES ASSUME NEW s \in Listed
                 PROVE  LET trace == traceFiles[s]
                            open  == {i \in DOMAIN trace.spans : trace.spans[i].status = "running"}
                        IN  /\ tracing[trace.run] = "returned" /\ trace = Saved(trace.run)
                            /\ open # {} => open = {Len(trace.spans)} /\ trace.status = "error"
    BY DEF ListedTracesAreWhole
  <2>2. s \in 0..LastSecond /\ traceFiles[s] \notin {NoTrace, TornTrace}
    BY <1>0 DEF Listed, TracesTyped
  <2>3. PICK r \in Tracked : tracing[r] = "returned" /\ traceFiles[s] = Saved(r)
    BY <1>0, <2>2 DEF FilesAreWhole
  <2>4. /\ traceFiles[s].run = r
        /\ traceFiles[s].spans = spans[r] /\ traceFiles[s].status = rootStatus[r]
    BY <1>0, <2>3, SavedIsATrace
  <2>5. /\ \A i \in DOMAIN spans[r] : spans[r][i].status = "running" => i = Len(spans[r])
        /\ rootStatus[r] \in {"ok", "failed", "error"} /\ (rootStatus[r] # "error" => ~OpenSpan(r))
    BY <1>0, <2>3 DEF RunsTold, RunTold, Ended
  <2>6. QED
    BY <2>3, <2>4, <2>5 DEF OpenSpan
<1>3. QED
  BY <1>1, <1>2 DEF TracesAreSound

(* However many runs overlap and fail to save (Tracer.end_trace and        *)
(* Orchestrator.run): a run that was alone in its second has a file that   *)
(* tells how it ended, and a file that is listed is the whole trace of one *)
(* run that returned.                                                      *)
THEOREM TracesSound == TracerSpec => []TracesAreSound
<1>1. TracerInit => TracerInv
  BY TracerInitially
<1>2. TracerInv /\ [TracerNext]_traceVars => TracerInv'
  BY TracerStep
<1>3. TracerInv => TracesAreSound
  BY TracesTell
<1>4. QED
  BY <1>1, <1>2, <1>3, PTL DEF TracerSpec

-----------------------------------------------------------------------------
(* The chain of models of a call (ModelFallback).                          *)

LEMMA ChainsAreModels ==
  ASSUME NEW r
  PROVE  /\ Chain(r) \in Seq(Models)
         /\ Len(Chain(r)) \in 1..3
         /\ Chain(r)[Len(Chain(r))] = "local"
<1>1. DOMAIN Chains = {"planner", "critic", "coder", "fast", "vision"}
  BY DEF Chains
<1>2. CASE r \notin DOMAIN Chains
  BY <1>2 DEF Chain, Models
<1>3. CASE r \in DOMAIN Chains
  <2>1. \A q \in DOMAIN Chains : /\ Chains[q] \in Seq(Models) /\ Len(Chains[q]) = 3
                                 /\ Chains[q][3] = "local"
    <3>1. /\ Chains["planner"] = <<"nemotron", "glm", "local">>
          /\ Chains["critic"] = <<"nemotron", "glm", "local">>
          /\ Chains["coder"] = <<"qwen", "glm", "local">>
          /\ Chains["fast"] = <<"glm", "qwen", "local">>
          /\ Chains["vision"] = <<"gemma", "glm", "local">>
      BY DEF Chains
    <3>2. \A x, y \in Models : /\ <<x, y, "local">> \in Seq(Models)
                               /\ Len(<<x, y, "local">>) = 3 /\ <<x, y, "local">>[3] = "local"
      BY DEF Models
    <3>3. {"nemotron", "qwen", "gemma", "glm"} \subseteq Models
      BY DEF Models
    <3>4. \A q \in DOMAIN Chains : \E x, y \in Models : Chains[q] = <<x, y, "local">>
      <4>1. \A q \in DOMAIN Chains : q \in {"planner", "critic", "coder", "fast", "vision"}
        BY <1>1
      <4>2. /\ "nemotron" \in Models /\ "qwen" \in Models /\ "gemma" \in Models /\ "glm" \in Models
        BY <3>3
      <4>3. ASSUME NEW q, q = "planner" \/ q = "critic" PROVE \E x, y \in Models : Chains[q] = <<x, y, "local">>
        BY <3>1, <4>2, <4>3
      <4>4. ASSUME NEW q, q = "coder" PROVE \E x, y \in Models : Chains[q] = <<x, y, "local">>
        BY <3>1, <4>2, <4>4
      <4>5. ASSUME NEW q, q = "fast" PROVE \E x, y \in Models : Chains[q] = <<x, y, "local">>
        BY <3>1, <4>2, <4>5
      <4>6. ASSUME NEW q, q = "vision" PROVE \E x, y \in Models : Chains[q] = <<x, y, "local">>
        BY <3>1, <4>2, <4>6
      <4>7. QED
        BY <4>1, <4>3, <4>4, <4>5, <4>6
    <3>5. ASSUME NEW q \in DOMAIN Chains
          PROVE  Chains[q] \in Seq(Models) /\ Len(Chains[q]) = 3 /\ Chains[q][3] = "local"
      <4>1. PICK x, y \in Models : Chains[q] = <<x, y, "local">>
        BY <3>4
      <4>2. QED
        BY <3>2, <4>1
    <3>6. QED
      BY <3>5
  <2>2. Chain(r) = Chains[r]
    BY <1>3 DEF Chain
  <2>3. QED
    BY <1>3, <2>1, <2>2
<1>4. QED
  BY <1>2, <1>3

(* The models a call may try: those of its chain, the local one last, when *)
(* the attempts reach so far.                                              *)
LEMMA TriedAreModels ==
  /\ Tried \in Seq(Models) /\ Len(Tried) \in Nat \ {0}
  /\ MaxAttempts >= 3 => Tried[Len(Tried)] = "local"
<1>1. /\ Chain(role) \in Seq(Models) /\ Len(Chain(role)) \in 1..3
      /\ Chain(role)[Len(Chain(role))] = "local"
  BY ChainsAreModels
<1> DEFINE n == IF Len(Chain(role)) < MaxAttempts THEN Len(Chain(role)) ELSE MaxAttempts
<1>2. n \in 1..Len(Chain(role)) /\ (MaxAttempts >= 3 => n = Len(Chain(role)))
  <2>1. Len(Chain(role)) \in Nat /\ Len(Chain(role)) >= 1 /\ Len(Chain(role)) <= 3
    BY <1>1
  <2>2. MaxAttempts \in Nat /\ MaxAttempts >= 1
    BY FallbackAssumption
  <2>3. QED
    BY <2>1, <2>2
<1>3. Tried = SubSeq(Chain(role), 1, n)
  BY DEF Tried
<1> HIDE DEF n
<1> DEFINE c == Chain(role)
<1>4. c \in Seq(Models) /\ n \in 1..Len(c) /\ Tried = SubSeq(c, 1, n)
  BY <1>1, <1>2, <1>3
<1> HIDE DEF c
<1>5. Tried \in Seq(Models) /\ Len(Tried) = n /\ \A i \in 1..n : Tried[i] = c[i]
  BY <1>4
<1>6. QED
  BY <1>1, <1>2, <1>4, <1>5 DEF c

(* What is known of a call at any point: every model before the attempt    *)
(* that is next has failed, and is in the log of a synchronous call.       *)
AllFailedSoFar(n) ==
  how = "call" =>
    /\ Len(callLog) = n
    /\ \A i \in 1..n : callLog[i][1] = Tried[i] /\ callLog[i][2]

FallbackInv ==
  /\ attempt \in Nat \ {0} /\ attempt <= Len(Tried) + 1
  /\ callLog \in Seq(Models \X BOOLEAN)
  /\ callPc \in {"idle", "calling", "returned"}
  /\ callPc = "calling" => modelUsed = NoModel /\ AllFailedSoFar(attempt - 1)
  /\ callPc = "returned" /\ modelUsed = NoModel => attempt = Len(Tried) + 1 /\ AllFailedSoFar(attempt - 1)
  /\ callPc = "returned" /\ modelUsed # NoModel =>
       /\ attempt <= Len(Tried)
       /\ modelUsed = Tried[attempt] /\ answeredBy \in {modelUsed, "local"}
       /\ how = "call" =>
            /\ Len(callLog) = attempt
            /\ \A i \in 1..attempt : callLog[i][1] = Tried[i] /\ (callLog[i][2] <=> i # attempt)

LEMMA CallInitially == CallInit => FallbackInv
<1> SUFFICES ASSUME CallInit PROVE FallbackInv
  OBVIOUS
<1>1. Len(Tried) \in Nat
  BY TriedAreModels
<1>2. callLog \in Seq(Models \X BOOLEAN)
  BY DEF CallInit
<1>3. QED
  BY <1>1, <1>2 DEF CallInit, FallbackInv

(* The models of the chain do not change while a call lasts.               *)
LEMMA TriedStays == ASSUME UNCHANGED role PROVE Tried' = Tried
  BY DEF Tried, Chain

LEMMA AttemptStep == ASSUME FallbackInv, Attempt PROVE FallbackInv'
<1> DEFINE model == Tried[attempt]
<1>1. /\ callPc = "calling" /\ attempt \in 1..Len(Tried) /\ model \in Models /\ model # NoModel
      /\ modelUsed = NoModel /\ AllFailedSoFar(attempt - 1) /\ UNCHANGED <<role, how>>
      /\ Len(Tried) \in Nat /\ attempt \in Nat \ {0} /\ callLog \in Seq(Models \X BOOLEAN)
  BY TriedAreModels, FallbackAssumption DEF Attempt, FallbackInv, MoreToTry
<1>2. Tried' = Tried
  BY <1>1, TriedStays
<1>3. PICK first, other \in Outcomes :
        LET who == Answering(model, first, other)
        IN  IF who = NoModel
            THEN /\ callLog' = Logged(model, TRUE)
                 /\ attempt' = attempt + 1
                 /\ UNCHANGED <<answeredBy, modelUsed, fallbackUsed, callPc>>
            ELSE /\ callLog' = Logged(model, FALSE)
                 /\ answeredBy' = who
                 /\ modelUsed' = model
                 /\ fallbackUsed' = (attempt > 1)
                 /\ callPc' = "returned"
                 /\ UNCHANGED attempt
  BY DEF Attempt
<1> DEFINE who == Answering(model, first, other)
<1>4. who \in {model, "local", NoModel}
  BY DEF Answering
<1> HIDE DEF model, who
<1>5. \A failed \in BOOLEAN : callLog' = Logged(model, failed) =>
        /\ callLog' \in Seq(Models \X BOOLEAN)
        /\ how = "call" =>
             /\ Len(callLog') = attempt
             /\ callLog'[attempt][1] = model /\ callLog'[attempt][2] = failed
             /\ \A i \in 1..(attempt - 1) : callLog'[i][1] = Tried[i] /\ callLog'[i][2]
  <2>1. SUFFICES ASSUME NEW failed \in BOOLEAN, callLog' = Logged(model, failed)
                 PROVE  /\ callLog' \in Seq(Models \X BOOLEAN)
                        /\ how = "call" =>
                             /\ Len(callLog') = attempt
                             /\ callLog'[attempt][1] = model /\ callLog'[attempt][2] = failed
                             /\ \A i \in 1..(attempt - 1) : callLog'[i][1] = Tried[i] /\ callLog'[i][2]
    OBVIOUS
  <2>2. CASE how = "call"
    <3> DEFINE entry == <<model, failed>>
    <3>1. /\ callLog' = Append(callLog, entry) /\ entry \in Models \X BOOLEAN
          /\ entry[1] = model /\ entry[2] = failed
      BY <1>1, <2>1, <2>2 DEF Logged
    <3>2. Len(callLog) = attempt - 1 /\ \A i \in 1..(attempt - 1) : callLog[i][1] = Tried[i] /\ callLog[i][2]
      BY <1>1, <2>2 DEF AllFailedSoFar
    <3> HIDE DEF entry
    <3>3. /\ callLog' \in Seq(Models \X BOOLEAN) /\ Len(callLog') = attempt
          /\ callLog'[attempt] = entry
          /\ \A i \in 1..(attempt - 1) : callLog'[i] = callLog[i]
      BY <1>1, <3>1, <3>2
    <3>4. QED
      BY <3>1, <3>2, <3>3
  <2>3. CASE how # "call"
    BY <1>1, <2>1, <2>3 DEF Logged
  <2>4. QED
    BY <2>2, <2>3
<1>6. CASE who = NoModel
  <2>1. /\ callLog' = Logged(model, TRUE) /\ attempt' = attempt + 1
        /\ UNCHANGED <<answeredBy, modelUsed, callPc>>
    BY <1>3, <1>6 DEF who
  <2>2. callLog' \in Seq(Models \X BOOLEAN) /\ (how = "call" =>
          /\ Len(callLog') = attempt
          /\ \A i \in 1..attempt : callLog'[i][1] = Tried[i] /\ callLog'[i][2])
    <3>1. callLog' \in Seq(Models \X BOOLEAN) /\ (how = "call" =>
            /\ Len(callLog') = attempt
            /\ callLog'[attempt][1] = model /\ callLog'[attempt][2]
            /\ \A i \in 1..(attempt - 1) : callLog'[i][1] = Tried[i] /\ callLog'[i][2])
      BY <1>5, <2>1
    <3>2. \A i \in 1..attempt : i = attempt \/ i \in 1..(attempt - 1)
      BY <1>1
    <3>3. QED
      BY <3>1, <3>2 DEF model
  <2>3. AllFailedSoFar(attempt - 1)'
    <3>1. attempt' - 1 = attempt /\ how' = how
      BY <1>1, <2>1
    <3>2. QED
      BY <1>2, <2>2, <3>1 DEF AllFailedSoFar
  <2>4. QED
    <3> HIDE DEF AllFailedSoFar
    <3>1. /\ attempt' \in Nat \ {0} /\ attempt' <= Len(Tried') + 1
          /\ callPc' = "calling" /\ modelUsed' = NoModel
      BY <1>1, <1>2, <2>1
    <3>2. QED
      BY <2>2, <2>3, <3>1 DEF FallbackInv
<1>7. CASE who # NoModel
  <2>1. /\ callLog' = Logged(model, FALSE) /\ attempt' = attempt
        /\ answeredBy' \in {model, "local"} /\ modelUsed' = model /\ callPc' = "returned"
    BY <1>3, <1>4, <1>7 DEF who
  <2>2. callLog' \in Seq(Models \X BOOLEAN) /\ (how = "call" =>
          /\ Len(callLog') = attempt
          /\ \A i \in 1..attempt : callLog'[i][1] = Tried[i] /\ (callLog'[i][2] <=> i # attempt))
    <3>1. callLog' \in Seq(Models \X BOOLEAN) /\ (how = "call" =>
            /\ Len(callLog') = attempt
            /\ callLog'[attempt][1] = model /\ ~callLog'[attempt][2]
            /\ \A i \in 1..(attempt - 1) : callLog'[i][1] = Tried[i] /\ callLog'[i][2])
      BY <1>5, <2>1
    <3>2. \A i \in 1..attempt : i = attempt \/ (i \in 1..(attempt - 1) /\ i # attempt)
      BY <1>1
    <3>3. QED
      BY <3>1, <3>2 DEF model
  <2>3. /\ attempt' \in Nat \ {0} /\ attempt' <= Len(Tried') + 1 /\ attempt' <= Len(Tried')
        /\ callPc' = "returned" /\ modelUsed' # NoModel
        /\ modelUsed' = Tried'[attempt'] /\ answeredBy' \in {modelUsed', "local"}
    BY <1>1, <1>2, <2>1 DEF model
  <2>4. how' = "call" => /\ Len(callLog') = attempt'
                         /\ \A i \in 1..attempt' : callLog'[i][1] = Tried'[i] /\ (callLog'[i][2] <=> i # attempt')
    BY <1>1, <1>2, <2>1, <2>2
  <2>5. QED
    BY <2>2, <2>3, <2>4 DEF FallbackInv
<1>8. QED
  BY <1>6, <1>7

LEMMA CallStep == FallbackInv /\ [CallNext]_callVars => FallbackInv'
<1> SUFFICES ASSUME FallbackInv, [CallNext]_callVars PROVE FallbackInv'
  OBVIOUS
<1>1. CASE Attempt
  BY <1>1, AttemptStep
<1>2. CASE AllFailed
  <2>1. /\ callPc = "calling" /\ attempt > Len(Tried) /\ callPc' = "returned"
        /\ UNCHANGED <<role, how, attempt, callLog, modelUsed>>
    BY <1>2, TriedAreModels DEF AllFailed, MoreToTry, FallbackInv
  <2>2. Tried' = Tried
    BY <2>1, TriedStays
  <2>3. QED
    BY <2>1, <2>2, TriedAreModels DEF FallbackInv, AllFailedSoFar
<1>3. CASE CallModel
  <2>1. /\ attempt' = 1 /\ callLog' = <<>> /\ modelUsed' = NoModel /\ callPc' = "calling"
    BY <1>3 DEF CallModel
  <2>2. Len(Tried') \in Nat
    <3>1. Tried' = SubSeq(Chain(role'), 1, IF Len(Chain(role')) < MaxAttempts THEN Len(Chain(role')) ELSE MaxAttempts)
      BY DEF Tried, Chain
    <3>2. Chain(role') \in Seq(Models) /\ Len(Chain(role')) \in 1..3
      BY ChainsAreModels
    <3>3. QED
      BY <3>1, <3>2, FallbackAssumption
  <2>3. QED
    BY <2>1, <2>2 DEF FallbackInv, AllFailedSoFar
<1>4. CASE UNCHANGED callVars
  <2>1. Tried' = Tried
    BY <1>4, TriedStays DEF callVars
  <2>2. QED
    BY <1>4, <2>1 DEF callVars, FallbackInv, AllFailedSoFar
<1>5. QED
  BY <1>1, <1>2, <1>3, <1>4 DEF CallNext

LEMMA FallbackExhausts ==
  ASSUME MaxAttempts >= 3, FallbackInv
  PROVE  ChainIsExhausted
<1>0. SUFFICES ASSUME callPc = "returned" PROVE ChainIsExhausted
  BY DEF ChainIsExhausted
<1>1. /\ Tried \in Seq(Models) /\ Len(Tried) \in Nat \ {0} /\ Tried[Len(Tried)] = "local"
      /\ attempt \in Nat \ {0} /\ attempt <= Len(Tried) + 1 /\ callLog \in Seq(Models \X BOOLEAN)
  BY TriedAreModels DEF FallbackInv
<1>2. "local" \in {Tried[i] : i \in 1..Len(Tried)}
  BY <1>1
<1> DEFINE n == IF modelUsed = NoModel THEN Len(Tried) ELSE attempt
<1>3. how = "call" => /\ Len(callLog) = n /\ n \in 0..Len(Tried)
                      /\ \A i \in 1..n : /\ callLog[i][1] = Tried[i]
                                         /\ callLog[i][2] <=> ~(modelUsed # NoModel /\ i = attempt)
  <2>1. CASE modelUsed = NoModel
    <3>1. attempt = n + 1 /\ AllFailedSoFar(attempt - 1) /\ n = Len(Tried)
      BY <1>0, <2>1 DEF FallbackInv
    <3>2. AllFailedSoFar(n)
      BY <1>1, <3>1
    <3>3. QED
      BY <1>1, <2>1, <3>1, <3>2 DEF AllFailedSoFar
  <2>2. CASE modelUsed # NoModel
    BY <1>0, <1>1, <2>2 DEF FallbackInv
  <2>3. QED
    BY <2>1, <2>2
<1> HIDE DEF n
<1>4. how = "call" => [i \in DOMAIN callLog |-> callLog[i][1]] = SubSeq(Tried, 1, Len(callLog))
  <2> SUFFICES ASSUME how = "call" PROVE [i \in 1..n |-> callLog[i][1]] = SubSeq(Tried, 1, n)
    BY <1>1, <1>3
  <2>1. SubSeq(Tried, 1, n) = [i \in 1..n |-> Tried[i]]
    BY <1>1, <1>3
  <2>2. QED
    BY <1>3, <2>1
<1>5. how = "call" => \A i \in DOMAIN callLog : callLog[i][2] <=> ~(modelUsed # NoModel /\ i = attempt)
  BY <1>1, <1>3
<1>6. /\ modelUsed = NoModel => attempt = Len(Tried) + 1
      /\ modelUsed # NoModel => modelUsed = Tried[attempt] /\ answeredBy \in {modelUsed, "local"}
  BY <1>0 DEF FallbackInv
<1>7. QED
  BY <1>2, <1>3, <1>4, <1>5, <1>6 DEF ChainIsExhausted, n

(* A call that is allowed the three attempts of the code's default         *)
(* (model_fallback.py:62) asks the models of its chain in order, gives up  *)
(* after the last, the local one, and names the one that answered.         *)
THEOREM CallsExhaustTheirChain ==
  ASSUME MaxAttempts >= 3 PROVE CallSpec => []ChainIsExhausted
<1>1. CallInit => FallbackInv
  BY CallInitially
<1>2. FallbackInv /\ [CallNext]_callVars => FallbackInv'
  BY CallStep
<1>3. FallbackInv => ChainIsExhausted
  BY FallbackExhausts
<1>4. QED
  BY <1>1, <1>2, <1>3, PTL DEF CallSpec

-----------------------------------------------------------------------------
(* Triggers and their watchers (Watchdog).                                 *)

CheckSteps == {"snapshot", "decide"}
LoopSteps  == {"off", "idle", "write"} \union CheckSteps

(* Loops, checks and files.                                                *)
DogTyped ==
  /\ disk \in [Watchers -> Nat] /\ lastState \in [Watchers -> Nat] /\ lastTrig \in [Watchers -> Nat]
  /\ condition \in [Watchers -> Conditions \union {"none"}] /\ fired \in [Watchers -> Seq(Nat)]
  /\ loopAt \in [Loops -> LoopSteps] /\ DOMAIN loopOn = Loops
  /\ loopNow \in [Loops -> Nat] /\ loopSaw \in [Loops -> Nat]
  /\ started \in 0..MaxLoops /\ changes \in Nat /\ dogTime \in Nat
  /\ \A l \in Loops : /\ loopAt[l] \notin {"off", "idle"} => loopOn[l] \in Watchers
                      /\ l > started => loopAt[l] = "off"

(* Nothing is of the future. *)
InThePast ==
  /\ \A l \in Loops : loopNow[l] <= dogTime
  /\ \A w \in Watchers : lastTrig[w] <= dogTime /\ \A i \in DOMAIN fired[w] : fired[w][i] <= dogTime

(* The loops that are about to decide on w: with a check that began before *)
(* t, and with one that began in the cooldown from t; and those without an *)
(* old check.                                                              *)
AtDecision(l, w) == loopAt[l] \in CheckSteps /\ loopOn[l] = w
Old(w, t)      == {l \in 1..started : AtDecision(l, w) /\ loopNow[l] < t}
Recent(w, t)   == {l \in 1..started : AtDecision(l, w) /\ loopNow[l] \in t..(t + Cooldown - 1)}
Free(w, t)     == (1..started) \ Old(w, t)

(* b firings, d loops without an old check, r about to decide. *)
BurstBound(b, d, r, fresh) ==
  IF fresh THEN 2 * (b + r) <= d * d + d ELSE 2 * b + d <= d * d

BurstsBounded ==
  \A w \in Watchers, t \in Nat :
    BurstBound(Cardinality(Burst(w, t)), Cardinality(Free(w, t)), Cardinality(Recent(w, t)), lastTrig[w] >= t)

(* The sets that are counted are finite.                                   *)
LEMMA BurstSets ==
  ASSUME DogTyped, NEW w \in Watchers, NEW t \in Nat
  PROVE  /\ IsFiniteSet(Burst(w, t)) /\ Cardinality(Burst(w, t)) \in Nat
         /\ IsFiniteSet(Free(w, t)) /\ Cardinality(Free(w, t)) \in Nat
         /\ IsFiniteSet(Recent(w, t)) /\ Cardinality(Recent(w, t)) \in Nat
         /\ Cardinality(Recent(w, t)) <= Cardinality(Free(w, t))
         /\ Cardinality(Free(w, t)) <= started
<1>1. /\ IsFiniteSet(1..started) /\ Cardinality(1..started) = started
  <2>1. 0 \in Int /\ 1 \in Int /\ started \in Nat
    BY DEF DogTyped
  <2>2. QED
    BY <2>1, FS_Interval
<1>2. IsFiniteSet(DOMAIN fired[w])
  <2>1. fired[w] \in Seq(Nat)
    BY DEF DogTyped
  <2>2. DOMAIN fired[w] = 1..Len(fired[w]) /\ Len(fired[w]) \in Int /\ 1 \in Int
    BY <2>1
  <2>3. QED
    BY <2>2, FS_Interval
<1>3. Burst(w, t) \subseteq DOMAIN fired[w] /\ Free(w, t) \subseteq 1..started
      /\ Recent(w, t) \subseteq Free(w, t)
  <2>1. \A l \in 1..started : ~(loopNow[l] < t /\ loopNow[l] \in t..(t + Cooldown - 1))
    BY DogAssumption DEF DogTyped, Loops
  <2>2. QED
    BY <2>1 DEF Burst, Free, Recent, Old
<1>4. QED
  BY <1>1, <1>2, <1>3, FS_Subset, FS_CardinalityType

(* The numbers: what a step may do to a bound. *)
LEMMA BoundsKept ==
  ASSUME NEW b \in Nat, NEW d \in Nat, NEW r \in Nat, NEW f, BurstBound(b, d, r, f), r <= d
  PROVE  /\ BurstBound(b, d, r, TRUE)
         /\ BurstBound(b, d + 1, r, f)
         /\ BurstBound(b, d + 1, r, FALSE)
         /\ r > 0 => BurstBound(b + 1, d, r - 1, TRUE) /\ BurstBound(b, d, r - 1, f)
<1>1. (d + 1) * (d + 1) = d * d + 2 * d + 1 /\ d * d \in Nat
  OBVIOUS
<1>2. QED
  BY <1>1 DEF BurstBound

DogStep(w, t) ==
    BurstBound(Cardinality(Burst(w, t)), Cardinality(Free(w, t)), Cardinality(Recent(w, t)), lastTrig[w] >= t)

(* A step that leaves the checks of w and what it has fired alone. *)
LEMMA SameBurst ==
  ASSUME NEW w \in Watchers, NEW t \in Nat, DogStep(w, t),
         UNCHANGED <<started, fired[w], lastTrig[w]>>,
         \A l \in 1..started : /\ AtDecision(l, w) <=> AtDecision(l, w)'
                               /\ AtDecision(l, w) => loopNow'[l] = loopNow[l]
  PROVE  DogStep(w, t)'
<1>1. Old(w, t)' = Old(w, t) /\ Recent(w, t)' = Recent(w, t)
  BY DEF Old, Recent
<1>2. Burst(w, t)' = Burst(w, t) /\ Free(w, t)' = Free(w, t)
  BY <1>1 DEF Burst, Free
<1>3. QED
  BY <1>1, <1>2 DEF DogStep

(* start: one more loop without a check. *)
LEMMA BurstStart ==
  ASSUME DogTyped, NEW w \in Watchers, NEW t \in Nat, DogStep(w, t), StartDog
  PROVE  DogStep(w, t)'
<1>1. started + 1 \in Loops /\ started' = started + 1 /\ started \in Nat
      /\ loopAt' = [loopAt EXCEPT ![started + 1] = "idle"]
      /\ UNCHANGED <<fired, lastTrig, loopOn, loopNow>>
      /\ DOMAIN loopAt = Loops
  BY DogAssumption DEF StartDog, DogTyped, Loops
<1>2. \A l \in 1..started : l \in Loops /\ l # started + 1
  BY <1>1, DogAssumption DEF Loops
<1>3. 1..started' = (1..started) \union {started + 1} /\ started + 1 \notin 1..started
  BY <1>1
<1>4. \A l \in 1..started : AtDecision(l, w)' <=> AtDecision(l, w)
  BY <1>1, <1>2 DEF AtDecision
<1>5. \A l \in 1..started' : l \notin 1..started => ~AtDecision(l, w)'
  <2>1. \A l \in 1..started' : l \notin 1..started => l = started + 1
    BY <1>1
  <2>2. QED
    BY <1>1, <2>1 DEF AtDecision, CheckSteps
<1>6. Old(w, t)' = Old(w, t) /\ Recent(w, t)' = Recent(w, t)
  BY <1>1, <1>3, <1>4, <1>5 DEF Old, Recent
<1>7. Free(w, t)' = Free(w, t) \union {started + 1} /\ started + 1 \notin Free(w, t) /\ Burst(w, t)' = Burst(w, t)
  BY <1>1, <1>3, <1>6 DEF Free, Old, Burst
<1>8. Cardinality(Free(w, t)') = Cardinality(Free(w, t)) + 1
  <2>1. IsFiniteSet(Free(w, t))
    BY BurstSets
  <2>2. QED
    BY <1>7, <2>1, FS_AddElement
<1>9. QED
  <2> DEFINE b == Cardinality(Burst(w, t))
             d == Cardinality(Free(w, t))
             r == Cardinality(Recent(w, t))
             f == lastTrig[w] >= t
  <2>1. b \in Nat /\ d \in Nat /\ r \in Nat /\ r <= d
    BY BurstSets
  <2>2. BurstBound(b, d, r, f)
    BY DEF DogStep
  <2>3. Cardinality(Burst(w, t)') = b /\ Cardinality(Free(w, t)') = d + 1
        /\ Cardinality(Recent(w, t)') = r /\ (lastTrig'[w] >= t) = f
    BY <1>1, <1>6, <1>7, <1>8
  <2> HIDE DEF b, d, r, f
  <2>4. BurstBound(b, d + 1, r, f)
    BY <2>1, <2>2, BoundsKept
  <2>5. QED
    BY <2>3, <2>4 DEF DogStep

(* A check that begins. *)
LEMMA BurstBegin ==
  ASSUME DogTyped, InThePast, NEW w \in Watchers, NEW t \in Nat, DogStep(w, t),
         NEW l \in Loops, BeginCheck(l, w)
  PROVE  DogStep(w, t)'
<1>1. /\ loopAt[l] = "idle" /\ UNCHANGED <<fired, lastTrig, started>>
      /\ loopAt' = [loopAt EXCEPT ![l] = "snapshot"] /\ loopOn' = [loopOn EXCEPT ![l] = w]
      /\ loopNow' = [loopNow EXCEPT ![l] = dogTime] /\ dogTime - lastTrig[w] >= Cooldown
      /\ dogTime \in Nat /\ lastTrig[w] \in Nat /\ started \in Nat
  BY DogAssumption DEF BeginCheck, Cooling, DogTyped, fileVars
<1>2. l \in 1..started /\ \A k \in 1..started : k \in Loops
  <2>1. l \in Nat /\ 1 <= l /\ started <= MaxLoops /\ MaxLoops \in Nat
    BY DogAssumption DEF DogTyped, Loops
  <2>2. ~(l > started)
    BY <1>1 DEF DogTyped
  <2>3. QED
    BY <1>1, <2>1, <2>2 DEF Loops
<1>3. \A k \in 1..started : k # l => (AtDecision(k, w)' <=> AtDecision(k, w)) /\ loopNow'[k] = loopNow[k]
  BY <1>1, <1>2 DEF DogTyped, AtDecision
<1>4. AtDecision(l, w)' /\ ~AtDecision(l, w) /\ loopNow'[l] = dogTime
  BY <1>1 DEF DogTyped, AtDecision, CheckSteps
<1>5. Burst(w, t)' = Burst(w, t)
  BY <1>1 DEF Burst
<1>6. CASE dogTime < t
  <2>1. Burst(w, t) = {}
    BY <1>6 DEF Burst, InThePast, DogTyped
  <2>2. Cardinality(Burst(w, t)') = 0 /\ ~(lastTrig'[w] >= t)
    <3>1. ~(lastTrig[w] >= t)
      BY <1>1, <1>6 DEF InThePast
    <3>2. QED
      BY <1>1, <1>5, <2>1, <3>1, FS_EmptySet
  <2>3. Free(w, t)' \subseteq 1..started /\ 1 \in Int /\ started \in Int
    BY <1>1 DEF Free
  <2>4. Cardinality(Free(w, t)') \in Nat
    BY <2>3, FS_Interval, FS_Subset, FS_CardinalityType
  <2>5. \A d \in Nat : d <= d * d
    OBVIOUS
  <2>6. QED
    BY <2>2, <2>4, <2>5 DEF DogStep, BurstBound
<1>7. CASE dogTime >= t
  <2>1. Old(w, t)' = Old(w, t)
    BY <1>1, <1>2, <1>3, <1>4, <1>7 DEF Old
  <2>2. Free(w, t)' = Free(w, t)
    BY <1>1, <2>1 DEF Free
  <2>3. CASE lastTrig[w] < t
    BY <1>1, <1>5, <2>2, <2>3 DEF DogStep, BurstBound
  <2>4. CASE lastTrig[w] >= t
    <3>1. ~(dogTime \in t..(t + Cooldown - 1))
      BY <1>1, <2>4, DogAssumption
    <3>2. Recent(w, t)' = Recent(w, t)
      BY <1>1, <1>2, <1>3, <1>4, <3>1 DEF Recent
    <3>3. QED
      BY <1>1, <1>5, <2>2, <3>2 DEF DogStep
  <2>5. QED
    BY <1>1, <2>3, <2>4
<1>8. QED
  BY <1>1, <1>6, <1>7

(* A decision: it sets last_triggered back, or to the time of its check.   *)
LEMMA BurstDecide ==
  ASSUME DogTyped, NEW t \in Nat, NEW l \in Loops, Decide(l), DogStep(loopOn[l], t)
  PROVE  DogStep(loopOn[l], t)'
<1> DEFINE w == loopOn[l]
           n == loopNow[l]
           b == Cardinality(Burst(w, t))
           d == Cardinality(Free(w, t))
           r == Cardinality(Recent(w, t))
<1>1. /\ loopAt[l] = "decide" /\ w \in Watchers /\ n \in Nat /\ lastTrig[w] \in Nat
      /\ loopAt' = [loopAt EXCEPT ![l] = "write"] /\ DOMAIN loopAt = Loops
      /\ fired[w] \in Seq(Nat) /\ DOMAIN fired = Watchers /\ DOMAIN lastTrig = Watchers
      /\ started \in Nat /\ Cooldown \in Nat
      /\ UNCHANGED <<loopOn, loopNow, started>>
  BY DogAssumption DEF Decide, DogTyped
<1>2. \/ /\ lastTrig' = [lastTrig EXCEPT ![w] = n]
         /\ fired' = [fired EXCEPT ![w] = Append(@, n)]
      \/ UNCHANGED <<lastTrig, fired>>
  BY DEF Decide
<1>3. l \in 1..started /\ \A k \in 1..started : k \in Loops
  <2>1. l \in Nat /\ 1 <= l /\ started <= MaxLoops /\ MaxLoops \in Nat
    BY DogAssumption DEF DogTyped, Loops
  <2>2. ~(l > started)
    BY <1>1 DEF DogTyped
  <2>3. QED
    BY <1>1, <2>1, <2>2 DEF Loops
<1>4. b \in Nat /\ d \in Nat /\ r \in Nat /\ r <= d
      /\ IsFiniteSet(Burst(w, t)) /\ IsFiniteSet(Free(w, t)) /\ IsFiniteSet(Recent(w, t))
  BY <1>1, BurstSets
<1>5. BurstBound(b, d, r, lastTrig[w] >= t)
  BY DEF DogStep
<1>6. AtDecision(l, w) /\ ~AtDecision(l, w)' /\ \A k \in 1..started : k # l => (AtDecision(k, w)' <=> AtDecision(k, w))
  BY <1>1, <1>3 DEF AtDecision, CheckSteps
<1> HIDE DEF w, n
<1>7. Old(w, t)' = Old(w, t) \ {l} /\ Recent(w, t)' = Recent(w, t) \ {l}
  <2>1. w' = w
    BY <1>1 DEF w
  <2>2. QED
    BY <1>1, <1>6, <2>1 DEF Old, Recent
<1>8. CASE n < t
  <2>1. l \in Old(w, t) /\ l \notin Recent(w, t)
    BY <1>1, <1>3, <1>6, <1>8 DEF Old, Recent, n
  <2>2. Free(w, t)' = Free(w, t) \union {l} /\ l \notin Free(w, t) /\ Recent(w, t)' = Recent(w, t)
    BY <1>1, <1>3, <1>7, <2>1 DEF Free
  <2>3. Cardinality(Free(w, t)') = d + 1 /\ Cardinality(Recent(w, t)') = r
    BY <1>4, <2>2, FS_AddElement
  <2>4. Burst(w, t)' = Burst(w, t)
    <3>1. CASE fired' = [fired EXCEPT ![w] = Append(@, n)]
      <4>1. fired'[w] = Append(fired[w], n)
        BY <1>1, <3>1
      <4>2. DOMAIN fired'[w] = DOMAIN fired[w] \union {Len(fired[w]) + 1}
            /\ fired'[w][Len(fired[w]) + 1] = n /\ \A i \in DOMAIN fired[w] : fired'[w][i] = fired[w][i]
        BY <1>1, <4>1
      <4>3. n \notin t..(t + Cooldown - 1)
        BY <1>1, <1>8
      <4>4. w' = w
        BY <1>1 DEF w
      <4>5. QED
        BY <4>2, <4>3, <4>4 DEF Burst
    <3>2. CASE fired' = fired
      BY <1>1, <3>2 DEF Burst, w
    <3>3. QED
      BY <1>2, <3>1, <3>2
  <2>5. (lastTrig[w])' = lastTrig[w] \/ ~((lastTrig[w])' >= t)
    <3>1. CASE lastTrig' = [lastTrig EXCEPT ![w] = n]
      BY <1>1, <1>8, <3>1 DEF w
    <3>2. QED
      BY <1>1, <1>2, <3>1 DEF w
  <2>6. BurstBound(b, d + 1, r, (lastTrig[w])' >= t)
    <3>1. BurstBound(b, d + 1, r, lastTrig[w] >= t) /\ BurstBound(b, d + 1, r, FALSE)
      BY <1>4, <1>5, BoundsKept
    <3>2. CASE (lastTrig[w])' = lastTrig[w]
      BY <3>1, <3>2
    <3>3. CASE ~((lastTrig[w])' >= t)
      BY <3>1, <3>3 DEF BurstBound
    <3>4. QED
      BY <2>5, <3>2, <3>3
  <2>7. QED
    BY <2>3, <2>4, <2>6 DEF DogStep, w
<1>9. CASE n >= t
  <2>1. l \notin Old(w, t)
    BY <1>1, <1>9 DEF Old, n
  <2>2. Free(w, t)' = Free(w, t)
    BY <1>1, <1>7, <2>1 DEF Free
  <2>3. CASE fired' = [fired EXCEPT ![w] = Append(@, n)] /\ lastTrig' = [lastTrig EXCEPT ![w] = n]
    <3>0. w' = w
      BY <1>1 DEF w
    <3>1. fired'[w] = Append(fired[w], n) /\ lastTrig'[w] = n
      BY <1>1, <2>3
    <3>2. DOMAIN fired'[w] = DOMAIN fired[w] \union {Len(fired[w]) + 1}
          /\ Len(fired[w]) + 1 \notin DOMAIN fired[w]
          /\ fired'[w][Len(fired[w]) + 1] = n /\ \A i \in DOMAIN fired[w] : fired'[w][i] = fired[w][i]
      BY <1>1, <3>1
    <3>3. CASE n \in t..(t + Cooldown - 1)
      <4>1. l \in Recent(w, t)
        BY <1>1, <1>3, <1>6, <3>3 DEF Recent, n
      <4>2. Cardinality(Recent(w, t)') = r - 1 /\ r > 0
        <5>1. Cardinality(Recent(w, t) \ {l}) = r - 1 /\ Cardinality(Recent(w, t) \ {l}) \in Nat
          BY <1>4, <4>1, FS_RemoveElement, FS_CardinalityType
        <5>2. QED
          BY <1>4, <1>7, <5>1
      <4>3. Burst(w, t)' = Burst(w, t) \union {Len(fired[w]) + 1} /\ Len(fired[w]) + 1 \notin Burst(w, t)
        BY <3>0, <3>2, <3>3 DEF Burst
      <4>4. Cardinality(Burst(w, t)') = b + 1
        BY <1>4, <4>3, FS_AddElement
      <4>5. BurstBound(b + 1, d, r - 1, TRUE)
        BY <1>4, <1>5, <4>2, BoundsKept
      <4>6. (lastTrig[w])' >= t
        BY <1>9, <3>0, <3>1
      <4>7. QED
        BY <2>2, <4>2, <4>4, <4>5, <4>6 DEF DogStep, BurstBound, w
    <3>4. CASE n \notin t..(t + Cooldown - 1)
      <4>1. l \notin Recent(w, t)
        BY <1>1, <3>4 DEF Recent, n
      <4>2. Recent(w, t)' = Recent(w, t)
        BY <1>7, <4>1
      <4>3. Burst(w, t)' = Burst(w, t)
        BY <3>0, <3>2, <3>4 DEF Burst
      <4>4. BurstBound(b, d, r, TRUE)
        BY <1>4, <1>5, BoundsKept
      <4>5. (lastTrig[w])' >= t
        BY <1>9, <3>0, <3>1
      <4>6. QED
        BY <2>2, <4>2, <4>3, <4>4, <4>5 DEF DogStep, BurstBound, w
    <3>5. QED
      BY <3>3, <3>4
  <2>4. CASE UNCHANGED <<lastTrig, fired>>
    <3>1. Burst(w, t)' = Burst(w, t) /\ (lastTrig[w])' = lastTrig[w]
      BY <1>1, <2>4 DEF Burst, w
    <3>2. CASE l \in Recent(w, t)
      <4>1. Cardinality(Recent(w, t)') = r - 1 /\ r > 0
        <5>1. Cardinality(Recent(w, t) \ {l}) = r - 1 /\ Cardinality(Recent(w, t) \ {l}) \in Nat
          BY <1>4, <3>2, FS_RemoveElement, FS_CardinalityType
        <5>2. QED
          BY <1>4, <1>7, <5>1
      <4>2. BurstBound(b, d, r - 1, lastTrig[w] >= t)
        BY <1>4, <1>5, <4>1, BoundsKept
      <4>3. QED
        BY <2>2, <3>1, <4>1, <4>2 DEF DogStep, w
    <3>3. CASE l \notin Recent(w, t)
      <4>1. Recent(w, t)' = Recent(w, t)
        BY <1>7, <3>3
      <4>2. QED
        BY <1>5, <2>2, <3>1, <4>1 DEF DogStep, w
    <3>4. QED
      BY <3>2, <3>3
  <2>5. QED
    BY <1>2, <2>3, <2>4
<1>10. QED
  BY <1>1, <1>8, <1>9

(* What the only loop has seen of w, as long as start was called once.     *)
Ind(p) == IF p THEN 1 ELSE 0
At(w) == IF started = 1 /\ loopOn[1] = w /\ loopAt[1] \in {"decide", "write"} THEN loopAt[1] ELSE "idle"

(* The firings that what has happened on the disk may still cause, on a    *)
(* change and on an appearance.                                            *)
ChangesDue(w) ==
  CASE At(w) = "idle"   -> Ind(disk[w] # lastState[w])
    [] At(w) = "decide" -> Ind(loopSaw[1] # lastState[w]) + Ind(disk[w] # loopSaw[1])
    [] At(w) = "write"  -> Ind(disk[w] # loopSaw[1])
AppearancesDue(w) ==
  CASE At(w) = "idle"   -> Ind(disk[w] # 0 /\ lastState[w] = 0)
    [] At(w) = "decide" -> Ind(disk[w] # 0 /\ lastState[w] = 0) + Ind(disk[w] # 0 /\ loopSaw[1] = 0)
    [] At(w) = "write"  -> Ind(disk[w] # 0 /\ loopSaw[1] = 0)

Caused(w) ==
  started <= 1 =>
    /\ condition[w] = "change" => Len(fired[w]) + ChangesDue(w) <= changes
    /\ condition[w] = "exists" => Len(fired[w]) + AppearancesDue(w) <= 2 * changes

(* What was seen to change was told. *)
Told(w) ==
  /\ condition[w] = "change" =>
       /\ lastState[w] > 1 => fired[w] # <<>>
       /\ \A l \in Loops : loopAt[l] = "write" /\ loopOn[l] = w /\ loopSaw[l] > 1 => fired[w] # <<>>
  /\ condition[w] = "error" => fired[w] = <<>>
  /\ condition[w] = "none" =>
       fired[w] = <<>> /\ \A l \in Loops : loopAt[l] \in {"off", "idle"} \/ loopOn[l] # w

DogInv ==
  /\ DogTyped /\ InThePast /\ BurstsBounded
  /\ \A w \in Watchers : Caused(w) /\ Told(w)

(* Nothing has been fired at the beginning.                                *)
LEMMA DogInitially == ASSUME DogInit PROVE DogInv
<1>1. DogTyped
  <2>1. << >> \in Seq(Nat)
    OBVIOUS
  <2>2. QED
    BY <2>1, DogAssumption DEF DogInit, DogTyped, LoopSteps, Loops
<1>2. InThePast
  BY DogAssumption DEF DogInit, InThePast
<1>3. BurstsBounded
  <2> SUFFICES ASSUME NEW w \in Watchers, NEW t \in Nat PROVE DogStep(w, t)
    BY DEF BurstsBounded, DogStep
  <2>1. Burst(w, t) = {} /\ Recent(w, t) = {} /\ Free(w, t) = {}
    BY DEF DogInit, Burst, Recent, Free
  <2>2. QED
    BY <2>1, FS_EmptySet DEF DogStep, BurstBound
<1>4. ASSUME NEW w \in Watchers PROVE Caused(w) /\ Told(w)
  <2>1. fired[w] = << >> /\ Len(fired[w]) = 0 /\ condition[w] = "none"
    BY <1>4 DEF DogInit
  <2>2. QED
    BY <2>1 DEF DogInit, Caused, Told
<1>5. QED
  BY <1>1, <1>2, <1>3, <1>4 DEF DogInv

(* Types and times.                                                        *)
LEMMA DogTypes ==
  ASSUME DogTyped, InThePast, DogNext
  PROVE  DogTyped' /\ InThePast'
<1>1. ASSUME NEW w \in Watchers, NEW c \in Conditions, RegisterWatcher(w, c) PROVE DogTyped' /\ InThePast'
  BY <1>1 DEF RegisterWatcher, DogTyped, InThePast, loopVars
<1>2. ASSUME NEW w \in Watchers, Modify(w) PROVE DogTyped' /\ InThePast'
  BY <1>2 DEF Modify, DogTyped, InThePast, loopVars
<1>3. CASE StartDog
  <2>1. started + 1 \in Loops /\ started \in Nat
    BY <1>3, DogAssumption DEF StartDog, DogTyped, Loops
  <2>2. /\ loopAt' \in [Loops -> LoopSteps] /\ started' \in 0..MaxLoops
        /\ \A l \in Loops : /\ loopAt'[l] \notin {"off", "idle"} => loopAt'[l] = loopAt[l]
                            /\ l > started' => loopAt'[l] = loopAt[l] /\ l > started
    BY <1>3, <2>1, DogAssumption DEF StartDog, DogTyped, Loops, LoopSteps
  <2>3. QED
    BY <1>3, <2>2 DEF StartDog, DogTyped, InThePast, fileVars
<1>4. CASE StopDog \/ DogTick
  BY <1>4 DEF StopDog, DogTick, DogTyped, InThePast, fileVars, loopVars
<1>5. ASSUME NEW l \in Loops, LoopEnds(l) PROVE DogTyped' /\ InThePast'
  BY <1>5 DEF LoopEnds, DogTyped, InThePast, fileVars, LoopSteps
<1>6. ASSUME NEW l \in Loops, NEW w \in Watchers, BeginCheck(l, w) PROVE DogTyped' /\ InThePast'
  BY <1>6 DEF BeginCheck, DogTyped, InThePast, fileVars, LoopSteps, CheckSteps
<1>7. ASSUME NEW l \in Loops, TakeSnapshot(l) PROVE DogTyped' /\ InThePast'
  BY <1>7 DEF TakeSnapshot, DogTyped, InThePast, fileVars, LoopSteps, CheckSteps
<1>8. ASSUME NEW l \in Loops, Decide(l) PROVE DogTyped' /\ InThePast'
  <2> DEFINE v == loopOn[l]
             n == loopNow[l]
  <2>1. v \in Watchers /\ n \in Nat /\ n <= dogTime /\ fired[v] \in Seq(Nat)
    BY <1>8 DEF Decide, DogTyped, InThePast
  <2>2. /\ lastTrig' = lastTrig \/ lastTrig' = [lastTrig EXCEPT ![v] = n]
        /\ fired' = fired \/ fired' = [fired EXCEPT ![v] = Append(@, n)]
        /\ loopAt' = [loopAt EXCEPT ![l] = "write"] /\ loopAt[l] = "decide"
        /\ UNCHANGED <<disk, lastState, condition, loopOn, loopNow, loopSaw, started, changes, dogTime>>
    BY <1>8 DEF Decide, fileVars
  <2> HIDE DEF v, n
  <2>3. lastTrig' \in [Watchers -> Nat] /\ \A w \in Watchers : lastTrig'[w] <= dogTime
    <3>1. lastTrig \in [Watchers -> Nat] /\ \A w \in Watchers : lastTrig[w] <= dogTime
      BY DEF DogTyped, InThePast
    <3>2. QED
      BY <2>1, <2>2, <3>1
  <2>4. Append(fired[v], n) \in Seq(Nat) /\ \A i \in DOMAIN Append(fired[v], n) : Append(fired[v], n)[i] <= dogTime
    <3>1. \A i \in DOMAIN fired[v] : fired[v][i] <= dogTime
      BY <2>1 DEF InThePast
    <3>2. QED
      BY <2>1, <3>1
  <2>5. fired' \in [Watchers -> Seq(Nat)] /\ \A w \in Watchers : \A i \in DOMAIN fired'[w] : fired'[w][i] <= dogTime
    <3>1. fired \in [Watchers -> Seq(Nat)] /\ \A w \in Watchers : \A i \in DOMAIN fired[w] : fired[w][i] <= dogTime
      BY DEF DogTyped, InThePast
    <3>2. CASE fired' = fired
      BY <3>1, <3>2
    <3>3. CASE fired' = [fired EXCEPT ![v] = Append(@, n)]
      <4>1. fired'[v] = Append(fired[v], n) /\ \A w \in Watchers : w # v => fired'[w] = fired[w]
        BY <2>1, <3>1, <3>3
      <4>2. fired' \in [Watchers -> Seq(Nat)]
        BY <2>1, <2>4, <3>1, <3>3
      <4>3. QED
        BY <2>4, <3>1, <4>1, <4>2
    <3>4. QED
      BY <2>2, <3>2, <3>3
  <2>6. /\ loopAt' \in [Loops -> LoopSteps]
        /\ \A k \in Loops : /\ loopAt'[k] \notin {"off", "idle"} => loopOn[k] \in Watchers
                            /\ k > started => loopAt'[k] = "off"
    BY <1>8, <2>1, <2>2 DEF DogTyped, LoopSteps, v
  <2>7. DogTyped'
    BY <2>2, <2>3, <2>5, <2>6 DEF DogTyped
  <2>8. dogTime' = dogTime /\ \A k \in Loops : loopNow'[k] <= dogTime
    BY <2>2 DEF InThePast
  <2>9. InThePast'
    BY <2>3, <2>5, <2>8 DEF InThePast
  <2>10. QED
    BY <2>7, <2>9
<1>9. ASSUME NEW l \in Loops, WriteState(l) PROVE DogTyped' /\ InThePast'
  <2>1. /\ loopAt' = [loopAt EXCEPT ![l] = "idle"] /\ loopNow' = [loopNow EXCEPT ![l] = 0]
        /\ loopSaw' = [loopSaw EXCEPT ![l] = 0]
        /\ lastState' = [lastState EXCEPT ![loopOn[l]] = loopSaw[l]] /\ loopAt[l] = "write"
        /\ UNCHANGED <<condition, disk, changes, lastTrig, fired, dogRunning, loopOn, started, dogTime>>
    BY <1>9 DEF WriteState, fileVars
  <2>2. lastState' \in [Watchers -> Nat]
    BY <2>1 DEF DogTyped
  <2>3. /\ loopAt' \in [Loops -> LoopSteps]
        /\ \A k \in Loops : /\ loopAt'[k] \notin {"off", "idle"} => loopOn[k] \in Watchers
                            /\ k > started => loopAt'[k] = "off"
    BY <2>1 DEF DogTyped, LoopSteps
  <2>4. loopNow' \in [Loops -> Nat] /\ loopSaw' \in [Loops -> Nat]
        /\ \A k \in Loops : loopNow'[k] <= dogTime /\ dogTime \in Nat
    BY <2>1 DEF DogTyped, InThePast
  <2>5. DogTyped'
    BY <2>1, <2>2, <2>3, <2>4 DEF DogTyped
  <2>6. InThePast'
    BY <2>1, <2>4 DEF InThePast
  <2>7. QED
    BY <2>5, <2>6
<1>10. QED
  BY <1>1, <1>2, <1>3, <1>4, <1>5, <1>6, <1>7, <1>8, <1>9 DEF DogNext, LoopStep

(* What a step does to the bursts of a watcher.                            *)
LEMMA DogBursts ==
  ASSUME DogTyped, InThePast, BurstsBounded, DogNext
  PROVE  BurstsBounded'
<1> SUFFICES ASSUME NEW w \in Watchers, NEW t \in Nat PROVE DogStep(w, t)'
  BY DEF BurstsBounded, DogStep
<1>1. DogStep(w, t)
  BY DEF BurstsBounded, DogStep
<1>2. /\ started \in Nat /\ \A l \in 1..started : l \in Loops
      /\ DOMAIN loopAt = Loops /\ DOMAIN loopOn = Loops /\ DOMAIN loopNow = Loops
  BY DogAssumption DEF DogTyped, Loops
<1>3. CASE (\E v \in Watchers, c \in Conditions : RegisterWatcher(v, c)) \/ (\E v \in Watchers : Modify(v)) \/ StopDog \/ DogTick
  <2>1. UNCHANGED <<loopVars, started, fired, lastTrig>>
    BY <1>3 DEF RegisterWatcher, Modify, StopDog, DogTick
  <2>2. QED
    BY <1>1, <2>1, SameBurst DEF loopVars, AtDecision, CheckSteps
<1>4. CASE StartDog
  BY <1>1, <1>4, BurstStart
<1>5. ASSUME NEW l \in Loops, LoopEnds(l) \/ TakeSnapshot(l) \/ WriteState(l) PROVE DogStep(w, t)'
  <2>1. /\ UNCHANGED <<started, fired, lastTrig, loopOn>>
        /\ \A k \in Loops : k # l => loopAt'[k] = loopAt[k] /\ loopNow'[k] = loopNow[k]
        /\ loopAt[l] \in CheckSteps <=> loopAt'[l] \in CheckSteps
        /\ loopAt[l] \in CheckSteps => loopNow' = loopNow
    BY <1>2, <1>5 DEF LoopEnds, TakeSnapshot, WriteState, CheckSteps
  <2>2. \A k \in 1..started : (AtDecision(k, w) <=> AtDecision(k, w)') /\ (AtDecision(k, w) => loopNow'[k] = loopNow[k])
    BY <1>2, <2>1 DEF AtDecision, CheckSteps
  <2>3. QED
    BY <1>1, <2>1, <2>2, SameBurst
<1>6. ASSUME NEW l \in Loops, NEW v \in Watchers, BeginCheck(l, v) PROVE DogStep(w, t)'
  <2>1. CASE v = w
    BY <1>1, <1>6, <2>1, BurstBegin
  <2>2. CASE v # w
    <3>1. /\ UNCHANGED <<started, fired, lastTrig>> /\ loopAt[l] = "idle" /\ loopOn'[l] = v
          /\ \A k \in Loops : k # l => loopAt'[k] = loopAt[k] /\ loopNow'[k] = loopNow[k] /\ loopOn'[k] = loopOn[k]
      BY <1>2, <1>6 DEF BeginCheck
    <3>2. \A k \in 1..started : (AtDecision(k, w) <=> AtDecision(k, w)') /\ (AtDecision(k, w) => loopNow'[k] = loopNow[k])
      BY <1>2, <2>2, <3>1 DEF AtDecision, CheckSteps
    <3>3. QED
      BY <1>1, <3>1, <3>2, SameBurst
  <2>3. QED
    BY <2>1, <2>2
<1>7. ASSUME NEW l \in Loops, Decide(l) PROVE DogStep(w, t)'
  <2>0. UNCHANGED loopOn
    BY <1>7 DEF Decide
  <2>1. CASE loopOn[l] = w
    <3>1. DogStep(loopOn[l], t)
      BY <1>1, <2>1
    <3>2. DogStep(loopOn[l], t)'
      BY <1>7, <3>1, BurstDecide
    <3>3. QED
      BY <2>0, <2>1, <3>2 DEF DogStep, Burst, Free, Recent, Old, AtDecision
  <2>2. CASE loopOn[l] # w
    <3>1. /\ UNCHANGED <<started, loopOn, loopNow>> /\ fired'[w] = fired[w] /\ lastTrig'[w] = lastTrig[w]
          /\ \A k \in Loops : k # l => loopAt'[k] = loopAt[k]
      BY <1>2, <1>7, <2>2 DEF Decide, DogTyped
    <3>2. \A k \in 1..started : (AtDecision(k, w) <=> AtDecision(k, w)') /\ (AtDecision(k, w) => loopNow'[k] = loopNow[k])
      BY <1>2, <2>2, <3>1 DEF AtDecision, CheckSteps
    <3>3. QED
      BY <1>1, <3>1, <3>2, SameBurst
  <2>3. QED
    BY <2>1, <2>2
<1>8. QED
  BY <1>3, <1>4, <1>5, <1>6, <1>7 DEF DogNext, LoopStep

(* What a step does to the account of the firings.                         *)
LEMMA DogCauses ==
  ASSUME DogTyped, DogTyped', DogNext, NEW w \in Watchers, Caused(w), Told(w)
  PROVE  Caused(w)' /\ Told(w)'
<1>1. /\ DOMAIN loopAt = Loops /\ DOMAIN loopOn = Loops /\ DOMAIN loopSaw = Loops
      /\ DOMAIN condition = Watchers /\ DOMAIN disk = Watchers /\ DOMAIN lastState = Watchers
      /\ disk[w] \in Nat /\ lastState[w] \in Nat /\ fired[w] \in Seq(Nat) /\ Len(fired[w]) \in Nat
      /\ started \in Nat /\ changes \in Nat /\ (started = 1 => 1 \in Loops)
      /\ \A l \in Loops : loopSaw[l] \in Nat
  <2>1. \A x \in Seq(Nat) : Len(x) \in Nat
    OBVIOUS
  <2>2. started = 1 => 1 \in Loops
    BY DogAssumption DEF DogTyped, Loops
  <2>3. QED
    BY <2>1, <2>2 DEF DogTyped
<1>2. At(w) \in {"idle", "decide", "write"}
  BY DEF At
<1>3. ASSUME NEW v \in Watchers, NEW c \in Conditions, RegisterWatcher(v, c) PROVE Caused(w)' /\ Told(w)'
  <2>1. /\ UNCHANGED <<loopVars, fired, started, changes>> /\ condition[v] = "none"
        /\ condition' = [condition EXCEPT ![v] = c]
        /\ disk'[v] \in {0, 1} /\ lastState'[v] = disk'[v]
        /\ \A u \in Watchers : u # v => disk'[u] = disk[u] /\ lastState'[u] = lastState[u]
    BY <1>1, <1>3 DEF RegisterWatcher
  <2>2. CASE v = w
    <3>1. fired'[w] = << >> /\ \A l \in Loops : loopAt'[l] \in {"off", "idle"} \/ loopOn'[l] # w
      BY <2>1, <2>2 DEF Told, loopVars
    <3>3. At(w)' = "idle"
      <4>1. started' = started /\ (started = 1 => loopAt'[1] \in {"off", "idle"} \/ loopOn'[1] # w)
        BY <1>1, <2>1, <3>1
      <4>2. QED
        BY <4>1 DEF At
    <3>4. Ind(disk'[w] # lastState'[w]) = 0 /\ Ind(disk'[w] # 0 /\ lastState'[w] = 0) = 0
      BY <2>1, <2>2 DEF Ind
    <3>5. Len(fired'[w]) = 0 /\ lastState'[w] <= 1
      BY <2>1, <2>2, <3>1
    <3>6. Caused(w)'
      BY <1>1, <2>1, <3>3, <3>4, <3>5 DEF Caused, ChangesDue, AppearancesDue
    <3>7. Told(w)'
      BY <2>1, <2>2, <3>1, <3>5 DEF Told
    <3>8. QED
      BY <3>6, <3>7
  <2>3. CASE v # w
    <3>1. condition'[w] = condition[w] /\ disk'[w] = disk[w] /\ lastState'[w] = lastState[w]
      BY <1>1, <2>1, <2>3
    <3>2. At(w)' = At(w)
      BY <2>1 DEF At, loopVars
    <3>3. Caused(w)'
      BY <2>1, <3>1, <3>2 DEF Caused, ChangesDue, AppearancesDue, loopVars
    <3>4. Told(w)'
      BY <2>1, <3>1 DEF Told, loopVars
    <3>5. QED
      BY <3>3, <3>4
  <2>4. QED
    BY <2>2, <2>3
<1>4. ASSUME NEW v \in Watchers, Modify(v) PROVE Caused(w)' /\ Told(w)'
  <2>1. UNCHANGED <<condition, lastState, fired, started, loopVars>> /\ changes' = changes + 1
    BY <1>4 DEF Modify
  <2>2. At(w)' = At(w)
    BY <2>1 DEF At, loopVars
  <2>3. ChangesDue(w)' <= ChangesDue(w) + 1 /\ AppearancesDue(w)' <= AppearancesDue(w) + 2
    BY <1>2, <2>1, <2>2 DEF ChangesDue, AppearancesDue, Ind, loopVars
  <2>4. ChangesDue(w) \in Nat /\ AppearancesDue(w) \in Nat /\ ChangesDue(w)' \in Nat /\ AppearancesDue(w)' \in Nat
    BY <1>2, <2>2 DEF ChangesDue, AppearancesDue, Ind
  <2>5. Caused(w)'
    <3>1. SUFFICES ASSUME started <= 1 PROVE Caused(w)'
      BY <2>1 DEF Caused
    <3>2. ASSUME condition[w] = "change" PROVE Len(fired[w]) + ChangesDue(w)' <= changes + 1
      BY <1>1, <2>3, <2>4, <3>1, <3>2 DEF Caused
    <3>3. ASSUME condition[w] = "exists" PROVE Len(fired[w]) + AppearancesDue(w)' <= 2 * (changes + 1)
      BY <1>1, <2>3, <2>4, <3>1, <3>3 DEF Caused
    <3>4. QED
      BY <2>1, <3>2, <3>3 DEF Caused
  <2>6. QED
    BY <2>1, <2>5 DEF Told, loopVars
<1>5. CASE StartDog
  <2>1. started + 1 \in Loops /\ started' = started + 1
        /\ loopAt' = [loopAt EXCEPT ![started + 1] = "idle"]
        /\ UNCHANGED <<condition, disk, lastState, fired, changes, loopOn, loopSaw>>
    BY <1>1, <1>5, DogAssumption DEF StartDog, fileVars, Loops, DogTyped
  <2>2. started' <= 1 => started = 0 /\ At(w)' = "idle" /\ At(w) = "idle"
    BY <1>1, <2>1 DEF At
  <2>3. Caused(w)'
    BY <2>1, <2>2 DEF Caused, ChangesDue, AppearancesDue
  <2>4. \A l \in Loops : loopAt'[l] = loopAt[l] \/ loopAt'[l] = "idle"
    BY <1>1, <2>1
  <2>5. QED
    BY <2>1, <2>3, <2>4 DEF Told
<1>6. CASE StopDog \/ DogTick
  <2>1. UNCHANGED <<condition, disk, lastState, fired, changes, loopAt, loopOn, loopSaw, started>>
    BY <1>6 DEF StopDog, DogTick, fileVars, loopVars
  <2>2. QED
    BY <2>1 DEF Told, Caused, ChangesDue, AppearancesDue, At
<1>7. ASSUME NEW l \in Loops, LoopEnds(l) PROVE Caused(w)' /\ Told(w)'
  <2>1. /\ UNCHANGED <<condition, disk, lastState, fired, changes, loopOn, loopSaw, started>>
        /\ loopAt' = [loopAt EXCEPT ![l] = "off"] /\ loopAt[l] = "idle"
    BY <1>7 DEF LoopEnds, fileVars
  <2>2. At(w)' = At(w)
    BY <1>1, <2>1 DEF At
  <2>3. Caused(w)'
    BY <2>1, <2>2 DEF Caused, ChangesDue, AppearancesDue
  <2>4. \A k \in Loops : loopAt'[k] = loopAt[k] \/ loopAt'[k] = "off"
    BY <1>1, <2>1
  <2>5. QED
    BY <2>1, <2>3, <2>4 DEF Told
<1>8. ASSUME NEW l \in Loops, NEW v \in Watchers, BeginCheck(l, v) PROVE Caused(w)' /\ Told(w)'
  <2>1. /\ UNCHANGED <<condition, disk, lastState, fired, changes, loopSaw, started>>
        /\ loopAt' = [loopAt EXCEPT ![l] = "snapshot"] /\ loopAt[l] = "idle"
        /\ loopOn' = [loopOn EXCEPT ![l] = v] /\ condition[v] # "none"
    BY <1>8 DEF BeginCheck, fileVars
  <2>2. At(w)' = At(w)
    BY <1>1, <2>1 DEF At
  <2>3. Caused(w)'
    BY <2>1, <2>2 DEF Caused, ChangesDue, AppearancesDue
  <2>4. \A k \in Loops : k # l => loopAt'[k] = loopAt[k] /\ loopOn'[k] = loopOn[k]
    BY <1>1, <2>1
  <2>5. loopAt'[l] = "snapshot" /\ loopOn'[l] = v
    BY <1>1, <2>1
  <2>6. QED
    BY <2>1, <2>3, <2>4, <2>5 DEF Told
<1>9. ASSUME NEW l \in Loops, TakeSnapshot(l) PROVE Caused(w)' /\ Told(w)'
  <2>1. /\ UNCHANGED <<condition, disk, lastState, fired, changes, loopOn, started>>
        /\ loopAt' = [loopAt EXCEPT ![l] = "decide"] /\ loopAt[l] = "snapshot"
        /\ loopSaw' = [loopSaw EXCEPT ![l] = disk[loopOn[l]]]
    BY <1>9 DEF TakeSnapshot, fileVars
  <2>2. \A k \in Loops : k # l => loopAt'[k] = loopAt[k] /\ loopSaw'[k] = loopSaw[k]
    BY <1>1, <2>1
  <2>3. loopAt'[l] = "decide" /\ loopSaw'[l] = disk[loopOn[l]]
    BY <1>1, <2>1
  <2>4. Caused(w)'
    <3>1. SUFFICES ASSUME started <= 1 PROVE ChangesDue(w)' <= ChangesDue(w) /\ AppearancesDue(w)' <= AppearancesDue(w)
                   /\ ChangesDue(w) \in Nat /\ AppearancesDue(w) \in Nat /\ ChangesDue(w)' \in Nat /\ AppearancesDue(w)' \in Nat
      BY <1>1, <2>1 DEF Caused
    <3>2. CASE started = 1 /\ l = 1 /\ loopOn[1] = w
      <4>1. At(w)' = "decide" /\ At(w) = "idle" /\ loopSaw'[1] = disk[w]
        BY <2>1, <2>3, <3>2 DEF At
      <4>2. QED
        BY <2>1, <4>1 DEF ChangesDue, AppearancesDue, Ind
    <3>3. CASE ~(started = 1 /\ l = 1 /\ loopOn[1] = w)
      <4>1. At(w)' = At(w) /\ (At(w) # "idle" => loopSaw'[1] = loopSaw[1])
        BY <1>1, <2>1, <2>2, <2>3, <3>3 DEF At
      <4>2. QED
        BY <1>2, <2>1, <4>1 DEF ChangesDue, AppearancesDue, Ind
    <3>4. QED
      BY <3>2, <3>3
  <2>5. Told(w)'
    BY <2>1, <2>2, <2>3 DEF Told
  <2>6. QED
    BY <2>4, <2>5
<1>10. ASSUME NEW l \in Loops, Decide(l) PROVE Caused(w)' /\ Told(w)'
  <2>1. /\ UNCHANGED <<condition, disk, lastState, changes, loopOn, loopSaw, started>>
        /\ loopAt' = [loopAt EXCEPT ![l] = "write"] /\ loopAt[l] = "decide"
        /\ loopOn[l] \in Watchers
    BY <1>10 DEF Decide, fileVars, DogTyped
  <2>2. (\A k \in Loops : k # l => loopAt'[k] = loopAt[k]) /\ loopAt'[l] = "write"
    BY <1>1, <2>1
  <2>3. CASE loopOn[l] = w
    <3>1. condition[w] # "none"
      BY <2>1, <2>3 DEF Told
    <3>2. Holds(w, loopSaw[l]) => fired'[w] = Append(fired[w], loopNow[l])
      BY <1>10, <2>3 DEF Decide, DogTyped
    <3>3. ~Holds(w, loopSaw[l]) => fired'[w] = fired[w]
      BY <1>10, <2>3 DEF Decide
    <3>4. fired'[w] = Append(fired[w], loopNow[l]) => fired'[w] # << >> /\ Len(fired'[w]) = Len(fired[w]) + 1
      <4>1. loopNow[l] \in Nat /\ fired[w] \in Seq(Nat)
        BY DEF DogTyped
      <4>2. \A x \in Seq(Nat), y \in Nat : Append(x, y) # << >> /\ Len(Append(x, y)) = Len(x) + 1
        OBVIOUS
      <4>3. QED
        BY <4>1, <4>2
    <3>5. /\ condition[w] = "change" => (Holds(w, loopSaw[l]) <=> loopSaw[l] # lastState[w])
          /\ condition[w] = "exists" => (Holds(w, loopSaw[l]) <=> disk[w] # 0 /\ lastState[w] = 0)
          /\ condition[w] = "error" => ~Holds(w, loopSaw[l])
      BY DEF Holds
    <3>6. Told(w)'
      BY <2>1, <2>2, <2>3, <3>1, <3>2, <3>3, <3>4, <3>5 DEF Told
    <3>7. Caused(w)'
      <4>1. SUFFICES ASSUME started <= 1 PROVE Caused(w)'
        BY <2>1 DEF Caused
      <4>2. started = 1 /\ l = 1
        <5>1. l \in Nat /\ 1 <= l /\ ~(l > started)
          BY <2>1 DEF DogTyped, Loops
        <5>2. QED
          BY <1>1, <4>1, <5>1
      <4>3. At(w) = "decide" /\ At(w)' = "write"
        BY <2>1, <2>2, <2>3, <4>2 DEF At
      <4>4. CASE condition[w] = "change"
        <5>1. Len(fired[w]) + ChangesDue(w) <= changes
          BY <4>1, <4>4 DEF Caused
        <5>2. Len(fired'[w]) + ChangesDue(w)' = Len(fired[w]) + ChangesDue(w)
          <6>1. ChangesDue(w) = Ind(loopSaw[1] # lastState[w]) + Ind(disk[w] # loopSaw[1])
            BY <4>3 DEF ChangesDue
          <6>2. ChangesDue(w)' = Ind(disk[w] # loopSaw[1])
            BY <2>1, <4>3 DEF ChangesDue
          <6>3. Holds(w, loopSaw[l]) <=> loopSaw[1] # lastState[w]
            BY <3>5, <4>2, <4>4
          <6>4. Len(fired'[w]) = Len(fired[w]) + Ind(loopSaw[1] # lastState[w])
            <7>1. CASE loopSaw[1] # lastState[w]
              <8>1. fired'[w] = Append(fired[w], loopNow[l])
                BY <3>2, <6>3, <7>1
              <8>2. QED
                BY <1>1, <3>4, <7>1, <8>1 DEF Ind
            <7>2. CASE ~(loopSaw[1] # lastState[w])
              <8>1. fired'[w] = fired[w]
                BY <3>3, <6>3, <7>2
              <8>2. QED
                BY <1>1, <7>2, <8>1 DEF Ind
            <7>3. QED
              BY <7>1, <7>2
          <6>5. Ind(loopSaw[1] # lastState[w]) \in Nat /\ Ind(disk[w] # loopSaw[1]) \in Nat
            BY DEF Ind
          <6>6. QED
            BY <1>1, <6>1, <6>2, <6>4, <6>5
        <5>3. QED
          BY <2>1, <4>4, <5>1, <5>2 DEF Caused
      <4>5. CASE condition[w] = "exists"
        <5>1. Len(fired[w]) + AppearancesDue(w) <= 2 * changes
          BY <4>1, <4>5 DEF Caused
        <5>2. Len(fired'[w]) + AppearancesDue(w)' = Len(fired[w]) + AppearancesDue(w)
          <6>1. AppearancesDue(w) = Ind(disk[w] # 0 /\ lastState[w] = 0) + Ind(disk[w] # 0 /\ loopSaw[1] = 0)
            BY <4>3 DEF AppearancesDue
          <6>2. AppearancesDue(w)' = Ind(disk[w] # 0 /\ loopSaw[1] = 0)
            BY <2>1, <4>3 DEF AppearancesDue
          <6>3. Holds(w, loopSaw[l]) <=> disk[w] # 0 /\ lastState[w] = 0
            BY <3>5, <4>2, <4>5
          <6>4. Len(fired'[w]) = Len(fired[w]) + Ind(disk[w] # 0 /\ lastState[w] = 0)
            <7>1. CASE disk[w] # 0 /\ lastState[w] = 0
              <8>1. fired'[w] = Append(fired[w], loopNow[l])
                BY <3>2, <6>3, <7>1
              <8>2. QED
                BY <1>1, <3>4, <7>1, <8>1 DEF Ind
            <7>2. CASE ~(disk[w] # 0 /\ lastState[w] = 0)
              <8>1. fired'[w] = fired[w]
                <9>1. ~Holds(w, loopSaw[l])
                  BY ONLY <6>3, <7>2
                <9>2. QED
                  BY <3>3, <9>1
              <8>2. QED
                <9>1. Ind(disk[w] # 0 /\ lastState[w] = 0) = 0
                  BY <7>2 DEF Ind
                <9>2. QED
                  BY <1>1, <8>1, <9>1
            <7>3. QED
              BY <7>1, <7>2
          <6>5. Ind(disk[w] # 0 /\ lastState[w] = 0) \in Nat /\ Ind(disk[w] # 0 /\ loopSaw[1] = 0) \in Nat
            BY DEF Ind
          <6>6. QED
            BY <1>1, <6>1, <6>2, <6>4, <6>5
        <5>3. QED
          BY <2>1, <4>5, <5>1, <5>2 DEF Caused
      <4>6. QED
        BY <2>1, <4>4, <4>5 DEF Caused
    <3>8. QED
      BY <3>6, <3>7
  <2>4. CASE loopOn[l] # w
    <3>1. fired'[w] = fired[w]
      BY <1>10, <2>1, <2>4 DEF Decide, DogTyped
    <3>2. At(w)' = At(w)
      BY <1>1, <2>1, <2>4 DEF At
    <3>3. Caused(w)'
      BY <2>1, <3>1, <3>2 DEF Caused, ChangesDue, AppearancesDue
    <3>4. Told(w)'
      BY <2>1, <2>2, <2>4, <3>1 DEF Told
    <3>5. QED
      BY <3>3, <3>4
  <2>5. QED
    BY <2>3, <2>4
<1>11. ASSUME NEW l \in Loops, WriteState(l) PROVE Caused(w)' /\ Told(w)'
  <2>1. /\ UNCHANGED <<condition, disk, fired, changes, loopOn, started>>
        /\ loopAt' = [loopAt EXCEPT ![l] = "idle"] /\ loopAt[l] = "write"
        /\ lastState' = [lastState EXCEPT ![loopOn[l]] = loopSaw[l]]
        /\ loopSaw' = [loopSaw EXCEPT ![l] = 0] /\ loopOn[l] \in Watchers
    BY <1>11 DEF WriteState, fileVars, DogTyped
  <2>2. (\A k \in Loops : k # l => loopAt'[k] = loopAt[k] /\ loopSaw'[k] = loopSaw[k]) /\ loopAt'[l] = "idle"
    BY <1>1, <2>1
  <2>3. CASE loopOn[l] = w
    <3>1. lastState'[w] = loopSaw[l]
      BY <1>1, <2>1, <2>3
    <3>2. Told(w)'
      BY <2>1, <2>2, <2>3, <3>1 DEF Told
    <3>3. Caused(w)'
      <4>1. SUFFICES ASSUME started <= 1 PROVE Caused(w)'
        BY <2>1 DEF Caused
      <4>2. started = 1 /\ l = 1
        <5>1. l \in Nat /\ 1 <= l /\ ~(l > started)
          BY <2>1 DEF DogTyped, Loops
        <5>2. QED
          BY <1>1, <4>1, <5>1
      <4>3. At(w) = "write" /\ At(w)' = "idle"
        BY <2>1, <2>2, <2>3, <4>2 DEF At
      <4>4. ChangesDue(w)' = ChangesDue(w) /\ AppearancesDue(w)' = AppearancesDue(w)
        BY <2>1, <3>1, <4>2, <4>3 DEF ChangesDue, AppearancesDue, Ind
      <4>5. QED
        BY <2>1, <4>4 DEF Caused
    <3>4. QED
      BY <3>2, <3>3
  <2>4. CASE loopOn[l] # w
    <3>1. lastState'[w] = lastState[w]
      BY <1>1, <2>1, <2>4
    <3>2. At(w)' = At(w) /\ (At(w) # "idle" => loopSaw'[1] = loopSaw[1])
      BY <1>1, <2>1, <2>4 DEF At
    <3>3. Caused(w)'
      BY <1>2, <2>1, <3>1, <3>2 DEF Caused, ChangesDue, AppearancesDue
    <3>4. Told(w)'
      BY <2>1, <2>2, <2>4, <3>1 DEF Told
    <3>5. QED
      BY <3>3, <3>4
  <2>5. QED
    BY <2>3, <2>4
<1>12. QED
  BY <1>3, <1>4, <1>5, <1>6, <1>7, <1>8, <1>9, <1>10, <1>11 DEF DogNext, LoopStep

LEMMA DogKept == ASSUME DogInv, DogNext PROVE DogInv'
<1>1. DogTyped /\ InThePast /\ BurstsBounded /\ \A w \in Watchers : Caused(w) /\ Told(w)
  BY DEF DogInv
<1>2. DogTyped' /\ InThePast'
  BY <1>1, DogTypes
<1>3. BurstsBounded'
  BY <1>1, DogBursts
<1>4. \A w \in Watchers : Caused(w)' /\ Told(w)'
  BY <1>1, <1>2, DogCauses
<1>5. QED
  BY <1>2, <1>3, <1>4 DEF DogInv

LEMMA DogRests == ASSUME DogInv, UNCHANGED dogVars PROVE DogInv'
<1>1. UNCHANGED <<disk, lastState, lastTrig, condition, fired, loopAt, loopOn, loopNow, loopSaw,
                  started, changes, dogTime>>
  BY DEF dogVars, fileVars, loopVars
<1>2. DogTyped' /\ InThePast'
  BY <1>1 DEF DogInv, DogTyped, InThePast
<1>3. BurstsBounded'
  BY <1>1 DEF DogInv, BurstsBounded, Burst, Free, Recent, Old, AtDecision
<1>4. \A w \in Watchers : Caused(w)' /\ Told(w)'
  BY <1>1 DEF DogInv, Caused, Told, ChangesDue, AppearancesDue, At
<1>5. QED
  BY <1>2, <1>3, <1>4 DEF DogInv

LEMMA DogSafe == ASSUME DogInv PROVE WatchdogIsSound
<1>1. DogTyped /\ BurstsBounded /\ \A w \in Watchers : Caused(w) /\ Told(w)
  BY DEF DogInv
<1> SUFFICES ASSUME NEW w \in Watchers
    PROVE  /\ \A t \in 0..DogMaxTime : 2 * Cardinality(Burst(w, t)) <= started * (started + 1)
           /\ started <= 1 =>
                /\ condition[w] = "change" => Len(fired[w]) <= changes
                /\ condition[w] = "exists" => Len(fired[w]) <= 2 * changes
           /\ condition[w] = "change" /\ lastState[w] > 1 => fired[w] # << >>
           /\ condition[w] = "error" => fired[w] = << >>
  BY DEF WatchdogIsSound
<1>2. ASSUME NEW t \in 0..DogMaxTime PROVE 2 * Cardinality(Burst(w, t)) <= started * (started + 1)
  <2> DEFINE b == Cardinality(Burst(w, t))
             d == Cardinality(Free(w, t))
             r == Cardinality(Recent(w, t))
             k == started
  <2>1. b \in Nat /\ d \in Nat /\ r \in Nat /\ d <= k /\ k \in Nat
    <3>1. t \in Nat /\ started \in Nat
      BY <1>1, DogAssumption DEF DogTyped
    <3>2. QED
      BY <1>1, <3>1, BurstSets
  <2>2. BurstBound(b, d, r, lastTrig[w] >= t)
    BY <1>1, DogAssumption DEF BurstsBounded
  <2> HIDE DEF b, d, r, k
  <2>3. 2 * b <= d * d + d
    BY <2>1, <2>2 DEF BurstBound
  <2>4. d * d <= k * k
    <3>1. PICK e \in Nat : k = d + e
      <4>1. k - d \in Nat /\ k = d + (k - d)
        BY <2>1
      <4>2. QED
        BY <4>1
    <3>2. k * k = d * d + 2 * (d * e) + e * e /\ d * e \in Nat /\ e * e \in Nat /\ d * d \in Nat
      BY <2>1, <3>1
    <3>3. QED
      BY <3>2
  <2>5. k * (k + 1) = k * k + k /\ k * k \in Nat /\ d * d \in Nat
    BY <2>1
  <2>6. 2 * b <= k * (k + 1)
    BY <2>1, <2>3, <2>4, <2>5
  <2>7. QED
    BY <2>6 DEF b, k
<1>3. Len(fired[w]) \in Nat /\ changes \in Nat
  BY <1>1 DEF DogTyped
<1>4. ChangesDue(w) \in Nat /\ AppearancesDue(w) \in Nat
  <2>1. At(w) \in {"idle", "decide", "write"}
    BY DEF At
  <2>2. QED
    BY <2>1 DEF ChangesDue, AppearancesDue, Ind
<1>5. QED
  BY <1>1, <1>2, <1>3, <1>4 DEF Caused, Told

(* A trigger fires in no other than its condition, once per change at      *)
(* most, and each loop adds to a burst no more than its place among the    *)
(* loops that were started (core/event_triggers.py), for any number of     *)
(* watchers and loops.                                                     *)
THEOREM WatchdogSound == DogSpec => []WatchdogIsSound
<1>1. DogInit => DogInv
  BY DogInitially
<1>2. DogInv /\ [DogNext]_dogVars => DogInv'
  BY DogKept, DogRests
<1>3. DogInv => WatchdogIsSound
  BY DogSafe
<1>4. QED
  BY <1>1, <1>2, <1>3, PTL DEF DogSpec

-----------------------------------------------------------------------------
(* What the swarm decides (Decisions): what is answered is right for       *)
(* whatever was asked, so that nothing is needed of the state before.      *)

(* More roles weigh no less together.                                      *)
LEMMA WeightGrows ==
  ASSUME NEW votes, NEW others, NEW d,
         Deciding(votes, d) \subseteq Deciding(others, d), Deciding(others, d) \subseteq Voters
  PROVE  WeightOf(votes, d) \in Nat /\ WeightOf(others, d) \in Nat /\ WeightOf(votes, d) <= WeightOf(others, d)
<1> DEFINE Shares(v) == UNION {{r} \X (1..Weight(r)) : r \in Deciding(v, d)}
<1>1. \A r : Weight(r) \in 1..3
  <2>1. \A r \in DOMAIN RoleWeights : RoleWeights[r] \in 1..3
    BY DEF RoleWeights
  <2>2. QED
    BY <2>1 DEF Weight
<1>2. IsFiniteSet(Voters \X (1..3))
  <2>1. \A k \in Nat : IsFiniteSet(1..k)
    BY FS_Interval
  <2>2. QED
    BY <2>1, FS_Product, DecisionAssumption
<1>3. Shares(others) \in SUBSET (Voters \X (1..3))
  BY <1>1
<1>4. Shares(votes) \in SUBSET Shares(others)
  OBVIOUS
<1>5. WeightOf(votes, d) = Cardinality(Shares(votes)) /\ WeightOf(others, d) = Cardinality(Shares(others))
  BY DEF WeightOf
<1> HIDE DEF Shares
<1>6. IsFiniteSet(Shares(others)) /\ IsFiniteSet(Shares(votes)) /\ Cardinality(Shares(votes)) <= Cardinality(Shares(others))
  BY <1>2, <1>3, <1>4, FS_Subset
<1>7. QED
  BY <1>5, <1>6, FS_CardinalityType

(* A proposal stays approved when a role approves it instead of what it    *)
(* had said.                                                               *)
LEMMA ApprovalKept ==
  ASSUME NEW s \in VoteStrategies, NEW who \in SUBSET Voters,
         NEW votes \in [who -> {"approve", "reject", "abstain"}], NEW r \in who,
         Resolve(s, votes)
  PROVE  Resolve(s, [votes EXCEPT ![r] = "approve"])
<1> DEFINE now == [votes EXCEPT ![r] = "approve"]
<1>1. /\ now \in [who -> {"approve", "reject", "abstain"}] /\ DOMAIN now = who /\ DOMAIN votes = who
      /\ \A q \in who : now[q] = IF q = r THEN "approve" ELSE votes[q]
  OBVIOUS
<1>2. /\ Deciding(votes, "approve") \subseteq Deciding(now, "approve") /\ Deciding(now, "approve") \subseteq Voters
      /\ Deciding(now, "reject") \subseteq Deciding(votes, "reject") /\ Deciding(votes, "reject") \subseteq Voters
  BY <1>1 DEF Deciding
<1> HIDE DEF now
<1>3. /\ WeightOf(votes, "approve") \in Nat /\ WeightOf(now, "approve") \in Nat
      /\ WeightOf(votes, "reject") \in Nat /\ WeightOf(now, "reject") \in Nat
      /\ WeightOf(votes, "approve") <= WeightOf(now, "approve")
      /\ WeightOf(now, "reject") <= WeightOf(votes, "reject")
  BY <1>2, WeightGrows
<1>4. WeightedVote(votes) => WeightedVote(now)
  BY <1>3 DEF WeightedVote
<1>5. CASE s = "majority"
  <2> DEFINE A == Deciding(votes, "approve")
             B == Deciding(now, "approve")
  <2>1. A \in SUBSET B /\ B \in SUBSET Voters
    BY <1>2
  <2> HIDE DEF A, B
  <2>2. IsFiniteSet(Voters)
    BY DecisionAssumption
  <2>3. IsFiniteSet(B)
    BY <2>1, <2>2, FS_Subset
  <2>4. IsFiniteSet(A) /\ Cardinality(A) <= Cardinality(B)
    BY <2>1, <2>3, FS_Subset
  <2>5. IsFiniteSet(who)
    BY <2>2, FS_Subset
  <2>6. Cardinality(A) \in Nat /\ Cardinality(B) \in Nat /\ Cardinality(who) \in Nat
    BY <2>3, <2>4, <2>5, FS_CardinalityType
  <2>7. 2 * Cardinality(A) > Cardinality(who)
    BY <1>1, <1>5 DEF Resolve, MajorityVote, A
  <2>8. 2 * Cardinality(B) > Cardinality(who)
    BY <2>4, <2>6, <2>7
  <2>9. QED
    BY <1>1, <1>5, <2>8 DEF Resolve, MajorityVote, B, now
<1>6. CASE s = "weighted"
  BY <1>4, <1>6 DEF Resolve, now
<1>7. CASE s = "critic_authority"
  <2>1. CriticAuthority(votes)
    BY <1>7 DEF Resolve
  <2>2. CriticAuthority(now)
    BY <1>1, <1>4, <2>1 DEF CriticAuthority
  <2>3. QED
    BY <1>7, <2>2 DEF Resolve, now
<1>8. CASE s = "debate"
  <2>1. DebateResolution(votes)
    BY <1>8 DEF Resolve
  <2>2. CASE Deciding(votes, "reject") = {}
    BY <1>2, <1>8, <2>2 DEF Resolve, DebateResolution, now
  <2>3. CASE WeightOf(votes, "approve") > 2 * WeightOf(votes, "reject")
    <3>1. WeightOf(now, "approve") > 2 * WeightOf(now, "reject")
      BY <1>3, <2>3
    <3>2. QED
      BY <1>8, <3>1 DEF Resolve, DebateResolution, now
  <2>4. QED
    BY <2>1, <2>2, <2>3 DEF DebateResolution
<1>9. QED
  BY <1>5, <1>6, <1>7, <1>8 DEF VoteStrategies

LEMMA VoteSound == QuickVote => VotesAreMonotone'
<1> SUFFICES ASSUME QuickVote PROVE VotesAreMonotone'
  OBVIOUS
<1>0. PICK s \in VoteStrategies, who \in SUBSET Voters :
        \E votes \in [who -> {"approve", "reject", "abstain"}] :
          answer' = [of |-> "vote", strategy |-> s, votes |-> votes, approved |-> Resolve(s, votes)]
  BY DEF QuickVote
<1>1. PICK votes \in [who -> {"approve", "reject", "abstain"}] :
        answer' = [of |-> "vote", strategy |-> s, votes |-> votes, approved |-> Resolve(s, votes)]
  BY <1>0
<1>2. DOMAIN votes = who /\ answer'.strategy = s /\ answer'.votes = votes /\ answer'.approved = Resolve(s, votes)
  BY <1>1
<1>3. \A r \in who : Resolve(s, votes) => Resolve(s, [votes EXCEPT ![r] = "approve"])
  BY ApprovalKept
<1>4. s = "critic_authority" /\ "critic" \in who => (Resolve(s, votes) <=> votes["critic"] = "approve")
  BY <1>2 DEF Resolve, CriticAuthority
<1> HIDE DEF Resolve
<1>5. /\ \A r \in DOMAIN answer'.votes :
           answer'.approved => Resolve(answer'.strategy, [answer'.votes EXCEPT ![r] = "approve"])
      /\ answer'.strategy = "critic_authority" /\ "critic" \in DOMAIN answer'.votes =>
           (answer'.approved <=> answer'.votes["critic"] = "approve")
  BY <1>2, <1>3, <1>4
<1>6. QED
  BY <1>5 DEF VotesAreMonotone, Resolve, MajorityVote, WeightedVote, CriticAuthority, DebateResolution, WeightOf, Deciding

(* An action that is allowed is one of the role's.                         *)
LEMMA VerdictKeepsPlace ==
  ASSUME NEW asker, NEW action, NEW path, NEW command, NEW big, NEW expires,
         Verdict(Token(asker, expires), action, path, command, big, 1) = "allowed"
  PROVE  /\ expires = NoExpiry \/ ~(1 > expires)
         /\ action \in {"write", "patch", "run"} => asker \in {"coder", "tester", "doc_writer"}
         /\ action = "patch" => asker = "coder"
         /\ action = "write" /\ path # None =>
              \/ asker = "coder" /\ path # "outside"
              \/ asker = "tester" /\ path = "tests"
              \/ asker = "doc_writer" /\ path = "docs"
<1> DEFINE token == Token(asker, expires)
<1>1. token.role = asker /\ token.expires = expires
  BY DEF Token
<1> HIDE DEF token
<1>2. /\ ~Expired(token, 1) /\ action \in DOMAIN Needed
      /\ HasPermission(token, Needed[action], 1)
      /\ action \in {"read", "write", "patch"} /\ path # None => CanAccessPath(token, path)
  BY DEF Verdict, token
<1>3. expires = NoExpiry \/ ~(1 > expires)
  BY <1>1, <1>2 DEF Expired
<1>4. Needed["write"] = "write" /\ Needed["patch"] = "patch" /\ Needed["run"] = "shell"
  BY DEF Needed
<1>5. Needed[action] \in ScopeOf(asker).perms
  BY <1>1, <1>2 DEF HasPermission
<1>6. /\ "write" \in ScopeOf(asker).perms => asker \in {"coder", "tester", "doc_writer"}
      /\ "patch" \in ScopeOf(asker).perms => asker = "coder"
      /\ "shell" \in ScopeOf(asker).perms => asker \in {"coder", "tester"}
  BY DEF ScopeOf, RoleScopes, ReadOnly
<1>7. /\ ScopeOf("coder").paths = {"code", "tests", "docs"}
      /\ ScopeOf("tester").paths = {"tests"} /\ ScopeOf("doc_writer").paths = {"docs"}
  BY DEF ScopeOf, RoleScopes
<1>8. action = "write" /\ path # None => "*" \in ScopeOf(asker).paths \/ path \in ScopeOf(asker).paths
  BY <1>1, <1>2 DEF CanAccessPath
<1>9. QED
  BY <1>3, <1>4, <1>5, <1>6, <1>7, <1>8

LEMMA ActionSound == VerifyAction => RolesKeepTheirPlace'
<1> SUFFICES ASSUME VerifyAction PROVE RolesKeepTheirPlace'
  OBVIOUS
<1>1. PICK asker \in TokenRoles, action \in DOMAIN Needed \cup {"deploy"},
           path \in {"code", "tests", "docs", "outside", None},
           command \in {"pytest", "rm", None}, big \in BOOLEAN, late \in BOOLEAN :
        answer' = [of |-> "action", role |-> asker, action |-> action, path |-> path,
                   command |-> command, late |-> late,
                   result |-> Verdict(Token(asker, IF late THEN 0 ELSE NoExpiry), action, path, command, big, 1)]
  BY DEF VerifyAction
<1>2. /\ answer'.role = asker /\ answer'.action = action /\ answer'.path = path /\ answer'.late = late
      /\ answer'.result = Verdict(Token(asker, IF late THEN 0 ELSE NoExpiry), action, path, command, big, 1)
  BY <1>1
<1> DEFINE expires == IF late THEN 0 ELSE NoExpiry
<1>3. expires = NoExpiry \/ ~(1 > expires) <=> ~late
  BY DecisionAssumption
<1> HIDE DEF expires
<1>4. ASSUME answer'.result = "allowed"
      PROVE  /\ ~late
             /\ action \in {"write", "patch", "run"} => asker \in {"coder", "tester", "doc_writer"}
             /\ action = "patch" => asker = "coder"
             /\ action = "write" /\ path # None =>
                  \/ asker = "coder" /\ path # "outside"
                  \/ asker = "tester" /\ path = "tests"
                  \/ asker = "doc_writer" /\ path = "docs"
  <2>1. Verdict(Token(asker, expires), action, path, command, big, 1) = "allowed"
    BY <1>2, <1>4 DEF expires
  <2>2. QED
    BY <1>3, <2>1, VerdictKeepsPlace
<1>5. QED
  BY <1>2, <1>4 DEF RolesKeepTheirPlace

(* What has the highest priority, and came last of those that have.         *)
IsTop(patches, n, i) ==
  \A k \in 1..n : LET a == PriorityOf(patches[i].agent)
                      b == PriorityOf(patches[k].agent)
                  IN  b < a \/ (b = a /\ k <= i)

(* The patches are sorted: each of them is there, and what has the highest *)
(* priority, and came last of those that have, is the last.                *)
LEMMA SortedFacts ==
  ASSUME NEW P, NEW n \in Nat, NEW patches \in [1..n -> P]
  PROVE  /\ ByPriority(patches) \in Seq(P) /\ Len(ByPriority(patches)) = n
         /\ \A i \in 1..n : IsTop(patches, n, i) => ByPriority(patches)[n] = patches[i]
<1> DEFINE pr(i) == PriorityOf(patches[i].agent)
           order == {e \in (1..n) \X (1..n) : pr(e[1]) < pr(e[2]) \/ (pr(e[1]) = pr(e[2]) /\ e[1] < e[2])}
           R == Ranked(1..n, order)
<1>1. \A i : pr(i) \in Nat
  <2>1. \A a \in DOMAIN PatchPriority : PatchPriority[a] \in Nat
    BY DEF PatchPriority
  <2>2. QED
    BY <2>1 DEF PriorityOf
<1>2. ByPriority(patches) = [p \in 1..n |-> patches[R[p]]]
  BY DEF ByPriority
<1> HIDE DEF pr
<1>3. \A i, k \in 1..n : <<i, k>> \in order <=> (pr(i) < pr(k) \/ (pr(i) = pr(k) /\ i < k))
  OBVIOUS
<1> HIDE DEF order
<1>4. \A i \in 1..n : <<i, i>> \notin order
  BY <1>1, <1>3
<1>5. \A i, j, k \in 1..n : <<i, j>> \in order /\ <<j, k>> \in order => <<i, k>> \in order
  BY <1>1, <1>3
<1>6. \A i, k \in 1..n : i = k \/ <<i, k>> \in order \/ <<k, i>> \in order
  <2>1. \A i, k \in 1..n : pr(i) < pr(k) \/ pr(k) < pr(i) \/ pr(i) = pr(k)
    BY <1>1
  <2>2. \A i, k \in 1..n : i = k \/ i < k \/ k < i
    OBVIOUS
  <2>3. QED
    BY <1>3, <2>1, <2>2
<1>7. IsFiniteSet(1..n) /\ Cardinality(1..n) = n
  BY FS_Interval
<1>8. IsRanked(R, 1..n, order)
  BY <1>4, <1>5, <1>6, <1>7, RankedHolds
<1> HIDE DEF R
<1>9. /\ R \in [1..n -> 1..n]
      /\ \A p, q \in 1..n : p < q => <<R[p], R[q]>> \in order
      /\ \A x \in 1..n : \E p \in 1..n : R[p] = x
  BY <1>7, <1>8 DEF IsRanked
<1>10. ByPriority(patches) \in Seq(P) /\ Len(ByPriority(patches)) = n
  <2>1. \A p \in 1..n : patches[R[p]] \in P
    BY <1>9
  <2>2. ByPriority(patches) \in [1..n -> P]
    BY <1>2, <2>1
  <2>3. QED
    BY <2>2
<1>11. ASSUME NEW i \in 1..n, \A k \in 1..n : pr(k) < pr(i) \/ (pr(k) = pr(i) /\ k <= i)
       PROVE  ByPriority(patches)[n] = patches[i]
  <2>1. PICK p \in 1..n : R[p] = i
    BY <1>9
  <2>2. n \in 1..n /\ R[n] \in 1..n
    BY <1>9
  <2>3. ~(<<i, R[n]>> \in order)
    BY <1>1, <1>3, <1>11, <2>2
  <2>4. ~(p < n)
    BY <1>9, <2>1, <2>2, <2>3
  <2>5. p = n
    BY <2>4
  <2>6. QED
    BY <1>2, <2>1, <2>2, <2>5
<1>12. QED
  BY <1>10, <1>11 DEF pr, IsTop

(* A text lies in itself, and where something else is put before and       *)
(* behind it.                                                              *)
LEMMA LiesWithin ==
  ASSUME NEW T, NEW a \in Seq(T), NEW b \in Seq(T), NEW c \in Seq(T)
  PROVE  Occurrences(b, a \o b \o c) # {}
<1> DEFINE t == a \o b \o c
           m == Len(a)
           n == Len(b)
<1>1. /\ t \in Seq(T) /\ Len(t) = m + n + Len(c) /\ m \in Nat /\ n \in Nat /\ Len(c) \in Nat
      /\ \A k \in 1..n : t[m + k] = b[k]
  OBVIOUS
<1> HIDE DEF t
<1>2. m \in 0..(Len(t) - n)
  BY <1>1
<1>3. SubSeq(t, m + 1, m + n) = b
  <2> HIDE DEF m, n
  <2>1. SubSeq(t, m + 1, m + n) = [k \in 1..n |-> t[m + k]]
    <3>1. SubSeq(t, m + 1, m + n) = [i \in 1..(m + n - (m + 1) + 1) |-> t[i + (m + 1) - 1]]
      BY <1>1
    <3>2. m + n - (m + 1) + 1 = n /\ \A i \in 1..n : i + (m + 1) - 1 = m + i
      BY <1>1
    <3>3. QED
      BY <3>1, <3>2
  <2>2. b = [k \in 1..n |-> b[k]]
    BY DEF n
  <2>3. QED
    BY <1>1, <2>1, <2>2
<1>4. QED
  BY <1>2, <1>3 DEF Occurrences, t

Patches == [agent : PatchAgents, old : Texts, new : Texts]

(* A merge after n patches: each was applied or is a conflict, and while   *)
(* none was, what the last of them writes is in the text.                  *)
MergeHolds(start, patches, n, x) ==
  /\ x = [text |-> x.text, applied |-> x.applied, conflicts |-> x.conflicts]
  /\ x.text \in Seq(STRING) /\ x.applied \in Seq(Patches) /\ x.conflicts \in Nat
  /\ Len(x.applied) + x.conflicts = n
  /\ n > 0 /\ x.conflicts = 0 => Occurrences(patches[n].new, x.text) # {}

Merging == INSTANCE FoldFacts WITH Op <- ApplyPatch, Holds <- MergeHolds

(* What str.replace puts into a text lies in it.                           *)
LEMMA ReplacedLies ==
  ASSUME NEW text \in Seq(STRING), NEW old \in Seq(STRING), NEW new \in Seq(STRING),
         Occurrences(old, text) # {}
  PROVE  ReplaceFirst(text, old, new) \in Seq(STRING) /\ Occurrences(new, ReplaceFirst(text, old, new)) # {}
<1> DEFINE O == Occurrences(old, text)
           at == CHOOSE i \in O : \A k \in O : i <= k
           a == SubSeq(text, 1, at)
           c == SubSeq(text, at + Len(old) + 1, Len(text))
<1>1. Len(text) \in Nat /\ Len(old) \in Nat /\ \A i \in O : i \in Nat /\ i + Len(old) <= Len(text)
  BY DEF Occurrences
<1> HIDE DEF O
<1>2. \E i \in O : \A k \in O : i <= k
  BY <1>1, Merging!LeastMember DEF O
<1>3. at \in Nat /\ at + Len(old) <= Len(text)
  BY <1>1, <1>2
<1>4. ReplaceFirst(text, old, new) = a \o new \o c
  BY DEF ReplaceFirst, O
<1> HIDE DEF at
<1>5. a \in Seq(STRING) /\ c \in Seq(STRING)
  BY <1>1, <1>3
<1> HIDE DEF a, c
<1>6. a \o new \o c \in Seq(STRING)
  BY <1>5
<1>7. QED
  BY <1>4, <1>5, <1>6, LiesWithin

LEMMA MergeStep ==
  ASSUME NEW start, NEW patches \in Seq(Patches), NEW n \in 1..Len(patches), NEW x,
         MergeHolds(start, patches, n - 1, x)
  PROVE  MergeHolds(start, patches, n, ApplyPatch(x, patches[n]))
<1> DEFINE p == patches[n]
           y == ApplyPatch(x, p)
<1>1. p \in Patches /\ p.old \in Seq(STRING) /\ p.new \in Seq(STRING)
  <2>1. p \in Patches
    OBVIOUS
  <2>2. p.old \in Texts /\ p.new \in Texts
    BY <2>1 DEF Patches
  <2>3. QED
    BY <2>1, <2>2, DecisionAssumption
<1> HIDE DEF p
<1>2. /\ x = [text |-> x.text, applied |-> x.applied, conflicts |-> x.conflicts]
      /\ x.text \in Seq(STRING) /\ x.applied \in Seq(Patches) /\ x.conflicts \in Nat
      /\ Len(x.applied) + x.conflicts = n - 1
  BY DEF MergeHolds
<1>3. CASE p.old = x.text \/ Occurrences(p.old, x.text) # {}
  <2>1. y = [x EXCEPT !.text = IF p.old = @ THEN p.new ELSE ReplaceFirst(@, p.old, p.new),
                      !.applied = Append(@, p)]
    BY <1>3 DEF ApplyPatch
  <2> DEFINE t == IF p.old = x.text THEN p.new ELSE ReplaceFirst(x.text, p.old, p.new)
  <2>2. y = [text |-> t, applied |-> Append(x.applied, p), conflicts |-> x.conflicts]
    BY <1>2, <2>1
  <2>3. t \in Seq(STRING) /\ Occurrences(p.new, t) # {}
    <3>1. CASE p.old = x.text
      <4>1. << >> \in Seq(STRING) /\ << >> \o p.new \o << >> = p.new
        BY <1>1
      <4>2. Occurrences(p.new, << >> \o p.new \o << >>) # {}
        BY <1>1, <4>1, LiesWithin
      <4>3. QED
        BY <1>1, <3>1, <4>1, <4>2
    <3>2. CASE p.old # x.text
      BY <1>1, <1>2, <1>3, <3>2, ReplacedLies
    <3>3. QED
      BY <3>1, <3>2
  <2> HIDE DEF t, y
  <2>4. y.text = t /\ y.applied = Append(x.applied, p) /\ y.conflicts = x.conflicts
    BY <2>2
  <2>5. y.applied \in Seq(Patches) /\ Len(y.applied) = Len(x.applied) + 1 /\ Len(x.applied) \in Nat
    BY <1>1, <1>2, <2>4
  <2>6. Len(y.applied) + y.conflicts = n
    BY <1>2, <2>4, <2>5
  <2>7. MergeHolds(start, patches, n, y)
    BY <1>2, <2>2, <2>3, <2>4, <2>5, <2>6 DEF MergeHolds, p
  <2>8. QED
    BY <2>7 DEF y, p
<1>4. CASE ~(p.old = x.text \/ Occurrences(p.old, x.text) # {})
  <2>1. y = [x EXCEPT !.conflicts = @ + 1]
    BY <1>4 DEF ApplyPatch
  <2>2. y = [text |-> x.text, applied |-> x.applied, conflicts |-> x.conflicts + 1]
    BY <1>2, <2>1
  <2> HIDE DEF y
  <2>3. y.text = x.text /\ y.applied = x.applied /\ y.conflicts = x.conflicts + 1
    BY <2>2
  <2>4. Len(y.applied) + y.conflicts = n /\ y.conflicts \in Nat /\ y.conflicts # 0
    <3>1. Len(x.applied) \in Nat
      BY <1>2
    <3>2. QED
      BY <1>2, <2>3, <3>1
  <2>5. MergeHolds(start, patches, n, y)
    BY <1>2, <2>2, <2>3, <2>4 DEF MergeHolds
  <2>6. QED
    BY <2>5 DEF y, p
<1>5. QED
  BY <1>3, <1>4

(* What a merge without conflicts is: all patches, and the last word is in *)
(* it.                                                                     *)
IsMerge(patches, n, r) ==
  /\ r.conflicts \in Nat
  /\ r.conflicts = 0 =>
       /\ Len(r.applied) = n
       /\ \A i \in 1..n : IsTop(patches, n, i) => Occurrences(patches[i].new, r.text) # {}

LEMMA MergedHolds ==
  ASSUME NEW n \in Nat, n > 0, NEW patches \in [1..n -> Patches]
  PROVE  IsMerge(patches, n, MergeFile(patches))
<1>1. n \in Nat /\ patches \in Seq(Patches) /\ Len(patches) = n
  OBVIOUS
<1>2. \A i \in 1..n : patches[i].old \in Seq(STRING) /\ patches[i].new \in Seq(STRING)
  BY DecisionAssumption DEF Patches
<1>3. CASE n = 1
  <2>1. MergeFile(patches) = [text |-> patches[1].new, applied |-> patches, conflicts |-> 0]
    BY <1>1, <1>3 DEF MergeFile
  <2>2. 1 \in 1..n /\ \A i \in 1..n : i = 1
    BY <1>3
  <2>3. Occurrences(patches[1].new, patches[1].new) # {}
    <3> DEFINE w == patches[1].new
    <3>1. w \in Seq(STRING)
      BY <1>2, <2>2
    <3> HIDE DEF w
    <3>2. << >> \in Seq(STRING) /\ << >> \o w \o << >> = w
      BY <3>1
    <3>3. Occurrences(w, << >> \o w \o << >>) # {}
      BY <3>1, <3>2, LiesWithin
    <3>4. QED
      BY <3>2, <3>3 DEF w
  <2>4. QED
    BY <1>1, <2>1, <2>2, <2>3 DEF IsMerge
<1>4. CASE n # 1
  <2> DEFINE start == [text |-> patches[1].old, applied |-> <<>>, conflicts |-> 0]
             s == ByPriority(patches)
             x == Merging!Folded(start, s)
  <2>1. MergeFile(patches) = x
    <3>1. MergeFile(patches) = FoldLeft(ApplyPatch, start, s)
      BY <1>1, <1>4 DEF MergeFile
    <3>2. QED
      BY <3>1 DEF Merging!Folded, Merging!FoldLeft, FoldLeft, MapThenFoldSet, Merging!MapThenFoldSet,
                  Max, Merging!Max
  <2>2. /\ s \in Seq(Patches) /\ Len(s) = n
        /\ \A i \in 1..n : IsTop(patches, n, i) => s[n] = patches[i]
    BY SortedFacts
  <2>3. MergeHolds(start, s, 0, start)
    <3>1. start.text = patches[1].old /\ start.applied = << >> /\ start.conflicts = 0
      OBVIOUS
    <3>2. 1 \in 1..n /\ << >> \in Seq(Patches) /\ Len(<< >>) = 0
      BY <1>1
    <3>3. QED
      BY <1>2, <3>1, <3>2 DEF MergeHolds
  <2> HIDE DEF start, s, x
  <2>4. \A k \in 1..Len(s) : \A z :
          MergeHolds(start, s, k - 1, z) => MergeHolds(start, s, k, ApplyPatch(z, s[k]))
    BY <2>2, MergeStep
  <2>5. MergeHolds(start, s, n, x)
    <3>1. MergeHolds(start, s, Len(s), Merging!Folded(start, s))
      BY <2>2, <2>3, <2>4, Merging!FoldKeeps
    <3>2. QED
      BY <2>2, <3>1 DEF x
  <2>6. x.conflicts \in Nat /\ x.applied \in Seq(Patches) /\ Len(x.applied) + x.conflicts = n
    BY <2>5 DEF MergeHolds
  <2>7. x.conflicts = 0 => Len(x.applied) = n
    <3>1. Len(x.applied) \in Nat
      BY <2>6
    <3>2. QED
      BY <2>6, <3>1
  <2>8. x.conflicts = 0 => Occurrences(s[n].new, x.text) # {}
    BY <2>5 DEF MergeHolds
  <2>9. QED
    BY <2>1, <2>2, <2>6, <2>7, <2>8 DEF IsMerge
<1>5. QED
  BY <1>3, <1>4

LEMMA MergeSound == MergePatches => LastWord'
<1> SUFFICES ASSUME MergePatches PROVE LastWord'
  OBVIOUS
<1>1. PICK n \in 1..MaxPatches :
        \E patches \in [1..n -> Patches] :
          LET r == MergeFile(patches)
          IN  answer' = [of |-> "merge", patches |-> patches, text |-> r.text,
                         applied |-> r.applied,
                         status |-> IF r.conflicts > 0 THEN "conflict" ELSE "merged"]
  BY DEF MergePatches, Patches
<1>2. PICK patches \in [1..n -> Patches] :
          LET r == MergeFile(patches)
          IN  answer' = [of |-> "merge", patches |-> patches, text |-> r.text,
                         applied |-> r.applied,
                         status |-> IF r.conflicts > 0 THEN "conflict" ELSE "merged"]
  BY <1>1
<1> DEFINE r == MergeFile(patches)
<1> HIDE DEF r
<1>3. /\ answer'.patches = patches /\ answer'.text = r.text /\ answer'.applied = r.applied
      /\ answer'.status = IF r.conflicts > 0 THEN "conflict" ELSE "merged"
  BY <1>2 DEF r
<1>4. n \in Nat /\ n > 0 /\ DOMAIN patches = 1..n /\ Len(patches) = n
  BY DecisionAssumption
<1>5. IsMerge(patches, n, r)
  BY <1>4, MergedHolds DEF r
<1>6. ASSUME answer'.status = "merged"
      PROVE  /\ Len(answer'.applied) = n
             /\ \A i \in 1..n : IsTop(patches, n, i) => Occurrences(patches[i].new, answer'.text) # {}
  BY <1>3, <1>5, <1>6 DEF IsMerge
<1>7. QED
  BY <1>3, <1>4, <1>6 DEF LastWord, IsTop

(* Whatever is asked, what is decided follows from it.                     *)
LEMMA DecisionsSound ==
  /\ DecisionInit => DecisionsAreSound
  /\ DecisionNext => DecisionsAreSound'
<1>1. ASSUME answer.of \notin {"vote", "action", "merge"} PROVE DecisionsAreSound
  BY <1>1 DEF DecisionsAreSound, VotesAreMonotone, RolesKeepTheirPlace, LastWord
<1>2. ASSUME DecisionInit PROVE DecisionsAreSound
  <2>1. answer.of = "nothing"
    BY <1>2 DEF DecisionInit
  <2>2. QED
    BY <1>1, <2>1
<1>3. ASSUME answer' = [of |-> "nothing"] PROVE DecisionsAreSound'
  <2>1. answer'.of = "nothing"
    BY <1>3
  <2>2. QED
    BY <2>1 DEF DecisionsAreSound, VotesAreMonotone, RolesKeepTheirPlace, LastWord
<1>4. ASSUME QuickVote PROVE DecisionsAreSound'
  <2>1. answer'.of = "vote"
    BY <1>4 DEF QuickVote
  <2>2. QED
    BY <1>4, <2>1, VoteSound DEF DecisionsAreSound, RolesKeepTheirPlace, LastWord
<1>5. ASSUME VerifyAction PROVE DecisionsAreSound'
  <2>1. answer'.of = "action"
    BY <1>5 DEF VerifyAction
  <2>2. QED
    BY <1>5, <2>1, ActionSound DEF DecisionsAreSound, VotesAreMonotone, LastWord
<1>6. ASSUME MergePatches PROVE DecisionsAreSound'
  <2>1. answer'.of = "merge"
    BY <1>6 DEF MergePatches
  <2>2. QED
    BY <1>6, <2>1, MergeSound DEF DecisionsAreSound, VotesAreMonotone, RolesKeepTheirPlace
<1>7. QED
  BY <1>2, <1>3, <1>4, <1>5, <1>6 DEF DecisionNext

-----------------------------------------------------------------------------
(* The services side by side (Swarm): each takes its own steps or none.    *)

LEMMA SwarmImplementsEach ==
  SwarmSpec => /\ BusSpec /\ ActorSpec /\ TracerSpec
               /\ CoordInit /\ [][CoordNext]_coordVars /\ DogSpec
               /\ DecisionInit /\ [][DecisionNext]_decisionVars
<1>1. SwarmInit => BusInit /\ ActorInit /\ TracerInit /\ CoordInit /\ DogInit /\ DecisionInit
  BY DEF SwarmInit
<1>2. [SwarmNext]_swarmVars => [BusNext]_busVars
  BY DEF SwarmNext, swarmVars, otherVars
<1>3. [SwarmNext]_swarmVars => [ActorNext]_actorVars
  BY DEF SwarmNext, swarmVars, otherVars
<1>4. [SwarmNext]_swarmVars => [TracerNext]_traceVars
  BY DEF SwarmNext, swarmVars, otherVars
<1>5. [SwarmNext]_swarmVars => [CoordNext]_coordVars
  BY DEF SwarmNext, swarmVars, otherVars
<1>6. [SwarmNext]_swarmVars => [DogNext]_dogVars
  BY DEF SwarmNext, swarmVars, otherVars
<1>7. [SwarmNext]_swarmVars => [DecisionNext]_decisionVars
  BY DEF SwarmNext, swarmVars, otherVars
<1>8. QED
  BY <1>1, <1>2, <1>3, <1>4, <1>5, <1>6, <1>7, PTL DEF SwarmSpec, BusSpec, ActorSpec, TracerSpec, DogSpec

(* In the swarm what is passed on and what is recorded keeps what it       *)
(* carries: the bus (core/event_bus.py), the conversations of actors       *)
(* (core/actor_protocol.py) and the traces (core/tracer.py).               *)
THEOREM RecordsSound == SwarmSpec => []RecordsAreSound
<1>1. BusIsSound /\ ConversationsAreSound /\ TracesAreSound => RecordsAreSound
  BY DEF RecordsAreSound
<1>2. QED
  BY <1>1, SwarmImplementsEach, BusSound, ActorsSound, TracesSound, PTL

(* In the swarm what is worked out before anything runs is right: votes    *)
(* (core/consensus.py), permissions (core/policy_engine.py), merges        *)
(* (core/merge_engine.py), and the order promised for a graph              *)
(* (core/delegation_graph.py).                                             *)
THEOREM PlansSound == SwarmSpec => []PlansAreSound
<1>1. DecisionInit => DecisionsAreSound
  BY DecisionsSound
<1>2. DecisionsAreSound /\ [DecisionNext]_decisionVars => DecisionsAreSound'
  <2>1. SUFFICES ASSUME DecisionsAreSound, answer' = answer PROVE DecisionsAreSound'
    BY DecisionsSound DEF decisionVars
  <2>2. VotesAreMonotone'
    BY <2>1 DEF DecisionsAreSound, VotesAreMonotone
  <2>3. RolesKeepTheirPlace'
    BY <2>1 DEF DecisionsAreSound, RolesKeepTheirPlace
  <2>4. LastWord'
    BY <2>1 DEF DecisionsAreSound, LastWord
  <2>5. QED
    BY <2>2, <2>3, <2>4 DEF DecisionsAreSound
<1>3. DecisionsAreSound /\ OrderIsTopological => PlansAreSound
  BY DEF PlansAreSound
<1>4. QED
  BY <1>1, <1>2, <1>3, SwarmImplementsEach, OrderSound, PTL

-----------------------------------------------------------------------------
(* The swarm of the engine (EngineSwarm): its tasks, workers and leases.   *)

(* Sequences, by their members. *)

LEMMA AppendMembers ==
  ASSUME NEW S, NEW q \in Seq(S), NEW x \in S
  PROVE  Append(q, x) \in Seq(S) /\ Members(Append(q, x)) = Members(q) \cup {x}
<1>1. \A i \in DOMAIN q : i \in DOMAIN Append(q, x) /\ Append(q, x)[i] = q[i]
  OBVIOUS
<1>2. \A i \in DOMAIN Append(q, x) :
        (i \in DOMAIN q /\ Append(q, x)[i] = q[i]) \/ Append(q, x)[i] = x
  OBVIOUS
<1>3. Len(q) + 1 \in DOMAIN Append(q, x) /\ Append(q, x)[Len(q) + 1] = x
  OBVIOUS
<1>4. QED
  BY <1>1, <1>2, <1>3 DEF Members

LEMMA TailMembers ==
  ASSUME NEW S, NEW q \in Seq(S), q # <<>>
  PROVE  /\ Head(q) \in S /\ Tail(q) \in Seq(S)
         /\ Members(q) = {Head(q)} \cup Members(Tail(q))
         /\ \A i \in DOMAIN Tail(q) : i + 1 \in DOMAIN q /\ Tail(q)[i] = q[i + 1]
<1>1. /\ Head(q) \in S /\ Tail(q) \in Seq(S) /\ 1 \in DOMAIN q /\ Head(q) = q[1]
      /\ \A i \in DOMAIN Tail(q) : i + 1 \in DOMAIN q /\ Tail(q)[i] = q[i + 1]
  OBVIOUS
<1>2. \A i \in DOMAIN q : i = 1 \/ (i - 1 \in DOMAIN Tail(q) /\ Tail(q)[i - 1] = q[i])
  OBVIOUS
<1>3. Members(q) \subseteq {Head(q)} \cup Members(Tail(q))
  BY <1>1, <1>2 DEF Members
<1>4. Members(Tail(q)) \subseteq Members(q)
  BY <1>1 DEF Members
<1>5. Head(q) \in Members(q)
  BY <1>1 DEF Members
<1>6. QED
  BY <1>1, <1>3, <1>4, <1>5

LEMMA ConcatMembers ==
  ASSUME NEW S, NEW q \in Seq(S), NEW r \in Seq(S)
  PROVE  q \o r \in Seq(S) /\ Members(q \o r) = Members(q) \cup Members(r)
<1>1. \A i \in DOMAIN q : i \in DOMAIN (q \o r) /\ (q \o r)[i] = q[i]
  OBVIOUS
<1>2. \A i \in DOMAIN r : Len(q) + i \in DOMAIN (q \o r) /\ (q \o r)[Len(q) + i] = r[i]
  OBVIOUS
<1>3. \A i \in DOMAIN (q \o r) :
        \/ i \in DOMAIN q /\ (q \o r)[i] = q[i]
        \/ i - Len(q) \in DOMAIN r /\ (q \o r)[i] = r[i - Len(q)]
  OBVIOUS
<1>4. Members(q \o r) \subseteq Members(q) \cup Members(r)
  BY <1>3 DEF Members
<1>5. Members(q) \subseteq Members(q \o r)
  BY <1>1 DEF Members
<1>6. Members(r) \subseteq Members(q \o r)
  BY <1>2 DEF Members
<1>7. q \o r \in Seq(S)
  OBVIOUS
<1>8. QED
  BY <1>4, <1>5, <1>6, <1>7

-----------------------------------------------------------------------------
(* The inductive invariants. *)

(* Where a task that is not over is. *)
Kept ==
  \A t \in Tasks :
    /\ status[t] = "pending" => t \in Members(pending)
    /\ status[t] = "orphaned" => t \in Members(pending) \cup Members(recovery)
    /\ status[t] = "assigned" => on[t] \in Workers

(* Outside the loop over the pending queue, waiting tasks mean no worker.  *)
NoneIdle == loop # "pending" /\ pending # <<>> => Idle(wstate) = {}

(* The pending queue keeps the tasks that were never assigned in order.    *)
InOrder ==
  /\ NoOvertaking
  /\ \A t, u \in Tasks : t < u /\ status[t] = "new" => status[u] = "new"
  /\ \A t \in Members(recovery) : status[t] \notin {"new", "pending"}
  /\ \A t \in Members(pending) : status[t] # "new"
  /\ \A i, j \in DOMAIN pending :
       i < j /\ status[pending[i]] = "pending" /\ status[pending[j]] = "pending"
         => pending[i] < pending[j]

(* A queued task waits in one place. *)
Distinct(q) == \A i, j \in DOMAIN q : q[i] = q[j] => i = j

WaitsOnce ==
  /\ \A t \in Members(pending) \cup Members(recovery) : status[t] \in {"pending", "orphaned"}
  /\ Members(pending) \cap Members(recovery) = {}
  /\ Distinct(pending) /\ Distinct(recovery)

(* OneTaskPerWorker and FailsOnlyWhenExhausted without their condition. *)
Exclusive ==
  \A w \in Workers :
    /\ \A t, u \in AffectedBy(w) : t = u
    /\ wstate[w] = "idle" => AffectedBy(w) = {}
    /\ wstate[w] = "busy" => AffectedBy(w) # {}

FailedExhausted == \A t \in Tasks : (status[t] = "failed") <=> (retries[t] >= MaxRetries)

Orderly == strays = 0 => WaitsOnce /\ Exclusive /\ FailedExhausted

-----------------------------------------------------------------------------
(* Type correctness. *)

(* The orphans of a dead worker, in the order they were queued. *)
Orphaned(w, q) ==
  /\ q \in [1..Cardinality(AffectedBy(w)) -> AffectedBy(w)]
  /\ \A i, j \in DOMAIN q : i < j => q[i] < q[j]
  /\ \A t \in AffectedBy(w) : \E i \in DOMAIN q : q[i] = t
  /\ recovery' = recovery \o q

LEMMA TasksFinite == \A w \in Workers : Cardinality(AffectedBy(w)) \in Nat
<1>1. IsFiniteSet(Tasks)
  BY FS_Interval, SwarmAssumption DEF Tasks
<1>2. \A w \in Workers : AffectedBy(w) \subseteq Tasks
  BY DEF AffectedBy
<1>3. QED
  BY <1>1, <1>2, FS_Subset, FS_CardinalityType

LEMMA OrphansQueued ==
  ASSUME TypeOK, NEW w \in Workers, NEW q, Orphaned(w, q)
  PROVE  /\ q \in Seq(Tasks) /\ recovery' \in Seq(Tasks)
         /\ Members(q) = AffectedBy(w)
         /\ Members(recovery') = Members(recovery) \cup AffectedBy(w)
<1>1. AffectedBy(w) \subseteq Tasks
  BY DEF AffectedBy
<1>2. Cardinality(AffectedBy(w)) \in Nat
  BY TasksFinite
<1>3. q \in Seq(Tasks)
  BY <1>1, <1>2 DEF Orphaned
<1>4. Members(q) = AffectedBy(w)
  BY DEF Orphaned, Members
<1>5. QED
  BY <1>3, <1>4, ConcatMembers DEF Orphaned, TypeOK

LEMMA AssignEffect ==
  ASSUME NEW t, NEW need, NEW ws, Assign(t, need, ws)
  PROVE  \E w \in Workers :
           /\ ws[w] = "idle"
           /\ wstate' = [ws EXCEPT ![w] = "busy"]
           /\ status' = [status EXCEPT ![t] = "assigned"]
           /\ on' = [on EXCEPT ![t] = w]
  BY DEF Assign, Selected, Candidates, Idle, Taken

LEMMA AssignType ==
  ASSUME TypeOK, NEW t \in Tasks, NEW need,
         NEW ws \in [Workers -> {"idle", "busy", "failed"}], Assign(t, need, ws)
  PROVE  /\ wstate' \in [Workers -> {"idle", "busy", "failed"}]
         /\ status' \in [Tasks -> {"new", "pending", "assigned", "orphaned"} \cup Final]
         /\ on' \in [Tasks -> Workers \cup {NoWorker}]
<1>1. PICK w \in Workers :
        /\ wstate' = [ws EXCEPT ![w] = "busy"]
        /\ status' = [status EXCEPT ![t] = "assigned"]
        /\ on' = [on EXCEPT ![t] = w]
  BY AssignEffect
<1>2. QED
  BY <1>1 DEF TypeOK

LEMMA InitType == Init => TypeOK
  BY SwarmAssumption DEF Init, TypeOK, Final

LEMMA FreedType == TypeOK => \A t \in Tasks : Freed(t) \in [Workers -> {"idle", "busy", "failed"}]
  BY DEF TypeOK, Freed

LEMMA TypeStep == TypeOK /\ [Next]_vars => TypeOK'
<1> SUFFICES ASSUME TypeOK, [Next]_vars PROVE TypeOK'
  OBVIOUS
<1> USE SwarmAssumption
<1>1. ASSUME NEW t \in Tasks, Submit(t) PROVE TypeOK'
  <2>1. PICK need \in Wanted : needs' = [needs EXCEPT ![t] = need]
               /\ (\/ Assign(t, need, wstate) /\ UNCHANGED pending
                   \/ /\ status' = [status EXCEPT ![t] = "pending"]
                      /\ pending' = Append(pending, t) /\ UNCHANGED <<wstate, on>>)
    BY <1>1 DEF Submit
  <2>2. CASE Assign(t, need, wstate) /\ UNCHANGED pending
    BY <1>1, <2>1, <2>2, AssignType DEF Submit, TypeOK
  <2>3. CASE /\ status' = [status EXCEPT ![t] = "pending"]
             /\ pending' = Append(pending, t) /\ UNCHANGED <<wstate, on>>
    <3>1. pending' \in Seq(Tasks)
      BY <2>3, AppendMembers DEF TypeOK
    <3>2. QED
      BY <1>1, <2>1, <2>3, <3>1 DEF Submit, TypeOK
  <2>4. QED
    BY <2>1, <2>2, <2>3
<1>2. ASSUME NEW t \in Tasks, Answered(t) PROVE strays' \in 0..MaxStrays
  BY <1>2 DEF Answered, TypeOK
<1>3. ASSUME NEW t \in Tasks, Complete(t) PROVE TypeOK'
  <2>1. strays' \in 0..MaxStrays
    BY <1>2, <1>3 DEF Complete
  <2>2. finished' \in [Workers -> Nat]
    BY <1>3 DEF Complete, TypeOK
  <2>3. QED
    BY <1>3, <2>1, <2>2, FreedType DEF Complete, AfterAnswer, TypeOK, Final
<1>4. ASSUME NEW t \in Tasks, Fail(t) PROVE TypeOK'
  <2>1. strays' \in 0..MaxStrays
    BY <1>2, <1>4 DEF Fail
  <2>2. CASE Assign(t, needs[t], Freed(t)) /\ UNCHANGED <<pending, loop>>
    <3>1. /\ wstate' \in [Workers -> {"idle", "busy", "failed"}]
          /\ status' \in [Tasks -> {"new", "pending", "assigned", "orphaned"} \cup Final]
          /\ on' \in [Tasks -> Workers \cup {NoWorker}]
      BY <2>2, AssignType, FreedType
    <3>2. retries' \in [Tasks -> Nat] /\ UNCHANGED <<finished, needs, recovery>>
      BY <1>4 DEF Fail, TypeOK
    <3>3. QED
      BY <2>1, <2>2, <3>1, <3>2 DEF TypeOK
  <2>3. CASE /\ status' = [status EXCEPT ![t] = GivenUp] /\ wstate' = Freed(t)
             /\ pending' = IF TriesAgain(retries[t] + 1) THEN Append(pending, t) ELSE pending
             /\ loop' = AfterAnswer /\ UNCHANGED on
    <3>1. pending' \in Seq(Tasks)
      BY <2>3, AppendMembers DEF TypeOK
    <3>2. QED
      BY <1>4, <2>1, <2>3, <3>1, FreedType DEF Fail, GivenUp, AfterAnswer, TypeOK, Final
  <2>4. QED
    BY <1>4, <2>2, <2>3 DEF Fail
<1>5. CASE HeartbeatCheck
  BY <1>5 DEF HeartbeatCheck, taskVars, TypeOK
<1>6. ASSUME NEW w \in Workers, DeadWorker(w) PROVE TypeOK'
  <2>1. PICK q : Orphaned(w, q)
    BY <1>6 DEF DeadWorker, Orphaned
  <2>2. recovery' \in Seq(Tasks)
    BY <2>1, OrphansQueued
  <2>3. QED
    BY <1>6, <2>2 DEF DeadWorker, TypeOK
<1>7. CASE Recover
  <2>1. CASE recovery = <<>>
    BY <1>7, <2>1 DEF Recover, TypeOK
  <2>2. CASE recovery # <<>>
    <3>1. Head(recovery) \in Tasks /\ Tail(recovery) \in Seq(Tasks)
      BY <2>2, TailMembers DEF TypeOK
    <3>2. CASE Assign(Head(recovery), needs[Head(recovery)], wstate) /\ UNCHANGED <<pending, loop>>
      BY <1>7, <2>2, <3>1, <3>2, AssignType DEF Recover, TypeOK
    <3>3. CASE pending' = LeftOver(Head(recovery)) /\ loop' = "none" /\ UNCHANGED <<wstate, status, on>>
      BY <1>7, <2>2, <3>1, <3>3, AppendMembers DEF Recover, LeftOver, TypeOK
    <3>4. QED
      BY <1>7, <2>2, <3>2, <3>3 DEF Recover
  <2>3. QED
    BY <2>1, <2>2
<1>8. CASE Drain
  <2>1. CASE pending # <<>> /\ Idle(wstate) # {}
    <3>1. Head(pending) \in Tasks /\ Tail(pending) \in Seq(Tasks)
      BY <2>1, TailMembers DEF TypeOK
    <3>2. Assign(Head(pending), needs[Head(pending)], wstate) /\ pending' = Tail(pending)
      BY <1>8, <2>1 DEF Drain, NextOf, RestOf
    <3>3. QED
      BY <1>8, <2>1, <3>1, <3>2, AssignType DEF Drain, TypeOK
  <2>2. CASE ~(pending # <<>> /\ Idle(wstate) # {})
    BY <1>8, <2>2 DEF Drain, TypeOK
  <2>3. QED
    BY <2>1, <2>2
<1>9. CASE UNCHANGED vars
  BY <1>9 DEF vars, workerVars, taskVars, TypeOK
<1>10. QED
  BY <1>1, <1>3, <1>4, <1>5, <1>6, <1>7, <1>8, <1>9 DEF Next

(* Every variable of the swarm keeps its shape (TypeOK), for any number of *)
(* workers, tasks, retries and stray answers.                              *)
THEOREM TypeCorrect == Spec => []TypeOK
<1>1. QED
  BY InitType, TypeStep, PTL DEF Spec

-----------------------------------------------------------------------------
(* The steps of Next, case by case, with the worker an assignment chooses. *)
AssignedTo(t, w, ws) ==
  /\ ws[w] = "idle"
  /\ wstate' = [ws EXCEPT ![w] = "busy"]
  /\ status' = [status EXCEPT ![t] = "assigned"]
  /\ on' = [on EXCEPT ![t] = w]

NextToSubmit(t) == status[t] = "new" /\ \A u \in Tasks : u < t => status[u] # "new"

SubmitAssigned(t, w) ==
  /\ loop = "none" /\ NextToSubmit(t)
  /\ AssignedTo(t, w, wstate)
  /\ UNCHANGED <<retries, pending, recovery, loop, strays>>

SubmitQueued(t) ==
  /\ loop = "none" /\ NextToSubmit(t)
  /\ Idle(wstate) = {}
  /\ status' = [status EXCEPT ![t] = "pending"]
  /\ pending' = Append(pending, t)
  /\ UNCHANGED <<wstate, on, retries, recovery, loop, strays>>

FailAgain(t, w) ==
  /\ Answered(t)
  /\ TriesAgain(retries[t] + 1) /\ retries' = [retries EXCEPT ![t] = @ + 1]
  /\ AssignedTo(t, w, Freed(t))
  /\ UNCHANGED <<pending, recovery, loop>>

FailFinally(t) ==
  /\ Answered(t)
  /\ ~(TriesAgain(retries[t] + 1) /\ Idle(Freed(t)) # {})
  /\ retries' = [retries EXCEPT ![t] = @ + 1]
  /\ status' = [status EXCEPT ![t] = "failed"]
  /\ wstate' = Freed(t)
  /\ pending' = IF TriesAgain(retries[t] + 1) THEN Append(pending, t) ELSE pending
  /\ loop' = "pending"
  /\ UNCHANGED <<on, recovery>>

Orphan(w, q) ==
  /\ loop = "none" /\ loop' = "recovery"
  /\ wstate' = [wstate EXCEPT ![w] = "failed"]
  /\ status' = [t \in Tasks |-> IF t \in AffectedBy(w) THEN "orphaned" ELSE status[t]]
  /\ on' = [t \in Tasks |-> IF t \in AffectedBy(w) THEN NoWorker ELSE on[t]]
  /\ Orphaned(w, q)
  /\ UNCHANGED <<retries, pending, strays>>

RecoverAssigned(w) ==
  /\ loop = "recovery" /\ recovery # <<>>
  /\ AssignedTo(Head(recovery), w, wstate)
  /\ recovery' = Tail(recovery)
  /\ UNCHANGED <<retries, pending, loop, strays>>

RecoverQueued ==
  /\ loop = "recovery" /\ recovery # <<>> /\ loop' = "none"
  /\ Idle(wstate) = {}
  /\ recovery' = Tail(recovery)
  /\ pending' = Append(pending, Head(recovery))
  /\ UNCHANGED <<wstate, status, on, retries, strays>>

DrainAssigned(w) ==
  /\ loop = "pending" /\ pending # <<>>
  /\ AssignedTo(Head(pending), w, wstate)
  /\ pending' = Tail(pending)
  /\ UNCHANGED <<retries, recovery, loop, strays>>

(* A loop ends, or nothing happens. *)
IsOver ==
  /\ loop = "pending" /\ loop' # loop => pending = <<>> \/ Idle(wstate) = {}
  /\ loop' \in {loop, "none"}
  /\ UNCHANGED <<wstate, status, on, retries, pending, recovery, strays>>

LEMMA Steps ==
  ASSUME TypeOK, [Next]_vars
  PROVE  \/ \E t \in Tasks, w \in Workers : SubmitAssigned(t, w) \/ FailAgain(t, w)
         \/ \E t \in Tasks : SubmitQueued(t) \/ Complete(t) \/ FailFinally(t)
         \/ HeartbeatCheck
         \/ \E w \in Workers : (\E q : Orphan(w, q)) \/ RecoverAssigned(w) \/ DrainAssigned(w)
         \/ RecoverQueued
         \/ IsOver
<1>1. ASSUME NEW t, NEW need, NEW ws, Assign(t, need, ws)
      PROVE  \E w \in Workers : AssignedTo(t, w, ws)
  BY <1>1, AssignEffect DEF AssignedTo
<1>2. ASSUME NEW t \in Tasks, Submit(t)
      PROVE  SubmitQueued(t) \/ \E w \in Workers : SubmitAssigned(t, w)
  <2>1. PICK need \in Wanted :
               \/ Assign(t, need, wstate) /\ UNCHANGED pending
               \/ /\ Idle(wstate) = {}
                  /\ status' = [status EXCEPT ![t] = "pending"]
                  /\ pending' = Append(pending, t) /\ UNCHANGED <<wstate, on>>
    BY <1>2 DEF Submit
  <2>2. loop = "none" /\ NextToSubmit(t) /\ UNCHANGED <<retries, recovery, loop, strays>>
    BY <1>2 DEF Submit, NextToSubmit
  <2>3. QED
    BY <1>1, <2>1, <2>2 DEF SubmitAssigned, SubmitQueued
<1>3. ASSUME NEW t \in Tasks, Fail(t)
      PROVE  FailFinally(t) \/ \E w \in Workers : FailAgain(t, w)
  <2>1. CASE TriesAgain(retries[t] + 1) /\ Assign(t, needs[t], Freed(t)) /\ UNCHANGED <<pending, loop>>
    BY <1>1, <1>3, <2>1 DEF Fail, FailAgain
  <2>2. CASE ~(TriesAgain(retries[t] + 1) /\ Idle(Freed(t)) # {})
    BY <1>3, <2>2 DEF Fail, FailFinally, GivenUp, AfterAnswer
  <2>3. QED
    BY <1>3, <2>1, <2>2 DEF Fail
<1>4. ASSUME NEW w \in Workers, DeadWorker(w) PROVE \E q : Orphan(w, q)
  BY <1>4 DEF DeadWorker, Orphan, Orphaned
<1>5. ASSUME Recover PROVE RecoverQueued \/ IsOver \/ \E w \in Workers : RecoverAssigned(w)
  <2>1. CASE recovery = <<>>
    BY <1>5, <2>1 DEF Recover, IsOver
  <2>2. CASE recovery # <<>> /\ Idle(wstate) # {}
    BY <1>1, <1>5, <2>2 DEF Recover, RecoverAssigned
  <2>3. CASE recovery # <<>> /\ Idle(wstate) = {}
    BY <1>1, <1>5, <2>3 DEF Recover, RecoverAssigned, RecoverQueued, LeftOver
  <2>4. QED
    BY <2>1, <2>2, <2>3
<1>6. ASSUME Drain PROVE IsOver \/ \E w \in Workers : DrainAssigned(w)
  <2>1. CASE pending # <<>> /\ Idle(wstate) # {}
    BY <1>1, <1>6, <2>1 DEF Drain, DrainAssigned, NextOf, RestOf
  <2>2. CASE ~(pending # <<>> /\ Idle(wstate) # {})
    BY <1>6, <2>2 DEF Drain, IsOver
  <2>3. QED
    BY <2>1, <2>2
<1>7. CASE UNCHANGED vars
  BY <1>7 DEF vars, workerVars, taskVars, IsOver
<1>8. QED
  BY <1>2, <1>3, <1>4, <1>5, <1>6, <1>7 DEF Next

(* How the queues' members change. *)
LEMMA QueueTypes ==
  ASSUME TypeOK
  PROVE  /\ pending \in Seq(Tasks) /\ recovery \in Seq(Tasks)
         /\ pending # <<>> => Head(pending) \in Tasks
         /\ recovery # <<>> => Head(recovery) \in Tasks
  BY TailMembers DEF TypeOK

LEMMA QueueEffects ==
  ASSUME TypeOK
  PROVE  /\ \A t \in Tasks : pending' = Append(pending, t) => Members(pending)' = Members(pending) \cup {t}
         /\ pending # <<>> /\ pending' = Tail(pending)
              => Members(pending) = {Head(pending)} \cup Members(pending)'
         /\ recovery # <<>> /\ recovery' = Tail(recovery)
              => Members(recovery) = {Head(recovery)} \cup Members(recovery)'
         /\ pending' = pending => Members(pending)' = Members(pending)
         /\ recovery' = recovery => Members(recovery)' = Members(recovery)
         /\ \A w \in Workers : \A q : Orphaned(w, q) =>
              Members(recovery)' = Members(recovery) \cup AffectedBy(w)
<1>1. \A t \in Tasks : Members(Append(pending, t)) = Members(pending) \cup {t}
  BY AppendMembers DEF TypeOK
<1>2. pending # <<>> => Members(pending) = {Head(pending)} \cup Members(Tail(pending))
  BY TailMembers DEF TypeOK
<1>3. recovery # <<>> => Members(recovery) = {Head(recovery)} \cup Members(Tail(recovery))
  BY TailMembers DEF TypeOK
<1>4. \A w \in Workers : \A q : Orphaned(w, q) => Members(recovery') = Members(recovery) \cup AffectedBy(w)
  BY OrphansQueued
<1>5. Members(pending)' = Members(pending') /\ Members(recovery)' = Members(recovery')
  BY DEF Members
<1>6. QED
  BY <1>1, <1>2, <1>3, <1>4, <1>5

-----------------------------------------------------------------------------
(* No task is forgotten. *)

LEMMA KeptStep == TypeOK /\ Kept /\ [Next]_vars => Kept'
<1> SUFFICES ASSUME TypeOK, Kept, [Next]_vars PROVE Kept'
  OBVIOUS
<1> USE QueueTypes, QueueEffects
<1>0. status \in [Tasks -> {"new", "pending", "assigned", "orphaned"} \cup Final] /\ on \in [Tasks -> Workers \cup {NoWorker}]
  BY DEF TypeOK
<1>1. ASSUME NEW t \in Tasks, NEW w \in Workers, NEW ws, AssignedTo(t, w, ws),
             \A u \in Members(pending) : u = t \/ u \in Members(pending)',
             \A u \in Members(recovery) : u = t \/ u \in Members(recovery)'
      PROVE  Kept'
  <2>1. status'[t] = "assigned" /\ on'[t] = w
    BY <1>0, <1>1 DEF AssignedTo
  <2>2. \A u \in Tasks \ {t} : status'[u] = status[u] /\ on'[u] = on[u]
    BY <1>0, <1>1 DEF AssignedTo
  <2>3. QED
    BY <1>1, <2>1, <2>2 DEF Kept
<1>2. ASSUME NEW t \in Tasks, NEW w \in Workers, SubmitAssigned(t, w) PROVE Kept'
  BY <1>1, <1>2 DEF SubmitAssigned
<1>3. ASSUME NEW t \in Tasks, NEW w \in Workers, FailAgain(t, w) PROVE Kept'
  BY <1>1, <1>3 DEF FailAgain
<1>4. ASSUME NEW t \in Tasks, SubmitQueued(t) PROVE Kept'
  <2>1. /\ Members(pending)' = Members(pending) \cup {t} /\ Members(recovery)' = Members(recovery)
        /\ on' = on /\ status'[t] = "pending" /\ \A u \in Tasks \ {t} : status'[u] = status[u]
    BY <1>0, <1>4 DEF SubmitQueued
  <2>2. QED
    BY <2>1 DEF Kept
<1>5. ASSUME NEW t \in Tasks, Complete(t) \/ FailFinally(t) PROVE Kept'
  <2>1. /\ on' = on /\ status'[t] \in Final /\ \A u \in Tasks \ {t} : status'[u] = status[u]
        /\ Members(pending) \subseteq Members(pending)' /\ Members(recovery)' = Members(recovery)
    BY <1>0, <1>5 DEF Complete, FailFinally, Final
  <2>2. QED
    BY <2>1 DEF Kept, Final
<1>6. CASE HeartbeatCheck
  BY <1>6 DEF HeartbeatCheck, taskVars, Kept
<1>7. ASSUME NEW w \in Workers, NEW q, Orphan(w, q) PROVE Kept'
  <2>1. /\ Members(pending)' = Members(pending)
        /\ Members(recovery)' = Members(recovery) \cup AffectedBy(w)
    BY <1>7 DEF Orphan
  <2>2. /\ \A u \in AffectedBy(w) : status'[u] = "orphaned"
        /\ \A u \in Tasks \ AffectedBy(w) : status'[u] = status[u] /\ on'[u] = on[u]
    BY <1>7 DEF Orphan, AffectedBy
  <2>3. QED
    BY <2>1, <2>2 DEF Kept
<1>8. ASSUME NEW w \in Workers, RecoverAssigned(w) PROVE Kept'
  BY <1>1, <1>8 DEF RecoverAssigned
<1>9. ASSUME NEW w \in Workers, DrainAssigned(w) PROVE Kept'
  BY <1>1, <1>9 DEF DrainAssigned
<1>10. CASE RecoverQueued
  <2>1. /\ Members(pending)' = Members(pending) \cup {Head(recovery)}
        /\ Members(recovery) = {Head(recovery)} \cup Members(recovery)'
        /\ UNCHANGED <<status, on>>
    BY <1>10 DEF RecoverQueued
  <2>2. QED
    BY <2>1 DEF Kept
<1>11. CASE IsOver
  BY <1>11 DEF IsOver, Kept
<1>12. QED
  BY <1>2, <1>3, <1>4, <1>5, <1>6, <1>7, <1>8, <1>9, <1>10, <1>11, Steps

(* Whatever answers come and whichever workers die, a submitted task that  *)
(* is not over is with a worker or in a queue (NoTaskForgotten).           *)
THEOREM NeverForgotten == Spec => []NoTaskForgotten
<1>1. Init => Kept
  BY DEF Init, Kept
<1>2. TypeOK /\ Kept => NoTaskForgotten
  BY DEF TypeOK, Kept, NoTaskForgotten, Final
<1>3. QED
  BY <1>1, <1>2, KeptStep, TypeCorrect, PTL DEF Spec

-----------------------------------------------------------------------------
(* No worker idles while tasks wait. *)

LEMMA NoneIdleStep == TypeOK /\ NoneIdle /\ [Next]_vars => NoneIdle'
<1> SUFFICES ASSUME TypeOK, NoneIdle, [Next]_vars PROVE NoneIdle'
  OBVIOUS
<1>0. wstate \in [Workers -> {"idle", "busy", "failed"}]
  BY DEF TypeOK
<1>1. ASSUME NEW t, NEW w \in Workers, NEW ws \in [Workers -> {"idle", "busy", "failed"}], AssignedTo(t, w, ws)
      PROVE  Idle(wstate)' = Idle(ws) \ {w}
  BY <1>1 DEF AssignedTo, Idle
<1>2. ASSUME NEW t \in Tasks, NEW w \in Workers, SubmitAssigned(t, w) PROVE NoneIdle'
  <2>1. Idle(wstate)' \subseteq Idle(wstate)
    BY <1>0, <1>1, <1>2 DEF SubmitAssigned
  <2>2. QED
    BY <1>2, <2>1 DEF SubmitAssigned, NoneIdle
<1>3. ASSUME NEW t \in Tasks, NEW w \in Workers, FailAgain(t, w) PROVE NoneIdle'
  <2>1. Idle(wstate)' = Idle(Freed(t)) \ {w} /\ w \in Idle(Freed(t))
    BY <1>1, <1>3, FreedType DEF FailAgain, AssignedTo, Idle
  <2>2. Idle(wstate) = {} => Idle(Freed(t)) \subseteq {on[t]}
    BY <1>0 DEF Freed, Idle
  <2>3. QED
    BY <1>3, <2>1, <2>2 DEF FailAgain, Answered, NoneIdle
<1>4. ASSUME NEW t \in Tasks, SubmitQueued(t) \/ Complete(t) \/ FailFinally(t) PROVE NoneIdle'
  BY <1>4 DEF SubmitQueued, Complete, FailFinally, AfterAnswer, NoneIdle, Idle
<1>5. CASE HeartbeatCheck
  BY <1>5 DEF HeartbeatCheck, NoneIdle, Idle
<1>6. ASSUME NEW w \in Workers, NEW q, Orphan(w, q) PROVE NoneIdle'
  <2>1. Idle(wstate)' \subseteq Idle(wstate)
    BY <1>0, <1>6 DEF Orphan, Idle
  <2>2. QED
    BY <1>6, <2>1 DEF Orphan, NoneIdle
<1>7. ASSUME NEW w \in Workers, RecoverAssigned(w) PROVE NoneIdle'
  <2>1. Idle(wstate)' \subseteq Idle(wstate)
    BY <1>0, <1>1, <1>7 DEF RecoverAssigned
  <2>2. QED
    BY <1>7, <2>1 DEF RecoverAssigned, NoneIdle
<1>8. ASSUME NEW w \in Workers, DrainAssigned(w) PROVE NoneIdle'
  BY <1>8 DEF DrainAssigned, NoneIdle
<1>9. CASE RecoverQueued
  BY <1>9 DEF RecoverQueued, NoneIdle, Idle
<1>10. CASE IsOver
  BY <1>10 DEF IsOver, NoneIdle, Idle
<1>11. QED
  BY <1>2, <1>3, <1>4, <1>5, <1>6, <1>7, <1>8, <1>9, <1>10, Steps

(* Between two requests no worker is idle while a task waits in the        *)
(* pending queue (NoIdleWhilePending), whatever answers come.              *)
THEOREM WorkConserving == Spec => []NoIdleWhilePending
<1>1. Init => NoneIdle
  BY DEF Init, NoneIdle
<1>2. NoneIdle => NoIdleWhilePending
  BY DEF NoneIdle, NoIdleWhilePending
<1>3. QED
  BY <1>1, <1>2, NoneIdleStep, TypeCorrect, PTL DEF Spec

-----------------------------------------------------------------------------
(* Tasks are first assigned in the order of their submission. *)

(* What is left of a queue in order when its entries keep their order and  *)
(* no task becomes pending.                                                *)
LEMMA OrderKept ==
  ASSUME TypeOK, InOrder,
         \A u \in Tasks : status'[u] = "pending" => status[u] = "pending",
         \/ pending' = pending
         \/ pending # <<>> /\ pending' = Tail(pending)
         \/ \E t \in Tasks : pending' = Append(pending, t) /\ status'[t] # "pending"
  PROVE  \A i, j \in DOMAIN pending' :
           i < j /\ status'[pending'[i]] = "pending" /\ status'[pending'[j]] = "pending"
             => pending'[i] < pending'[j]
<1>1. \A i \in DOMAIN pending : pending[i] \in Tasks
  BY DEF TypeOK
<1>2. CASE pending' = pending
  BY <1>1, <1>2 DEF InOrder
<1>3. CASE pending # <<>> /\ pending' = Tail(pending)
  <2>1. \A i \in DOMAIN Tail(pending) : i + 1 \in DOMAIN pending /\ Tail(pending)[i] = pending[i + 1] /\ i \in Nat
    BY <1>3, TailMembers DEF TypeOK
  <2>2. QED
    BY <1>1, <1>3, <2>1 DEF InOrder
<1>4. ASSUME NEW t \in Tasks, pending' = Append(pending, t), status'[t] # "pending"
      PROVE  \A i, j \in DOMAIN pending' :
               i < j /\ status'[pending'[i]] = "pending" /\ status'[pending'[j]] = "pending"
                 => pending'[i] < pending'[j]
  <2>1. \A i \in DOMAIN Append(pending, t) :
          \/ i \in DOMAIN pending /\ Append(pending, t)[i] = pending[i]
          \/ Append(pending, t)[i] = t
    BY DEF TypeOK
  <2>2. QED
    BY <1>1, <1>4, <2>1 DEF InOrder
<1>5. QED
  BY <1>2, <1>3, <1>4

LEMMA TaskOrder ==
  ASSUME NEW t \in Tasks, NEW u \in Tasks
  PROVE  (t < u \/ u < t \/ t = u) /\ (t < u => t # u /\ ~(u < t))
<1>1. t \in Nat /\ u \in Nat
  BY SwarmAssumption DEF Tasks
<1>2. QED
  BY <1>1

LEMMA InOrderStep == TypeOK /\ Kept /\ NoneIdle /\ InOrder /\ [Next]_vars => InOrder'
<1> SUFFICES ASSUME TypeOK, Kept, NoneIdle, InOrder, [Next]_vars PROVE InOrder'
  OBVIOUS
<1> USE QueueTypes, QueueEffects
<1>0. status \in [Tasks -> {"new", "pending", "assigned", "orphaned"} \cup Final]
  BY DEF TypeOK
<1>a. \A t, u \in Tasks : (t < u \/ u < t \/ t = u) /\ (t < u => t # u /\ ~(u < t))
  BY TaskOrder
(* A task that is not new becomes something else that is neither new nor   *)
(* pending, and none waits before it.                                      *)
<1>1. ASSUME NEW t \in Tasks, status'[t] \notin {"new", "pending"},
             \A u \in Tasks \ {t} : status'[u] = status[u],
             \A u \in Tasks : u < t => status[u] \notin {"new"} /\ status'[u] # "pending",
             \A u \in Members(pending)' : u = t \/ u \in Members(pending),
             \A u \in Members(recovery)' : u \in Members(recovery),
             \/ pending' = pending
             \/ pending # <<>> /\ pending' = Tail(pending)
             \/ pending' = Append(pending, t)
      PROVE  InOrder'
  <2>1. NoOvertaking'
    BY <1>1 DEF InOrder, NoOvertaking
  <2>2. \A v, u \in Tasks : v < u /\ status'[v] = "new" => status'[u] = "new"
    BY <1>1 DEF InOrder
  <2>3. \A u \in Tasks : status'[u] = "pending" => status[u] = "pending"
    BY <1>1
  <2>4. \A i, j \in DOMAIN pending' :
          i < j /\ status'[pending'[i]] = "pending" /\ status'[pending'[j]] = "pending"
            => pending'[i] < pending'[j]
    BY <1>1, <2>3, OrderKept
  <2>5. \A u \in Members(recovery)' : status'[u] \notin {"new", "pending"}
    <3>1. \A u \in Members(recovery) : u \in Tasks
      BY DEF TypeOK, Members
    <3>2. QED
      BY <1>1, <3>1 DEF InOrder
  <2>6. \A u \in Members(pending)' : status'[u] # "new"
    <3>1. \A u \in Members(pending) : u \in Tasks
      BY DEF TypeOK, Members
    <3>2. QED
      BY <1>1, <3>1 DEF InOrder
  <2>7. QED
    BY <2>1, <2>2, <2>4, <2>5, <2>6 DEF InOrder
<1>2. ASSUME NEW t \in Tasks, NEW w \in Workers, SubmitAssigned(t, w) PROVE InOrder'
  <2>1. pending = <<>>
    BY <1>2 DEF SubmitAssigned, AssignedTo, NoneIdle, Idle
  <2>2. \A u \in Tasks : status[u] # "pending"
    BY <2>1 DEF Kept, Members
  <2>3. status'[t] = "assigned" /\ \A u \in Tasks \ {t} : status'[u] = status[u]
    BY <1>0, <1>2 DEF SubmitAssigned, AssignedTo
  <2>4. QED
    BY <1>1, <1>2, <2>2, <2>3 DEF SubmitAssigned, NextToSubmit
<1>3. ASSUME NEW t \in Tasks, Answered(t)
      PROVE  \A u \in Tasks : u < t => status[u] \notin {"new", "pending"}
  BY <1>3 DEF Answered, InOrder, NoOvertaking
<1>4. ASSUME NEW t \in Tasks, NEW w \in Workers, FailAgain(t, w) PROVE InOrder'
  <2>1. status'[t] = "assigned" /\ \A u \in Tasks \ {t} : status'[u] = status[u]
    BY <1>0, <1>4 DEF FailAgain, AssignedTo
  <2>2. QED
    BY <1>1, <1>3, <1>4, <2>1, <1>a DEF FailAgain
<1>5. ASSUME NEW t \in Tasks, Complete(t) \/ FailFinally(t) PROVE InOrder'
  <2>1. Answered(t) /\ status'[t] \in Final /\ \A u \in Tasks \ {t} : status'[u] = status[u]
    BY <1>0, <1>5 DEF Complete, FailFinally, Final
  <2>2. /\ pending' = pending \/ pending' = Append(pending, t)
        /\ recovery' = recovery
    BY <1>5 DEF Complete, FailFinally
  <2>3. \A u \in Tasks : u < t => u # t
    BY SwarmAssumption DEF Tasks
  <2>4. QED
    BY <1>1, <1>3, <2>1, <2>2, <2>3 DEF Final
<1>6. ASSUME NEW t \in Tasks, SubmitQueued(t) PROVE InOrder'
  <2>1. /\ Members(pending)' = Members(pending) \cup {t} /\ Members(recovery)' = Members(recovery)
        /\ status'[t] = "pending" /\ \A u \in Tasks \ {t} : status'[u] = status[u]
    BY <1>0, <1>6 DEF SubmitQueued
  <2>2. \A u \in Tasks : (u < t => status[u] # "new") /\ (t < u => status[u] = "new")
    BY <1>6 DEF SubmitQueued, NextToSubmit, InOrder
  <2>3. \A i \in DOMAIN pending : pending[i] \in Tasks /\ pending[i] \in Members(pending)
    BY DEF TypeOK, Members
  <2>4. \A u \in Members(pending) : u \in Tasks /\ u < t
    <3>1. \A u \in Members(pending) : u \in Tasks /\ status[u] # "new"
      BY DEF InOrder, TypeOK, Members
    <3>2. QED
      BY <1>6, <1>a, <2>2, <3>1 DEF SubmitQueued, NextToSubmit
  <2>5. \A i \in DOMAIN Append(pending, t) :
          \/ i \in DOMAIN pending /\ Append(pending, t)[i] = pending[i]
          \/ i = Len(pending) + 1 /\ Append(pending, t)[i] = t
    <3>1. Len(pending) \in Nat /\ DOMAIN pending = 1..Len(pending)
      BY DEF TypeOK
    <3>2. DOMAIN Append(pending, t) = 1..(Len(pending) + 1)
      BY DEF TypeOK
    <3>3. \A i \in 1..Len(pending) : Append(pending, t)[i] = pending[i]
      BY DEF TypeOK
    <3>4. Append(pending, t)[Len(pending) + 1] = t
      BY DEF TypeOK
    <3>5. QED
      BY <3>1, <3>2, <3>3, <3>4
  <2>6. \A i, j \in DOMAIN pending' :
          i < j /\ status'[pending'[i]] = "pending" /\ status'[pending'[j]] = "pending"
            => pending'[i] < pending'[j]
    <3> SUFFICES ASSUME NEW i \in DOMAIN pending', NEW j \in DOMAIN pending', i < j,
                        status'[pending'[i]] = "pending", status'[pending'[j]] = "pending"
                 PROVE  pending'[i] < pending'[j]
      OBVIOUS
    <3>1. i \in DOMAIN pending /\ pending'[i] = pending[i]
      <4>1. \A k \in DOMAIN pending : k <= Len(pending)
        BY DEF TypeOK
      <4>2. Len(pending) \in Nat /\ i \in Nat /\ j \in Nat
        BY <1>6, SMTT(20) DEF SubmitQueued, TypeOK
      <4>3. QED
        BY <1>6, <2>5, <4>1, <4>2 DEF SubmitQueued
    <3>2. CASE j \in DOMAIN pending /\ pending'[j] = pending[j]
      <4>1. pending[i] # t /\ pending[j] # t
        BY <3>1, <3>2, <2>3, <2>4, <1>a
      <4>2. status[pending[i]] = "pending" /\ status[pending[j]] = "pending"
        BY <3>1, <3>2, <4>1, <2>1, <2>3
      <4>3. QED
        BY <3>1, <3>2, <4>2 DEF InOrder
    <3>3. CASE pending'[j] = t
      BY <3>1, <3>3, <2>3, <2>4
    <3>4. QED
      BY <1>6, <2>5, <3>2, <3>3 DEF SubmitQueued
  <2>7. NoOvertaking'
    <3> SUFFICES ASSUME NEW v \in Tasks, NEW u \in Tasks, v < u, status'[v] = "pending"
                 PROVE  status'[u] \in {"new", "pending"}
      BY DEF NoOvertaking
    <3>1. CASE v = t
      BY <1>a, <2>1, <2>2, <3>1
    <3>2. CASE v # t
      BY <2>1, <3>2 DEF InOrder, NoOvertaking
    <3>3. QED
      BY <3>1, <3>2
  <2>8. \A v, u \in Tasks : v < u /\ status'[v] = "new" => status'[u] = "new"
    BY <2>1, <2>2 DEF InOrder
  <2>9. /\ \A u \in Members(recovery)' : status'[u] \notin {"new", "pending"}
        /\ \A u \in Members(pending)' : status'[u] # "new"
    <3>1. \A u \in Members(recovery) \cup Members(pending) : u \in Tasks
      BY DEF TypeOK, Members
    <3>2. status[t] = "new"
      BY <1>6 DEF SubmitQueued, NextToSubmit
    <3>3. QED
      BY <2>1, <3>1, <3>2 DEF InOrder
  <2>10. QED
    BY <2>6, <2>7, <2>8, <2>9 DEF InOrder
<1>7. CASE HeartbeatCheck
  BY <1>7 DEF HeartbeatCheck, taskVars, InOrder, NoOvertaking
<1>8. ASSUME NEW w \in Workers, NEW q, Orphan(w, q) PROVE InOrder'
  <2>1. /\ pending' = pending /\ Members(pending)' = Members(pending)
        /\ Members(recovery)' = Members(recovery) \cup AffectedBy(w)
    BY <1>8 DEF Orphan
  <2>2. \A u \in Tasks : \/ status'[u] = status[u]
                         \/ status[u] = "assigned" /\ status'[u] = "orphaned"
    BY <1>8 DEF Orphan, AffectedBy
  <2>3. \A u \in AffectedBy(w) : u \in Tasks /\ status'[u] = "orphaned"
    BY <1>8 DEF Orphan, AffectedBy
  <2>4. \A u \in Members(recovery) \cup Members(pending) : u \in Tasks
    BY DEF TypeOK, Members
  <2>5. \A i, j \in DOMAIN pending' :
          i < j /\ status'[pending'[i]] = "pending" /\ status'[pending'[j]] = "pending"
            => pending'[i] < pending'[j]
    BY <2>1, <2>2, OrderKept
  <2>6. NoOvertaking' /\ \A v, u \in Tasks : v < u /\ status'[v] = "new" => status'[u] = "new"
    BY <2>2 DEF InOrder, NoOvertaking
  <2>7. /\ \A u \in Members(recovery)' : status'[u] \notin {"new", "pending"}
        /\ \A u \in Members(pending)' : status'[u] # "new"
    <3>1. \A u \in Members(recovery) : status'[u] \notin {"new", "pending"}
      BY <2>2, <2>4 DEF InOrder
    <3>2. \A u \in Members(pending) : status'[u] # "new"
      BY <2>2, <2>4 DEF InOrder
    <3>3. QED
      BY <2>1, <2>3, <3>1, <3>2
  <2>8. QED
    BY <2>5, <2>6, <2>7 DEF InOrder
<1>9. ASSUME NEW w \in Workers, RecoverAssigned(w) PROVE InOrder'
  <2>1. Head(recovery) \in Tasks /\ Head(recovery) \in Members(recovery)
    BY <1>9 DEF RecoverAssigned
  <2>2. \A u \in Tasks : u < Head(recovery) => status[u] \notin {"new", "pending"}
    BY <2>1 DEF InOrder, NoOvertaking
  <2>3. /\ status'[Head(recovery)] = "assigned"
        /\ \A u \in Tasks \ {Head(recovery)} : status'[u] = status[u]
    BY <1>0, <1>9, <2>1 DEF RecoverAssigned, AssignedTo
  <2>4. pending' = pending /\ Members(recovery) = {Head(recovery)} \cup Members(recovery)'
    BY <1>9 DEF RecoverAssigned
  <2>5. QED
    BY <1>1, <2>1, <2>2, <2>3, <2>4
<1>10. ASSUME NEW w \in Workers, DrainAssigned(w) PROVE InOrder'
  <2>1. Head(pending) \in Tasks /\ Head(pending) \in Members(pending)
    BY <1>10 DEF DrainAssigned
  <2>2. \A u \in Tasks : u < Head(pending) => status[u] # "pending"
    <3> SUFFICES ASSUME NEW u \in Tasks, u < Head(pending), status[u] = "pending" PROVE FALSE
      OBVIOUS
    <3>1. status[Head(pending)] = "pending"
      BY <1>0, <2>1 DEF InOrder, NoOvertaking
    <3>2. PICK i \in DOMAIN pending : pending[i] = u
      BY DEF Kept, Members
    <3>3. 1 \in DOMAIN pending /\ pending[1] = Head(pending) /\ i \in Nat /\ i >= 1
      <4>1. pending \in Seq(Tasks) /\ pending # <<>>
        BY <1>10 DEF DrainAssigned, TypeOK
      <4>2. 1 \in DOMAIN pending /\ pending[1] = Head(pending)
        BY <4>1
      <4>3. DOMAIN pending = 1..Len(pending) /\ Len(pending) \in Nat
        BY <4>1
      <4>4. QED
        BY <4>2, <4>3
    <3>4. u # Head(pending) /\ ~(Head(pending) < u)
      BY <1>a, <2>1
    <3>5. i = 1 \/ 1 < i
      BY <3>3
    <3>6. QED
      BY <3>1, <3>2, <3>3, <3>4, <3>5 DEF InOrder
  <2>3. \A u \in Tasks : u < Head(pending) => status[u] # "new"
    BY <2>1 DEF InOrder
  <2>4. /\ status'[Head(pending)] = "assigned"
        /\ \A u \in Tasks \ {Head(pending)} : status'[u] = status[u]
    BY <1>0, <1>10, <2>1 DEF DrainAssigned, AssignedTo
  <2>5. pending' = Tail(pending) /\ pending # <<>> /\ recovery' = recovery
    BY <1>10 DEF DrainAssigned
  <2>6. QED
    BY <1>1, <2>1, <2>2, <2>3, <2>4, <2>5
<1>11. CASE RecoverQueued
  <2>1. Head(recovery) \in Tasks /\ Head(recovery) \in Members(recovery)
    BY <1>11 DEF RecoverQueued
  <2>2. /\ status' = status /\ pending' = Append(pending, Head(recovery))
        /\ Members(pending)' = Members(pending) \cup {Head(recovery)}
        /\ Members(recovery) = {Head(recovery)} \cup Members(recovery)'
    BY <1>11, <2>1 DEF RecoverQueued
  <2>3. status'[Head(recovery)] \notin {"new", "pending"}
    BY <2>1, <2>2 DEF InOrder
  <2>4. \A i, j \in DOMAIN pending' :
          i < j /\ status'[pending'[i]] = "pending" /\ status'[pending'[j]] = "pending"
            => pending'[i] < pending'[j]
    BY <2>1, <2>2, <2>3, OrderKept
  <2>5. QED
    BY <2>1, <2>2, <2>3, <2>4 DEF InOrder, NoOvertaking
<1>12. CASE IsOver
  <2>1. status' = status /\ pending' = pending /\ Members(recovery)' = Members(recovery) /\ Members(pending)' = Members(pending)
    BY <1>12 DEF IsOver
  <2>2. QED
    BY <2>1 DEF InOrder, NoOvertaking
<1>13. QED
  BY <1>2, <1>4, <1>5, <1>6, <1>7, <1>8, <1>9, <1>10, <1>11, <1>12, Steps

(* Tasks are first assigned in the order of their submission               *)
(* (NoOvertaking), whatever answers come and whichever workers die.        *)
THEOREM FirstComeFirstAssigned == Spec => []NoOvertaking
<1>1. Init => Kept /\ NoneIdle /\ InOrder
  BY DEF Init, Kept, NoneIdle, InOrder, NoOvertaking, Members
<1>2. InOrder => NoOvertaking
  BY DEF InOrder
<1>3. QED
  BY <1>1, <1>2, KeptStep, NoneIdleStep, InOrderStep, TypeCorrect, PTL DEF Spec

-----------------------------------------------------------------------------
(* As long as answers come for assigned tasks only. *)

LEMMA DistinctAppend ==
  ASSUME NEW S, NEW q \in Seq(S), NEW x \in S, Distinct(q), x \notin Members(q)
  PROVE  Distinct(Append(q, x))
<1>1. Len(q) \in Nat /\ DOMAIN q = 1..Len(q) /\ DOMAIN Append(q, x) = 1..(Len(q) + 1)
  OBVIOUS
<1>2. /\ \A i \in 1..Len(q) : Append(q, x)[i] = q[i]
      /\ Append(q, x)[Len(q) + 1] = x
  OBVIOUS
<1>3. \A i \in DOMAIN q : q[i] # x
  BY DEF Members
<1>4. QED
  BY <1>1, <1>2, <1>3 DEF Distinct

LEMMA DistinctTail ==
  ASSUME NEW S, NEW q \in Seq(S), Distinct(q), q # <<>>
  PROVE  Distinct(Tail(q)) /\ Head(q) \notin Members(Tail(q))
<1>1. \A i \in DOMAIN Tail(q) : i \in Nat /\ i >= 1 /\ i + 1 \in DOMAIN q /\ Tail(q)[i] = q[i + 1]
  BY TailMembers
<1>2. 1 \in DOMAIN q /\ q[1] = Head(q)
  OBVIOUS
<1>3. QED
  BY <1>1, <1>2 DEF Distinct, Members

LEMMA DistinctConcat ==
  ASSUME NEW S, NEW q \in Seq(S), NEW r \in Seq(S), Distinct(q), Distinct(r),
         Members(q) \cap Members(r) = {}
  PROVE  Distinct(q \o r)
<1>1. \A i \in DOMAIN (q \o r) :
        \/ i \in DOMAIN q /\ (q \o r)[i] = q[i]
        \/ i - Len(q) \in DOMAIN r /\ (q \o r)[i] = r[i - Len(q)]
  OBVIOUS
<1>2. \A i \in DOMAIN q, j \in DOMAIN r : q[i] # r[j]
  BY DEF Members
<1>3. \A i \in DOMAIN (q \o r) : i \in Nat
  OBVIOUS
<1>4. Len(q) \in Nat
  OBVIOUS
<1>5. QED
  BY <1>1, <1>2, <1>3, <1>4 DEF Distinct

(* An assignment keeps Exclusive when, without t, the workers are what     *)
(* Exclusive says.                                                         *)
LEMMA AssignExclusive ==
  ASSUME TypeOK, NEW t \in Tasks, NEW w \in Workers,
         NEW ws \in [Workers -> {"idle", "busy", "failed"}],
         AssignedTo(t, w, ws),
         \A v \in Workers :
           /\ \A x, y \in AffectedBy(v) \ {t} : x = y
           /\ ws[v] = "idle" => AffectedBy(v) \ {t} = {}
           /\ ws[v] = "busy" => AffectedBy(v) \ {t} # {}
  PROVE  Exclusive'
<1>1. \A v \in Workers : AffectedBy(v)' = IF v = w THEN (AffectedBy(v) \ {t}) \cup {t} ELSE AffectedBy(v) \ {t}
  BY DEF AssignedTo, AffectedBy, TypeOK
<1>2. \A v \in Workers : wstate'[v] = IF v = w THEN "busy" ELSE ws[v]
  BY DEF AssignedTo
<1>3. ws[w] = "idle"
  BY DEF AssignedTo
<1>4. QED
  BY <1>1, <1>2, <1>3 DEF Exclusive

LEMMA FreedExclusive ==
  ASSUME TypeOK, Exclusive, NEW t \in Tasks, status[t] = "assigned", on[t] \in Workers
  PROVE  /\ Freed(t)[on[t]] = "idle"
         /\ \A v \in Workers :
              /\ \A x, y \in AffectedBy(v) \ {t} : x = y
              /\ Freed(t)[v] = "idle" => AffectedBy(v) \ {t} = {}
              /\ Freed(t)[v] = "busy" => AffectedBy(v) \ {t} # {}
<1>1. t \in AffectedBy(on[t]) /\ \A v \in Workers \ {on[t]} : t \notin AffectedBy(v)
  BY DEF AffectedBy
<1>2. /\ Freed(t)[on[t]] = "idle"
      /\ \A v \in Workers \ {on[t]} : Freed(t)[v] = wstate[v]
  BY SwarmAssumption DEF Freed, TypeOK
<1>3. AffectedBy(on[t]) = {t}
  BY <1>1 DEF Exclusive
<1>4. QED
  BY <1>1, <1>2, <1>3 DEF Exclusive

LEMMA StraysGrow == TypeOK /\ [Next]_vars => strays \in Nat /\ strays' \in Nat /\ (strays' = 0 => strays = 0)
<1> SUFFICES ASSUME TypeOK, [Next]_vars
             PROVE  strays \in Nat /\ strays' \in Nat /\ (strays' = 0 => strays = 0)
  OBVIOUS
<1>1. strays \in Nat
  BY SwarmAssumption DEF TypeOK
<1>2. ASSUME NEW t \in Tasks, Answered(t) PROVE strays' = strays \/ strays' = strays + 1
  BY <1>2 DEF Answered
<1>3. strays' = strays \/ strays' = strays + 1
  BY <1>2, Steps DEF SubmitAssigned, FailAgain, SubmitQueued, Complete, FailFinally, HeartbeatCheck,
                     Orphan, RecoverAssigned, DrainAssigned, RecoverQueued, IsOver
<1>4. QED
  BY <1>1, <1>3

LEMMA QueuedTasks == TypeOK => Members(pending) \subseteq Tasks /\ Members(recovery) \subseteq Tasks
  BY DEF TypeOK, Members

(* What FailedExhausted needs to know of a step. *)
LEMMA FailedExhaustedStep ==
  ASSUME TypeOK, FailedExhausted, NEW t \in Tasks,
         \A u \in Tasks \ {t} : status'[u] = status[u] /\ retries'[u] = retries[u],
         status'[t] = "failed" <=> retries'[t] >= MaxRetries
  PROVE  FailedExhausted'
  BY DEF FailedExhausted

LEMMA OrderlyStep == TypeOK /\ Kept /\ Orderly /\ [Next]_vars => Orderly'
<1> SUFFICES ASSUME TypeOK, Kept, Orderly, [Next]_vars, strays' = 0
             PROVE  WaitsOnce' /\ Exclusive' /\ FailedExhausted'
  BY DEF Orderly
<1> USE QueueTypes, QueueEffects
<1>0. status \in [Tasks -> {"new", "pending", "assigned", "orphaned"} \cup Final] /\ retries \in [Tasks -> Nat]
  BY DEF TypeOK
<1>1. strays = 0 /\ WaitsOnce /\ Exclusive /\ FailedExhausted
  BY StraysGrow DEF Orderly
<1>a. wstate \in [Workers -> {"idle", "busy", "failed"}] /\ pending \in Seq(Tasks) /\ recovery \in Seq(Tasks)
  BY DEF TypeOK
<1>b. MaxRetries \in Nat \ {0}
  BY SwarmAssumption
<1>c. Members(pending) \subseteq Tasks /\ Members(recovery) \subseteq Tasks
  BY QueuedTasks
(* A step that takes t, which is in no queue, and leaves the queues alone. *)
<1>2. ASSUME NEW t \in Tasks, status[t] \notin {"pending", "orphaned"},
             \A u \in Tasks \ {t} : status'[u] = status[u],
             UNCHANGED <<pending, recovery>>
      PROVE  WaitsOnce'
  BY <1>1, <1>2, <1>c DEF WaitsOnce, Distinct
(* A step that assigns a task that is not with a worker. *)
<1>3. ASSUME NEW t \in Tasks, NEW w \in Workers, AssignedTo(t, w, wstate),
             status[t] \in {"new", "pending", "orphaned"}, UNCHANGED retries
      PROVE  Exclusive' /\ FailedExhausted'
  <2>1. \A v \in Workers : AffectedBy(v) \ {t} = AffectedBy(v)
    BY <1>3 DEF AffectedBy
  <2>2. Exclusive'
    <3>1. \A v \in Workers :
            /\ \A x, y \in AffectedBy(v) \ {t} : x = y
            /\ wstate[v] = "idle" => AffectedBy(v) \ {t} = {}
            /\ wstate[v] = "busy" => AffectedBy(v) \ {t} # {}
      BY <1>1, <2>1 DEF Exclusive
    <3>2. QED
      BY <1>3, <1>a, <3>1, AssignExclusive
  <2>3. FailedExhausted'
    BY <1>0, <1>1, <1>3 DEF FailedExhausted, AssignedTo
  <2>4. QED
    BY <2>2, <2>3
<1>4. ASSUME NEW t \in Tasks, Answered(t)
      PROVE  status[t] = "assigned" /\ on[t] \in Workers /\ retries[t] < MaxRetries
  <2>1. status[t] = "assigned"
    BY <1>1, <1>4 DEF Answered
  <2>2. QED
    BY <1>0, <1>1, <1>b, <2>1 DEF Kept, FailedExhausted
<1>5. ASSUME NEW t \in Tasks, NEW w \in Workers, SubmitAssigned(t, w)
      PROVE  WaitsOnce' /\ Exclusive' /\ FailedExhausted'
  <2>1. status[t] = "new" /\ AssignedTo(t, w, wstate) /\ UNCHANGED <<retries, pending, recovery>>
    BY <1>5 DEF SubmitAssigned, NextToSubmit
  <2>2. \A u \in Tasks \ {t} : status'[u] = status[u]
    BY <1>0, <2>1 DEF AssignedTo
  <2>3. QED
    BY <1>2, <1>3, <2>1, <2>2
<1>6. ASSUME NEW t \in Tasks, NEW w \in Workers, FailAgain(t, w)
      PROVE  WaitsOnce' /\ Exclusive' /\ FailedExhausted'
  <2>1. status[t] = "assigned" /\ on[t] \in Workers /\ retries[t] < MaxRetries
    BY <1>4, <1>6 DEF FailAgain
  <2>2. AssignedTo(t, w, Freed(t)) /\ UNCHANGED <<pending, recovery>>
    BY <1>6 DEF FailAgain
  <2>3. status'[t] = "assigned" /\ \A u \in Tasks \ {t} : status'[u] = status[u]
    BY <1>0, <2>2 DEF AssignedTo
  <2>4. WaitsOnce'
    BY <1>2, <2>1, <2>2, <2>3
  <2>5. Exclusive'
    <3>1. \A v \in Workers :
            /\ \A x, y \in AffectedBy(v) \ {t} : x = y
            /\ Freed(t)[v] = "idle" => AffectedBy(v) \ {t} = {}
            /\ Freed(t)[v] = "busy" => AffectedBy(v) \ {t} # {}
      BY <1>1, <2>1, FreedExclusive
    <3>2. Freed(t) \in [Workers -> {"idle", "busy", "failed"}]
      BY FreedType
    <3>3. QED
      BY <2>2, <3>1, <3>2, AssignExclusive
  <2>6. retries[t] + 1 < MaxRetries /\ retries' = [retries EXCEPT ![t] = @ + 1]
    BY <1>6 DEF FailAgain, TriesAgain
  <2>7. retries'[t] = retries[t] + 1 /\ \A u \in Tasks \ {t} : retries'[u] = retries[u]
    BY <1>0, <2>6
  <2>8. FailedExhausted'
    <3>1. retries[t] \in Nat /\ ~(retries'[t] >= MaxRetries)
      BY <1>0, <1>b, <2>6, <2>7
    <3>2. QED
      BY <1>1, <2>3, <2>7, <3>1, FailedExhaustedStep
  <2>9. QED
    BY <2>4, <2>5, <2>8
<1>7. ASSUME NEW t \in Tasks, SubmitQueued(t)
      PROVE  WaitsOnce' /\ Exclusive' /\ FailedExhausted'
  <2>1. /\ status[t] = "new" /\ status'[t] = "pending" /\ \A u \in Tasks \ {t} : status'[u] = status[u]
        /\ pending' = Append(pending, t)
        /\ Members(pending)' = Members(pending) \cup {t} /\ Members(recovery)' = Members(recovery)
        /\ UNCHANGED <<wstate, on, retries, recovery>>
    BY <1>0, <1>7 DEF SubmitQueued, NextToSubmit
  <2>2. t \notin Members(pending) /\ t \notin Members(recovery)
    BY <1>1, <2>1 DEF WaitsOnce
  <2>3. Distinct(pending)'
    BY <1>1, <1>a, <2>1, <2>2, DistinctAppend DEF WaitsOnce, Distinct
  <2>4. Distinct(recovery)'
    BY <1>1, <2>1 DEF WaitsOnce, Distinct
  <2>5. WaitsOnce'
    BY <1>1, <1>c, <2>1, <2>2, <2>3, <2>4 DEF WaitsOnce
  <2>6. \A v \in Workers : AffectedBy(v)' = AffectedBy(v)
    BY <2>1 DEF AffectedBy
  <2>7. QED
    <3>1. Exclusive'
      BY <1>1, <2>1, <2>6 DEF Exclusive
    <3>2. ~(retries[t] >= MaxRetries)
      BY <1>1, <2>1 DEF FailedExhausted
    <3>3. FailedExhausted'
      BY <1>1, <2>1, <3>2, FailedExhaustedStep
    <3>4. QED
      BY <2>5, <3>1, <3>3
<1>8. ASSUME NEW t \in Tasks, Complete(t) \/ FailFinally(t)
      PROVE  WaitsOnce' /\ Exclusive' /\ FailedExhausted'
  <2>1. status[t] = "assigned" /\ on[t] \in Workers /\ retries[t] < MaxRetries
    BY <1>4, <1>8 DEF Complete, FailFinally
  <2>2. /\ status'[t] \in Final /\ \A u \in Tasks \ {t} : status'[u] = status[u]
        /\ wstate' = Freed(t) /\ UNCHANGED <<on, recovery>>
    BY <1>0, <1>8 DEF Complete, FailFinally, Final
  <2>3. Freed(t)[on[t]] = "idle"
    BY <1>1, <2>1, FreedExclusive
  <2>4. FailFinally(t) => ~TriesAgain(retries[t] + 1)
    BY <2>1, <2>3 DEF FailFinally, Idle
  <2>5. UNCHANGED pending
    BY <1>8, <2>4 DEF Complete, FailFinally
  <2>6. WaitsOnce'
    BY <1>2, <2>1, <2>2, <2>5
  <2>7. \A v \in Workers : AffectedBy(v)' = AffectedBy(v) \ {t}
    BY <2>2 DEF AffectedBy, Final
  <2>8. Exclusive'
    <3>1. \A v \in Workers :
            /\ \A x, y \in AffectedBy(v) \ {t} : x = y
            /\ Freed(t)[v] = "idle" => AffectedBy(v) \ {t} = {}
            /\ Freed(t)[v] = "busy" => AffectedBy(v) \ {t} # {}
      BY <1>1, <2>1, FreedExclusive
    <3>2. QED
      BY <2>2, <2>7, <3>1 DEF Exclusive
  <2>9. FailedExhausted'
    <3>1. CASE Complete(t)
      BY <1>0, <1>1, <2>1, <3>1 DEF Complete, FailedExhausted
    <3>2. CASE FailFinally(t)
      <4>1. retries' = [retries EXCEPT ![t] = @ + 1] /\ status' = [status EXCEPT ![t] = "failed"]
        BY <3>2 DEF FailFinally
      <4>2. retries'[t] = retries[t] + 1 /\ \A u \in Tasks \ {t} : retries'[u] = retries[u]
        BY <1>0, <4>1
      <4>3. retries[t] + 1 >= MaxRetries
        BY <1>0, <1>b, <2>4, <3>2 DEF TriesAgain
      <4>4. status'[t] = "failed"
        BY <1>0, <4>1
      <4>5. QED
        BY <1>1, <2>2, <4>2, <4>3, <4>4 DEF FailedExhausted
    <3>3. QED
      BY <1>8, <3>1, <3>2
  <2>10. QED
    BY <2>6, <2>8, <2>9
<1>9. CASE HeartbeatCheck
  <2>1. UNCHANGED <<status, on, retries, pending, recovery>> /\ \A v \in Workers : wstate'[v] = "failed"
    BY <1>9 DEF HeartbeatCheck, taskVars
  <2>2. QED
    BY <1>1, <2>1 DEF WaitsOnce, Distinct, Exclusive, AffectedBy, FailedExhausted
<1>10. ASSUME NEW w \in Workers, NEW q, Orphan(w, q)
       PROVE  WaitsOnce' /\ Exclusive' /\ FailedExhausted'
  <2>1. /\ Orphaned(w, q) /\ q \in Seq(Tasks) /\ Members(q) = AffectedBy(w)
        /\ Members(recovery)' = Members(recovery) \cup AffectedBy(w)
        /\ recovery' = recovery \o q
        /\ UNCHANGED <<retries, pending>>
    <3>1. Orphaned(w, q)
      BY <1>10 DEF Orphan
    <3>2. /\ q \in Seq(Tasks) /\ Members(q) = AffectedBy(w)
          /\ Members(recovery)' = Members(recovery) \cup AffectedBy(w)
      BY <3>1, OrphansQueued
    <3>3. recovery' = recovery \o q /\ UNCHANGED <<retries, pending>>
      BY <1>10 DEF Orphan, Orphaned
    <3>4. QED
      BY <3>1, <3>2, <3>3
  <2>2. /\ \A u \in AffectedBy(w) : u \in Tasks /\ status[u] = "assigned" /\ status'[u] = "orphaned"
        /\ \A u \in Tasks \ AffectedBy(w) : status'[u] = status[u] /\ on'[u] = on[u]
    BY <1>10 DEF Orphan, AffectedBy
  <2>3. Members(q) \cap Members(recovery) = {} /\ AffectedBy(w) \cap Members(pending) = {}
    BY <1>1, <2>1, <2>2, SMTT(20) DEF WaitsOnce
  <2>4. Distinct(q)
    <3> SUFFICES ASSUME NEW i \in DOMAIN q, NEW j \in DOMAIN q, q[i] = q[j], i # j PROVE FALSE
      BY DEF Distinct
    <3>1. i \in Nat /\ j \in Nat
      BY <2>1
    <3>2. q[i] \in Tasks /\ q[j] \in Tasks
      BY <2>1
    <3>3. i < j \/ j < i
      BY <3>1
    <3>4. QED
      BY <2>1, <3>2, <3>3, TaskOrder DEF Orphaned
  <2>5. Distinct(recovery)'
    <3>1. Distinct(recovery)
      BY <1>1 DEF WaitsOnce
    <3>2. Distinct(recovery \o q)
      BY <1>a, <2>1, <2>3, <2>4, <3>1, DistinctConcat
    <3>3. QED
      BY <2>1, <3>2 DEF Distinct
  <2>6. Members(pending)' = Members(pending) /\ Distinct(pending)'
    BY <1>1, <2>1 DEF WaitsOnce, Distinct
  <2>7. WaitsOnce'
    BY <1>1, <1>c, <2>1, <2>2, <2>3, <2>5, <2>6 DEF WaitsOnce
  <2>8. \A v \in Workers : AffectedBy(v)' = IF v = w THEN {} ELSE AffectedBy(v)
    <3>1. \A u \in Tasks, v \in Workers : u \in AffectedBy(v)' <=> (u \in AffectedBy(v) /\ v # w)
      BY <2>2 DEF AffectedBy
    <3>2. QED
      BY <3>1 DEF AffectedBy
  <2>9. \A v \in Workers : wstate'[v] = IF v = w THEN "failed" ELSE wstate[v]
    BY <1>10, <1>a DEF Orphan
  <2>10. Exclusive'
    BY <1>1, <2>8, <2>9 DEF Exclusive
  <2>11. FailedExhausted'
    BY <1>1, <2>1, <2>2 DEF FailedExhausted
  <2>12. QED
    BY <2>7, <2>10, <2>11
<1>11. ASSUME NEW w \in Workers, RecoverAssigned(w)
       PROVE  WaitsOnce' /\ Exclusive' /\ FailedExhausted'
  <2>1. /\ recovery # <<>> /\ recovery' = Tail(recovery) /\ UNCHANGED <<retries, pending>>
        /\ Members(recovery) = {Head(recovery)} \cup Members(recovery)' /\ Head(recovery) \in Tasks
        /\ AssignedTo(Head(recovery), w, wstate)
    BY <1>11 DEF RecoverAssigned
  <2>2. status[Head(recovery)] \in {"pending", "orphaned"} /\ Head(recovery) \notin Members(pending)
    BY <1>1, <2>1 DEF WaitsOnce
  <2>3. Distinct(recovery)' /\ Head(recovery) \notin Members(recovery)'
    BY <1>1, <1>a, <2>1, DistinctTail DEF WaitsOnce, Distinct, Members
  <2>4. Members(pending)' = Members(pending) /\ Distinct(pending)'
    BY <1>1, <2>1 DEF WaitsOnce, Distinct
  <2>5. \A u \in Tasks \ {Head(recovery)} : status'[u] = status[u]
    BY <1>0, <2>1 DEF AssignedTo
  <2>6. WaitsOnce'
    BY <1>1, <1>c, <2>1, <2>2, <2>3, <2>4, <2>5 DEF WaitsOnce
  <2>7. QED
    BY <1>3, <2>1, <2>2, <2>6
<1>12. ASSUME NEW w \in Workers, DrainAssigned(w)
       PROVE  WaitsOnce' /\ Exclusive' /\ FailedExhausted'
  <2>1. /\ pending # <<>> /\ pending' = Tail(pending) /\ UNCHANGED <<retries, recovery>>
        /\ Members(pending) = {Head(pending)} \cup Members(pending)' /\ Head(pending) \in Tasks
        /\ AssignedTo(Head(pending), w, wstate)
    BY <1>12 DEF DrainAssigned
  <2>2. status[Head(pending)] \in {"pending", "orphaned"} /\ Head(pending) \notin Members(recovery)
    BY <1>1, <2>1 DEF WaitsOnce
  <2>3. Distinct(pending)' /\ Head(pending) \notin Members(pending)'
    BY <1>1, <1>a, <2>1, DistinctTail DEF WaitsOnce, Distinct, Members
  <2>4. Members(recovery)' = Members(recovery) /\ Distinct(recovery)'
    BY <1>1, <2>1 DEF WaitsOnce, Distinct
  <2>5. \A u \in Tasks \ {Head(pending)} : status'[u] = status[u]
    BY <1>0, <2>1 DEF AssignedTo
  <2>6. WaitsOnce'
    BY <1>1, <1>c, <2>1, <2>2, <2>3, <2>4, <2>5 DEF WaitsOnce
  <2>7. QED
    BY <1>3, <2>1, <2>2, <2>6
<1>13. CASE RecoverQueued
  <2>1. /\ recovery # <<>> /\ recovery' = Tail(recovery) /\ pending' = Append(pending, Head(recovery))
        /\ Members(recovery) = {Head(recovery)} \cup Members(recovery)' /\ Head(recovery) \in Tasks
        /\ UNCHANGED <<wstate, status, on, retries>>
    BY <1>13 DEF RecoverQueued
  <2>2. Members(pending)' = Members(pending) \cup {Head(recovery)}
    BY <2>1
  <2>3. Head(recovery) \notin Members(pending)
    BY <1>1, <2>1 DEF WaitsOnce
  <2>4. Distinct(recovery)' /\ Head(recovery) \notin Members(recovery)'
    BY <1>1, <1>a, <2>1, DistinctTail DEF WaitsOnce, Distinct, Members
  <2>5. Distinct(pending)'
    BY <1>1, <1>a, <2>1, <2>3, DistinctAppend, SMTT(20) DEF WaitsOnce, Distinct
  <2>6. WaitsOnce'
    BY <1>1, <2>1, <2>2, <2>3, <2>4, <2>5 DEF WaitsOnce
  <2>7. QED
    BY <1>1, <2>1, <2>6 DEF Exclusive, FailedExhausted, AffectedBy
<1>14. CASE IsOver
  <2>1. UNCHANGED <<wstate, status, on, retries, pending, recovery>>
    BY <1>14 DEF IsOver
  <2>2. WaitsOnce'
    BY <1>1, <2>1 DEF WaitsOnce, Distinct
  <2>3. QED
    BY <1>1, <2>1, <2>2 DEF Exclusive, FailedExhausted, AffectedBy
<1>15. QED
  BY <1>5, <1>6, <1>7, <1>8, <1>9, <1>10, <1>11, <1>12, <1>13, <1>14, Steps

LEMMA OrderlyInit == Init => Orderly
  BY SwarmAssumption DEF Init, Orderly, WaitsOnce, Distinct, Exclusive, FailedExhausted, AffectedBy, Members

LEMMA OrderlyAlways == Spec => [](TypeOK /\ Kept /\ Orderly)
<1>1. Init => Kept
  BY DEF Init, Kept
<1>2. QED
  BY <1>1, OrderlyInit, KeptStep, OrderlyStep, TypeCorrect, PTL DEF Spec

(* As long as answers come for assigned tasks only, a busy worker has      *)
(* exactly one task and an idle one has none (OneTaskPerWorker).           *)
THEOREM WorkersAreExclusive == Spec => []OneTaskPerWorker
<1>1. Orderly => OneTaskPerWorker
  BY DEF Orderly, Exclusive, OneTaskPerWorker
<1>2. QED
  BY <1>1, OrderlyAlways, PTL

(* As long as answers come for assigned tasks only, a task fails for good  *)
(* exactly when its attempts are used up (FailsOnlyWhenExhausted).         *)
THEOREM FailureIsExhaustion == Spec => []FailsOnlyWhenExhausted
<1>1. Orderly => FailsOnlyWhenExhausted
  BY DEF Orderly, FailedExhausted, FailsOnlyWhenExhausted
<1>2. QED
  BY <1>1, OrderlyAlways, PTL

LEMMA FinalStep ==
  TypeOK /\ Orderly /\ [Next]_vars =>
    [strays' = 0 => \A t \in Tasks : status[t] \in Final => status'[t] = status[t]]_vars
<1> SUFFICES ASSUME TypeOK, Orderly, [Next]_vars, strays' = 0,
                    NEW u \in Tasks, status[u] \in Final
             PROVE  status'[u] = status[u]
  OBVIOUS
<1> USE QueueTypes, QueueEffects
<1>0. status \in [Tasks -> {"new", "pending", "assigned", "orphaned"} \cup Final]
  BY DEF TypeOK
<1>1. strays = 0 /\ WaitsOnce
  BY StraysGrow DEF Orderly
<1>2. status[u] \notin {"new", "pending", "assigned", "orphaned"}
  BY DEF Final
<1>3. ASSUME NEW t \in Tasks, status[t] \in {"new", "pending", "assigned", "orphaned"},
             \A v \in Tasks \ {t} : status'[v] = status[v]
      PROVE  status'[u] = status[u]
  BY <1>2, <1>3
<1>4. ASSUME NEW t \in Tasks, NEW w \in Workers, SubmitAssigned(t, w) PROVE status'[u] = status[u]
  BY <1>0, <1>3, <1>4 DEF SubmitAssigned, NextToSubmit, AssignedTo
<1>5. ASSUME NEW t \in Tasks, Answered(t) PROVE status[t] = "assigned"
  BY <1>1, <1>5 DEF Answered
<1>6. ASSUME NEW t \in Tasks, NEW w \in Workers, FailAgain(t, w) PROVE status'[u] = status[u]
  BY <1>0, <1>3, <1>5, <1>6 DEF FailAgain, AssignedTo
<1>7. ASSUME NEW t \in Tasks, SubmitQueued(t) PROVE status'[u] = status[u]
  BY <1>0, <1>3, <1>7 DEF SubmitQueued, NextToSubmit
<1>8. ASSUME NEW t \in Tasks, Complete(t) \/ FailFinally(t) PROVE status'[u] = status[u]
  BY <1>0, <1>3, <1>5, <1>8 DEF Complete, FailFinally
<1>9. CASE HeartbeatCheck \/ RecoverQueued \/ IsOver
  BY <1>9 DEF HeartbeatCheck, taskVars, RecoverQueued, IsOver
<1>10. ASSUME NEW w \in Workers, NEW q, Orphan(w, q) PROVE status'[u] = status[u]
  BY <1>2, <1>10 DEF Orphan, AffectedBy
<1>11. ASSUME NEW w \in Workers, RecoverAssigned(w) PROVE status'[u] = status[u]
  <2>1. Head(recovery) \in Tasks /\ status[Head(recovery)] \in {"pending", "orphaned"}
    BY <1>1, <1>11 DEF RecoverAssigned, WaitsOnce
  <2>2. QED
    BY <1>0, <1>3, <1>11, <2>1 DEF RecoverAssigned, AssignedTo
<1>12. ASSUME NEW w \in Workers, DrainAssigned(w) PROVE status'[u] = status[u]
  <2>1. Head(pending) \in Tasks /\ status[Head(pending)] \in {"pending", "orphaned"}
    BY <1>1, <1>12 DEF DrainAssigned, WaitsOnce
  <2>2. QED
    BY <1>0, <1>3, <1>12, <2>1 DEF DrainAssigned, AssignedTo
<1>13. QED
  BY <1>4, <1>6, <1>7, <1>8, <1>9, <1>10, <1>11, <1>12, Steps

(* As long as answers come for assigned tasks only, a task that completed  *)
(* or failed for good is never run again (FinalIsFinal).                   *)
THEOREM FinalTasksStick == Spec => FinalIsFinal
  BY FinalStep, OrderlyAlways, PTL DEF Spec, FinalIsFinal

-----------------------------------------------------------------------------
(* The coordinator implements TaskLeases. *)

LEMMA PhaseOf ==
  /\ Phase["new"] = "unknown" /\ Phase["pending"] = "waiting" /\ Phase["orphaned"] = "waiting"
  /\ Phase["assigned"] = "running"
  /\ Phase["completed"] = "completed" /\ Phase["failed"] = "failed"
  BY DEF Phase

(* A step that leaves all tasks but one alone moves that one. *)
LEMMA LeaseMoves ==
  ASSUME NEW t \in Tasks, NEW to, NEW w,
         Phase[status'[t]] = to,
         (IF status'[t] = "assigned" THEN on'[t] ELSE NoWorker) = w,
         \A u \in Tasks \ {t} : status'[u] = status[u] /\ on'[u] = on[u]
  PROVE  Leases!Move(t, to, w)
  BY DEF Leases!Move

(* ... and one that leaves them all alone is a stutter. *)
LEMMA LeaseStutters ==
  ASSUME \A u \in Tasks : status'[u] = status[u] /\ on'[u] = on[u],
         retries' = retries
  PROVE  UNCHANGED Leases!leaseVars
  BY DEF Leases!leaseVars

(* A worker that holds no other task may be leased. *)
LEMMA LeaseFree ==
  ASSUME NEW t \in Tasks, NEW w \in Workers, AffectedBy(w) \ {t} = {}
  PROVE  Leases!FreeFor(t, w)
<1>1. \A u \in Tasks \ {t} : status[u] = "assigned" => on[u] # w
  BY DEF AffectedBy
<1>2. NoWorker # w
  BY SwarmAssumption
<1>3. QED
  BY <1>1, <1>2 DEF Leases!FreeFor

(* An assignment is a move to "running" under the lease of its worker. *)
LEMMA LeaseAssigned ==
  ASSUME TypeOK, NEW t \in Tasks, NEW w \in Workers, NEW ws, AssignedTo(t, w, ws)
  PROVE  Leases!Move(t, "running", w)
<1>1. status'[t] = "assigned" /\ on'[t] = w
  BY DEF AssignedTo, TypeOK
<1>2. \A u \in Tasks \ {t} : status'[u] = status[u] /\ on'[u] = on[u]
  BY DEF AssignedTo, TypeOK
<1>3. QED
  BY <1>1, <1>2, LeaseMoves, PhaseOf

LEMMA LeaseStep ==
  TypeOK /\ Kept /\ Orderly /\ [Next]_vars => [strays' = 0 => [Leases!Next]_(Leases!leaseVars)]_vars
<1> SUFFICES ASSUME TypeOK, Kept, Orderly, [Next]_vars, strays' = 0
             PROVE  Leases!Next \/ UNCHANGED Leases!leaseVars
  OBVIOUS
<1> USE PhaseOf, QueueTypes
<1>0. /\ status \in [Tasks -> {"new", "pending", "assigned", "orphaned"} \cup Final]
      /\ on \in [Tasks -> Workers \cup {NoWorker}]
      /\ wstate \in [Workers -> {"idle", "busy", "failed"}]
      /\ retries \in [Tasks -> Nat] /\ MaxRetries \in Nat
  BY SwarmAssumption DEF TypeOK
<1>1. strays = 0 /\ WaitsOnce /\ Exclusive /\ FailedExhausted
  BY StraysGrow DEF Orderly
<1>2. ASSUME NEW w \in Workers, wstate[w] = "idle" PROVE AffectedBy(w) = {}
  BY <1>1, <1>2 DEF Exclusive
<1>3. ASSUME NEW t \in Tasks, Answered(t)
      PROVE  /\ status[t] = "assigned" /\ on[t] \in Workers
             /\ [u \in Tasks |-> Phase[status[u]]][t] = "running"
  BY <1>1, <1>3 DEF Answered, Kept
<1>4. ASSUME NEW t \in Tasks, NEW w \in Workers, SubmitAssigned(t, w)
      PROVE  Leases!Accept(t)
  <2>1. status[t] = "new" /\ AssignedTo(t, w, wstate) /\ wstate[w] = "idle" /\ retries' = retries
    BY <1>4 DEF SubmitAssigned, NextToSubmit, AssignedTo
  <2>2. Leases!FreeFor(t, w) /\ Leases!Move(t, "running", w)
    BY <1>2, <2>1, LeaseFree, LeaseAssigned
  <2>3. QED
    BY <2>1, <2>2 DEF Leases!Accept
<1>5. ASSUME NEW t \in Tasks, SubmitQueued(t)
      PROVE  Leases!Accept(t)
  <2>1. status[t] = "new" /\ status' = [status EXCEPT ![t] = "pending"] /\ UNCHANGED <<on, retries>>
    BY <1>5 DEF SubmitQueued, NextToSubmit
  <2>2. status'[t] = "pending" /\ \A u \in Tasks \ {t} : status'[u] = status[u] /\ on'[u] = on[u]
    BY <1>0, <2>1
  <2>3. Leases!Move(t, "waiting", NoWorker)
    BY <2>2, LeaseMoves
  <2>4. QED
    BY <2>1, <2>3 DEF Leases!Accept
<1>6. ASSUME NEW t \in Tasks, NEW w \in Workers, FailAgain(t, w)
      PROVE  Leases!FailAttempt(t)
  <2>1. /\ Answered(t) /\ retries[t] + 1 < MaxRetries
        /\ retries' = [retries EXCEPT ![t] = @ + 1]
        /\ AssignedTo(t, w, Freed(t)) /\ Freed(t)[w] = "idle"
    BY <1>6 DEF FailAgain, TriesAgain, AssignedTo
  <2>2. AffectedBy(w) \ {t} = {}
    BY <1>1, <1>3, <2>1, FreedExclusive
  <2>3. Leases!FreeFor(t, w) /\ Leases!Move(t, "running", w)
    BY <2>1, <2>2, LeaseFree, LeaseAssigned
  <2>4. QED
    BY <1>3, <2>1, <2>3 DEF Leases!FailAttempt
<1>7. ASSUME NEW t \in Tasks, Complete(t)
      PROVE  Leases!Succeed(t)
  <2>1. Answered(t) /\ status' = [status EXCEPT ![t] = "completed"] /\ UNCHANGED <<on, retries>>
    BY <1>7 DEF Complete
  <2>2. status'[t] = "completed" /\ \A u \in Tasks \ {t} : status'[u] = status[u] /\ on'[u] = on[u]
    BY <1>0, <2>1
  <2>3. Leases!Move(t, "completed", NoWorker)
    BY <2>2, LeaseMoves
  <2>4. QED
    BY <1>3, <2>1, <2>3 DEF Leases!Succeed
<1>8. ASSUME NEW t \in Tasks, FailFinally(t)
      PROVE  Leases!FailAttempt(t)
  <2>1. /\ Answered(t) /\ retries' = [retries EXCEPT ![t] = @ + 1]
        /\ status' = [status EXCEPT ![t] = "failed"] /\ on' = on
        /\ ~(TriesAgain(retries[t] + 1) /\ Idle(Freed(t)) # {})
    BY <1>8 DEF FailFinally
  <2>2. Freed(t)[on[t]] = "idle"
    BY <1>1, <1>3, <2>1, FreedExclusive
  <2>3. ~(retries[t] + 1 < MaxRetries)
    BY <1>3, <2>1, <2>2 DEF Idle, TriesAgain
  <2>4. retries[t] < MaxRetries
    BY <1>0, <1>1, <1>3, <2>1 DEF FailedExhausted
  <2>5. retries[t] + 1 = MaxRetries
    BY <1>0, <2>3, <2>4
  <2>6. status'[t] = "failed" /\ \A u \in Tasks \ {t} : status'[u] = status[u] /\ on'[u] = on[u]
    BY <1>0, <2>1
  <2>7. Leases!Move(t, "failed", NoWorker)
    BY <2>6, LeaseMoves
  <2>8. QED
    BY <1>3, <2>1, <2>5, <2>7 DEF Leases!FailAttempt
<1>9. CASE HeartbeatCheck \/ RecoverQueued \/ IsOver
  <2>1. UNCHANGED <<status, on, retries>>
    BY <1>9 DEF HeartbeatCheck, taskVars, RecoverQueued, IsOver
  <2>2. QED
    BY <2>1, LeaseStutters
<1>10. ASSUME NEW w \in Workers, NEW q, Orphan(w, q)
       PROVE  Leases!Next \/ UNCHANGED Leases!leaseVars
  <2>1. /\ status' = [t \in Tasks |-> IF t \in AffectedBy(w) THEN "orphaned" ELSE status[t]]
        /\ on' = [t \in Tasks |-> IF t \in AffectedBy(w) THEN NoWorker ELSE on[t]]
        /\ retries' = retries
    BY <1>10 DEF Orphan
  <2>2. CASE AffectedBy(w) = {}
    BY <2>1, <2>2, LeaseStutters
  <2>3. ASSUME NEW t \in AffectedBy(w) PROVE Leases!Next
    <3>1. t \in Tasks /\ status[t] = "assigned" /\ \A u \in Tasks \ {t} : u \notin AffectedBy(w)
      BY <1>1, <2>3 DEF AffectedBy, Exclusive
    <3>2. status'[t] = "orphaned" /\ \A u \in Tasks \ {t} : status'[u] = status[u] /\ on'[u] = on[u]
      BY <2>1, <2>3, <3>1
    <3>3. Leases!Move(t, "waiting", NoWorker)
      BY <3>1, <3>2, LeaseMoves
    <3>4. Leases!LoseWorker(t)
      BY <2>1, <3>1, <3>3 DEF Leases!LoseWorker
    <3>5. QED
      BY <3>1, <3>4 DEF Leases!Next
  <2>4. QED
    BY <2>2, <2>3
<1>11. ASSUME NEW t \in Tasks, NEW w \in Workers, status[t] \in {"pending", "orphaned"},
              AssignedTo(t, w, wstate), retries' = retries
       PROVE  Leases!Begin(t)
  <2>1. Leases!FreeFor(t, w) /\ Leases!Move(t, "running", w)
    BY <1>2, <1>11, LeaseFree, LeaseAssigned DEF AssignedTo
  <2>2. QED
    BY <1>11, <2>1 DEF Leases!Begin
<1>12. ASSUME NEW w \in Workers, RecoverAssigned(w) \/ DrainAssigned(w)
       PROVE  \E t \in Tasks : Leases!Begin(t)
  <2>1. CASE RecoverAssigned(w)
    <3>1. recovery \in Seq(Tasks) /\ recovery # <<>>
      BY <2>1 DEF RecoverAssigned
    <3>2. Head(recovery) \in Tasks /\ Head(recovery) \in Members(recovery)
      BY <3>1, TailMembers
    <3>3. status[Head(recovery)] \in {"pending", "orphaned"}
      BY <1>1, <3>2 DEF WaitsOnce
    <3>4. QED
      BY <1>11, <2>1, <3>2, <3>3 DEF RecoverAssigned
  <2>2. CASE DrainAssigned(w)
    <3>1. pending \in Seq(Tasks) /\ pending # <<>>
      BY <2>2 DEF DrainAssigned
    <3>2. Head(pending) \in Tasks /\ Head(pending) \in Members(pending)
      BY <3>1, TailMembers
    <3>3. status[Head(pending)] \in {"pending", "orphaned"}
      BY <1>1, <3>2 DEF WaitsOnce
    <3>4. QED
      BY <1>11, <2>2, <3>2, <3>3 DEF DrainAssigned
  <2>3. QED
    BY <1>12, <2>1, <2>2
<1>13. QED
  BY <1>4, <1>5, <1>6, <1>7, <1>8, <1>9, <1>10, <1>12, Steps DEF Leases!Next

LEMMA LeaseInit == Init => Leases!Init
  BY PhaseOf DEF Init, Leases!Init

(* As long as answers come for assigned tasks only, the coordinator        *)
(* implements exclusive leases and bounded attempts (ImplementsLeases).    *)
THEOREM LeasesAreImplemented == Spec => ImplementsLeases
  BY LeaseInit, LeaseStep, OrderlyAlways, PTL DEF Spec, ImplementsLeases
=============================================================================
