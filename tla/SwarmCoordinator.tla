-------------------------- MODULE SwarmCoordinator --------------------------
(***************************************************************************)
(* SwarmCoordinator.execute (core/swarm_coordinator.py) over a             *)
(* DelegationGraph (core/delegation_graph.py).                             *)
(*                                                                         *)
(* The coordinator submits every node to the real queue and then plays its *)
(* completion itself; the worker pool runs the jobs in threads of its own, *)
(* whenever it gets to them.  GET /swarm/dags reads the graph at any time, *)
(* so every assignment to a node's state is a step.  Nodes are numbered in *)
(* the order of the dictionary.                                            *)
(***************************************************************************)
EXTENDS Naturals, Sequences, FiniteSets, SequencesExt, Tables

CONSTANTS
  Modes,         \* what execute may be asked for
  MaxIterations  \* max_iterations

(* _decompose: the dependencies of each node in the modes it knows; in any *)
(* other the task is one node.                                             *)
Plans ==
  [parallel   |-> <<{}, {}, {2}, {2, 3}, {2}>>,
   pipeline   |-> <<{}, {1}, {2}, {3}, {4}>>,
   debate     |-> <<{}, {}, {1, 2}>>,
   map_reduce |-> <<{}, {1}, {1}, {1}, {2, 3, 4}>>]

Decompose(m) == IF m \in DOMAIN Plans THEN Plans[m] ELSE <<{}>>

ASSUME CoordAssumption ==
  MaxIterations \in Nat /\ \A m \in Modes : Len(Decompose(m)) <= MaxIterations

VARIABLES
  mode,
  dag,      \* NodeState of each node
  turns,    \* turns of the loop begun
  ready,    \* the ready nodes of this turn that are not dispatched yet
  coordPc,  \* where execute is
  poolJob   \* what the queue and the pool know of the node's job

coordVars == <<mode, dag, turns, ready, coordPc, poolJob>>

deps     == Decompose(mode)
DagNodes == DOMAIN deps
Terminal == {"completed", "failed", "skipped"}

InState(s) == {n \in DagNodes : dag[n] = s}

CoordInit ==
  /\ mode = "none" /\ dag = <<"completed">> /\ turns = 0 /\ ready = {}
  /\ coordPc = "done"
  /\ poolJob = <<"completed">>

(* POST /swarm/execute, when the one before is over and its jobs are done. *)
Execute(m) ==
  /\ coordPc = "done" /\ \A n \in DagNodes : poolJob[n] \in Terminal
  /\ mode' = m
  /\ dag' = [n \in DOMAIN Decompose(m) |-> "pending"]
  /\ turns' = 0 /\ ready' = {}
  /\ coordPc' = "turn"
  /\ poolJob' = [n \in DOMAIN Decompose(m) |-> "none"]

-----------------------------------------------------------------------------
(* Slip: it is enough that a dependency is in the graph. *)
DependenciesKnown(n) == deps[n] \subseteq DagNodes

(* The test of ready_nodes. *)
DependenciesMet(n) == \A d \in deps[n] : d \in DagNodes /\ dag[d] = "completed"

(* ready_nodes. *)
ReadyNodes == {n \in InState("pending") : DependenciesMet(n)}

(* The head of the loop of _execute_dag: done, stuck, or a turn.  A graph  *)
(* that is stuck has the rest of its nodes failed.                         *)
BeginTurn ==
  /\ coordPc = "turn"
  /\ IF (\A n \in DagNodes : dag[n] \in Terminal) \/ turns = MaxIterations
     THEN coordPc' = "done" /\ UNCHANGED <<dag, turns, ready>>
     ELSE IF ReadyNodes = {} /\ InState("running") = {}
     THEN /\ dag' = [n \in DagNodes |-> IF dag[n] \in Terminal THEN dag[n] ELSE "failed"]
          /\ coordPc' = "done"
          /\ UNCHANGED <<turns, ready>>
     ELSE /\ dag' = [n \in DagNodes |-> IF n \in ReadyNodes THEN "ready" ELSE dag[n]]
          /\ ready' = ReadyNodes
          /\ turns' = turns + 1
          /\ coordPc' = "submit"
  /\ UNCHANGED <<mode, poolJob>>

(* The dispatch of the next node, in two parts: queue.submit, after which the   *)
(* pool may take the job, and the node's state.                            *)
SubmitNode ==
  /\ coordPc = "submit"
  /\ ready # {}
  /\ poolJob' = [poolJob EXCEPT ![Min(ready)] = "queued"]
  /\ coordPc' = "mark"
  /\ UNCHANGED <<mode, dag, turns, ready>>

MarkRunning ==
  /\ coordPc = "mark"
  /\ dag' = [dag EXCEPT ![Min(ready)] = "running"]
  /\ ready' = ready \ {Min(ready)}
  /\ coordPc' = "submit"
  /\ UNCHANGED <<mode, turns, poolJob>>

(* Slip: a node completes only when the pool has ended its job. *)
CompleteByPool ==
  /\ coordPc = "submit" /\ ready = {}
  /\ LET over == {n \in InState("running") : poolJob[n] \in Terminal}
     IN  IF over = {} THEN coordPc' = "turn" /\ UNCHANGED dag
         ELSE dag' = [dag EXCEPT ![Min(over)] = "completed"] /\ UNCHANGED coordPc
  /\ UNCHANGED <<mode, turns, ready, poolJob>>

(* The simulated completion of one running node, in the dictionary's order *)
CompleteNode ==
  /\ coordPc = "submit" /\ ready = {}
  /\ IF InState("running") = {}
     THEN coordPc' = "turn" /\ UNCHANGED dag
     ELSE /\ dag' = [dag EXCEPT ![Min(InState("running"))] = "completed"]
          /\ UNCHANGED coordPc
  /\ UNCHANGED <<mode, turns, ready, poolJob>>

(* The worker pool, which never looks at the graph. *)
PoolStarts(n) ==
  /\ poolJob[n] = "queued"
  /\ poolJob' = [poolJob EXCEPT ![n] = "running"]
  /\ UNCHANGED <<mode, dag, turns, ready, coordPc>>

PoolEnds(n) ==
  /\ poolJob[n] = "running"
  /\ \E s \in {"completed", "failed"} : poolJob' = [poolJob EXCEPT ![n] = s]
  /\ UNCHANGED <<mode, dag, turns, ready, coordPc>>

Coordinate == BeginTurn \/ SubmitNode \/ MarkRunning \/ CompleteNode

CoordNext ==
  \/ \E m \in Modes : Execute(m)
  \/ Coordinate
  \/ \E n \in DagNodes : PoolStarts(n) \/ PoolEnds(n)

CoordSpec == CoordInit /\ [][CoordNext]_coordVars /\ WF_coordVars(Coordinate)

-----------------------------------------------------------------------------
(* Nodes in the order of the dictionary. *)
Ascending(S) == Ranked(S, {e \in S \X S : e[1] < e[2]})

(* A turn of the loop of topological_order, Kahn's algorithm: the first in *)
(* the queue is next, and what waited for it alone is queued.              *)
NextInOrder(s, turn) ==
  IF s.queue = <<>> THEN s
  ELSE LET n     == Head(s.queue)
           freed == {m \in DOMAIN s.needs : n \in s.needs[m] /\ s.count[m] = 1}
       IN  [needs  |-> s.needs,
            queue  |-> Tail(s.queue) \o Ascending(freed),
            result |-> Append(s.result, n),
            count  |-> [m \in DOMAIN s.needs |->
                          IF n \in s.needs[m] THEN s.count[m] - 1 ELSE s.count[m]]]

(* topological_order of a graph: as many turns as it has nodes. *)
TopologicalOrder(plan) ==
  FoldLeft(NextInOrder,
           [needs  |-> plan,
            queue  |-> Ascending({n \in DOMAIN plan : plan[n] = {}}), result |-> <<>>,
            count  |-> [n \in DOMAIN plan |-> Cardinality(plan[n])]],
           plan).result

-----------------------------------------------------------------------------
(* However the pool's threads fall behind: a node is dispatched only when  *)
(* everything it depends on is completed, once, and as a job of the real   *)
(* queue; and when execute is over no node is left open.                   *)
DagIsRespected ==
  /\ \A n \in DagNodes : dag[n] # "pending" => \A d \in deps[n] : dag[d] = "completed"
  /\ \A n \in DagNodes : poolJob[n] = "none" <=>
       \/ dag[n] = "pending"
       \/ dag[n] = "ready" /\ ~(coordPc = "mark" /\ n = Min(ready))
  /\ coordPc = "done" => \A n \in DagNodes : dag[n] \in Terminal

(* The order that topological_order promises has every node, and none      *)
(* before one it depends on.                                               *)
OrderIsTopological ==
  LET order == TopologicalOrder(deps)
  IN  /\ Len(order) = Cardinality(DagNodes)
      /\ \A i, k \in DOMAIN order : order[i] \in deps[order[k]] => i < k

(* execute comes back, within one turn for every level of the graph.       *)
SwarmReturns ==
  coordPc # "done" ~> coordPc = "done" /\ turns <= Cardinality(DagNodes)
=============================================================================
