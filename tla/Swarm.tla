------------------------------- MODULE Swarm -------------------------------
(* The services of the swarm, side by side: in every behaviour one of them *)
(* (focus) is used and the others rest, so that their states add up and do *)
(* not multiply.                                                           *)
EXTENDS WorkerFabric, Decisions, SwarmCoordinator, EventTriggers, ModelFallback, Watchdog,
        ActorProtocol, Tracer

VARIABLE focus

otherVars == <<callVars, dogVars, actorVars, traceVars>>
swarmVars == <<focus, fabricVars, decisionVars, coordVars, busVars, otherVars>>

Services == {"fabric", "decisions", "coordinator", "bus", "model", "watchdog", "actors", "traces"}

SwarmInit ==
  /\ focus \in Services
  /\ FabricInit /\ DecisionInit /\ CoordInit /\ BusInit /\ CallInit /\ DogInit
  /\ ActorInit /\ TracerInit

(* The coordinator's thread, which goes on until execute returns. *)
CoordinatorRuns ==
  /\ focus = "coordinator" /\ Coordinate
  /\ UNCHANGED <<focus, fabricVars, decisionVars, busVars, otherVars>>

SwarmNext ==
  /\ UNCHANGED focus
  /\ \/ /\ focus = "fabric" /\ FabricNext
        /\ UNCHANGED <<decisionVars, coordVars, busVars, otherVars>>
     \/ /\ focus = "decisions" /\ DecisionNext
        /\ UNCHANGED <<fabricVars, coordVars, busVars, otherVars>>
     \/ /\ focus = "coordinator" /\ CoordNext
        /\ UNCHANGED <<fabricVars, decisionVars, busVars, otherVars>>
     \/ /\ focus = "bus" /\ BusNext
        /\ UNCHANGED <<fabricVars, decisionVars, coordVars, otherVars>>
     \/ /\ \/ focus = "model" /\ CallNext /\ UNCHANGED <<dogVars, actorVars, traceVars>>
           \/ focus = "watchdog" /\ DogNext /\ UNCHANGED <<callVars, actorVars, traceVars>>
           \/ focus = "actors" /\ ActorNext /\ UNCHANGED <<callVars, dogVars, traceVars>>
           \/ focus = "traces" /\ TracerNext /\ UNCHANGED <<callVars, dogVars, actorVars>>
        /\ UNCHANGED <<fabricVars, decisionVars, coordVars, busVars>>

SwarmSpec == SwarmInit /\ [][SwarmNext]_swarmVars /\ WF_swarmVars(CoordinatorRuns)

-----------------------------------------------------------------------------
(* What is passed on and what is recorded keeps what it carries: the bus   *)
(* and its triggers (EventTriggers), the conversations of actors           *)
(* (ActorProtocol) and the traces of runs (Tracer).                        *)
RecordsAreSound == BusIsSound /\ ConversationsAreSound /\ TracesAreSound

(* What is worked out before anything runs is right: votes, permissions    *)
(* and merges (Decisions), and the order promised for a graph              *)
(* (SwarmCoordinator).                                                     *)
PlansAreSound == DecisionsAreSound /\ OrderIsTopological
=============================================================================
