---------------------------- MODULE EngineNetwork ----------------------------
(***************************************************************************)
(* The network layer of the engine (engine/distributed/network.py).  A     *)
(* send is a call: the transport runs the handler of the method in the     *)
(* caller's thread, as often as it raises and retries are left, and a      *)
(* handler may itself call the layer, so that the sends in progress form a *)
(* stack.  The engine registers no handler; whoever uses the layer may.    *)
(***************************************************************************)
EXTENDS Naturals, Sequences, SequencesExt

CONSTANTS
  NetWorkers, NetTasks,
  SendRetries,   \* max_retries of send
  MaxNetCalls    \* bound: calls of the layer

ASSUME NetworkAssumption == SendRetries \in Nat /\ MaxNetCalls \in Nat

NetMethods == {"handshake.init", "task.submit", "task.result", "task.fail"}

VARIABLES
  netHandlers,   \* methods of _message_handlers
  sendsNow,      \* sends in progress: the method, the worker or task it is
                 \* about, the failed attempts, and whether the handler runs
  shaken,        \* workers of WorkerHandshake._registered
  nodesOnline,   \* workers of NodeRegistry._nodes
  taskStatus,    \* TaskProtocol._tasks
  netCalls,
  welcomed,      \* history: workers that a handler accepted
  delivered,     \* history: tasks whose last submission a handler took
  entangled      \* history: tasks submitted again inside their submission,
                 \* or that came to an end inside it

netVars == <<netHandlers, sendsNow, shaken, nodesOnline, taskStatus, netCalls,
             welcomed, delivered, entangled>>

NetInit ==
  /\ netHandlers = {} /\ sendsNow = <<>>
  /\ shaken = {} /\ nodesOnline = {}
  /\ taskStatus = [t \in NetTasks |-> "unknown"]
  /\ netCalls = 0 /\ welcomed = {} /\ delivered = {} /\ entangled = {}

-----------------------------------------------------------------------------
Innermost      == Last(sendsNow)
HandlerRuns    == sendsNow # <<>> /\ Innermost.runs
MayCall        == sendsNow = <<>> \/ HandlerRuns
Submitting(t)  == \E i \in DOMAIN sendsNow : sendsNow[i].method = "task.submit" /\ sendsNow[i].of = t
Known(t)       == taskStatus[t] # "unknown"

(* transport.send, by one of the operations. *)
SendFor(method, of) ==
  /\ MayCall /\ netCalls < MaxNetCalls /\ netCalls' = netCalls + 1
  /\ sendsNow' = Append(sendsNow, [method |-> method, of |-> of, failed |-> 0, runs |-> FALSE])

RegisterHandler(m) ==
  /\ MayCall /\ m \notin netHandlers /\ netHandlers' = netHandlers \union {m}
  /\ UNCHANGED <<sendsNow, shaken, nodesOnline, taskStatus, netCalls, welcomed, delivered, entangled>>

(* register_worker. *)
RegisterWorker(w) ==
  /\ SendFor("handshake.init", w)
  /\ UNCHANGED <<netHandlers, shaken, nodesOnline, taskStatus, welcomed, delivered, entangled>>

(* submit_task: known before it is sent; a task may be submitted again.    *)
SubmitNetTask(t) ==
  /\ SendFor("task.submit", t)
  /\ taskStatus' = [taskStatus EXCEPT ![t] = "submitted"]
  /\ delivered' = delivered \ {t}
  /\ entangled' = IF Submitting(t) THEN entangled \union {t} ELSE entangled \ {t}
  /\ UNCHANGED <<netHandlers, shaken, nodesOnline, welcomed>>

(* complete_task and fail_task: a known task has ended, whatever it was.   *)
EndNetTask(t, method, status) ==
  /\ SendFor(method, t)
  /\ taskStatus' = IF Known(t) THEN [taskStatus EXCEPT ![t] = status] ELSE taskStatus
  /\ entangled' = IF Submitting(t) THEN entangled \union {t} ELSE entangled
  /\ UNCHANGED <<netHandlers, shaken, nodesOnline, welcomed, delivered>>

-----------------------------------------------------------------------------
(* Slip: the error of a submission is not looked at. *)
StatusUnread(send, failed) == taskStatus

(* submit, when send has returned: an error counts, whatever became of the *)
(* task meanwhile.                                                         *)
StatusAfter(send, failed) ==
  IF send.method = "task.submit" /\ failed
  THEN [taskStatus EXCEPT ![send.of] = "submit_failed"]
  ELSE taskStatus

(* A worker whose handshake is accepted is registered twice over. *)
Enrolled(set, send, accepted) ==
  IF send.method = "handshake.init" /\ accepted THEN set \union {send.of} ELSE set

(* send returns to the operation that called it. *)
SendReturns(failed, accepted) ==
  /\ sendsNow' = Front(sendsNow)
  /\ taskStatus' = StatusAfter(Innermost, failed)
  /\ delivered' = IF Innermost.method = "task.submit" /\ ~failed
                  THEN delivered \union {Innermost.of} ELSE delivered
  /\ shaken' = Enrolled(shaken, Innermost, accepted)
  /\ nodesOnline' = Enrolled(nodesOnline, Innermost, accepted)
  /\ welcomed' = Enrolled(welcomed, Innermost, accepted)
  /\ UNCHANGED <<netHandlers, netCalls, entangled>>

(* _send_local: no handler. *)
NobodyHandles ==
  /\ sendsNow # <<>> /\ ~HandlerRuns /\ Innermost.method \notin netHandlers
  /\ SendReturns(TRUE, FALSE)

RunHandler ==
  /\ sendsNow # <<>> /\ ~HandlerRuns /\ Innermost.method \in netHandlers
  /\ sendsNow' = [sendsNow EXCEPT ![Len(sendsNow)].runs = TRUE]
  /\ UNCHANGED <<netHandlers, shaken, nodesOnline, taskStatus, netCalls, welcomed, delivered, entangled>>

(* respond, with which a handler may answer a handshake. *)
Respond ==
  /\ HandlerRuns /\ Innermost.method = "handshake.init"
  /\ shaken' = shaken \union {Innermost.of} /\ welcomed' = welcomed \union {Innermost.of}
  /\ UNCHANGED <<netHandlers, sendsNow, nodesOnline, taskStatus, netCalls, delivered, entangled>>

NetHandlerReturns == HandlerRuns /\ \E accepted \in BOOLEAN : SendReturns(FALSE, accepted)

(* It raises: it is called again, or the error is returned. *)
NetHandlerRaises ==
  /\ HandlerRuns
  /\ IF Innermost.failed < SendRetries
     THEN /\ sendsNow' = [sendsNow EXCEPT ![Len(sendsNow)].failed = @ + 1,
                                          ![Len(sendsNow)].runs = FALSE]
          /\ UNCHANGED <<netHandlers, shaken, nodesOnline, taskStatus, netCalls,
                         welcomed, delivered, entangled>>
     ELSE SendReturns(TRUE, FALSE)

NetNext ==
  \/ \E m \in NetMethods : RegisterHandler(m)
  \/ \E w \in NetWorkers : RegisterWorker(w)
  \/ \E t \in NetTasks :
       \/ SubmitNetTask(t)
       \/ EndNetTask(t, "task.result", "completed")
       \/ EndNetTask(t, "task.fail", "failed")
  \/ NobodyHandles \/ RunHandler \/ Respond \/ NetHandlerReturns \/ NetHandlerRaises

NetSpec == NetInit /\ [][NetNext]_netVars

-----------------------------------------------------------------------------
(* A node is online only after a handshake that a handler accepted; in an  *)
(* engine without handlers none but the coordinator ever is.               *)
NodesAreWelcome == nodesOnline \subseteq shaken /\ shaken \subseteq welcomed

(* When its submission is over, a task stands as submitted only if a       *)
(* handler took it, and as failed to submit only if none did, at the end   *)
(* of all retries.  A handler that ends or resubmits the task and then     *)
(* raises is the exception: the error is written over what it did.         *)
SubmissionsAreTrue ==
  \A t \in NetTasks \ entangled : ~Submitting(t) =>
    /\ taskStatus[t] = "submitted" => t \in delivered
    /\ taskStatus[t] = "submit_failed" => t \notin delivered

NetworkIsSound == NodesAreWelcome /\ SubmissionsAreTrue
=============================================================================
