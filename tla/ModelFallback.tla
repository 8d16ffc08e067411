---------------------------- MODULE ModelFallback ----------------------------
(***************************************************************************)
(* A call of a model by role: FallbackRouter.call and call_async           *)
(* (core/model_fallback.py) over ModelClient (core/model_client.py), the   *)
(* registry and the keys.  The router tries the models of the role's chain *)
(* in turn; the client, when it cannot reach a remote provider, asks the   *)
(* local server itself, and the router takes that answer for the model's.  *)
(*                                                                         *)
(* Servers come and go between the attempts.  The call log is kept as the  *)
(* entries of the current call.                                            *)
(***************************************************************************)
EXTENDS Naturals, Sequences

CONSTANTS
  Roles,        \* roles a call may name, the unknown one among them
  MaxAttempts,  \* max_attempts
  NoModel       \* model_used "none"

Models == {"nemotron", "glm", "qwen", "gemma", "local"}

ASSUME FallbackAssumption == MaxAttempts \in Nat \ {0} /\ NoModel \notin Models

(* FALLBACK_CHAINS. *)
Chains == [planner |-> <<"nemotron", "glm", "local">>, critic |-> <<"nemotron", "glm", "local">>,
           coder   |-> <<"qwen", "glm", "local">>,     fast   |-> <<"glm", "qwen", "local">>,
           vision  |-> <<"gemma", "glm", "local">>]

(* A role it does not know gets the local model. *)
Chain(r) == IF r \in DOMAIN Chains THEN Chains[r] ELSE <<"local">>

(* The registry: everything but the local model is one provider's.         *)
Provider(model) == IF model = "local" THEN "local" ELSE "nvidia"

(* What a request to a server comes to: an answer, an error with a status, *)
(* no connection, anything else that raises.                               *)
Outcomes == {"answer", "http", "unreachable", "raises"}

VARIABLES
  role, how,   \* the call: its role, "call" or "call_async"
  attempt,     \* the attempt that is next
  callLog,     \* <<model, failed>> per attempt of this call
  answeredBy,  \* the server whose answer is in the response
  modelUsed,   \* ModelCallResult.model_used
  fallbackUsed,
  callPc       \* "idle", "calling", "returned"

callVars == <<role, how, attempt, callLog, answeredBy, modelUsed, fallbackUsed, callPc>>

CallInit ==
  /\ role = "none" /\ how = "none"
  /\ attempt = 1 /\ callLog = <<>>
  /\ answeredBy = NoModel /\ modelUsed = NoModel
  /\ fallbackUsed = FALSE
  /\ callPc = "idle"

Tried == SubSeq(Chain(role), 1, IF Len(Chain(role)) < MaxAttempts THEN Len(Chain(role)) ELSE MaxAttempts)

(* Slip: an unreachable server ends the client's efforts. *)
NobodyAnswers(model, first, second) == IF first = "answer" THEN model ELSE NoModel

(* ModelClient.call_sync and call: whose answer the client returns, if the *)
(* model's server behaves as first and the local one as second.  It asks   *)
(* the local server only when a remote one cannot be reached.              *)
Answering(model, first, second) ==
  IF first = "answer" THEN model
  ELSE IF first = "unreachable" /\ Provider(model) # "local" /\ second = "answer" THEN "local"
  ELSE NoModel

(* Slip: the last model of the chain is not tried. *)
MoreToTryButOne == attempt < Len(Tried)

MoreToTry == attempt <= Len(Tried)

(* _log_call; the asynchronous variant keeps no log. *)
Logged(model, failed) == IF how = "call" THEN Append(callLog, <<model, failed>>) ELSE callLog

(* One turn of the loop: an error in the answer or an exception, and the   *)
(* next model is tried; an answer, and it is returned.                     *)
Attempt ==
  /\ callPc = "calling" /\ MoreToTry
  /\ \E first, second \in Outcomes :
       LET model == Tried[attempt]
           who   == Answering(model, first, second)
       IN  IF who = NoModel
           THEN /\ callLog' = Logged(model, TRUE)
                /\ attempt' = attempt + 1
                /\ UNCHANGED <<answeredBy, modelUsed, fallbackUsed, callPc>>
           ELSE /\ callLog' = Logged(model, FALSE)
                /\ answeredBy' = who
                /\ modelUsed' = model
                /\ fallbackUsed' = (attempt > 1)
                /\ callPc' = "returned"
                /\ UNCHANGED attempt
  /\ UNCHANGED <<role, how>>

(* All models of the chain failed. *)
AllFailed ==
  /\ callPc = "calling" /\ ~MoreToTry
  /\ fallbackUsed' = TRUE
  /\ callPc' = "returned"
  /\ UNCHANGED <<role, how, attempt, callLog, answeredBy, modelUsed>>

(* The next call, of any role. *)
CallModel ==
  /\ callPc \in {"idle", "returned"}
  /\ role' \in Roles /\ how' \in {"call", "call_async"}
  /\ attempt' = 1 /\ callLog' = <<>>
  /\ answeredBy' = NoModel /\ modelUsed' = NoModel
  /\ fallbackUsed' = FALSE
  /\ callPc' = "calling"

CallNext == Attempt \/ AllFailed \/ CallModel

CallSpec == CallInit /\ [][CallNext]_callVars

-----------------------------------------------------------------------------
(* A call gives up only after every model of the chain has been tried, in  *)
(* the chain's order and up to the attempts allowed; it stops at the first *)
(* answer; and whatever is returned without an error was answered by the   *)
(* model that was asked or by the local one.                               *)
ChainIsExhausted ==
  callPc = "returned" =>
    /\ modelUsed = NoModel => attempt = Len(Tried) + 1 /\ "local" \in {Tried[i] : i \in 1..Len(Tried)}
    /\ modelUsed # NoModel => modelUsed = Tried[attempt] /\ answeredBy \in {modelUsed, "local"}
    /\ how = "call" =>
         /\ [i \in DOMAIN callLog |-> callLog[i][1]] = SubSeq(Tried, 1, Len(callLog))
         /\ \A i \in DOMAIN callLog : callLog[i][2] <=> ~(modelUsed # NoModel /\ i = attempt)
         /\ Len(callLog) = IF modelUsed = NoModel THEN Len(Tried) ELSE attempt

(* ModelCallResult carries which model succeeded, and fallback_used        *)
(* whether it was the role's first choice.                                 *)
ReportsWhoAnswered ==
  callPc = "returned" /\ modelUsed # NoModel =>
    /\ modelUsed = answeredBy
    /\ fallbackUsed <=> answeredBy # Chain(role)[1]
=============================================================================
