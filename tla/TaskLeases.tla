----------------------------- MODULE TaskLeases -----------------------------
(***************************************************************************)
(* What a coordinator of tasks promises its callers, without queues,       *)
(* requests or worker states: a task is accepted once, tried a bounded     *)
(* number of times, each time under an exclusive lease on one worker, may  *)
(* lose the worker at any moment without losing an attempt, and ends once. *)
(* EngineSwarm implements it.                                              *)
(***************************************************************************)
EXTENDS Naturals

CONSTANTS
  Task,
  Worker,
  NoHolder,  \* a task that is with no worker
  Attempts   \* how often a task may fail

VARIABLES
  phase,     \* unknown, waiting, running, completed or failed
  lease,     \* the worker a task is with
  failures   \* failed attempts

leaseVars == <<phase, lease, failures>>

Init ==
  /\ phase = [t \in Task |-> "unknown"]
  /\ lease = [t \in Task |-> NoHolder]
  /\ failures = [t \in Task |-> 0]

Move(t, to, w) ==
  /\ phase' = [phase EXCEPT ![t] = to]
  /\ lease' = [lease EXCEPT ![t] = w]

(* A worker is leased to one task at a time. *)
FreeFor(t, w) == w \in Worker /\ \A u \in Task \ {t} : lease[u] # w

Accept(t) ==
  /\ phase[t] = "unknown"
  /\ \/ Move(t, "waiting", NoHolder)
     \/ \E w \in Worker : FreeFor(t, w) /\ Move(t, "running", w)
  /\ UNCHANGED failures

Begin(t) ==
  /\ phase[t] = "waiting"
  /\ \E w \in Worker : FreeFor(t, w) /\ Move(t, "running", w)
  /\ UNCHANGED failures

LoseWorker(t) ==
  /\ phase[t] = "running"
  /\ Move(t, "waiting", NoHolder)
  /\ UNCHANGED failures

Succeed(t) ==
  /\ phase[t] = "running"
  /\ Move(t, "completed", NoHolder)
  /\ UNCHANGED failures

(* A failed attempt is followed by the next one at once, on any free       *)
(* worker, or it was the last.                                             *)
FailAttempt(t) ==
  /\ phase[t] = "running"
  /\ failures' = [failures EXCEPT ![t] = @ + 1]
  /\ \/ /\ failures[t] + 1 < Attempts
        /\ \E w \in Worker : FreeFor(t, w) /\ Move(t, "running", w)
     \/ /\ failures[t] + 1 = Attempts
        /\ Move(t, "failed", NoHolder)

Next ==
  \E t \in Task : Accept(t) \/ Begin(t) \/ LoseWorker(t) \/ Succeed(t) \/ FailAttempt(t)

Spec == Init /\ [][Next]_leaseVars
=============================================================================
