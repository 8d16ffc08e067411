---------------------------- MODULE EventTriggers ----------------------------
(***************************************************************************)
(* The event bus and its log (core/event_bus.py, core/event_store.py) with *)
(* the scheduler's event triggers (core/scheduler.py), the one wildcard    *)
(* subscriber that acts: it submits a job, which is announced by events of *)
(* its own inside the delivery of the event that fired it.                 *)
(*                                                                         *)
(* emit runs in the caller's thread without a lock.  Every thread is a     *)
(* stack of emits in progress, its top the innermost one.  The process may *)
(* crash: the log file survives, everything else is lost.  The history in   *)
(* memory, which only the API reads, is left out.                          *)
(***************************************************************************)
EXTENDS Naturals, Sequences, FiniteSets, SequencesExt

CONSTANTS
  Threads,
  Triggers,       \* registered triggers
  TriggersOn,     \* _event_triggers: by type of event, in the order of registration
  Outside,        \* types of the events that other components emit
  Throttle,       \* the ten seconds of _on_event
  MaxEmits,       \* bound: emits of other components
  MaxCrashes,     \* bound
  BusMaxTime      \* bound: seconds

ASSUME BusAssumption ==
  /\ \A type \in DOMAIN TriggersOn : TriggersOn[type] \in Seq(Triggers)
  /\ Throttle \in Nat \ {0}
  /\ MaxEmits \in Nat /\ MaxCrashes \in Nat /\ BusMaxTime \in Nat

VARIABLES
  log,         \* the events in the log file
  seqNo,       \* _seq
  stack,       \* emits in progress per thread, the innermost last
  lastFired,   \* last_triggered; NeverFired before the first time
  busTime, nextId, emits, crashes

busVars == <<log, seqNo, stack, lastFired, busTime, nextId, emits, crashes>>

BusInit ==
  /\ log = {}
  /\ seqNo = 0
  /\ stack = [t \in Threads |-> <<>>]
  /\ lastFired = [g \in Triggers |-> 0]
  /\ busTime = Throttle /\ nextId = 1 /\ emits = 0 /\ crashes = 0

(* An emit: the event, where it has got to, the triggers it has yet to     *)
(* look at, and, while one of them fires, since when.                      *)
Emit(type) ==
  [id |-> nextId, phase |-> "count", seq |-> 0,
   todo |-> IF type \in DOMAIN TriggersOn THEN TriggersOn[type] ELSE <<>>, since |-> 0]

Top(t)       == Last(stack[t])
Busy(t)      == stack[t] # <<>>
SetTop(t, f) == stack' = [stack EXCEPT ![t] = Append(Front(@), f)]
Call(t, f, type) ==
  /\ stack' = [stack EXCEPT ![t] = Front(@) \o <<f, Emit(type)>>]
  /\ nextId' = nextId + 1

-----------------------------------------------------------------------------
(* bus.emit, called by another component. *)
EmitOutside(t) ==
  /\ ~Busy(t) /\ emits < MaxEmits
  /\ \E type \in Outside : stack' = [stack EXCEPT ![t] = <<Emit(type)>>]
  /\ nextId' = nextId + 1 /\ emits' = emits + 1
  /\ UNCHANGED <<log, seqNo, lastFired, busTime, crashes>>

(* The parts of emit, in their order; "check" is the loop of _on_event.    *)
NextPhase == [count |-> "number", number |-> "write", write |-> "check"]

(* EventStore.write_event: the counter goes up, it is read, and then the   *)
(* line is written; another thread may count in between.                   *)
CountEvent(t) ==
  /\ Busy(t) /\ Top(t).phase = "count"
  /\ seqNo' = seqNo + 1
  /\ SetTop(t, [Top(t) EXCEPT !.phase = NextPhase.count])
  /\ UNCHANGED <<log, lastFired, busTime, nextId, emits, crashes>>

Number(t) ==
  /\ Busy(t) /\ Top(t).phase = "number"
  /\ SetTop(t, [Top(t) EXCEPT !.phase = NextPhase.number, !.seq = seqNo])
  /\ UNCHANGED <<log, seqNo, lastFired, busTime, nextId, emits, crashes>>

Write(t) ==
  /\ Busy(t) /\ Top(t).phase = "write"
  /\ log' = log \cup {Top(t).id}
  /\ SetTop(t, [Top(t) EXCEPT !.phase = NextPhase.write])
  /\ UNCHANGED <<seqNo, lastFired, busTime, nextId, emits, crashes>>

-----------------------------------------------------------------------------
(* Slip: the time is noted when the job has been submitted. *)
NotYetFired(g) == lastFired

FiredNow(g) == [lastFired EXCEPT ![g] = busTime]

(* _on_event for one trigger: throttled, or it is to fire.                 *)
CheckTrigger(t) ==
  /\ Busy(t) /\ Top(t).phase = "check" /\ Top(t).todo # <<>>
  /\ IF busTime - lastFired[Head(Top(t).todo)] < Throttle
     THEN SetTop(t, [Top(t) EXCEPT !.todo = Tail(@)])
     ELSE SetTop(t, [Top(t) EXCEPT !.phase = "fire"])
  /\ UNCHANGED <<log, seqNo, lastFired, busTime, nextId, emits, crashes>>

(* It fires: queue.submit announces the job. *)
FireTrigger(t) ==
  /\ Busy(t) /\ Top(t).phase = "fire"
  /\ lastFired' = FiredNow(Head(Top(t).todo))
  /\ Call(t, [Top(t) EXCEPT !.phase = "announce", !.since = busTime], "job.queued")
  /\ UNCHANGED <<log, seqNo, busTime, emits, crashes>>

(* When that emit is over, so does the scheduler. *)
Announce(t) ==
  /\ Busy(t) /\ Top(t).phase = "announce"
  /\ Call(t, [Top(t) EXCEPT !.phase = "check", !.todo = Tail(@)], "job.event_triggered")
  /\ UNCHANGED <<log, seqNo, lastFired, busTime, emits, crashes>>

(* The emit returns to its caller. *)
Return(t) ==
  /\ Busy(t) /\ Top(t).phase = "check" /\ Top(t).todo = <<>>
  /\ stack' = [stack EXCEPT ![t] = Front(@)]
  /\ UNCHANGED <<log, seqNo, lastFired, busTime, nextId, emits, crashes>>

BusTick ==
  /\ busTime < BusMaxTime
  /\ busTime' = busTime + 1
  /\ UNCHANGED <<log, seqNo, stack, lastFired, nextId, emits, crashes>>

(* A new process: the triggers are registered again by whoever did it.     *)
BusCrash ==
  /\ crashes < MaxCrashes
  /\ crashes' = crashes + 1
  /\ seqNo' = 0
  /\ stack' = [t \in Threads |-> <<>>]
  /\ lastFired' = [g \in Triggers |-> 0]
  /\ UNCHANGED <<log, busTime, nextId, emits>>

EmitStep(t) ==
  CountEvent(t) \/ Number(t) \/ Write(t) \/ CheckTrigger(t) \/ FireTrigger(t) \/ Announce(t) \/ Return(t)

BusNext ==
  \/ \E t \in Threads : EmitOutside(t) \/ EmitStep(t)
  \/ BusTick \/ BusCrash

BusSpec == BusInit /\ [][BusNext]_busVars

-----------------------------------------------------------------------------
(* A trigger whose own job fires it again does so only when the throttle   *)
(* has run out: within one thread, two firings of a trigger that are both  *)
(* in progress are Throttle seconds apart.  So a trigger on job.queued,    *)
(* which every firing emits, cannot run away.                              *)
NoTriggerStorm ==
  \A t \in Threads : \A i, k \in DOMAIN stack[t] :
    /\ i < k
    /\ stack[t][i].phase = "announce" /\ stack[t][k].phase = "announce"
    /\ Head(stack[t][i].todo) = Head(stack[t][k].todo)
    => stack[t][k].since - stack[t][i].since >= Throttle

(* The log explains every job a trigger submitted: when anything is        *)
(* emitted inside the delivery of an event, that event is in the log, and  *)
(* it has the smaller number.  No more can be said of the numbers: threads *)
(* may read the same one, and a new process starts from 0.                 *)
CauseBeforeEffect ==
  \A t \in Threads : \A i \in 1..(Len(stack[t]) - 1) :
    /\ stack[t][i].id \in log
    /\ stack[t][i + 1].seq # 0 => stack[t][i].seq < stack[t][i + 1].seq

(* The bus does not run away and does not lose its past.                   *)
BusIsSound == NoTriggerStorm /\ CauseBeforeEffect
=============================================================================
