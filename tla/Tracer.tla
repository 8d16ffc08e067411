------------------------------- MODULE Tracer -------------------------------
(***************************************************************************)
(* The traces that runs of the orchestrator leave behind (core/tracer.py). *)
(* Every run has an orchestrator of its own, and with it a tracer that     *)
(* counts from one: the file is named after the second in which the run    *)
(* began.  Runs are threads or processes of their own; TaskRun has what    *)
(* they do, here is what they note of it.                                  *)
(***************************************************************************)
EXTENDS Naturals, Sequences, FiniteSets

CONSTANTS
  Tracked,        \* runs
  PatchRounds,    \* Orchestrator(max_retries)
  NoTrace, TornTrace,
  LastSecond,     \* bound
  MaxSaveErrors   \* bound: files that cannot be opened or written

RootStatuses == {"pending", "running", "ok", "failed", "error"}
SpanNames    == {"planner", "critic.validate", "coder.execute", "critic.verify",
                 "critic.patch", "coder.reexecute", "critic.reverify"}
SpanSet      == [name : SpanNames, status : {"running", "ok"}]
Traces       == [run : Tracked, status : RootStatuses, spans : Seq(SpanSet)]

ASSUME TracerAssumption ==
  /\ PatchRounds \in Nat /\ LastSecond \in Nat /\ MaxSaveErrors \in Nat
  /\ NoTrace \notin Traces /\ TornTrace \notin Traces

VARIABLES
  tracing,     \* of each run: new, working, opening, dumping or returned
  began,       \* the second of its trace
  spans,       \* the spans of its trace
  rootStatus,  \* and the status of the root
  runResult,   \* "status" of what run() returns, or raised
  traceFiles,  \* by second
  dumpedOver,  \* another run dumped into the file since this one opened it
  second, saveErrors

traceVars == <<tracing, began, spans, rootStatus, runResult, traceFiles, dumpedOver, second, saveErrors>>

TracerInit ==
  /\ tracing = [r \in Tracked |-> "new"] /\ began = [r \in Tracked |-> 0]
  /\ spans = [r \in Tracked |-> <<>>] /\ rootStatus = [r \in Tracked |-> "pending"]
  /\ runResult = [r \in Tracked |-> "none"]
  /\ traceFiles = [s \in 0..LastSecond |-> NoTrace]
  /\ dumpedOver = [r \in Tracked |-> FALSE]
  /\ second = 0 /\ saveErrors = 0

-----------------------------------------------------------------------------
FirstSpans == <<"planner", "critic.validate", "coder.execute", "critic.verify">>
PatchSpans == <<"critic.patch", "coder.reexecute", "critic.reverify">>

SpanName(n) == IF n <= 4 THEN FirstSpans[n] ELSE PatchSpans[((n - 5) % 3) + 1]

OpenSpan(r)  == \E i \in DOMAIN spans[r] : spans[r][i].status = "running"
Verified(r)  == ~OpenSpan(r) /\ Len(spans[r]) >= 4 /\ (Len(spans[r]) - 4) % 3 = 0
Exhausted(r) == Len(spans[r]) >= 4 + 3 * PatchRounds

(* Slip: the second is not part of the name. *)
NameByCounter(r) == 0

(* The task id, which names the file. *)
TraceName(r) == began[r]

(* to_dict: durations are kept, times are not. *)
Saved(r) == [run |-> r, status |-> rootStatus[r], spans |-> spans[r]]

-----------------------------------------------------------------------------
(* Tracer.start. *)
StartTrace(r) ==
  /\ tracing[r] = "new" /\ tracing' = [tracing EXCEPT ![r] = "working"]
  /\ began' = [began EXCEPT ![r] = second]
  /\ rootStatus' = [rootStatus EXCEPT ![r] = "running"]
  /\ UNCHANGED <<spans, runResult, traceFiles, dumpedOver, second, saveErrors>>

(* trace.span and span.start, before the agent is asked; a round of        *)
(* patching, when verification has failed and retries are left.            *)
StartSpan(r) ==
  /\ tracing[r] = "working" /\ ~OpenSpan(r)
  /\ Verified(r) => ~Exhausted(r)
  /\ spans' = [spans EXCEPT ![r] =
       Append(@, [name |-> SpanName(Len(@) + 1), status |-> "running"])]
  /\ UNCHANGED <<tracing, began, rootStatus, runResult, traceFiles, dumpedOver, second, saveErrors>>

(* span.finish, when the agent has returned. *)
FinishSpan(r) ==
  /\ tracing[r] = "working" /\ OpenSpan(r)
  /\ spans' = [spans EXCEPT ![r][Len(spans[r])].status = "ok"]
  /\ UNCHANGED <<tracing, began, rootStatus, runResult, traceFiles, dumpedOver, second, saveErrors>>

(* Tracer.finish: the root is finished, and the trace is to be saved. *)
FinishTrace(r, status, result) ==
  /\ tracing' = [tracing EXCEPT ![r] = "opening"]
  /\ rootStatus' = [rootStatus EXCEPT ![r] = status]
  /\ runResult' = [runResult EXCEPT ![r] = result]

(* The run is done, gives up after its retries, or raises anywhere: then   *)
(* the span it was in stays open.                                          *)
EndRun(r) ==
  /\ tracing[r] = "working"
  /\ \/ Verified(r) /\ FinishTrace(r, "ok", "completed")
     \/ Verified(r) /\ Exhausted(r) /\ FinishTrace(r, "failed", "failed")
     \/ FinishTrace(r, "error", "error")
  /\ UNCHANGED <<began, spans, traceFiles, dumpedOver, second, saveErrors>>

(* Trace.save: open(path, "w") empties the file ... *)
OpenTrace(r) ==
  /\ tracing[r] = "opening" /\ tracing' = [tracing EXCEPT ![r] = "dumping"]
  /\ traceFiles' = [traceFiles EXCEPT ![TraceName(r)] = TornTrace]
  /\ dumpedOver' = [dumpedOver EXCEPT ![r] = FALSE]
  /\ UNCHANGED <<began, spans, rootStatus, runResult, second, saveErrors>>

(* ... and the close of it writes.  Over what another run has dumped       *)
(* meanwhile, the longer text shows at the end.                            *)
DumpTrace(r) ==
  /\ tracing[r] = "dumping" /\ tracing' = [tracing EXCEPT ![r] = "returned"]
  /\ \E content \in {Saved(r)} \union (IF dumpedOver[r] THEN {TornTrace} ELSE {}) :
       traceFiles' = [traceFiles EXCEPT ![TraceName(r)] = content]
  /\ dumpedOver' = [q \in Tracked |-> dumpedOver[q] \/ (q # r /\ TraceName(q) = TraceName(r))]
  /\ UNCHANGED <<began, spans, rootStatus, runResult, second, saveErrors>>

(* The file cannot be written.  The trace is still the active one, and the *)
(* last except clause of run() finishes it once more, as an error; a       *)
(* second failure leaves run() with an exception.                          *)
SaveFails(r) ==
  /\ tracing[r] \in {"opening", "dumping"}
  /\ saveErrors < MaxSaveErrors /\ saveErrors' = saveErrors + 1
  /\ IF rootStatus[r] # "error"
     THEN FinishTrace(r, "error", "error")
     ELSE /\ tracing' = [tracing EXCEPT ![r] = "returned"]
          /\ runResult' = [runResult EXCEPT ![r] = "raised"]
          /\ UNCHANGED rootStatus
  /\ UNCHANGED <<began, spans, traceFiles, dumpedOver, second>>

NextSecond ==
  /\ second < LastSecond /\ second' = second + 1
  /\ UNCHANGED <<tracing, began, spans, rootStatus, runResult, traceFiles, dumpedOver, saveErrors>>

TracerNext ==
  \/ \E r \in Tracked :
       StartTrace(r) \/ StartSpan(r) \/ FinishSpan(r) \/ EndRun(r)
         \/ OpenTrace(r) \/ DumpTrace(r) \/ SaveFails(r)
  \/ NextSecond

TracerSpec == TracerInit /\ [][TracerNext]_traceVars

-----------------------------------------------------------------------------
(* list_traces and load: what is no JSON is not listed, and a trace that   *)
(* is loaded has the statuses that were saved.                             *)
Listed == {s \in DOMAIN traceFiles : traceFiles[s] \notin {NoTrace, TornTrace}}

Alone(r) == \A q \in Tracked \ {r} : tracing[q] = "new" \/ began[q] # began[r]

(* A run that returned has its trace on disk, unless another one began in  *)
(* the same second, and it tells how the run ended: "ok" if and only if it *)
(* is reported as completed, though the disk may have failed on the way.   *)
TraceTellsTheOutcome ==
  \A r \in Tracked :
    tracing[r] = "returned" /\ Alone(r) /\ runResult[r] # "raised" =>
      /\ began[r] \in Listed /\ traceFiles[began[r]].run = r
      /\ (traceFiles[began[r]].status = "ok") = (runResult[r] = "completed")

(* A trace that is listed is the whole trace of one run, never a mixture   *)
(* or one that goes on; and a span that is open in it, the last, is where  *)
(* the run was when it raised.                                             *)
ListedTracesAreWhole ==
  \A s \in Listed :
    LET trace == traceFiles[s]
        open  == {i \in DOMAIN trace.spans : trace.spans[i].status = "running"}
    IN  /\ tracing[trace.run] = "returned" /\ trace = Saved(trace.run)
        /\ open # {} => open = {Len(trace.spans)} /\ trace.status = "error"

TracesAreSound == TraceTellsTheOutcome /\ ListedTracesAreWhole
=============================================================================
