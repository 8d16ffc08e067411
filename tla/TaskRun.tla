------------------------------- MODULE TaskRun -------------------------------
(***************************************************************************)
(* One task: Orchestrator.run (core/orchestrator.py) with its StateMachine *)
(* (core/state_machine.py), the planner, the critic and the coder          *)
(* (agents/), and the two TransactionManagers they use: the orchestrator   *)
(* begins, commits and rolls back its own, the coder snapshots into the    *)
(* global one (core/transactions.py:275), and both are about the same      *)
(* files.                                                                  *)
(*                                                                         *)
(* A model reply is any reply: what the planner, critic and coder make of  *)
(* it is chosen freely.  What they do with unusable replies is the code's. *)
(***************************************************************************)
EXTENDS Naturals, Sequences

CONSTANTS
  Files, Texts, Blob, Mangled, Absent, NoSnapshot, Unreadable, Initially,
               \* the workspace: see Transactions
  MaxRetries,  \* Orchestrator(max_retries)
  MaxSteps     \* bound: tool calls per execution of the coder

ASSUME RetriesAssumption == MaxRetries \in Nat /\ MaxSteps \in Nat
ASSUME WorkspaceAssumption ==
  LET contents == Texts \cup {Blob, Mangled, Absent} IN
  /\ Initially \subseteq contents
  /\ NoSnapshot \notin contents /\ Unreadable \notin contents
  /\ NoSnapshot # Unreadable
  /\ Absent \notin Texts \cup {Blob, Mangled}

VARIABLES
  files,                \* the workspace
  ownTxs, ownActive,    \* Orchestrator.tx
  sharedTxs, sharedActive,  \* the global tx_manager
  state,       \* StateMachine.state
  patches,     \* StateMachine.patch_count
  at,          \* where run() is
  verdict,     \* "valid" of the last validate_plan
  ok,          \* "ok" of the last check_result
  done,        \* results of the execution in progress: one outcome per tool call
  refused,     \* tool calls the guard refused in this execution
  reported,    \* len(blocked) as the result of the execution reports it
  outcome,     \* "status" of the returned result, or "none"
  executions   \* calls of coder.run (history)

fileVars == <<files, sharedTxs, sharedActive>>
txVars   == <<ownTxs, ownActive>>
smVars   == <<state, patches>>
workVars == <<done, refused, reported>>
vars == <<fileVars, txVars, smVars, at, verdict, ok, workVars, outcome, executions>>

Own == INSTANCE Transactions WITH
         txs <- ownTxs, active <- ownActive, Lockable <- {}, MaxTx <- 1, UndoWhile <- FALSE
Shared == INSTANCE Transactions WITH
         txs <- sharedTxs, active <- sharedActive, Lockable <- {}, MaxTx <- 1, UndoWhile <- FALSE

-----------------------------------------------------------------------------
(* State and VALID_TRANSITIONS. *)
States == {"init", "plan", "validate", "execute", "verify", "patch", "done"}
ValidTransitions ==
  [init |-> {"plan"}, plan |-> {"validate"}, validate |-> {"execute", "plan"},
   execute |-> {"verify"}, verify |-> {"patch", "done"}, patch |-> {"execute"}, done |-> {}]

(* Slip: every move is counted. *)
CountAll(to) == patches + 1

(* StateMachine.transition: a patch is counted before the bound is tested, *)
(* and the state stays where it was when the call raises.                  *)
Count(to) == IF to = "patch" THEN patches + 1 ELSE patches

(* Slip: the bound is not tested. *)
LegalAlways(to) == to \in ValidTransitions[state]

Legal(to) == to \in ValidTransitions[state] /\ (to = "patch" => Count(to) <= MaxRetries)

Move(to)  == Legal(to) /\ state' = to /\ patches' = Count(to)

Init ==
  /\ Own!Init /\ Shared!Init
  /\ state = "init" /\ patches = 0
  /\ at = "idle"
  /\ verdict = TRUE /\ ok = TRUE
  /\ done = <<>> /\ refused = 0 /\ reported = 0
  /\ outcome = "none"
  /\ executions = 0

-----------------------------------------------------------------------------
(* self.sm.reset(); self.tx.begin(); the move to PLAN. *)
Start ==
  /\ at = "idle"
  /\ Own!Begin
  /\ Move("plan")
  /\ at' = "planning"
  /\ UNCHANGED <<sharedTxs, sharedActive, verdict, ok, workVars, outcome, executions>>

(* planner.run returns a plan; the move to VALIDATE. *)
Plan ==
  /\ at \in {"planning", "replanning"}
  /\ Move("validate")
  /\ at' = IF at = "planning" THEN "validating" ELSE "revalidating"
  /\ UNCHANGED <<fileVars, txVars, verdict, ok, workVars, outcome, executions>>

(* The move to EXECUTE and the call of coder.run. *)
BeginExecution ==
  /\ Move("execute")
  /\ at' = "executing"
  /\ executions' = executions + 1
  /\ done' = <<>> /\ refused' = 0
  /\ UNCHANGED reported

(* critic.validate_plan: the structural checks, then the model's verdict,  *)
(* TRUE when the reply cannot be parsed.  A rejected plan is planned again.*)
Validate ==
  /\ at = "validating"
  /\ \/ verdict' = TRUE /\ BeginExecution
     \/ /\ verdict' = FALSE
        /\ Move("plan")
        /\ at' = "replanning"
        /\ UNCHANGED <<workVars, executions>>
  /\ UNCHANGED <<fileVars, txVars, ok, outcome>>

(* The second verdict is recorded and not looked at. *)
Revalidate ==
  /\ at = "revalidating"
  /\ \E v \in BOOLEAN : verdict' = v
  /\ BeginExecution
  /\ UNCHANGED <<fileVars, txVars, ok, outcome>>

-----------------------------------------------------------------------------
(* coder.run: the tool calls of the plan or of the coder model's reply.    *)

(* A write or patch, snapshotted into the global manager's transaction if  *)
(* it has an active one, and reported by the tool as done or as an error;  *)
(* open(path, "w") has emptied the file when the write that follows fails. *)
(* A command that the run tool executes changes files in the same way, as  *)
(* nothing begins a transaction in the global manager.                     *)
Mutate(f) ==
  /\ at = "executing"
  /\ Len(done) < MaxSteps
  /\ Shared!Edit(f)
  /\ \E r \in {"ok", "error"} : done' = Append(done, r)
  /\ UNCHANGED <<txVars, smVars, at, verdict, ok, refused, reported, outcome, executions>>

(* A tool that changes no file. *)
Look ==
  /\ at = "executing"
  /\ Len(done) < MaxSteps
  /\ \E r \in {"ok", "error"} : done' = Append(done, r)
  /\ UNCHANGED <<fileVars, txVars, smVars, at, verdict, ok, refused, reported, outcome, executions>>

(* guard.validate_batch drops a step, before any of them is executed. *)
Refuse ==
  /\ at = "executing"
  /\ done = <<>> /\ refused < MaxSteps
  /\ refused' = refused + 1
  /\ UNCHANGED <<fileVars, txVars, smVars, at, verdict, ok, done, reported, outcome, executions>>

(* The result of coder.run: blocked is the guard's own list, which         *)
(* clear_violations() has emptied; then the move to VERIFY.                *)
FinishExecution ==
  /\ at = "executing"
  /\ reported' = 0
  /\ Move("verify")
  /\ at' = "verifying"
  /\ UNCHANGED <<fileVars, txVars, verdict, ok, done, refused, outcome, executions>>

-----------------------------------------------------------------------------
(* critic.check_result: a tool error or an empty execution fails without   *)
(* the model; otherwise the model says, or TRUE when it cannot be parsed.  *)
QuickChecks == done # <<>> /\ \A i \in 1..Len(done) : done[i] # "error"

(* Slip: the model alone decides. *)
VerifyByModel ==
  /\ at = "verifying"
  /\ ok' \in BOOLEAN
  /\ at' = "deciding"
  /\ UNCHANGED <<fileVars, txVars, smVars, verdict, workVars, outcome, executions>>

Verify ==
  /\ at = "verifying"
  /\ ok' \in (IF QuickChecks THEN BOOLEAN ELSE {FALSE})
  /\ at' = "deciding"
  /\ UNCHANGED <<fileVars, txVars, smVars, verdict, workVars, outcome, executions>>

(* The patch loop: PATCH, critic.suggest_fix, EXECUTE, coder.run.  The fix *)
(* plan names its steps "fix_steps", so coder.run asks the model for them. *)
Patch ==
  /\ at = "deciding" /\ ~ok
  /\ Move("patch")
  /\ at' = "patching"
  /\ UNCHANGED <<fileVars, txVars, verdict, ok, workVars, outcome, executions>>

Reexecute ==
  /\ at = "patching"
  /\ BeginExecution
  /\ UNCHANGED <<fileVars, txVars, verdict, ok, outcome>>

(* Slip: the refused PATCH is swallowed. *)
ExhaustedSwallowed ==
  /\ at = "deciding" /\ ~ok
  /\ ~Legal("patch")
  /\ UNCHANGED vars

(* The except clause of the loop: PATCH was refused. *)
Exhausted ==
  /\ at = "deciding" /\ ~ok
  /\ ~Legal("patch")
  /\ patches' = Count("patch")
  /\ Own!RollbackActive
  /\ outcome' = "failed"
  /\ at' = "returned"
  /\ UNCHANGED <<sharedTxs, sharedActive, state, verdict, ok, workVars, executions>>

(* tx.commit(), the move to DONE, the result. *)
Complete ==
  /\ at = "deciding" /\ ok
  /\ Own!Commit(ownActive)
  /\ Move("done")
  /\ outcome' = "completed"
  /\ at' = "returned"
  /\ UNCHANGED <<sharedTxs, sharedActive, verdict, ok, workVars, executions>>

(* Slip: the error path does not roll back. *)
RaiseOnly ==
  /\ at \in {"planning", "replanning", "validating", "revalidating", "executing", "verifying",
             "patching"}
  /\ outcome' = "error"
  /\ at' = "returned"
  /\ UNCHANGED <<fileVars, txVars, smVars, verdict, ok, workVars, executions>>

(* A model call or a tool raises: the last except clause of run(). *)
Raise ==
  /\ at \in {"planning", "replanning", "validating", "revalidating", "executing", "verifying",
             "patching"}
  /\ Own!RollbackActive
  /\ outcome' = "error"
  /\ at' = "returned"
  /\ UNCHANGED <<sharedTxs, sharedActive, smVars, verdict, ok, workVars, executions>>

Step ==
  \/ Plan \/ Validate \/ Revalidate \/ FinishExecution
  \/ Verify \/ Patch \/ Reexecute \/ Exhausted \/ Complete \/ Raise

Next == Start \/ Step \/ (\E f \in Files : Mutate(f)) \/ Look \/ Refuse

Spec == Init /\ [][Next]_vars

(* Every model call and tool call returns or raises: calls carry timeouts. *)
(* Next is finite between two of run()'s own steps by MaxSteps.            *)
FairSpec == Spec /\ WF_vars(Next)

-----------------------------------------------------------------------------
(* The shape of every variable. *)
TypeOK ==
  /\ Own!TypeOK /\ Shared!TypeOK
  /\ state \in States
  /\ patches \in 0..(MaxRetries + 1)
  /\ at \in {"idle", "planning", "replanning", "validating", "revalidating", "executing",
             "verifying", "deciding", "patching", "returned"}
  /\ verdict \in BOOLEAN /\ ok \in BOOLEAN
  /\ done \in Seq({"ok", "error"}) /\ refused \in 0..MaxSteps /\ reported \in 0..MaxSteps
  /\ outcome \in {"none", "completed", "failed", "error"}
  /\ executions \in Nat

(* state_machine.py:5: "Recovery loops (PATCH → EXECUTE) are bounded by    *)
(* max_retries": the coder runs once and once more for each patch.         *)
ExecutionsBounded == executions <= MaxRetries + 1

(* A task that reports success was verified on its last execution: that    *)
(* execution made at least one tool call, none of them failed, and its     *)
(* transaction is committed.                                               *)
CompletedIsVerified ==
  outcome = "completed" =>
    /\ ok /\ QuickChecks
    /\ state = "done"
    /\ ownTxs[1].committed

(* A task that reports failure has rolled its own transaction back.        *)
FailedIsRolledBack ==
  outcome \in {"failed", "error"} =>
    ownActive = 0 /\ ownTxs[1].rolledBack /\ ~ownTxs[1].committed

(* run() always returns, however often the critic rejects. *)
AlwaysReturns == at # "idle" ~> at = "returned"

(* transactions.py:15: "the workspace always returns to a known-good state *)
(* on failure".                                                            *)
FailureRestores == outcome \in {"failed", "error"} => files = ownTxs[1].base

(* critic.py:58: "The critic is the FINAL AUTHORITY": no execution of a    *)
(* plan that the critic rejected last.                                     *)
CriticIsFinal == at = "executing" /\ executions = 1 => verdict

(* coder.py:137: the summary counts what was "blocked by guard": the       *)
(* result reports the steps the guard refused.                             *)
BlockedReported == at = "verifying" => reported = refused
===============================================================================
