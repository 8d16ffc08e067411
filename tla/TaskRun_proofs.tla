---------------------------- MODULE TaskRun_proofs ----------------------------
(***************************************************************************)
(* Proofs about TaskRun: the bound on executions, what a completed task    *)
(* guarantees, and that a failed task has rolled its transaction back.     *)
(***************************************************************************)
EXTENDS TaskRun, TLAPS

Before  == {"planning", "replanning", "validating", "revalidating"}
Running == {"executing", "verifying", "deciding"}
Inside  == Before \cup Running \cup {"patching"}

(* Inductive: each execution is paid for by a patch, but the first.        *)
Paid ==
  /\ patches \in Nat /\ executions \in Nat
  /\ at \in Inside \cup {"idle", "returned"}
  /\ at \in Before \cup {"idle"} => executions = 0 /\ patches = 0
  /\ at \in Running => executions = patches + 1 /\ patches <= MaxRetries
  /\ at = "patching" => executions = patches /\ patches <= MaxRetries
  /\ at = "returned" => executions <= MaxRetries + 1

LEMMA PaidInit == Init => Paid
  BY DEF Init, Paid, Before, Running, Inside

LEMMA MoveEffect ==
  ASSUME NEW to, Move(to), patches \in Nat
  PROVE  /\ to # "patch" => patches' = patches
         /\ to = "patch" => patches' = patches + 1 /\ patches + 1 <= MaxRetries
         /\ state' = to
  BY DEF Move, Legal, Count

LEMMA PaidStep == Paid /\ [Next]_vars => Paid'
<1> SUFFICES ASSUME Paid, [Next]_vars PROVE Paid'
  OBVIOUS
<1> USE RetriesAssumption
<1>0. patches \in Nat /\ executions \in Nat
  BY DEF Paid
<1>1. CASE Start
  <2>1. Move("plan") /\ at' = "planning" /\ executions' = executions /\ at = "idle"
    BY <1>1 DEF Start
  <2>2. QED
    BY <1>0, <2>1, MoveEffect DEF Paid, Before, Running, Inside
<1>2. CASE Plan
  <2>1. /\ Move("validate") /\ executions' = executions
        /\ at \in Before /\ at' \in Before
    BY <1>2 DEF Plan, Before
  <2>2. QED
    BY <1>0, <2>1, MoveEffect DEF Paid, Before, Running, Inside
<1>3. ASSUME BeginExecution, at \in {"validating", "revalidating", "patching"} PROVE Paid'
  <2>1. Move("execute") /\ at' = "executing" /\ executions' = executions + 1
    BY <1>3 DEF BeginExecution
  <2>2. QED
    BY <1>0, <1>3, <2>1, MoveEffect DEF Paid, Before, Running, Inside
<1>4. CASE Validate
  <2>1. CASE BeginExecution
    BY <1>3, <1>4, <2>1 DEF Validate
  <2>2. CASE ~BeginExecution
    <3>1. Move("plan") /\ executions' = executions /\ at \in Before /\ at' \in Before
      BY <1>4, <2>2 DEF Validate, Before
    <3>2. QED
      BY <1>0, <3>1, MoveEffect DEF Paid, Before, Running, Inside
  <2>3. QED
    BY <2>1, <2>2
<1>5. CASE Revalidate
  BY <1>3, <1>5 DEF Revalidate
<1>6. CASE FinishExecution
  <2>1. /\ Move("verify") /\ executions' = executions
        /\ at = "executing" /\ at' = "verifying"
    BY <1>6 DEF FinishExecution
  <2>2. QED
    BY <1>0, <2>1, MoveEffect DEF Paid, Before, Running, Inside
<1>7. CASE Verify
  BY <1>0, <1>7 DEF Verify, smVars, Paid, Before, Running, Inside
<1>8. CASE Patch
  <2>1. /\ Move("patch") /\ executions' = executions
        /\ at = "deciding" /\ at' = "patching"
    BY <1>8 DEF Patch
  <2>2. QED
    BY <1>0, <2>1, MoveEffect DEF Paid, Before, Running, Inside
<1>9. CASE Reexecute
  BY <1>3, <1>9 DEF Reexecute
<1>10. CASE Exhausted
  BY <1>0, <1>10 DEF Exhausted, Count, Paid, Before, Running, Inside
<1>11. CASE Complete
  <2>1. /\ Move("done") /\ executions' = executions
        /\ at = "deciding" /\ at' = "returned"
    BY <1>11 DEF Complete
  <2>2. QED
    BY <1>0, <2>1, MoveEffect DEF Paid, Before, Running, Inside
<1>12. CASE Raise
  BY <1>0, <1>12 DEF Raise, smVars, Paid, Before, Running, Inside
<1>13. ASSUME UNCHANGED <<smVars, at, executions>> PROVE Paid'
  BY <1>0, <1>13 DEF smVars, Paid, Before, Running, Inside
<1>14. ASSUME NEW f \in Files, Mutate(f) PROVE Paid'
  BY <1>13, <1>14 DEF Mutate
<1>15. CASE Look
  BY <1>13, <1>15 DEF Look
<1>16. CASE Refuse
  BY <1>13, <1>16 DEF Refuse
<1>17. CASE UNCHANGED vars
  BY <1>13, <1>17 DEF vars
<1>18. QED
  BY <1>1, <1>2, <1>4, <1>5, <1>6, <1>7, <1>8, <1>9, <1>10, <1>11, <1>12, <1>14, <1>15,
     <1>16, <1>17 DEF Next, Step

(* The recovery loop is bounded for every MaxRetries: the coder runs once  *)
(* and at most once more for each retry, whatever the models reply.        *)
THEOREM RecoveryIsBounded == Spec => []ExecutionsBounded
<1>1. Paid => ExecutionsBounded
  BY RetriesAssumption DEF Paid, ExecutionsBounded, Before, Running, Inside
<1>2. QED
  BY <1>1, PaidInit, PaidStep, PTL DEF Spec

-----------------------------------------------------------------------------
(* Inductive: the run's own transaction is open from Start until run()     *)
(* returns, and holds no snapshot; the verdict before a commit is the last *)
(* execution's; and what the returned outcome says.                        *)
Fresh(base) ==
  [snap |-> [f \in Files |-> NoSnapshot], committed |-> FALSE, rolledBack |-> FALSE,
   base |-> base]

Verdict ==
  /\ at = "idle" => ownTxs = <<>> /\ outcome = "none"
  /\ at \in Inside => ownActive = 1 /\ outcome = "none" /\ \E base : ownTxs = <<Fresh(base)>>
  /\ at = "deciding" /\ ok => QuickChecks
  /\ at \in Inside \cup {"idle", "returned"}
  /\ at = "returned" =>
       /\ outcome \in {"completed", "failed", "error"}
       /\ CompletedIsVerified
       /\ FailedIsRolledBack

LEMMA VerdictInit == Init => Verdict
  BY DEF Init, Own!Init, Verdict, Before, Running, Inside

(* The step returns with the transaction rolled back. *)
LEMMA RolledBack ==
  ASSUME Verdict, at \in Inside, Own!RollbackActive, at' = "returned",
         outcome' \in {"failed", "error"}
  PROVE  Verdict'
<1>1. PICK base : ownTxs = <<Fresh(base)>> /\ ownActive = 1
  BY DEF Verdict
<1>2. ~ownTxs[1].committed
  BY <1>1 DEF Fresh
<1>3. ownTxs' = [ownTxs EXCEPT ![1].committed = FALSE, ![1].rolledBack = TRUE] /\ ownActive' = 0
  BY <1>1, <1>2 DEF Own!RollbackActive, Own!Rollback
<1>4. ownTxs'[1] = [Fresh(base) EXCEPT !.committed = FALSE, !.rolledBack = TRUE]
  BY <1>1, <1>3
<1>5. ownTxs'[1].rolledBack /\ ~ownTxs'[1].committed
  BY <1>4 DEF Fresh
<1>6. QED
  BY <1>3, <1>5 DEF Verdict, CompletedIsVerified, FailedIsRolledBack, Before, Running, Inside

(* The step leaves the transaction open and the outcome unset. *)
LEMMA StaysInside ==
  ASSUME Verdict, at \in Inside, at' \in Inside, UNCHANGED <<txVars, outcome>>,
         at' = "deciding" /\ ok' => QuickChecks'
  PROVE  Verdict'
  BY DEF Verdict, txVars, Before, Running, Inside

LEMMA VerdictStep == Verdict /\ [Next]_vars => Verdict'
<1> SUFFICES ASSUME Verdict, [Next]_vars PROVE Verdict'
  OBVIOUS
<1>1. CASE Start
  <2>1. ownTxs = <<>> /\ outcome = "none" /\ outcome' = "none" /\ at' = "planning"
    BY <1>1 DEF Start, Verdict
  <2>2. ownTxs' = Append(<<>>, Fresh(files)) /\ ownActive' = 1
    BY <1>1, <2>1 DEF Start, Own!Begin, Own!NewTx, Fresh
  <2>3. ownTxs' = <<Fresh(files)>>
    BY <2>2
  <2>4. QED
    BY <2>1, <2>2, <2>3 DEF Verdict, Before, Running, Inside
<1>2. CASE Plan
  BY <1>2, StaysInside DEF Plan, Before, Running, Inside
<1>3. CASE Validate
  BY <1>3, StaysInside DEF Validate, BeginExecution, Before, Running, Inside
<1>4. CASE Revalidate
  BY <1>4, StaysInside DEF Revalidate, BeginExecution, Before, Running, Inside
<1>5. CASE FinishExecution
  BY <1>5, StaysInside DEF FinishExecution, Before, Running, Inside
<1>6. CASE Verify
  <2>1. ok' => QuickChecks
    BY <1>6 DEF Verify
  <2>2. QuickChecks' = QuickChecks
    BY <1>6 DEF Verify, workVars, QuickChecks
  <2>3. QED
    BY <1>6, <2>1, <2>2, StaysInside DEF Verify, Before, Running, Inside
<1>7. CASE Patch
  BY <1>7, StaysInside DEF Patch, Before, Running, Inside
<1>8. CASE Reexecute
  BY <1>8, StaysInside DEF Reexecute, BeginExecution, Before, Running, Inside
<1>9. CASE Exhausted
  BY <1>9, RolledBack DEF Exhausted, Before, Running, Inside
<1>10. CASE Complete
  <2>1. at \in Inside /\ at' = "returned" /\ outcome' = "completed" /\ state' = "done"
    BY <1>10 DEF Complete, Move, Before, Running, Inside
  <2>2. PICK base : ownTxs = <<Fresh(base)>> /\ ownActive = 1
    BY <2>1 DEF Verdict
  <2>3. ownTxs' = [ownTxs EXCEPT ![1].committed = TRUE]
    BY <1>10, <2>2 DEF Complete, Own!Commit
  <2>4. ownTxs'[1] = [Fresh(base) EXCEPT !.committed = TRUE]
    BY <2>2, <2>3
  <2>5. ownTxs'[1].committed
    BY <2>4 DEF Fresh
  <2>6. ok' /\ QuickChecks'
    BY <1>10 DEF Complete, workVars, QuickChecks, Verdict
  <2>7. QED
    BY <2>1, <2>5, <2>6
       DEF Verdict, CompletedIsVerified, FailedIsRolledBack, Before, Running, Inside
<1>11. CASE Raise
  BY <1>11, RolledBack DEF Raise, Before, Running, Inside
<1>12. ASSUME NEW f \in Files, Mutate(f) PROVE Verdict'
  BY <1>12, StaysInside DEF Mutate, Before, Running, Inside
<1>13. CASE Look
  BY <1>13, StaysInside DEF Look, Before, Running, Inside
<1>14. CASE Refuse
  BY <1>14, StaysInside DEF Refuse, Before, Running, Inside
<1>15. CASE UNCHANGED vars
  BY <1>15 DEF vars, txVars, smVars, workVars, Verdict, CompletedIsVerified,
               FailedIsRolledBack, QuickChecks
<1>16. QED
  BY <1>1, <1>2, <1>3, <1>4, <1>5, <1>6, <1>7, <1>8, <1>9, <1>10, <1>11, <1>12, <1>13, <1>14,
     <1>15 DEF Next, Step

(* A task that reports success made at least one tool call in its last     *)
(* execution, none of them failed, and its own transaction is committed.   *)
THEOREM SuccessIsVerified == Spec => []CompletedIsVerified
<1>1. Verdict => CompletedIsVerified
  BY DEF Verdict, CompletedIsVerified, Before, Running, Inside
<1>2. QED
  BY <1>1, VerdictInit, VerdictStep, PTL DEF Spec

(* A task that reports failure has rolled its own transaction back.        *)
THEOREM FailureRollsBack == Spec => []FailedIsRolledBack
<1>1. Verdict => FailedIsRolledBack
  BY DEF Verdict, FailedIsRolledBack, Before, Running, Inside
<1>2. QED
  BY <1>1, VerdictInit, VerdictStep, PTL DEF Spec

-----------------------------------------------------------------------------
(* The shape of the variables: what Transactions_proofs says of any        *)
(* manager, said of the run's own.                                         *)
OwnProofs ==
  INSTANCE Transactions_proofs WITH
    txs <- ownTxs, active <- ownActive, Lockable <- {}, MaxTx <- 1, UndoWhile <- FALSE

LEMMA OwnAssumptions == OwnProofs!ContentsAssumption
  BY WorkspaceAssumption DEF OwnProofs!ContentsAssumption, OwnProofs!Contents

LEMMA SameManager ==
  /\ Own!TypeOK <=> OwnProofs!TypeOK
  /\ Own!Tx = OwnProofs!Tx /\ Own!Contents = OwnProofs!Contents
  /\ Own!Contents = Shared!Contents
  /\ Own!Begin <=> OwnProofs!Begin
  /\ Own!Rollback(ownActive) <=> OwnProofs!Rollback(ownActive)
<1> USE DEF Own!Contents, Own!Snapshots, Own!Tx, OwnProofs!Contents, OwnProofs!Snapshots, OwnProofs!Tx,
            Shared!Contents
<1>1. Own!TypeOK <=> OwnProofs!TypeOK
  BY DEF Own!TypeOK, OwnProofs!TypeOK
<1>2. Own!Begin <=> OwnProofs!Begin
  BY DEF Own!Begin, OwnProofs!Begin, Own!NewTx, OwnProofs!NewTx
<1>3. Own!Rollback(ownActive) <=> OwnProofs!Rollback(ownActive)
  BY DEF Own!Rollback, OwnProofs!Rollback, Own!Restored, OwnProofs!Restored
<1> QED
  BY <1>1, <1>2, <1>3

(* Nothing begins a transaction in the global manager during a run.        *)
Typed == TypeOK /\ sharedTxs = <<>> /\ sharedActive = 0

LEMMA TypedInit == Init => Typed
<1> SUFFICES ASSUME Init PROVE Typed
  OBVIOUS
<1>1. Own!TypeOK
  BY WorkspaceAssumption DEF Init, Own!Init, Own!TypeOK, Own!Contents
<1>2. Shared!TypeOK /\ sharedTxs = <<>> /\ sharedActive = 0
  BY WorkspaceAssumption DEF Init, Shared!Init, Shared!TypeOK, Shared!Contents
<1>3. QED
  BY <1>1, <1>2, RetriesAssumption DEF Init, Typed, TypeOK, States

(* The files and the run's manager keep their shapes. *)
Kept == /\ files' \in [Files -> Own!Contents]
        /\ ownTxs' \in Seq(Own!Tx) /\ Len(ownTxs') <= 1 /\ ownActive' \in 0..Len(ownTxs')
        /\ sharedTxs' = <<>> /\ sharedActive' = 0

LEMMA KeptSteps ==
  ASSUME Typed, Verdict, [Next]_vars
  PROVE  Kept
<1>0. /\ files \in [Files -> Own!Contents]
      /\ ownTxs \in Seq(Own!Tx) /\ Len(ownTxs) <= 1 /\ ownActive \in 0..Len(ownTxs)
      /\ Len(ownTxs) \in Nat
      /\ sharedTxs = <<>> /\ sharedActive = 0
  BY DEF Typed, TypeOK, Own!TypeOK
<1>1. ASSUME UNCHANGED <<fileVars, txVars>> PROVE Kept
  BY <1>0, <1>1 DEF fileVars, txVars, Kept
<1>2. CASE Start
  <2>1. Own!Begin /\ UNCHANGED <<sharedTxs, sharedActive>>
    BY <1>2 DEF Start
  <2>2. OwnProofs!Begin /\ OwnProofs!TypeOK
    BY <2>1, SameManager DEF Typed, TypeOK
  <2>3. /\ ownTxs' \in Seq(Own!Tx) /\ Len(ownTxs') = Len(ownTxs) + 1
        /\ ownActive' = Len(ownTxs) + 1 /\ files' = files /\ Len(ownTxs) < 1
    BY <2>2, OwnAssumptions, OwnProofs!BeginType, SameManager
  <2>4. QED
    BY <1>0, <2>1, <2>3 DEF Kept
<1>3. ASSUME Own!RollbackActive, UNCHANGED <<sharedTxs, sharedActive>> PROVE Kept
  <2>1. ownActive \in 1..Len(ownTxs) /\ ownActive' = 0
    BY <1>0, <1>3 DEF Own!RollbackActive
  <2>2. CASE ownTxs[ownActive].committed
    BY <1>0, <1>3, <2>1, <2>2 DEF Own!RollbackActive, Kept
  <2>3. CASE ~ownTxs[ownActive].committed
    <3>1. Own!Rollback(ownActive)
      BY <1>3, <2>3 DEF Own!RollbackActive
    <3>2. OwnProofs!TypeOK /\ OwnProofs!Rollback(ownActive)
      BY <3>1, SameManager DEF Typed, TypeOK
    <3>3. /\ files' \in [Files -> Own!Contents]
          /\ ownTxs' \in Seq(Own!Tx) /\ Len(ownTxs') = Len(ownTxs)
      BY <2>1, <3>2, OwnAssumptions, OwnProofs!RollbackType, SameManager
    <3>4. QED
      BY <1>0, <1>3, <2>1, <3>3 DEF Kept
  <2>4. QED
    BY <2>2, <2>3
<1>4. CASE Complete
  <2>1. ownActive = 1 /\ ownActive \in 1..Len(ownTxs)
    BY <1>0, <1>4 DEF Complete, Verdict, Inside, Running
  <2>2. /\ ownTxs' = [ownTxs EXCEPT ![ownActive].committed = TRUE]
        /\ UNCHANGED <<files, ownActive, sharedTxs, sharedActive>>
    BY <1>4 DEF Complete, Own!Commit
  <2>3. ownTxs' \in Seq(Own!Tx) /\ Len(ownTxs') = Len(ownTxs)
    <3>1. OwnProofs!TypeOK
      BY SameManager DEF Typed, TypeOK
    <3>2. QED
      BY <2>1, <2>2, <3>1, OwnAssumptions, OwnProofs!CommitType, SameManager
  <2>4. QED
    BY <1>0, <2>2, <2>3 DEF Kept
<1>5. ASSUME NEW f \in Files, Mutate(f) PROVE Kept
  <2>1. Shared!Edit(f) /\ UNCHANGED txVars
    BY <1>5 DEF Mutate
  <2>2. sharedTxs' = <<>> /\ sharedActive' = 0
    BY <1>0, <2>1 DEF Shared!Edit, Shared!SnapshotFile
  <2>3. files' \in [Files -> Own!Contents]
    BY <1>0, <2>1 DEF Shared!Edit, Own!Contents
  <2>4. QED
    BY <1>0, <2>1, <2>2, <2>3 DEF Kept, txVars
<1>6. CASE Plan \/ Validate \/ Revalidate \/ FinishExecution \/ Verify \/ Patch \/ Reexecute \/ Look \/ Refuse
  BY <1>1, <1>6 DEF Plan, Validate, Revalidate, FinishExecution, Verify, Patch, Reexecute, Look, Refuse
<1>7. CASE Exhausted \/ Raise
  BY <1>3, <1>7 DEF Exhausted, Raise
<1>8. CASE UNCHANGED vars
  BY <1>1, <1>8 DEF vars
<1>9. QED
  BY <1>2, <1>4, <1>5, <1>6, <1>7, <1>8 DEF Next, Step

LEMMA TypedStep == Typed /\ Paid /\ Verdict /\ [Next]_vars => Typed'
<1> SUFFICES ASSUME Typed, Paid, Verdict, [Next]_vars PROVE Typed'
  OBVIOUS
<1>1. Kept
  BY KeptSteps
<1>2. Own!TypeOK'
  BY <1>1 DEF Kept, Own!TypeOK, Own!Contents, Own!Tx, Own!Snapshots
<1>3. Shared!TypeOK'
  BY <1>1 DEF Kept, Shared!TypeOK, Shared!Contents, Own!Contents
<1> DEFINE Rest ==
      /\ state \in States
      /\ patches \in 0..(MaxRetries + 1)
      /\ at \in {"idle", "planning", "replanning", "validating", "revalidating", "executing",
                 "verifying", "deciding", "patching", "returned"}
      /\ verdict \in BOOLEAN /\ ok \in BOOLEAN
      /\ done \in Seq({"ok", "error"}) /\ refused \in 0..MaxSteps /\ reported \in 0..MaxSteps
      /\ outcome \in {"none", "completed", "failed", "error"}
      /\ executions \in Nat
<1>4. Rest'
  <2>0. Rest
    BY DEF Typed, TypeOK
  <2>1. ASSUME NEW to \in States, Move(to) PROVE state' \in States /\ patches' \in 0..(MaxRetries + 1)
    BY <2>0, <2>1, RetriesAssumption DEF Move, Legal, Count
  <2> USE RetriesAssumption
  <2>2. CASE Start
    BY <2>0, <2>1, <2>2 DEF Start, workVars, States
  <2>3. CASE Plan
    BY <2>0, <2>1, <2>3 DEF Plan, workVars, States
  <2>4. CASE Validate
    <3>1. CASE BeginExecution
      BY <2>0, <2>1, <2>4, <3>1 DEF Validate, BeginExecution, States
    <3>2. CASE ~BeginExecution
      BY <2>0, <2>1, <2>4, <3>2 DEF Validate, workVars, States
    <3>3. QED
      BY <3>1, <3>2
  <2>5. CASE Revalidate
    BY <2>0, <2>1, <2>5 DEF Revalidate, BeginExecution, workVars, States
  <2>6. CASE FinishExecution
    BY <2>0, <2>1, <2>6 DEF FinishExecution, workVars, States
  <2>7. CASE Verify
    BY <2>0, <2>7 DEF Verify, workVars, smVars
  <2>8. CASE Patch
    BY <2>0, <2>1, <2>8 DEF Patch, workVars, States
  <2>9. CASE Reexecute
    BY <2>0, <2>1, <2>9 DEF Reexecute, BeginExecution, workVars, States
  <2>10. CASE Exhausted
    <3>1. patches <= MaxRetries /\ patches \in Nat
      BY <2>10 DEF Exhausted, Paid, Running
    <3>2. QED
      BY <2>0, <2>10, <3>1 DEF Exhausted, Count, workVars
  <2>11. CASE Complete
    BY <2>0, <2>1, <2>11 DEF Complete, workVars, States
  <2>12. CASE Raise
    BY <2>0, <2>12 DEF Raise, workVars, smVars
  <2>13. ASSUME NEW f \in Files, Mutate(f) PROVE Rest'
    BY <2>0, <2>13 DEF Mutate, smVars
  <2>14. CASE Look
    BY <2>0, <2>14 DEF Look, smVars
  <2>15. CASE Refuse
    BY <2>0, <2>15 DEF Refuse, smVars
  <2>16. CASE UNCHANGED vars
    BY <2>0, <2>16 DEF vars, smVars, workVars
  <2>17. QED
    BY <2>2, <2>3, <2>4, <2>5, <2>6, <2>7, <2>8, <2>9, <2>10, <2>11, <2>12, <2>13, <2>14, <2>15,
       <2>16 DEF Next, Step
<1>5. QED
  BY <1>1, <1>2, <1>3, <1>4 DEF Typed, TypeOK, Kept

(* Every variable of a run keeps its shape, and no edit of a run is ever   *)
(* recorded by the global manager's transactions: there are none.          *)
THEOREM TypeCorrect == Spec => []TypeOK
<1>1. Typed => TypeOK
  BY DEF Typed
<1>2. QED
  BY <1>1, TypedInit, TypedStep, PaidInit, PaidStep, VerdictInit, VerdictStep, PTL DEF Spec
===============================================================================
