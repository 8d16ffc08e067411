------------------------- MODULE JobScheduler_proofs -------------------------
(***************************************************************************)
(* Theorems about JobScheduler, for every set of jobs, workers, threads    *)
(* and dispatchers and every bound.                                        *)
(***************************************************************************)
EXTENDS JobScheduler, FiniteSetTheorems, TLAPS

(* The jobs that exist are finitely many, so their number is a natural.    *)
LEMMA KnownCount == Cardinality(Known) \in Nat
  BY JobsAssumption, FS_Subset, FS_CardinalityType DEF Known

(* What _handle_failure returns on a job in a known state.                 *)
LEMMA HandleFailureType ==
  ASSUME NEW st \in JobStates, NEW r \in Nat
  PROVE  HandleFailure(st, r) \in [status : JobStates, retries : Nat, raised : BOOLEAN]
  BY BoundsAssumption DEF HandleFailure, JobStates, CanMove

(* However an execution ends, the job is left in a state of the table.     *)
LEMMA OutcomesType ==
  ASSUME NEW st \in JobStates, NEW r \in Nat, NEW out \in Outcomes(st, r)
  PROVE  out.status \in JobStates /\ out.retries \in Nat
<1> DEFINE once == HandleFailure(st, r)
<1>1. once \in [status : JobStates, retries : Nat, raised : BOOLEAN]
  BY HandleFailureType
<1>2. HandleFailure(once.status, once.retries)
        \in [status : JobStates, retries : Nat, raised : BOOLEAN]
  BY <1>1, HandleFailureType
<1>3. [status |-> "completed", retries |-> r, raised |-> FALSE]
        \in [status : JobStates, retries : Nat, raised : BOOLEAN]
  BY DEF JobStates
<1> HIDE DEF once
<1>4. out \in [status : JobStates, retries : Nat, raised : BOOLEAN]
  <2>1. out \in {IF CanMove(st, "completed")
                   THEN [status |-> "completed", retries |-> r, raised |-> FALSE] ELSE once,
                 IF once.raised THEN HandleFailure(once.status, once.retries) ELSE once,
                 once}
    BY DEF Outcomes, once
  <2> QED BY <2>1, <1>1, <1>2, <1>3
<1> QED BY <1>4

-----------------------------------------------------------------------------
LEMMA InitType == Init => TypeOK
<1>1. Idle \in ThreadType /\ Idle.at = "none"
  BY BoundsAssumption DEF Idle, ThreadType
<1>2. Off \in DispType /\ Off.phase = "off"
  BY BoundsAssumption DEF Off, At, DispType
<1>3. Init => thread \in [Threads -> ThreadType] /\ \A t \in Threads : thread[t].at = "none"
  BY <1>1 DEF Init
<1>4. Init => disp \in [Dispatchers -> DispType] /\ \A d \in Dispatchers : disp[d].phase = "off"
  BY <1>2 DEF Init
<1>5. Init => /\ status \in [Jobs -> JobStates \cup {"none"}]
              /\ created \in [Jobs -> Nat] /\ retries \in [Jobs -> Nat]
              /\ recurring \in [Jobs -> BOOLEAN] /\ parent \in [Jobs -> Jobs \cup {NoJob}]
              /\ due \in [Jobs -> BOOLEAN] /\ requeues \in [Jobs -> Nat]
              /\ heap \in [Jobs -> Nat]
  BY DEF Init
<1>6. Init => /\ busy \in [Workers -> BOOLEAN] /\ current \in [Workers -> Jobs \cup {NoJob}]
              /\ running \in BOOLEAN
  BY Zenon DEF Init
<1>7. Init => starts \in Nat
  BY DEF Init
<1>8. Init =>
        /\ \A t \in Threads : thread[t].at # "none" =>
             thread[t].worker \in Workers /\ thread[t].job \in Known
        /\ \A d \in Dispatchers : disp[d].phase = "clearing" => disp[d].job \in Known
        /\ \A d \in Dispatchers : disp[d].phase = "dispatch" => disp[d].worker > 0
  BY <1>3, <1>4
<1> QED
  BY <1>3, <1>4, <1>5, <1>6, <1>7, <1>8, Zenon DEF TypeOK

LEMMA EnqueueType ==
  ASSUME TypeOK, NEW j \in Jobs, NEW rec \in BOOLEAN, NEW isDue \in BOOLEAN,
         NEW par \in Jobs \cup {NoJob}, Enqueue(j, rec, isDue, par)
  PROVE  /\ status'    \in [Jobs -> JobStates \cup {"none"}]
         /\ created'   \in [Jobs -> Nat]
         /\ retries'   \in [Jobs -> Nat]
         /\ recurring' \in [Jobs -> BOOLEAN]
         /\ parent'    \in [Jobs -> Jobs \cup {NoJob}]
         /\ due'       \in [Jobs -> BOOLEAN]
         /\ requeues'  \in [Jobs -> Nat]
         /\ heap'      \in [Jobs -> Nat]
         /\ Known \subseteq Known'
  BY KnownCount DEF Enqueue, TypeOK, Known, JobStates

(* What a dispatcher may change of its state.                              *)
LEMMA DispUpdate ==
  ASSUME NEW r \in DispType
  PROVE  /\ \A w \in 0..(NumWorkers + 1) : [r EXCEPT !.worker = w] \in DispType
         /\ \A j \in Jobs : [r EXCEPT !.phase = "clearing", !.job = j] \in DispType
<1>1. ASSUME NEW w \in 0..(NumWorkers + 1) PROVE [r EXCEPT !.worker = w] \in DispType
  BY DEF DispType
<1>2. ASSUME NEW j \in Jobs PROVE [r EXCEPT !.phase = "clearing", !.job = j] \in DispType
  BY DEF DispType
<1>3. QED
  BY <1>1, <1>2

(* The type invariant is preserved by every step.                          *)
LEMMA NextType == TypeOK /\ [Next]_vars => TypeOK'
<1> SUFFICES ASSUME TypeOK, [Next]_vars PROVE TypeOK'
  OBVIOUS
<1> USE DEF TypeOK
<1>1. ASSUME NEW j \in Jobs, Submit(j) PROVE TypeOK'
  <2>1. PICK rec \in BOOLEAN, isDue \in BOOLEAN : Enqueue(j, rec, isDue, NoJob)
    BY <1>1 DEF Submit
  <2> QED BY <1>1, <2>1, EnqueueType DEF Submit, poolVars
<1>2. ASSUME NEW j \in Jobs, Cancel(j) PROVE TypeOK'
  BY <1>2 DEF Cancel, poolVars, JobStates, Known
<1>3. ASSUME NEW j \in Jobs, Requeue(j) PROVE TypeOK'
  BY <1>3 DEF Requeue, poolVars, JobStates, Known
<1>0. ASSUME NEW d \in Dispatchers, NEW r \in DispType, disp' = [disp EXCEPT ![d] = r],
             r.phase \notin {"clearing", "dispatch"}
      PROVE  /\ disp' \in [Dispatchers -> DispType]
             /\ \A e \in Dispatchers : disp'[e].phase = "clearing" => disp'[e].job \in Known
             /\ \A e \in Dispatchers : disp'[e].phase = "dispatch" => disp'[e].worker > 0
  BY <1>0
<1>4. ASSUME NEW d \in Dispatchers, Start(d) PROVE TypeOK'
  BY <1>4, BoundsAssumption DEF Start, poolVars, jobVars, At, DispType, Known
<1>5. ASSUME NEW d \in Dispatchers, Tick(d) PROVE TypeOK'
  <2> DEFINE r == At("call", "tick")
  <2>1. r \in DispType /\ r.phase = "call"
    BY BoundsAssumption DEF At, DispType
  <2>2. disp' = [disp EXCEPT ![d] = r]
    BY <1>5 DEF Tick
  <2> HIDE DEF r
  <2> QED BY <1>5, <1>0, <2>1, <2>2 DEF Tick, poolVars, jobVars, Known
<1>6. ASSUME Stop PROVE TypeOK'
  BY <1>6 DEF Stop, poolVars, jobVars, Known
<1>7. ASSUME NEW j \in Jobs, BecomeDue(j) PROVE TypeOK'
  BY <1>7 DEF BecomeDue, poolVars, Known
<1>8. ASSUME NEW d \in Dispatchers, NEW p \in {"top", "call", "retries", "recurring", "off"}, Goto(d, p)
      PROVE  /\ disp' \in [Dispatchers -> DispType]
             /\ \A e \in Dispatchers : disp'[e].phase = "clearing" => disp'[e].job \in Known
             /\ \A e \in Dispatchers : disp'[e].phase = "dispatch" => disp'[e].worker > 0
  <2>1. disp[d].kind \in {"loop", "tick"}
    BY DEF DispType
  <2> DEFINE r == At(p, disp[d].kind)
  <2>3. r \in DispType /\ r.phase = p
    BY <2>1, BoundsAssumption DEF At, DispType
  <2>4. disp' = [disp EXCEPT ![d] = r]
    BY <1>8 DEF Goto
  <2> HIDE DEF r
  <2> QED BY <1>0, <2>3, <2>4
<1>9. ASSUME NEW d \in Dispatchers, EnterLoop(d) \/ LoopTop(d) PROVE TypeOK'
  <2>1. \E p \in {"top", "call", "retries", "recurring", "off"} : Goto(d, p)
    <3>1. CASE EnterLoop(d) BY <3>1 DEF EnterLoop
    <3>2. CASE LoopTop(d) /\ running BY <3>2 DEF LoopTop
    <3>3. CASE LoopTop(d) /\ ~running BY <3>3 DEF LoopTop
    <3> QED BY <1>9, <3>1, <3>2, <3>3
  <2> QED BY <1>9, <1>8, <2>1 DEF EnterLoop, LoopTop, poolVars, jobVars, Known
<1>10. ASSUME NEW d \in Dispatchers, CallDispatch(d) PROVE TypeOK'
  <2>1. CASE running
    <3> DEFINE r == [disp[d] EXCEPT !.phase = "dispatch", !.worker = 1]
    <3>1. 1 \in 0..(NumWorkers + 1)
      BY BoundsAssumption
    <3>2. r \in DispType /\ r.worker = 1 /\ r.phase = "dispatch"
      BY <3>1 DEF DispType
    <3>3. disp' = [disp EXCEPT ![d] = r]
      BY <1>10, <2>1 DEF CallDispatch
    <3> HIDE DEF r
    <3> QED BY <1>10, <3>2, <3>3 DEF CallDispatch, poolVars, jobVars, Known
  <2>2. CASE ~running
    BY <1>10, <1>8, <2>2 DEF CallDispatch, AfterDispatch, poolVars, jobVars, Known
  <2> QED BY <2>1, <2>2
<1>11. ASSUME NEW d \in Dispatchers, SkipBusy(d) PROVE TypeOK'
  <2>0. disp[d].worker + 1 \in 0..(NumWorkers + 1) /\ disp[d].worker + 1 > 0
    BY <1>11, BoundsAssumption DEF SkipBusy, Workers
  <2>1. [disp[d] EXCEPT !.worker = @ + 1] \in DispType
    <3>1. disp[d] \in DispType
      OBVIOUS
    <3> HIDE DEF TypeOK
    <3> QED BY <2>0, <3>1, DispUpdate
  <2>2. disp' = [disp EXCEPT ![d] = [disp[d] EXCEPT !.worker = @ + 1]]
    BY <1>11 DEF SkipBusy
  <2>3. disp' \in [Dispatchers -> DispType]
    BY <2>1, <2>2
  <2>4. disp[d].phase = "dispatch" /\ disp'[d].phase = "dispatch" /\ disp'[d].worker > 0
        /\ \A e \in Dispatchers \ {d} : disp'[e] = disp[e]
    BY <1>11, <2>0, <2>2 DEF SkipBusy, DispType
  <2> QED BY <1>11, <2>3, <2>4 DEF SkipBusy, poolVars, jobVars, Known
<1>12. ASSUME NEW d \in Dispatchers, EndDispatch(d) PROVE TypeOK'
  BY <1>12, <1>8 DEF EndDispatch, AfterDispatch, poolVars, jobVars, Known
<1>13. ASSUME NEW d \in Dispatchers, NEW t \in Threads, NEW j \in Jobs, Dispatch(d, t, j)
       PROVE TypeOK'
  <2>1. j \in Known /\ heap' \in [Jobs -> Nat]
    BY <1>13 DEF Dispatch, IsNext, Ready, Known
  <2>2. thread' \in [Threads -> ThreadType]
    BY <1>13 DEF Dispatch, ThreadType, Workers
  <2>3. disp' \in [Dispatchers -> DispType]
    <3>0. disp[d].worker + 1 \in 0..(NumWorkers + 1)
      BY <1>13, BoundsAssumption DEF Dispatch, Workers
    <3>1. [disp[d] EXCEPT !.worker = @ + 1] \in DispType
      <4>1. disp[d] \in DispType
        OBVIOUS
      <4> HIDE DEF TypeOK
      <4> QED BY <3>0, <4>1, DispUpdate
    <3>2. disp' = [disp EXCEPT ![d] = [disp[d] EXCEPT !.worker = @ + 1]]
      BY <1>13 DEF Dispatch
    <3> QED BY <3>1, <3>2
  <2> QED BY <1>13, <2>1, <2>2, <2>3 DEF Dispatch, jobVars, Known, Workers
<1>14. ASSUME NEW d \in Dispatchers, BeginRetries(d) PROVE TypeOK'
  <2> DEFINE r == [disp[d] EXCEPT !.phase = "iterating", !.size = Cardinality(Known)]
  <2>1. r \in DispType /\ r.phase = "iterating"
    BY KnownCount DEF DispType
  <2>2. disp' = [disp EXCEPT ![d] = r]
    BY <1>14 DEF BeginRetries
  <2> HIDE DEF r
  <2> QED BY <1>14, <1>0, <2>1, <2>2 DEF BeginRetries, poolVars, jobVars, Known
<1>15. ASSUME NEW d \in Dispatchers, EndRetries(d) PROVE TypeOK'
  <2>1. Known' = Known /\ status' \in [Jobs -> JobStates \cup {"none"}]
    BY <1>15 DEF EndRetries, RetryMove, Known, JobStates
  <2> QED BY <1>15, <1>8, <2>1 DEF EndRetries, poolVars
<1>16. ASSUME NEW d \in Dispatchers, LoopDies(d) PROVE TypeOK'
  BY <1>16, <1>8 DEF LoopDies, poolVars, jobVars, Known
<1>17. ASSUME NEW d \in Dispatchers, NEW j \in Jobs, NEW n \in Jobs, SubmitNext(d, j, n)
       PROVE TypeOK'
  <2>1. j \in Known /\ Enqueue(n, TRUE, TRUE, j)
    BY <1>17 DEF SubmitNext, DueAgain, Known
  <2>2. disp' \in [Dispatchers -> DispType]
    <3>1. [disp[d] EXCEPT !.phase = "clearing", !.job = j] \in DispType
      <4>1. disp[d] \in DispType
        OBVIOUS
      <4> HIDE DEF TypeOK
      <4> QED BY <4>1, DispUpdate
    <3>2. disp' = [disp EXCEPT ![d] = [disp[d] EXCEPT !.phase = "clearing", !.job = j]]
      BY <1>17 DEF SubmitNext
    <3> QED BY <3>1, <3>2
  <2>3. \A e \in Dispatchers :
          /\ disp'[e].phase = "clearing" => disp'[e].job \in Known
          /\ disp'[e].phase = "dispatch" => disp'[e].worker > 0
    BY <1>17, <2>1 DEF SubmitNext, DispType
  <2> QED BY <1>17, <2>1, <2>2, <2>3, EnqueueType DEF SubmitNext, poolVars
<1>18. ASSUME NEW d \in Dispatchers, ClearRecurring(d) PROVE TypeOK'
  BY <1>18, <1>8 DEF ClearRecurring, poolVars, Known
<1>19. ASSUME NEW d \in Dispatchers, EndRecurring(d) PROVE TypeOK'
  BY <1>19, <1>8 DEF EndRecurring, poolVars, jobVars, Known
<1>20. ASSUME NEW t \in Threads, ThreadStart(t) PROVE TypeOK'
  <2>1. /\ thread[t].worker \in Workers /\ thread[t].job \in Known
        /\ thread[t].job \in Jobs /\ Idle \in ThreadType
    BY <1>20, BoundsAssumption DEF ThreadStart, ThreadType, Idle, Known
  <2>2. status' \in [Jobs -> JobStates \cup {"none"}] /\ Known' = Known
    BY <1>20, <2>1 DEF ThreadStart, Known, JobStates
  <2>3. thread' \in [Threads -> ThreadType]
    <3>1. [thread[t] EXCEPT !.at = "executing"] \in ThreadType
      BY DEF ThreadType
    <3> QED BY <1>20, <2>1, <3>1 DEF ThreadStart
  <2>4. \A u \in Threads : thread'[u].at # "none" =>
          thread'[u].worker \in Workers /\ thread'[u].job \in Known
    BY <1>20, <2>1, SMTT(20) DEF ThreadStart, ThreadType, Idle
  <2>5. busy' \in [Workers -> BOOLEAN] /\ current' \in [Workers -> Jobs \cup {NoJob}]
    BY <1>20, <2>1 DEF ThreadStart
  <2> QED BY <1>20, <2>2, <2>3, <2>4, <2>5 DEF ThreadStart
<1>21. ASSUME NEW t \in Threads, ThreadFinish(t) PROVE TypeOK'
  <2> DEFINE j == thread[t].job
  <2>1. j \in Jobs /\ status[j] \in JobStates /\ retries[j] \in Nat
    BY <1>21 DEF ThreadFinish, Known
  <2>2. PICK out \in Outcomes(status[j], retries[j]) :
          /\ status'  = [status EXCEPT ![j] = out.status]
          /\ retries' = [retries EXCEPT ![j] = out.retries]
    BY <1>21 DEF ThreadFinish
  <2>3. out.status \in JobStates /\ out.retries \in Nat
    BY <2>1, <2>2, OutcomesType
  <2>4. Known' = Known
    BY <2>1, <2>2, <2>3 DEF Known, JobStates
  <2> HIDE DEF j
  <2>5. /\ status' \in [Jobs -> JobStates \cup {"none"}]
        /\ retries' \in [Jobs -> Nat]
    BY <2>1, <2>2, <2>3
  <2>6. thread' \in [Threads -> ThreadType] /\ thread' = [thread EXCEPT ![t] = Idle]
    BY <1>21, BoundsAssumption DEF ThreadFinish, ThreadType, Idle
  <2> QED BY <1>21, <2>4, <2>5, <2>6, SMTT(20) DEF ThreadFinish, Workers, Idle
<1>22. ASSUME UNCHANGED vars PROVE TypeOK'
  BY <1>22 DEF vars, poolVars, jobVars, Known
<1> QED
  BY <1>1, <1>2, <1>3, <1>4, <1>5, <1>6, <1>7, <1>9, <1>10, <1>11, <1>12, <1>13, <1>14,
     <1>15, <1>16, <1>17, <1>18, <1>19, <1>20, <1>21, <1>22
     DEF Next, CallerStep, DispatcherStep, ThreadStep

(* Every variable keeps its shape, and what a thread or a dispatcher       *)
(* carries is a job that exists.                                           *)
THEOREM TypeCorrect == Spec => []TypeOK
  BY InitType, NextType, PTL DEF Spec

-----------------------------------------------------------------------------
(* The steps that touch a job's state, its entries in the heap, its        *)
(* retries or the threads; every other step leaves all of them alone.      *)
Moves ==
  \/ \E j \in Jobs, rec \in BOOLEAN, isDue \in BOOLEAN, par \in Jobs \cup {NoJob} :
       Enqueue(j, rec, isDue, par) /\ UNCHANGED thread
  \/ \E j \in Jobs : Cancel(j)
  \/ \E j \in Jobs : Requeue(j)
  \/ \E d \in Dispatchers, t \in Threads, j \in Jobs : Dispatch(d, t, j)
  \/ \E t \in Threads : ThreadStart(t)
  \/ \E t \in Threads : ThreadFinish(t)

LEMMA StepEffects ==
  ASSUME TypeOK, [Next]_vars
  PROVE  Moves \/ UNCHANGED <<status, retries, requeues, heap, thread>>
<1>1. ASSUME NEW j \in Jobs, Submit(j) PROVE Moves
  BY <1>1 DEF Submit, Moves, poolVars
<1>2. ASSUME NEW d \in Dispatchers, NEW j \in Jobs, NEW n \in Jobs, SubmitNext(d, j, n)
      PROVE Moves
  BY <1>2 DEF SubmitNext, Moves, poolVars
<1>3. ASSUME NEW d \in Dispatchers, EndRetries(d)
      PROVE UNCHANGED <<status, retries, requeues, heap, thread>>
  <2>1. ~CanMove("waiting_retry", "queued")
    BY DEF CanMove, JobTransitions
  <2> QED BY <1>3, <2>1 DEF EndRetries, RetryMove, TypeOK, poolVars
<1>4. ASSUME NEW j \in Jobs, BecomeDue(j)
      PROVE UNCHANGED <<status, retries, requeues, heap, thread>>
  BY <1>4 DEF BecomeDue, poolVars
<1>5. ASSUME NEW d \in Dispatchers,
             \/ Start(d) \/ Tick(d) \/ Stop \/ EnterLoop(d) \/ LoopTop(d) \/ CallDispatch(d)
             \/ SkipBusy(d) \/ EndDispatch(d) \/ BeginRetries(d) \/ LoopDies(d)
             \/ ClearRecurring(d) \/ EndRecurring(d)
      PROVE UNCHANGED <<status, retries, requeues, heap, thread>>
  BY <1>5 DEF Start, Tick, Stop, EnterLoop, LoopTop, CallDispatch, SkipBusy, EndDispatch,
     BeginRetries, LoopDies, ClearRecurring, EndRecurring, poolVars, jobVars
<1>6. ASSUME Stop \/ UNCHANGED vars
      PROVE UNCHANGED <<status, retries, requeues, heap, thread>>
  BY <1>6 DEF Stop, vars, poolVars, jobVars
<1> QED
  BY <1>1, <1>2, <1>3, <1>4, <1>5, <1>6
     DEF Next, CallerStep, DispatcherStep, ThreadStep, Moves

(* How _handle_failure may leave a job. *)
LEMMA HandleFailureFacts ==
  ASSUME NEW st \in JobStates, NEW r \in Nat, NEW f, f = HandleFailure(st, r)
  PROVE  /\ f.status \in JobStates /\ f.retries = r + 1 /\ f.raised \in BOOLEAN
         /\ f.status \in {st, "waiting_retry", "failed"}
         /\ st \in {"queued", "completed", "cancelled", "failed"} => f.status = st
         /\ st = "running" => f.status # "running" /\ ~f.raised
         /\ f.status = "waiting_retry" /\ (st = "waiting_retry" => r <= MaxRetries)
              => f.retries <= MaxRetries
         /\ f.status = "failed" /\ (st = "failed" => r > MaxRetries)
              => f.retries > MaxRetries
<1>1. CanMove(st, "waiting_retry") <=> st = "running"
  BY DEF CanMove, JobTransitions, JobStates
<1>2. CanMove(st, "failed") <=> st \in {"running", "waiting_retry"}
  BY DEF CanMove, JobTransitions, JobStates
<1>3. CASE r + 1 <= MaxRetries
  <2>1. f = [status |-> IF st = "running" THEN "waiting_retry" ELSE st,
             retries |-> r + 1, raised |-> ~(st = "running")]
    BY <1>1, <1>3, Zenon DEF HandleFailure
  <2>2. f.status = (IF st = "running" THEN "waiting_retry" ELSE st) /\ f.retries = r + 1
    BY <2>1
  <2>3. f.raised = ~(st = "running")
    BY <2>1
  <2>4. f.raised \in BOOLEAN /\ (st = "running" => ~f.raised)
    BY <2>3
  <2> QED BY <1>3, <2>2, <2>4, BoundsAssumption DEF JobStates
<1>4. CASE ~(r + 1 <= MaxRetries)
  <2>1. f = [status |-> IF st \in {"running", "waiting_retry"} THEN "failed" ELSE st,
             retries |-> r + 1, raised |-> ~(st \in {"running", "waiting_retry"})]
    BY <1>2, <1>4 DEF HandleFailure
  <2>2. f.status = (IF st \in {"running", "waiting_retry"} THEN "failed" ELSE st) /\ f.retries = r + 1
    BY <2>1
  <2>3. f.raised = ~(st \in {"running", "waiting_retry"})
    BY <2>1
  <2>4. f.raised \in BOOLEAN /\ (st = "running" => ~f.raised)
    BY <2>3
  <2> QED BY <1>4, <2>2, <2>4, BoundsAssumption DEF JobStates
<1> QED BY <1>3, <1>4

(* How an execution that ends may leave its job: never running, queued or  *)
(* cancelled unless it was, and within the retry budget.                   *)
LEMMA OutcomesFacts ==
  ASSUME NEW st \in JobStates, NEW r \in Nat, NEW out \in Outcomes(st, r),
         st = "waiting_retry" => r <= MaxRetries, st = "failed" => r > MaxRetries
  PROVE  /\ out.status # "running"
         /\ out.status \in {st, "completed", "waiting_retry", "failed"}
         /\ st \in {"queued", "completed", "cancelled"} => out.status = st
         /\ out.status = "waiting_retry" => out.retries <= MaxRetries
         /\ out.status = "failed" => out.retries > MaxRetries
<1> DEFINE once == HandleFailure(st, r)
<1> DEFINE twice == HandleFailure(once.status, once.retries)
<1> DEFINE done == [status |-> "completed", retries |-> r, raised |-> FALSE]
<1>1. /\ once.status \in JobStates /\ once.retries \in Nat /\ once.raised \in BOOLEAN
      /\ once.status \in {st, "waiting_retry", "failed"}
      /\ st \in {"queued", "completed", "cancelled", "failed"} => once.status = st
      /\ st = "running" => once.status # "running" /\ ~once.raised
      /\ once.status = "waiting_retry" => once.retries <= MaxRetries
      /\ once.status = "failed" => once.retries > MaxRetries
  BY HandleFailureFacts, BoundsAssumption
<1> HIDE DEF once
<1>2. /\ twice.status \in {once.status, "waiting_retry", "failed"}
      /\ once.status \in {"queued", "completed", "cancelled", "failed"} =>
           twice.status = once.status
      /\ twice.status = "waiting_retry" => twice.retries <= MaxRetries
      /\ twice.status = "failed" => twice.retries > MaxRetries
  BY <1>1, HandleFailureFacts, BoundsAssumption
<1> HIDE DEF twice
<1>3. \/ out = done /\ CanMove(st, "completed")
      \/ out = once
      \/ out = twice /\ once.raised
  BY DEF Outcomes, once, twice
<1>4. CanMove(st, "completed") => st = "running"
  BY DEF CanMove, JobTransitions, JobStates
<1>5. CASE out = done /\ CanMove(st, "completed")
  BY <1>4, <1>5
<1>6. CASE out = once
  BY <1>1, <1>6
<1>7. CASE out = twice /\ once.raised
  BY <1>1, <1>2, <1>7
<1> QED BY <1>3, <1>5, <1>6, <1>7

(* Without the budget: an execution that ends never queues its job again,  *)
(* and never leaves it running.                                            *)
LEMMA OutcomesQueued ==
  ASSUME NEW st \in JobStates, NEW r \in Nat, NEW out \in Outcomes(st, r)
  PROVE  /\ out.status # "running"
         /\ out.status = "queued" => st = "queued"
         /\ st \in {"completed", "cancelled"} => out.status = st
<1> DEFINE once == HandleFailure(st, r)
<1> DEFINE twice == HandleFailure(once.status, once.retries)
<1>1. /\ once.status \in JobStates /\ once.retries \in Nat
      /\ once.status \in {st, "waiting_retry", "failed"}
      /\ st \in {"queued", "completed", "cancelled", "failed"} => once.status = st
      /\ st = "running" => once.status # "running"
  BY HandleFailureFacts
<1> HIDE DEF once
<1>2. /\ twice.status \in {once.status, "waiting_retry", "failed"}
      /\ once.status \in {"queued", "completed", "cancelled", "failed"} =>
           twice.status = once.status
  BY <1>1, HandleFailureFacts
<1> HIDE DEF twice
<1>3. \/ out.status = "completed" /\ CanMove(st, "completed")
      \/ out = once
      \/ out = twice
  BY DEF Outcomes, once, twice
<1>4. CanMove(st, "completed") => st = "running"
  BY DEF CanMove, JobTransitions, JobStates
<1> QED BY <1>1, <1>2, <1>3, <1>4

(* The job a thread holds is in a state of the table. *)
LEMMA ThreadJob ==
  ASSUME TypeOK, NEW t \in Threads, thread[t].at # "none"
  PROVE  /\ thread[t].job \in Jobs
         /\ status[thread[t].job] \in JobStates
         /\ retries[thread[t].job] \in Nat
  BY DEF TypeOK, Known

-----------------------------------------------------------------------------
LEMMA StrandedStep == TypeOK /\ NoStrandedJob /\ [Next]_vars => NoStrandedJob'
<1> SUFFICES ASSUME TypeOK, NoStrandedJob, [Next]_vars,
                    NEW k \in Jobs, status'[k] = "queued"
             PROVE  heap'[k] > 0 \/ \E u \in Threads : Carries(u, k)'
  BY DEF NoStrandedJob
<1> USE DEF Carries
<1>0. status[k] = "queued" => heap[k] > 0 \/ \E u \in Threads : Carries(u, k)
  BY DEF NoStrandedJob
<1>1. ASSUME NEW j \in Jobs, NEW rec \in BOOLEAN, NEW isDue \in BOOLEAN,
             NEW par \in Jobs \cup {NoJob}, Enqueue(j, rec, isDue, par), UNCHANGED thread
      PROVE  heap'[k] > 0 \/ \E u \in Threads : Carries(u, k)'
  BY <1>0, <1>1 DEF Enqueue, TypeOK
<1>2. ASSUME NEW j \in Jobs, Cancel(j)
      PROVE  heap'[k] > 0 \/ \E u \in Threads : Carries(u, k)'
  BY <1>0, <1>2 DEF Cancel, TypeOK, poolVars
<1>3. ASSUME NEW j \in Jobs, Requeue(j)
      PROVE  heap'[k] > 0 \/ \E u \in Threads : Carries(u, k)'
  BY <1>0, <1>3 DEF Requeue, TypeOK, poolVars
<1>4. ASSUME NEW d \in Dispatchers, NEW t \in Threads, NEW j \in Jobs, Dispatch(d, t, j)
      PROVE  heap'[k] > 0 \/ \E u \in Threads : Carries(u, k)'
  <2>1. CASE k = j
    BY <1>4, <2>1 DEF Dispatch, TypeOK
  <2>2. CASE k # j
    <3>1. heap'[k] = heap[k] /\ status[k] = "queued"
      BY <1>4, <2>2 DEF Dispatch, TypeOK, jobVars
    <3>2. ASSUME NEW u \in Threads, Carries(u, k) PROVE Carries(u, k)'
      BY <1>4, <3>2 DEF Dispatch, TypeOK
    <3> QED BY <1>0, <3>1, <3>2
  <2> QED BY <2>1, <2>2
<1>5. ASSUME NEW t \in Threads, ThreadStart(t)
      PROVE  heap'[k] > 0 \/ \E u \in Threads : Carries(u, k)'
  <2> DEFINE j == thread[t].job
  <2>1. j \in Jobs /\ status[j] \in JobStates
    BY <1>5, ThreadJob DEF ThreadStart
  <2>2. k # j /\ status[k] = "queued"
    BY <1>5, <2>1 DEF ThreadStart, TypeOK, CanMove, JobTransitions
  <2>3. ASSUME NEW u \in Threads, Carries(u, k) PROVE Carries(u, k)'
    BY <1>5, <2>2, <2>3 DEF ThreadStart, TypeOK
  <2> QED BY <1>0, <1>5, <2>2, <2>3 DEF ThreadStart
<1>6. ASSUME NEW t \in Threads, ThreadFinish(t)
      PROVE  heap'[k] > 0 \/ \E u \in Threads : Carries(u, k)'
  <2> DEFINE j == thread[t].job
  <2>1. j \in Jobs /\ status[j] \in JobStates /\ retries[j] \in Nat
    BY <1>6, ThreadJob DEF ThreadFinish
  <2>2. PICK out \in Outcomes(status[j], retries[j]) :
          status' = [status EXCEPT ![j] = out.status]
    BY <1>6 DEF ThreadFinish
  <2>3. out.status = "queued" => status[j] = "queued"
    BY <2>1, OutcomesQueued
  <2> HIDE DEF j
  <2>4. status[k] = "queued"
    BY <2>1, <2>2, <2>3 DEF TypeOK
  <2>5. ASSUME NEW u \in Threads, Carries(u, k) PROVE Carries(u, k)'
    BY <1>6, <2>5 DEF ThreadFinish, TypeOK
  <2> QED BY <1>0, <1>6, <2>4, <2>5 DEF ThreadFinish
<1>7. CASE UNCHANGED <<status, retries, requeues, heap, thread>>
  BY <1>0, <1>7
<1> QED
  BY <1>1, <1>2, <1>3, <1>4, <1>5, <1>6, <1>7, StepEffects DEF Moves

(* No queued job is ever out of reach of the dispatchers. *)
THEOREM NeverStranded == Spec => []NoStrandedJob
<1>1. Init => NoStrandedJob
  BY DEF Init, NoStrandedJob
<1> QED
  BY <1>1, StrandedStep, TypeCorrect, PTL DEF Spec

-----------------------------------------------------------------------------
LEMMA ExecutorStep == TypeOK /\ RunningHasExecutor /\ [Next]_vars => RunningHasExecutor'
<1> SUFFICES ASSUME TypeOK, RunningHasExecutor, [Next]_vars,
                    NEW k \in Jobs, status'[k] = "running"
             PROVE  \E u \in Threads : Executes(u, k)'
  BY DEF RunningHasExecutor
<1> USE DEF Executes
<1>0. status[k] = "running" => \E u \in Threads : Executes(u, k)
  BY DEF RunningHasExecutor
<1>1. ASSUME NEW j \in Jobs, NEW rec \in BOOLEAN, NEW isDue \in BOOLEAN,
             NEW par \in Jobs \cup {NoJob}, Enqueue(j, rec, isDue, par), UNCHANGED thread
      PROVE  \E u \in Threads : Executes(u, k)'
  BY <1>0, <1>1 DEF Enqueue, TypeOK
<1>2. ASSUME NEW j \in Jobs, Cancel(j) \/ Requeue(j)
      PROVE  \E u \in Threads : Executes(u, k)'
  BY <1>0, <1>2 DEF Cancel, Requeue, TypeOK, poolVars
<1>3. ASSUME NEW d \in Dispatchers, NEW t \in Threads, NEW j \in Jobs, Dispatch(d, t, j)
      PROVE  \E u \in Threads : Executes(u, k)'
  <2>1. ASSUME NEW u \in Threads, Executes(u, k) PROVE Executes(u, k)'
    BY <1>3, <2>1 DEF Dispatch, TypeOK
  <2> QED BY <1>0, <1>3, <2>1 DEF Dispatch, jobVars
<1>4. ASSUME NEW t \in Threads, ThreadStart(t)
      PROVE  \E u \in Threads : Executes(u, k)'
  <2>1. thread[t].job \in Jobs
    BY <1>4, ThreadJob DEF ThreadStart
  <2>2. ASSUME NEW u \in Threads, Executes(u, k) PROVE Executes(u, k)'
    BY <1>4, <2>2 DEF ThreadStart, TypeOK
  <2>3. CASE status[k] = "running"
    BY <1>0, <2>2, <2>3
  <2>4. CASE status[k] # "running"
    <3>1. k = thread[t].job /\ thread' = [thread EXCEPT ![t].at = "executing"]
      BY <1>4, <2>1, <2>4 DEF ThreadStart, TypeOK
    <3> QED BY <3>1 DEF TypeOK, ThreadType
  <2> QED BY <2>3, <2>4
<1>5. ASSUME NEW t \in Threads, ThreadFinish(t)
      PROVE  \E u \in Threads : Executes(u, k)'
  <2> DEFINE j == thread[t].job
  <2>1. j \in Jobs /\ status[j] \in JobStates /\ retries[j] \in Nat
    BY <1>5, ThreadJob DEF ThreadFinish
  <2>2. PICK out \in Outcomes(status[j], retries[j]) :
          status' = [status EXCEPT ![j] = out.status]
    BY <1>5 DEF ThreadFinish
  <2>3. out.status # "running"
    BY <2>1, OutcomesQueued
  <2>4. k # j /\ status[k] = "running"
    <3> HIDE DEF j
    <3> QED BY <2>1, <2>2, <2>3 DEF TypeOK
  <2>5. ASSUME NEW u \in Threads, Executes(u, k) PROVE Executes(u, k)'
    BY <1>5, <2>4, <2>5 DEF ThreadFinish, TypeOK
  <2> QED BY <1>0, <2>4, <2>5
<1>6. CASE UNCHANGED <<status, retries, requeues, heap, thread>>
  BY <1>0, <1>6
<1> QED
  BY <1>1, <1>2, <1>3, <1>4, <1>5, <1>6, StepEffects DEF Moves

(* A running job is always being executed by a thread. *)
THEOREM RunningIsExecuted == Spec => []RunningHasExecutor
<1>1. Init => RunningHasExecutor
  BY DEF Init, RunningHasExecutor
<1> QED
  BY <1>1, ExecutorStep, TypeCorrect, PTL DEF Spec

-----------------------------------------------------------------------------
LEMMA BudgetStep == TypeOK /\ RetryBudget /\ [Next]_vars => RetryBudget'
<1> DEFINE Within(k) == /\ status[k] = "waiting_retry" => retries[k] <= MaxRetries
                        /\ status[k] = "failed" => retries[k] > MaxRetries
<1> SUFFICES ASSUME TypeOK, RetryBudget, [Next]_vars, NEW k \in Jobs PROVE Within(k)'
  BY DEF RetryBudget
<1>0. Within(k) /\ status[k] \in JobStates \cup {"none"} /\ retries[k] \in Nat
  BY DEF RetryBudget, TypeOK
<1>1. ASSUME NEW j \in Jobs, NEW rec \in BOOLEAN, NEW isDue \in BOOLEAN,
             NEW par \in Jobs \cup {NoJob}, Enqueue(j, rec, isDue, par)
      PROVE  Within(k)'
  BY <1>0, <1>1 DEF Enqueue, TypeOK
<1>2. ASSUME NEW j \in Jobs, Cancel(j) \/ Requeue(j) PROVE Within(k)'
  BY <1>0, <1>2 DEF Cancel, Requeue, TypeOK
<1>3. ASSUME NEW d \in Dispatchers, NEW t \in Threads, NEW j \in Jobs, Dispatch(d, t, j)
      PROVE  Within(k)'
  BY <1>0, <1>3 DEF Dispatch, jobVars
<1>4. ASSUME NEW t \in Threads, ThreadStart(t) PROVE Within(k)'
  <2>1. thread[t].job \in Jobs
    BY <1>4, ThreadJob DEF ThreadStart
  <2> QED BY <1>0, <1>4, <2>1 DEF ThreadStart, TypeOK
<1>5. ASSUME NEW t \in Threads, ThreadFinish(t) PROVE Within(k)'
  <2> DEFINE j == thread[t].job
  <2>1. j \in Jobs /\ status[j] \in JobStates /\ retries[j] \in Nat
    BY <1>5, ThreadJob DEF ThreadFinish
  <2>2. PICK out \in Outcomes(status[j], retries[j]) :
          /\ status'  = [status EXCEPT ![j] = out.status]
          /\ retries' = [retries EXCEPT ![j] = out.retries]
    BY <1>5 DEF ThreadFinish
  <2>3. /\ out.status = "waiting_retry" => out.retries <= MaxRetries
        /\ out.status = "failed" => out.retries > MaxRetries
    <3>1. /\ status[j] = "waiting_retry" => retries[j] <= MaxRetries
          /\ status[j] = "failed" => retries[j] > MaxRetries
      BY <2>1 DEF RetryBudget
    <3> QED BY <2>1, <3>1, OutcomesFacts
  <2> HIDE DEF j
  <2> QED BY <1>0, <2>1, <2>2, <2>3 DEF TypeOK
<1>6. CASE UNCHANGED <<status, retries, requeues, heap, thread>>
  BY <1>0, <1>6
<1> QED
  BY <1>1, <1>2, <1>3, <1>4, <1>5, <1>6, StepEffects DEF Moves

(* Waiting jobs have retries left and failed jobs have none, in every      *)
(* interleaving of executions of the same job.                             *)
THEOREM RetriesWithinBudget == Spec => []RetryBudget
<1>1. Init => RetryBudget
  BY DEF Init, RetryBudget
<1> QED
  BY <1>1, BudgetStep, TypeCorrect, PTL DEF Spec

-----------------------------------------------------------------------------
LEMMA TerminalStep ==
  ASSUME TypeOK, [Next]_vars, NEW k \in Jobs
  PROVE  /\ status[k] = "completed" => status'[k] = "completed"
         /\ status[k] = "cancelled" /\ status'[k] # "cancelled" =>
              status'[k] = "queued" /\ requeues'[k] = requeues[k] + 1
<1> DEFINE Sticks == /\ status[k] = "completed" => status'[k] = "completed"
                     /\ status[k] = "cancelled" /\ status'[k] # "cancelled" =>
                          status'[k] = "queued" /\ requeues'[k] = requeues[k] + 1
<1>1. ASSUME NEW j \in Jobs, NEW rec \in BOOLEAN, NEW isDue \in BOOLEAN,
             NEW par \in Jobs \cup {NoJob}, Enqueue(j, rec, isDue, par)
      PROVE  Sticks
  BY <1>1 DEF Enqueue, TypeOK
<1>2. ASSUME NEW j \in Jobs, Cancel(j) \/ Requeue(j) PROVE Sticks
  BY <1>2 DEF Cancel, Requeue, TypeOK, CanMove, JobTransitions, Terminal
<1>3. ASSUME NEW d \in Dispatchers, NEW t \in Threads, NEW j \in Jobs, Dispatch(d, t, j)
      PROVE  Sticks
  BY <1>3 DEF Dispatch, jobVars
<1>4. ASSUME NEW t \in Threads, ThreadStart(t) PROVE Sticks
  <2>1. thread[t].job \in Jobs
    BY <1>4, ThreadJob DEF ThreadStart
  <2> QED BY <1>4, <2>1 DEF ThreadStart, TypeOK, CanMove, JobTransitions
<1>5. ASSUME NEW t \in Threads, ThreadFinish(t) PROVE Sticks
  <2> DEFINE j == thread[t].job
  <2>1. j \in Jobs /\ status[j] \in JobStates /\ retries[j] \in Nat
    BY <1>5, ThreadJob DEF ThreadFinish
  <2>2. PICK out \in Outcomes(status[j], retries[j]) :
          status' = [status EXCEPT ![j] = out.status]
    BY <1>5 DEF ThreadFinish
  <2>3. status[j] \in {"completed", "cancelled"} => out.status = status[j]
    BY <2>1, OutcomesQueued
  <2> HIDE DEF j
  <2> QED BY <2>1, <2>2, <2>3 DEF TypeOK
<1>6. CASE UNCHANGED <<status, retries, requeues, heap, thread>>
  BY <1>6
<1> QED
  BY <1>1, <1>2, <1>3, <1>4, <1>5, <1>6, StepEffects DEF Moves

(* Completed jobs stay completed and cancelled ones leave that state by    *)
(* requeue_failed only, whatever late threads report.                      *)
THEOREM TerminalJobsStick == Spec => TerminalSticks
<1>1. TypeOK /\ [Next]_vars =>
        [\A j \in Jobs :
           /\ status[j] = "completed" => status'[j] = "completed"
           /\ status[j] = "cancelled" /\ status'[j] # "cancelled" =>
                status'[j] = "queued" /\ requeues'[j] = requeues[j] + 1]_vars
  BY TerminalStep
<1> QED
  BY <1>1, TypeCorrect, PTL DEF Spec, TerminalSticks

-----------------------------------------------------------------------------
LEMMA TokenStep == TypeOK /\ OneToken /\ [Next]_vars => OneToken'
<1> DEFINE Alone(k) == \A t, u \in Threads : Holds(t, k) /\ Holds(u, k) => t = u
<1> DEFINE Token(k) ==
      /\ status[k] = "none" => heap[k] = 0
      /\ requeues[k] = 0 => /\ heap[k] <= 1
                            /\ heap[k] = 1 => \A t \in Threads : ~Holds(t, k)
                            /\ Alone(k)
<1> SUFFICES ASSUME TypeOK, OneToken, [Next]_vars, NEW k \in Jobs PROVE Token(k)'
  BY DEF OneToken
<1>0. Token(k) /\ heap[k] \in Nat /\ requeues[k] \in Nat
  BY DEF OneToken, TypeOK
<1> USE DEF Holds
<1>1. ASSUME NEW j \in Jobs, NEW rec \in BOOLEAN, NEW isDue \in BOOLEAN,
             NEW par \in Jobs \cup {NoJob}, Enqueue(j, rec, isDue, par), UNCHANGED thread
      PROVE  Token(k)'
  <2>1. CASE k = j
    <3>1. heap[k] = 0 /\ \A t \in Threads : ~Holds(t, k)
      BY <1>0, <1>1, <2>1 DEF Enqueue, TypeOK, Known
    <3> QED BY <1>1, <2>1, <3>1 DEF Enqueue, TypeOK
  <2>2. CASE k # j
    BY <1>0, <1>1, <2>2 DEF Enqueue, TypeOK
  <2> QED BY <2>1, <2>2
<1>2. ASSUME NEW j \in Jobs, Cancel(j) PROVE Token(k)'
  BY <1>0, <1>2 DEF Cancel, TypeOK, poolVars
<1>3. ASSUME NEW j \in Jobs, Requeue(j) PROVE Token(k)'
  BY <1>0, <1>3 DEF Requeue, TypeOK, poolVars
<1>4. ASSUME NEW d \in Dispatchers, NEW t \in Threads, NEW j \in Jobs, Dispatch(d, t, j)
      PROVE  Token(k)'
  <2>1. CASE k = j
    <3>1. heap[k] > 0 /\ status[k] = "queued" /\ heap'[k] = heap[k] - 1
          /\ status' = status /\ requeues' = requeues
      BY <1>4, <2>1 DEF Dispatch, IsNext, Ready, TypeOK, jobVars
    <3>2. ASSUME requeues[k] = 0
          PROVE  heap'[k] = 0 /\ \A u \in Threads : Holds(u, k)' => u = t
      <4>1. heap[k] = 1 /\ \A u \in Threads : ~Holds(u, k)
        BY <1>0, <3>1, <3>2
      <4> QED BY <1>4, <3>1, <4>1 DEF Dispatch, TypeOK
    <3> QED BY <3>1, <3>2
  <2>2. CASE k # j
    <3>1. heap'[k] = heap[k] /\ status' = status /\ requeues' = requeues
      BY <1>4, <2>2 DEF Dispatch, TypeOK, jobVars
    <3>2. ASSUME NEW u \in Threads, Holds(u, k)' PROVE Holds(u, k)
      BY <1>4, <2>2, <3>2 DEF Dispatch, TypeOK
    <3> QED BY <1>0, <3>1, <3>2
  <2> QED BY <2>1, <2>2
<1>5. ASSUME NEW t \in Threads, ThreadStart(t) \/ ThreadFinish(t) PROVE Token(k)'
  <2>1. thread[t].job \in Known
    BY <1>5 DEF ThreadStart, ThreadFinish, TypeOK
  <2>2. heap' = heap /\ requeues' = requeues
    BY <1>5 DEF ThreadStart, ThreadFinish
  <2>3. ASSUME NEW u \in Threads, Holds(u, k)' PROVE Holds(u, k)
    <3>1. \/ thread' = [thread EXCEPT ![t] = Idle]
          \/ thread' = [thread EXCEPT ![t].at = "executing"] /\ thread[t].at # "none"
      BY <1>5 DEF ThreadStart, ThreadFinish
    <3>2. thread[t] \in ThreadType /\ thread[u] \in ThreadType
      BY DEF TypeOK
    <3> QED BY <2>3, <3>1, <3>2 DEF TypeOK, Idle, ThreadType
  <2>4. status'[k] = "none" => status[k] = "none"
    <3> DEFINE j == thread[t].job
    <3>1. j \in Jobs /\ status[j] \in JobStates /\ retries[j] \in Nat
      BY <1>5, ThreadJob DEF ThreadStart, ThreadFinish
    <3>2. \E st \in JobStates : status' = [status EXCEPT ![j] = st]
      <4>1. CASE ThreadStart(t)
        <5>1. \/ status' = [status EXCEPT ![j] = "running"]
              \/ status' = [status EXCEPT ![j] = status[j]]
          BY <4>1 DEF ThreadStart, TypeOK
        <5> QED BY <3>1, <5>1 DEF JobStates
      <4>2. CASE ThreadFinish(t)
        <5>1. PICK out \in Outcomes(status[j], retries[j]) :
                status' = [status EXCEPT ![j] = out.status]
          BY <4>2 DEF ThreadFinish
        <5>2. out.status \in JobStates
          BY <3>1, OutcomesType
        <5> QED BY <5>1, <5>2
      <4> QED BY <1>5, <4>1, <4>2
    <3> HIDE DEF j
    <3> QED BY <3>1, <3>2 DEF TypeOK, JobStates
  <2> QED BY <1>0, <2>2, <2>3, <2>4
<1>6. CASE UNCHANGED <<status, retries, requeues, heap, thread>>
  BY <1>0, <1>6
<1> QED
  BY <1>1, <1>2, <1>3, <1>4, <1>5, <1>6, StepEffects DEF Moves

(* At most one thread executes a job that nobody has requeued: OneToken    *)
(* is the inductive reason.                                                *)
THEOREM ExecutedOnce == Spec => []SingleExecution
<1>1. Init => OneToken
  BY DEF Init, OneToken, Holds, Idle
<1>2. OneToken => SingleExecution
  BY DEF OneToken, SingleExecution, Holds, Executes
<1> QED
  BY <1>1, <1>2, TokenStep, TypeCorrect, PTL DEF Spec

-----------------------------------------------------------------------------
(* Successors of recurring jobs.                                           *)

(* The dispatchers that run dispatch_loop, one at most.                    *)
Loops   == {d \in Dispatchers : disp[d].phase # "off" /\ disp[d].kind = "loop"}
OneLoop == \A d, e \in Loops : d = e

LoopPhases == {"retries", "iterating", "recurring", "clearing"}

(* A job with a successor is completed and no longer recurring, or a loop  *)
(* is about to mark it so.                                                 *)
Marked(j) ==
  /\ status[j] = "completed"
  /\ recurring[j] => \E d \in Dispatchers : disp[d].phase = "clearing" /\ disp[d].job = j

SuccessorInv ==
  /\ \A d \in Dispatchers : disp[d].phase \in LoopPhases => disp[d].kind = "loop"
  /\ \A n \in Jobs : status[n] = "none" => parent[n] = NoJob
  /\ \A n, j \in Jobs : parent[n] = j => Marked(j)
  /\ OneSuccessor

(* No step forgets a job. *)
LEMMA KnownStays ==
  ASSUME TypeOK, [Next]_vars, NEW k \in Jobs, status[k] # "none"
  PROVE  status'[k] # "none"
<1>1. ASSUME NEW j \in Jobs, NEW rec \in BOOLEAN, NEW isDue \in BOOLEAN,
             NEW par \in Jobs \cup {NoJob}, Enqueue(j, rec, isDue, par)
      PROVE  status'[k] # "none"
  BY <1>1 DEF Enqueue, TypeOK
<1>2. ASSUME NEW j \in Jobs, Cancel(j) \/ Requeue(j) PROVE status'[k] # "none"
  BY <1>2 DEF Cancel, Requeue, TypeOK
<1>3. ASSUME NEW d \in Dispatchers, NEW t \in Threads, NEW j \in Jobs, Dispatch(d, t, j)
      PROVE  status'[k] # "none"
  BY <1>3 DEF Dispatch, jobVars
<1>4. ASSUME NEW t \in Threads, ThreadStart(t) PROVE status'[k] # "none"
  <2>1. thread[t].job \in Jobs
    BY <1>4, ThreadJob DEF ThreadStart
  <2> QED BY <1>4, <2>1 DEF ThreadStart, TypeOK
<1>5. ASSUME NEW t \in Threads, ThreadFinish(t) PROVE status'[k] # "none"
  <2> DEFINE j == thread[t].job
  <2>1. j \in Jobs /\ status[j] \in JobStates /\ retries[j] \in Nat
    BY <1>5, ThreadJob DEF ThreadFinish
  <2>2. PICK out \in Outcomes(status[j], retries[j]) :
          status' = [status EXCEPT ![j] = out.status]
    BY <1>5 DEF ThreadFinish
  <2>3. out.status \in JobStates
    BY <2>1, OutcomesType
  <2> HIDE DEF j
  <2> QED BY <2>1, <2>2, <2>3 DEF TypeOK, JobStates
<1>6. CASE UNCHANGED <<status, retries, requeues, heap, thread>>
  BY <1>6
<1> QED
  BY <1>1, <1>2, <1>3, <1>4, <1>5, <1>6, StepEffects DEF Moves

(* The steps that change a job's successor or its recurring mark; every    *)
(* other step leaves both, and the loops that are about to clear a mark.   *)
LEMMA SuccessorEffects ==
  ASSUME TypeOK, [Next]_vars
  PROVE  \/ \E j \in Jobs : Submit(j)
         \/ \E d \in Dispatchers : (\E j, n \in Jobs : SubmitNext(d, j, n)) \/ ClearRecurring(d)
         \/ /\ UNCHANGED <<parent, recurring>>
            /\ \A d \in Dispatchers :
                 /\ disp[d].phase = "clearing" => disp'[d] = disp[d]
                 /\ disp'[d].phase \in LoopPhases =>
                      disp'[d].kind = disp[d].kind /\ (disp[d].phase \in LoopPhases \/ disp[d].kind = "loop")
<1> DEFINE Apart == /\ UNCHANGED <<parent, recurring>>
                    /\ \A d \in Dispatchers :
                         /\ disp[d].phase = "clearing" => disp'[d] = disp[d]
                         /\ disp'[d].phase \in LoopPhases =>
                              disp'[d].kind = disp[d].kind
                                /\ (disp[d].phase \in LoopPhases \/ disp[d].kind = "loop")
<1> USE DEF LoopPhases
<1>0. ASSUME NEW d \in Dispatchers, NEW r, disp' = [disp EXCEPT ![d] = r],
             UNCHANGED <<parent, recurring>>, disp[d].phase # "clearing",
             r.phase \in LoopPhases =>
               r.kind = disp[d].kind /\ (disp[d].phase \in LoopPhases \/ disp[d].kind = "loop")
      PROVE  Apart
  BY <1>0 DEF TypeOK
<1>00. ASSUME UNCHANGED <<parent, recurring, disp>> PROVE Apart
  BY <1>00
<1>1. ASSUME NEW j \in Jobs, Cancel(j) \/ Requeue(j) \/ BecomeDue(j) PROVE Apart
  BY <1>1, <1>00 DEF Cancel, Requeue, BecomeDue
<1>2. ASSUME NEW d \in Dispatchers, Start(d) \/ Tick(d) PROVE Apart
  <2>1. PICK k \in {"loop", "tick"}, p \in {"entering", "call"} : disp' = [disp EXCEPT ![d] = At(p, k)]
    BY <1>2 DEF Start, Tick
  <2>2. disp[d].phase # "clearing" /\ UNCHANGED <<parent, recurring>>
    BY <1>2 DEF Start, Tick, jobVars
  <2> QED BY <1>0, <2>1, <2>2 DEF At
<1>3. ASSUME Stop \/ UNCHANGED vars PROVE Apart
  BY <1>3, <1>00 DEF Stop, vars, jobVars
<1>4. ASSUME NEW t \in Threads, ThreadStep(t) PROVE Apart
  BY <1>4, <1>00 DEF ThreadStep, ThreadStart, ThreadFinish
<1>5. ASSUME NEW d \in Dispatchers, NEW p, Goto(d, p), UNCHANGED <<parent, recurring>>,
             disp[d].phase # "clearing",
             p \in LoopPhases => disp[d].phase \in LoopPhases \/ disp[d].kind = "loop"
      PROVE  Apart
  <2>1. At(p, disp[d].kind).phase = p /\ At(p, disp[d].kind).kind = disp[d].kind
    BY DEF At
  <2> QED BY <1>5, <1>0, <2>1 DEF Goto
<1>6. ASSUME NEW d \in Dispatchers, EnterLoop(d) \/ LoopTop(d) \/ LoopDies(d) \/ EndRecurring(d)
      PROVE  Apart
  <2>1. disp[d].phase # "clearing" /\ UNCHANGED <<parent, recurring>>
    BY <1>6 DEF EnterLoop, LoopTop, LoopDies, EndRecurring, jobVars
  <2>2. \E p \in {"top", "call", "off"} : Goto(d, p)
    BY <1>6 DEF EnterLoop, LoopTop, LoopDies, EndRecurring
  <2> QED BY <1>5, <2>1, <2>2
<1>7. ASSUME NEW d \in Dispatchers, AfterDispatch(d), disp[d].phase # "clearing", UNCHANGED jobVars
      PROVE  Apart
  BY <1>5, <1>7 DEF AfterDispatch, jobVars
<1>8. ASSUME NEW d \in Dispatchers, CallDispatch(d) PROVE Apart
  <2>1. CASE running
    <3>1. /\ disp' = [disp EXCEPT ![d] = [disp[d] EXCEPT !.phase = "dispatch", !.worker = 1]]
          /\ disp[d].phase = "call" /\ UNCHANGED <<parent, recurring>>
      BY <1>8, <2>1 DEF CallDispatch, jobVars
    <3>2. [disp[d] EXCEPT !.phase = "dispatch", !.worker = 1].phase = "dispatch"
      BY DEF TypeOK, DispType
    <3> QED BY <1>0, <3>1, <3>2
  <2>2. CASE ~running
    BY <1>7, <1>8, <2>2 DEF CallDispatch
  <2> QED BY <2>1, <2>2
<1>9. ASSUME NEW d \in Dispatchers, SkipBusy(d) \/ \E t \in Threads, j \in Jobs : Dispatch(d, t, j)
      PROVE  Apart
  <2>1. /\ disp' = [disp EXCEPT ![d] = [disp[d] EXCEPT !.worker = @ + 1]]
        /\ disp[d].phase = "dispatch" /\ UNCHANGED <<parent, recurring>>
    BY <1>9 DEF SkipBusy, Dispatch, jobVars
  <2>2. [disp[d] EXCEPT !.worker = @ + 1].phase = "dispatch"
    BY <2>1 DEF TypeOK, DispType
  <2> QED BY <1>0, <2>1, <2>2
<1>10. ASSUME NEW d \in Dispatchers, EndDispatch(d) PROVE Apart
  BY <1>7, <1>10 DEF EndDispatch
<1>11. ASSUME NEW d \in Dispatchers, BeginRetries(d) PROVE Apart
  <2> DEFINE r == [disp[d] EXCEPT !.phase = "iterating", !.size = Cardinality(Known)]
  <2>1. disp' = [disp EXCEPT ![d] = r] /\ disp[d].phase = "retries" /\ UNCHANGED <<parent, recurring>>
    BY <1>11 DEF BeginRetries, jobVars
  <2>2. r.kind = disp[d].kind
    BY DEF TypeOK, DispType
  <2> HIDE DEF r
  <2> QED BY <1>0, <2>1, <2>2
<1>12. ASSUME NEW d \in Dispatchers, EndRetries(d) PROVE Apart
  BY <1>5, <1>12 DEF EndRetries
<1> HIDE DEF LoopPhases
<1> QED
  BY <1>1, <1>2, <1>3, <1>4, <1>6, <1>8, <1>9, <1>10, <1>11, <1>12
     DEF Next, CallerStep, DispatcherStep

LEMMA SuccessorStep == TypeOK /\ OneLoop /\ SuccessorInv /\ [Next]_vars => SuccessorInv'
<1> SUFFICES ASSUME TypeOK, OneLoop, SuccessorInv, [Next]_vars PROVE SuccessorInv'
  OBVIOUS
<1>0. /\ status \in [Jobs -> JobStates \cup {"none"}]
      /\ recurring \in [Jobs -> BOOLEAN]
      /\ parent \in [Jobs -> Jobs \cup {NoJob}]
      /\ disp \in [Dispatchers -> DispType]
  BY DEF TypeOK
<1>1. \A k \in Jobs : /\ status[k] # "none" => status'[k] # "none"
                      /\ status[k] = "completed" => status'[k] = "completed"
  BY KnownStays, TerminalStep
<1>2. ASSUME NEW j \in Jobs, Submit(j) PROVE SuccessorInv'
  <2>1. PICK rec \in BOOLEAN : /\ status[j] = "none" /\ parent' = [parent EXCEPT ![j] = NoJob]
                               /\ recurring' = [recurring EXCEPT ![j] = rec]
                               /\ disp' = disp
    BY <1>2 DEF Submit, Enqueue
  <2>2. parent' = parent
    BY <1>0, <2>1 DEF SuccessorInv
  <2>3. \A k \in Jobs : status[k] = "completed" => recurring'[k] = recurring[k]
    BY <1>0, <2>1
  <2>4. \A n, k \in Jobs : parent'[n] = k => Marked(k)'
    BY <1>1, <2>1, <2>2, <2>3 DEF SuccessorInv, Marked
  <2>5. \A n \in Jobs : status'[n] = "none" => parent'[n] = NoJob
    BY <1>1, <2>2 DEF SuccessorInv
  <2> QED
    BY <2>1, <2>2, <2>4, <2>5 DEF SuccessorInv, OneSuccessor
<1>3. ASSUME NEW d \in Dispatchers, NEW j \in Jobs, NEW n \in Jobs, SubmitNext(d, j, n)
      PROVE  SuccessorInv'
  <2>1. /\ disp[d].phase = "recurring" /\ recurring[j] /\ status[j] = "completed"
        /\ status[n] = "none" /\ n # j
        /\ parent' = [parent EXCEPT ![n] = j]
        /\ recurring' = [recurring EXCEPT ![n] = TRUE]
        /\ status' = [status EXCEPT ![n] = "queued"]
    BY <1>3 DEF SubmitNext, DueAgain, Enqueue
  <2>2. /\ \A e \in Dispatchers \ {d} : disp'[e] = disp[e]
        /\ disp'[d].phase = "clearing" /\ disp'[d].job = j /\ disp'[d].kind = disp[d].kind
    BY <1>0, <1>3 DEF SubmitNext, DispType
  <2>3. \A m \in Jobs : parent[m] # j
    <3>1. SUFFICES ASSUME NEW m \in Jobs, parent[m] = j PROVE FALSE
      OBVIOUS
    <3>2. PICK e \in Dispatchers : disp[e].phase = "clearing" /\ disp[e].job = j
      BY <2>1, <3>1 DEF SuccessorInv, Marked
    <3>3. d \in Loops /\ e \in Loops
      BY <2>1, <3>2 DEF SuccessorInv, LoopPhases, Loops
    <3> QED
      BY <2>1, <3>2, <3>3 DEF OneLoop
  <2>4. /\ \A m \in Jobs \ {n} : parent'[m] = parent[m]
        /\ parent'[n] = j
        /\ \A m \in Jobs : parent[m] # n
    BY <1>0, <2>1 DEF SuccessorInv, Marked
  <2>5. \A m \in Jobs : status'[m] = "none" => parent'[m] = NoJob
    BY <1>0, <1>1, <2>1, <2>4 DEF SuccessorInv
  <2>6. OneSuccessor'
    BY <1>0, <2>3, <2>4 DEF SuccessorInv, OneSuccessor
  <2>7. Marked(j)'
    BY <1>1, <2>1, <2>2 DEF Marked
  <2>8. \A m, k \in Jobs : parent'[m] = k => Marked(k)'
    <3>1. SUFFICES ASSUME NEW m \in Jobs, NEW k \in Jobs, parent'[m] = k PROVE Marked(k)'
      OBVIOUS
    <3>2. CASE m = n
      BY <2>4, <2>7, <3>1, <3>2
    <3>3. CASE m # n
      <4>1. parent[m] = k /\ Marked(k) /\ k # n
        BY <2>4, <3>1, <3>3 DEF SuccessorInv
      <4>2. recurring'[k] = recurring[k] /\ status'[k] = "completed"
        BY <1>0, <1>1, <2>1, <4>1 DEF Marked
      <4>3. \A e \in Dispatchers : disp[e].phase = "clearing" => disp'[e] = disp[e]
        BY <2>1, <2>2
      <4> QED
        BY <4>1, <4>2, <4>3 DEF Marked
    <3> QED
      BY <3>2, <3>3
  <2>9. \A e \in Dispatchers : disp'[e].phase \in LoopPhases => disp'[e].kind = "loop"
    BY <2>1, <2>2 DEF SuccessorInv, LoopPhases
  <2> QED
    BY <2>5, <2>6, <2>8, <2>9 DEF SuccessorInv
<1>4. ASSUME NEW d \in Dispatchers, ClearRecurring(d) PROVE SuccessorInv'
  <2>1. /\ disp[d].phase = "clearing" /\ disp[d].job \in Jobs
        /\ recurring' = [recurring EXCEPT ![disp[d].job] = FALSE]
        /\ UNCHANGED <<status, parent>>
    BY <1>4 DEF ClearRecurring, TypeOK, Known
  <2>2. /\ \A e \in Dispatchers \ {d} : disp'[e] = disp[e]
        /\ disp'[d].phase = "recurring" /\ disp'[d].kind = disp[d].kind
    BY <1>0, <1>4 DEF ClearRecurring, Goto, At
  <2>3. \A k \in Jobs : Marked(k) => Marked(k)'
    BY <1>0, <2>1, <2>2 DEF Marked
  <2>4. \A e \in Dispatchers : disp'[e].phase \in LoopPhases => disp'[e].kind = "loop"
    BY <2>1, <2>2 DEF SuccessorInv, LoopPhases
  <2> QED
    BY <2>1, <2>3, <2>4 DEF SuccessorInv, OneSuccessor
<1>5. ASSUME /\ UNCHANGED <<parent, recurring>>
             /\ \A d \in Dispatchers :
                  /\ disp[d].phase = "clearing" => disp'[d] = disp[d]
                  /\ disp'[d].phase \in LoopPhases =>
                       disp'[d].kind = disp[d].kind /\ (disp[d].phase \in LoopPhases \/ disp[d].kind = "loop")
      PROVE  SuccessorInv'
  <2>1. \A k \in Jobs : Marked(k) => Marked(k)'
    BY <1>1, <1>5 DEF Marked
  <2> QED
    BY <1>1, <1>5, <2>1 DEF SuccessorInv, OneSuccessor
<1> QED
  BY <1>2, <1>3, <1>4, <1>5, SuccessorEffects

(* _check_recurring: as long as one dispatch loop at most is alive, a      *)
(* recurring job never gets a second successor, whatever callers, ticks    *)
(* and job threads do between the submission of the successor and the      *)
(* statement that marks the original.                                      *)
THEOREM SucceededOnce == Spec /\ []OneLoop => []OneSuccessor
<1>1. Init => SuccessorInv
  <2>1. Init => \A d \in Dispatchers : disp[d].phase = "off"
    BY DEF Init, Off, At
  <2>2. Init => \A n \in Jobs : parent[n] = NoJob
    BY DEF Init
  <2> QED
    BY <2>1, <2>2, NoJobAssumption DEF SuccessorInv, OneSuccessor, LoopPhases
<1>2. SuccessorInv => OneSuccessor
  BY DEF SuccessorInv
<1> QED
  BY <1>1, <1>2, SuccessorStep, TypeCorrect, PTL DEF Spec

(* While start() has been called once at most there is one loop at most:   *)
(* a tick never becomes a loop and a loop that ended does not come back.   *)
LoopsStarted == /\ starts = 0 => Loops = {}
                /\ starts <= 1 => OneLoop

LEMMA LoopsStep ==
  ASSUME TypeOK, LoopsStarted, [Next]_vars
  PROVE  LoopsStarted'
<1>0. disp \in [Dispatchers -> DispType] /\ starts \in Nat
  BY DEF TypeOK
<1>1. ASSUME Loops' \subseteq Loops, starts' = starts PROVE LoopsStarted'
  BY <1>1 DEF LoopsStarted, OneLoop
<1>2. ASSUME NEW d \in Dispatchers, NEW r, disp' = [disp EXCEPT ![d] = r], starts' = starts,
             r.phase # "off" => r.kind = "tick" \/ (disp[d].phase # "off" /\ r.kind = disp[d].kind)
      PROVE  LoopsStarted'
  <2>1. Loops' \subseteq Loops
    BY <1>0, <1>2 DEF Loops
  <2> QED BY <1>1, <1>2, <2>1
<1>3. ASSUME UNCHANGED <<disp, starts>> PROVE LoopsStarted'
  BY <1>1, <1>3 DEF Loops
<1>4. ASSUME NEW d \in Dispatchers, NEW p, Goto(d, p), starts' = starts, disp[d].phase # "off"
      PROVE  LoopsStarted'
  <2>1. At(p, disp[d].kind).kind = disp[d].kind
    BY DEF At
  <2> QED BY <1>2, <1>4, <2>1 DEF Goto
<1>5. ASSUME NEW j \in Jobs, Submit(j) \/ Cancel(j) \/ Requeue(j) \/ BecomeDue(j) PROVE LoopsStarted'
  BY <1>3, <1>5 DEF Submit, Cancel, Requeue, BecomeDue
<1>6. ASSUME NEW d \in Dispatchers, Start(d) PROVE LoopsStarted'
  <2>1. /\ starts' = starts + 1 /\ disp' = [disp EXCEPT ![d] = At("entering", "loop")]
        /\ disp[d].phase = "off"
    BY <1>6 DEF Start
  <2>2. Loops' \subseteq Loops \cup {d}
    BY <1>0, <2>1 DEF Loops
  <2>3. starts' # 0 /\ (starts' <= 1 => starts = 0)
    BY <1>0, <2>1
  <2> QED
    BY <2>2, <2>3 DEF LoopsStarted, OneLoop
<1>7. ASSUME NEW d \in Dispatchers, Tick(d) PROVE LoopsStarted'
  <2>1. At("call", "tick").kind = "tick"
    BY DEF At
  <2>2. disp' = [disp EXCEPT ![d] = At("call", "tick")] /\ starts' = starts
    BY <1>7 DEF Tick
  <2> QED BY <1>2, <2>1, <2>2
<1>8. ASSUME NEW d \in Dispatchers, EnterLoop(d) \/ LoopTop(d) \/ LoopDies(d) \/ EndRecurring(d)
                                      \/ EndDispatch(d) \/ EndRetries(d) \/ ClearRecurring(d)
      PROVE  LoopsStarted'
  <2>1. disp[d].phase # "off" /\ starts' = starts
    BY <1>8 DEF EnterLoop, LoopTop, LoopDies, EndRecurring, EndDispatch, EndRetries, ClearRecurring
  <2>2. \E p \in {"top", "call", "off", "retries", "recurring"} : Goto(d, p)
    BY <1>8 DEF EnterLoop, LoopTop, LoopDies, EndRecurring, EndDispatch, EndRetries,
       ClearRecurring, AfterDispatch
  <2> QED BY <1>4, <2>1, <2>2
<1>9. ASSUME NEW d \in Dispatchers, CallDispatch(d) PROVE LoopsStarted'
  <2>1. disp[d].phase # "off" /\ starts' = starts
    BY <1>9 DEF CallDispatch
  <2>2. CASE running
    <3>1. disp' = [disp EXCEPT ![d] = [disp[d] EXCEPT !.phase = "dispatch", !.worker = 1]]
      BY <1>9, <2>2 DEF CallDispatch
    <3>2. [disp[d] EXCEPT !.phase = "dispatch", !.worker = 1].kind = disp[d].kind
      BY <1>0 DEF DispType
    <3> QED BY <1>2, <2>1, <3>1, <3>2
  <2>3. CASE ~running
    BY <1>4, <1>9, <2>1, <2>3 DEF CallDispatch, AfterDispatch
  <2> QED BY <2>2, <2>3
<1>10. ASSUME NEW d \in Dispatchers, SkipBusy(d) \/ \E t \in Threads, j \in Jobs : Dispatch(d, t, j)
       PROVE  LoopsStarted'
  <2>1. /\ disp' = [disp EXCEPT ![d] = [disp[d] EXCEPT !.worker = @ + 1]]
        /\ disp[d].phase # "off" /\ starts' = starts
    BY <1>10 DEF SkipBusy, Dispatch
  <2>2. [disp[d] EXCEPT !.worker = @ + 1].kind = disp[d].kind
    BY <1>0 DEF DispType
  <2> QED BY <1>2, <2>1, <2>2
<1>11. ASSUME NEW d \in Dispatchers, BeginRetries(d) PROVE LoopsStarted'
  <2> DEFINE r == [disp[d] EXCEPT !.phase = "iterating", !.size = Cardinality(Known)]
  <2>1. disp' = [disp EXCEPT ![d] = r] /\ disp[d].phase # "off" /\ starts' = starts
    BY <1>11 DEF BeginRetries
  <2>2. r.kind = disp[d].kind
    BY <1>0 DEF DispType
  <2> HIDE DEF r
  <2> QED BY <1>2, <2>1, <2>2
<1>12. ASSUME NEW d \in Dispatchers, NEW j \in Jobs, NEW n \in Jobs, SubmitNext(d, j, n)
       PROVE  LoopsStarted'
  <2>1. /\ disp' = [disp EXCEPT ![d] = [disp[d] EXCEPT !.phase = "clearing", !.job = j]]
        /\ disp[d].phase # "off" /\ starts' = starts
    BY <1>12 DEF SubmitNext
  <2>2. [disp[d] EXCEPT !.phase = "clearing", !.job = j].kind = disp[d].kind
    BY <1>0 DEF DispType
  <2> QED BY <1>2, <2>1, <2>2
<1>13. ASSUME NEW t \in Threads, ThreadStep(t) PROVE LoopsStarted'
  BY <1>3, <1>13 DEF ThreadStep, ThreadStart, ThreadFinish
<1>14. ASSUME Stop \/ UNCHANGED vars PROVE LoopsStarted'
  BY <1>3, <1>14 DEF Stop, vars
<1> QED
  BY <1>5, <1>6, <1>7, <1>8, <1>9, <1>10, <1>11, <1>12, <1>13, <1>14
     DEF Next, CallerStep, DispatcherStep

(* Scheduler.start: a scheduler that is started once has one loop, so its  *)
(* recurring jobs are succeeded once.                                      *)
THEOREM StartedOnceSucceededOnce ==
  ASSUME MaxStarts <= 1
  PROVE  Spec => []OneSuccessor
<1> DEFINE Bounded == starts <= MaxStarts
<1>1. Init => LoopsStarted /\ Bounded
  <2>1. Init => starts = 0 /\ \A d \in Dispatchers : disp[d].phase = "off"
    BY DEF Init, Off, At
  <2> QED BY <2>1, BoundsAssumption DEF LoopsStarted, OneLoop, Loops
<1>2. TypeOK /\ Bounded /\ [Next]_vars => Bounded'
  <2> SUFFICES ASSUME TypeOK, Bounded, [Next]_vars, starts' # starts
               PROVE  Bounded'
    OBVIOUS
  <2>1. \E d \in Dispatchers : Start(d)
    BY DEF Next, CallerStep, DispatcherStep, ThreadStep, vars, Submit, Cancel, Requeue, Tick, Stop,
       BecomeDue, EnterLoop, LoopTop, CallDispatch, SkipBusy, EndDispatch, Dispatch, BeginRetries,
       EndRetries, LoopDies, SubmitNext, ClearRecurring, EndRecurring, ThreadStart, ThreadFinish
  <2> QED BY <2>1, BoundsAssumption DEF Start, TypeOK
<1>3. LoopsStarted /\ Bounded /\ TypeOK => OneLoop
  BY BoundsAssumption DEF LoopsStarted, TypeOK
<1>4. TypeOK /\ LoopsStarted /\ [Next]_vars => LoopsStarted'
  BY LoopsStep
<1> HIDE DEF Bounded
<1>5. Spec => []OneLoop
  BY <1>1, <1>2, <1>3, <1>4, TypeCorrect, PTL DEF Spec
<1> QED
  BY <1>5, SucceededOnce, PTL
==============================================================================
