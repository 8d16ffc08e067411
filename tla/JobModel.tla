------------------------------- MODULE JobModel -------------------------------
(***************************************************************************)
(* The life cycle of a durable job (core/jobs.py): its states, the table   *)
(* of legal transitions and the terminal states.  Every component that     *)
(* moves a job through Job.transition() consults JobTransitions.           *)
(***************************************************************************)
EXTENDS Naturals

(* JobState: the six states of a job. *)
JobStates == {"queued", "running", "waiting_retry", "completed", "failed", "cancelled"}

(* JobPriority: urgent, high, normal, background. *)
JobPriorities == 0..3

(* Slip: the table that _check_retries seems to expect. *)
TransitionsToQueued ==
  [queued        |-> {"running", "cancelled"},
   running       |-> {"completed", "failed", "waiting_retry", "cancelled"},
   waiting_retry |-> {"queued", "running", "cancelled", "failed"},
   completed     |-> {},
   failed        |-> {"queued"},
   cancelled     |-> {"queued"}]

(* JOB_TRANSITIONS: the states transition() accepts from each state. *)
JobTransitions ==
  [queued        |-> {"running", "cancelled"},
   running       |-> {"completed", "failed", "waiting_retry", "cancelled"},
   waiting_retry |-> {"running", "cancelled", "failed"},
   completed     |-> {},
   failed        |-> {"queued"},
   cancelled     |-> {"queued"}]

(* The test transition() makes before it assigns the new state; when it    *)
(* fails the call raises ValueError and the job is unchanged.              *)
CanMove(from, to) == to \in JobTransitions[from]

(* Job.is_terminal *)
Terminal == {"completed", "failed", "cancelled"}
===============================================================================
