----------------------------- MODULE MCJobQueue -----------------------------
(* One thread of the API, and a loop and a tick that call next_job. *)
EXTENDS JobQueue, TLC
CONSTANTS api, loop, tick
Api  == {api}
LoopAndTick == {loop, tick}
Symmetric == Permutations(Poppers)
=============================================================================
