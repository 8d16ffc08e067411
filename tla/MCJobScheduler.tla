--------------------------- MODULE MCJobScheduler ---------------------------
(* Small instances of JobScheduler. *)
EXTENDS JobScheduler, TLC

CONSTANTS j1, j2, j3, t1, t2, d1, d2

TwoJobs   == {j1, j2}
ThreeJobs == {j1, j2, j3}
OneThread == {t1}
TwoThreads == {t1, t2}
OneDispatcher  == {d1}
TwoDispatchers == {d1, d2}

SamePriority == [j \in Jobs |-> 2]
MixedPriority == [j \in Jobs |-> IF j = j2 THEN 0 ELSE 2]

(* Threads and dispatchers are interchangeable. *)
ThreadSymmetry == Permutations(Threads) \cup Permutations(Dispatchers)
=============================================================================
