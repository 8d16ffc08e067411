---------------------------- MODULE JobQueue_proofs ----------------------------
(***************************************************************************)
(* Proofs about JobQueue: the shape of its variables; that two poppers     *)
(* that share the heap lose no queued job and take none before a more      *)
(* urgent one, for any number of jobs, poppers, savers and restarts; and   *)
(* that what a single saver has acknowledged survives restarts between     *)
(* calls.                                                                  *)
(***************************************************************************)
EXTENDS JobQueue, TLAPS

SaveType == [at : {"idle", "changed", "built", "opened"},
             op : {"submit", "cancel", "requeue"},
             job : Jobs \cup {Nothing}, data : States \cup {Nothing}]
PopType == [at : {"out", "test", "pop", "restore"}, skipped : [Jobs -> Nat],
            result : Jobs \cup {Nothing}, atEntry : SUBSET Jobs]

(* A saver in a call has a job, and a snapshot from the time it is built.  *)
SavesJobs ==
  \A c \in Savers :
    /\ save[c].at # "idle" => save[c].job \in Jobs
    /\ save[c].at \in {"built", "opened"} => save[c].data \in States

Typed == TypeOK /\ SavesJobs

LEMMA JobsAreNumbers == /\ Jobs \subseteq Nat /\ Nothing \notin Jobs
                        /\ \A i, j \in Jobs : i \in Nat /\ (i <= j \/ j < i)
  BY BoundsAssumption, NothingAssumption DEF Jobs

LEMMA Shapes ==
  /\ Empty \in [Jobs -> Nat]
  /\ Idle \in SaveType /\ Idle.at = "idle"
  /\ Out \in PopType /\ Out.at = "out" /\ Out.skipped = Empty /\ Out.result = Nothing /\ Out.atEntry = {}
  BY DEF Empty, Idle, Out, SaveType, PopType

(* How a popper's record may change. *)
LEMMA PopRecords ==
  ASSUME NEW p \in PopType, NEW a \in {"out", "test", "pop", "restore"}, NEW j \in Jobs
  PROVE  /\ [p EXCEPT !.at = a] \in PopType
         /\ [p EXCEPT !.at = a, !.result = j] \in PopType
         /\ [p EXCEPT !.at = a, !.skipped[j] = @ + 1] \in PopType
         /\ p.skipped[j] > 0 => [p EXCEPT !.skipped[j] = @ - 1] \in PopType
<1>1. p.skipped \in [Jobs -> Nat]
  BY DEF PopType
<1>2. /\ [p.skipped EXCEPT ![j] = @ + 1] \in [Jobs -> Nat]
      /\ p.skipped[j] > 0 => [p.skipped EXCEPT ![j] = @ - 1] \in [Jobs -> Nat]
  BY <1>1
<1>3. QED
  BY <1>2 DEF PopType

LEMMA LoadedType ==
  ASSUME file \in States \cup {Nothing, Torn}
  PROVE  Loaded \in States /\ HeapOf(Loaded) \in [Jobs -> Nat]
<1>1. Loaded \in States
  BY DEF Loaded, States
<1>2. QED
  BY <1>1 DEF HeapOf

LEMMA InitType == Init => Typed
<1> SUFFICES ASSUME Init PROVE Typed
  OBVIOUS
<1>1. /\ status \in States /\ heap \in [Jobs -> Nat]
      /\ late \subseteq Jobs /\ executing \subseteq Jobs
      /\ file \in States \cup {Nothing, Torn}
      /\ accepted \subseteq Jobs /\ cancelled \subseteq Jobs /\ dropped \subseteq Jobs
      /\ requeued \subseteq Jobs /\ crashes \in 0..MaxCrashes
  BY BoundsAssumption DEF Init, States, Empty
<1>2. save \in [Savers -> SaveType] /\ pop \in [Poppers -> PopType] /\ SavesJobs
  BY Shapes DEF Init, SavesJobs
<1>3. QED
  BY <1>1, <1>2 DEF Typed, TypeOK, SaveType, PopType

LEMMA NextType == Typed /\ [Next]_vars => Typed'
<1> SUFFICES ASSUME Typed, [Next]_vars PROVE Typed'
  OBVIOUS
<1> USE DEF Typed, TypeOK, SaveType, PopType
<1>0. /\ save \in [Savers -> SaveType] /\ pop \in [Poppers -> PopType]
      /\ status \in [Jobs -> JobStates \cup {"none"}]
  BY DEF States
<1>1. ASSUME NEW c \in Savers, NEW op \in {"submit", "cancel", "requeue"}, NEW j \in Jobs, Begin(c, op, j)
      PROVE  save' \in [Savers -> SaveType] /\ SavesJobs'
  BY <1>1 DEF Begin, SavesJobs
<1>2. ASSUME NEW c \in Savers, NEW j \in Jobs, NEW now \in BOOLEAN, Submit(c, j, now)
      PROVE  Typed'
  BY <1>0, <1>1, <1>2 DEF Submit, Push, history, States, JobStates
<1>3. ASSUME NEW c \in Savers, NEW j \in Jobs, CancelJob(c, j)
      PROVE  Typed'
  BY <1>0, <1>1, <1>3 DEF CancelJob, history, States, JobStates
<1>4. ASSUME NEW c \in Savers, NEW j \in Jobs, RequeueFailed(c, j)
      PROVE  Typed'
  <2>1. save' \in [Savers -> SaveType] /\ SavesJobs'
    BY <1>1, <1>4 DEF RequeueFailed
  <2>2. status' \in States /\ heap' \in [Jobs -> Nat]
    BY <1>0, <1>4 DEF RequeueFailed, Push, States, JobStates
  <2>3. QED
    BY <1>4, <2>1, <2>2 DEF RequeueFailed
<1>5. ASSUME NEW c \in Savers, Snapshot(c)
      PROVE  Typed'
  <2> DEFINE r == [save[c] EXCEPT !.at = "built", !.data = status]
  <2>1. save' = [save EXCEPT ![c] = r] /\ save[c].at = "changed"
    BY <1>5 DEF Snapshot
  <2>2. r \in SaveType /\ r.at = "built" /\ r.job \in Jobs /\ r.data \in States
    BY <2>1 DEF SavesJobs
  <2> HIDE DEF r
  <2>3. save' \in [Savers -> SaveType] /\ SavesJobs'
    BY <1>0, <2>1, <2>2 DEF SavesJobs
  <2>4. QED
    BY <1>5, <2>3 DEF Snapshot, memory, history
<1>6. ASSUME NEW c \in Savers, Open(c)
      PROVE  Typed'
  <2> DEFINE r == [save[c] EXCEPT !.at = "opened"]
  <2>1. save' = [save EXCEPT ![c] = r] /\ save[c].at = "built"
    BY <1>6 DEF Open
  <2>2. r \in SaveType /\ r.at = "opened" /\ r.job \in Jobs /\ r.data \in States
    BY <2>1 DEF SavesJobs
  <2> HIDE DEF r
  <2>3. save' \in [Savers -> SaveType] /\ SavesJobs'
    BY <1>0, <2>1, <2>2 DEF SavesJobs
  <2>4. QED
    BY <1>6, <2>3 DEF Open, memory, history
<1>7. ASSUME NEW c \in Savers, Dump(c)
      PROVE  Typed'
  BY <1>7, Shapes DEF Dump, memory, SavesJobs
<1>8. ASSUME NEW c \in Poppers, Enter(c)
      PROVE  Typed'
  <2> DEFINE r == [Out EXCEPT !.at = "test", !.atEntry = {j \in InHeap : Ready(j)}]
  <2>1. pop' = [pop EXCEPT ![c] = r]
    BY <1>8 DEF Enter
  <2>2. r \in PopType
    BY Shapes DEF InHeap
  <2> HIDE DEF r
  <2>3. pop' \in [Poppers -> PopType]
    BY <1>0, <2>1, <2>2
  <2>4. QED
    BY <1>8, <2>3 DEF Enter, memory, history, SavesJobs
<1>9. ASSUME NEW c \in Poppers, Test(c)
      PROVE  Typed'
  <2>1. PICK a \in {"pop", "restore"} : pop' = [pop EXCEPT ![c].at = a]
    BY <1>9 DEF Test
  <2>2. pop' \in [Poppers -> PopType]
    BY <1>0, <2>1, ZenonT(20)
  <2>3. QED
    BY <1>9, <2>2 DEF Test, memory, history, SavesJobs
<1>10. ASSUME NEW c \in Poppers, Pop(c)
       PROVE  Typed'
  <2>1. PICK j \in InHeap :
          /\ heap' = [heap EXCEPT ![j] = @ - 1]
          /\ \/ pop' = [pop EXCEPT ![c].at = "restore", ![c].result = j]
             \/ pop' = [pop EXCEPT ![c].at = "test", ![c].skipped[j] = @ + 1]
    BY <1>10 DEF Pop
  <2>2. j \in Jobs /\ heap[j] > 0
    BY DEF InHeap
  <2>3. heap' \in [Jobs -> Nat]
    BY <2>1, <2>2
  <2>4. PICK r \in PopType : pop' = [pop EXCEPT ![c] = r]
    <3>1. pop[c] \in PopType
      BY <1>0
    <3>2. \E r \in PopType : pop' = [pop EXCEPT ![c] = r]
      <4> HIDE DEF Typed, TypeOK, PopType, SaveType
      <4>1. /\ [pop[c] EXCEPT !.at = "restore", !.result = j] \in PopType
            /\ [pop[c] EXCEPT !.at = "test", !.skipped[j] = @ + 1] \in PopType
        BY <2>2, <3>1, PopRecords
      <4>2. \/ pop' = [pop EXCEPT ![c] = [pop[c] EXCEPT !.at = "restore", !.result = j]]
            \/ pop' = [pop EXCEPT ![c] = [pop[c] EXCEPT !.at = "test", !.skipped[j] = @ + 1]]
        BY <2>1
      <4>3. QED
        BY <4>1, <4>2
    <3>3. QED
      BY <3>2
  <2>5. pop' \in [Poppers -> PopType]
    <3> HIDE DEF Typed, TypeOK, PopType, SaveType
    <3>1. QED
      BY <1>0, <2>4
  <2>6. QED
    BY <1>10, <2>3, <2>5 DEF Pop, history, SavesJobs
<1>11. ASSUME NEW c \in Poppers, PopEmpty(c)
       PROVE  Typed'
  <2>1. pop' \in [Poppers -> PopType]
    BY <1>0, <1>11, Shapes DEF PopEmpty
  <2>2. dropped' \subseteq Jobs
    BY <1>11 DEF PopEmpty
  <2>3. QED
    BY <1>11, <2>1, <2>2 DEF PopEmpty, memory, SavesJobs
<1>12. ASSUME NEW c \in Poppers, NEW j \in Jobs, PutBack(c, j)
       PROVE  Typed'
  <2>1. heap' \in [Jobs -> Nat]
    BY <1>12 DEF PutBack, Push
  <2>2. pop' \in [Poppers -> PopType]
    <3>1. pop[c] \in PopType
      BY <1>0
    <3> HIDE DEF Typed, TypeOK, PopType, SaveType
    <3>2. [pop[c] EXCEPT !.skipped[j] = @ - 1] \in PopType
      BY <1>12, <3>1, PopRecords DEF PutBack
    <3>3. pop' = [pop EXCEPT ![c] = [pop[c] EXCEPT !.skipped[j] = @ - 1]]
      BY <1>12 DEF PutBack
    <3>4. QED
      BY <1>0, <3>2, <3>3
  <2>3. QED
    BY <1>12, <2>1, <2>2 DEF PutBack, history, SavesJobs
<1>13. ASSUME NEW c \in Poppers, Return(c)
       PROVE  Typed'
  BY <1>0, <1>13, Shapes DEF Return, history, SavesJobs, States, JobStates
<1>14. ASSUME NEW j \in Jobs, BecomeDue(j)
       PROVE  Typed'
  BY <1>14 DEF BecomeDue, history, SavesJobs
<1>15. ASSUME NEW j \in Jobs, Finish(j)
       PROVE  Typed'
  BY <1>0, <1>15 DEF Finish, history, SavesJobs, States, JobStates
<1>16. CASE Restart
  BY <1>16, LoadedType, Shapes, BoundsAssumption DEF Restart, SavesJobs
<1>17. CASE UNCHANGED vars
  BY <1>17 DEF vars, memory, history, SavesJobs
<1>18. QED
  BY <1>2, <1>3, <1>4, <1>5, <1>6, <1>7, <1>8, <1>9, <1>10, <1>11, <1>12, <1>13, <1>14, <1>15,
     <1>16, <1>17 DEF Next

(* Every variable of the queue keeps its shape. *)
THEOREM TypeCorrect == Spec => []TypeOK
<1>1. Typed => TypeOK
  BY DEF Typed
<1>2. QED
  BY <1>1, InitType, NextType, PTL DEF Spec

-----------------------------------------------------------------------------
(* The shared heap. *)

(* What a popper has at each point of next_job.                            *)
Phases ==
  \A c \in Poppers :
    /\ pop[c].at # "restore" => pop[c].result = Nothing
    /\ pop[c].at = "out" => pop[c].skipped = Empty /\ pop[c].atEntry = {}

(* A job the process does not know is nowhere.                             *)
UnknownIsNowhere ==
  \A j \in Jobs : status[j] = "none" =>
    /\ heap[j] = 0
    /\ \A c \in Poppers : pop[c].skipped[j] = 0 /\ j \notin pop[c].atEntry

(* A job that was not requeued has one entry at most, which is in the heap *)
(* or with one popper.                                                     *)
OneEntry ==
  \A j \in Jobs \ requeued :
    /\ heap[j] <= 1
    /\ heap[j] = 1 => \A c \in Poppers : pop[c].skipped[j] = 0
    /\ \A c, d \in Poppers : pop[c].skipped[j] > 0 /\ pop[d].skipped[j] > 0 => c = d
    /\ \A c \in Poppers : pop[c].skipped[j] <= 1

(* A job that was ready when a call began can only be set aside since if   *)
(* it is no longer queued.                                                 *)
EntryIsReady ==
  \A c \in Poppers : \A k \in pop[c].atEntry \ requeued :
    /\ k \notin late
    /\ \A d \in Poppers : pop[d].skipped[k] > 0 => status[k] # "queued"

HeapInv == Phases /\ UnknownIsNowhere /\ OneEntry /\ EntryIsReady /\ SharedHeapIsSound

(* What is known of a well-typed queue, entry by entry.                    *)
LEMMA Entries ==
  ASSUME Typed
  PROVE  /\ heap \in [Jobs -> Nat] /\ pop \in [Poppers -> PopType]
         /\ \A j \in Jobs : heap[j] \in Nat
         /\ \A c \in Poppers : /\ pop[c].skipped \in [Jobs -> Nat]
                               /\ pop[c].result \in Jobs \cup {Nothing}
                               /\ pop[c].atEntry \subseteq Jobs
                               /\ \A j \in Jobs : pop[c].skipped[j] \in Nat
         /\ \A j \in Jobs : Out.skipped[j] = 0
  BY DEF Typed, TypeOK, PopType, Out, Empty

LEMMA InitHeap == Init => HeapInv
<1> SUFFICES ASSUME Init PROVE HeapInv
  OBVIOUS
<1>1. /\ \A j \in Jobs : status[j] = "none" /\ heap[j] = 0 /\ Empty[j] = 0
      /\ \A c \in Poppers : pop[c] = Out
  BY DEF Init, Empty
<1>2. QED
  BY <1>1, Shapes DEF HeapInv, Phases, UnknownIsNowhere, OneEntry, EntryIsReady,
     SharedHeapIsSound, NothingDropped, UrgentFirst

(* A step that leaves heap and poppers alone, queues no job and makes none *)
(* late.                                                                   *)
LEMMA Bystander ==
  ASSUME HeapInv, UNCHANGED <<heap, pop, dropped, requeued>>, late' \subseteq late,
         \A j \in Jobs : /\ status'[j] = "queued" => status[j] = "queued"
                         /\ status'[j] = "none" => status[j] = "none",
         Typed
  PROVE  HeapInv'
<1>0. \A c \in Poppers : pop[c].atEntry \subseteq Jobs
  BY Entries
<1>1. Phases' /\ UnknownIsNowhere' /\ OneEntry'
  BY DEF HeapInv, Phases, UnknownIsNowhere, OneEntry
<1>2. EntryIsReady'
  BY <1>0 DEF HeapInv, EntryIsReady
<1>3. NothingDropped'
  BY DEF HeapInv, SharedHeapIsSound, NothingDropped
<1>4. UrgentFirst'
  <2>1. SUFFICES ASSUME NEW c \in Poppers, pop[c].result # Nothing, NEW k \in pop[c].atEntry,
                        k < pop[c].result, Ready(k)', k \notin requeued
                 PROVE  heap[k] = 0
    BY DEF UrgentFirst
  <2>2. k \in Jobs /\ k \notin late
    BY <1>0, <2>1 DEF HeapInv, EntryIsReady
  <2>3. Ready(k)
    BY <2>1, <2>2 DEF Ready
  <2>4. QED
    BY <2>1, <2>3 DEF HeapInv, SharedHeapIsSound, UrgentFirst
<1>5. QED
  BY <1>1, <1>2, <1>3, <1>4 DEF HeapInv, SharedHeapIsSound

(* A job that becomes queued and gets an entry: one nobody knew, or one    *)
(* that is requeued.                                                       *)
LEMMA Queueing ==
  ASSUME Typed, HeapInv, NEW j \in Jobs, Push(j), UNCHANGED <<pop, dropped>>,
         status' = [status EXCEPT ![j] = "queued"], late' \subseteq late \cup {j},
         \/ status[j] = "none" /\ requeued' = requeued
         \/ status[j] # "none" /\ requeued' = requeued \cup {j} /\ late' = late
  PROVE  HeapInv'
<1>0. /\ heap[j] \in Nat /\ heap'[j] = heap[j] + 1
      /\ \A k \in Jobs \ {j} : heap'[k] = heap[k]
      /\ status'[j] = "queued"
      /\ \A k \in Jobs \ {j} : status'[k] = status[k]
      /\ \A c \in Poppers : pop[c].atEntry \subseteq Jobs
      /\ requeued \subseteq requeued'
  <2>1. status \in [Jobs -> JobStates \cup {"none"}]
    BY DEF Typed, TypeOK, States
  <2>2. QED
    BY <2>1, Entries DEF Push
<1>1. Phases'
  BY DEF HeapInv, Phases
<1>2. UnknownIsNowhere'
  BY <1>0 DEF HeapInv, UnknownIsNowhere
<1>3. OneEntry'
  <2> SUFFICES ASSUME NEW k \in Jobs \ requeued'
               PROVE  /\ heap'[k] <= 1
                      /\ heap'[k] = 1 => \A c \in Poppers : pop[c].skipped[k] = 0
                      /\ \A c, d \in Poppers : pop[c].skipped[k] > 0 /\ pop[d].skipped[k] > 0 => c = d
                      /\ \A c \in Poppers : pop[c].skipped[k] <= 1
    BY DEF OneEntry
  <2>1. CASE k = j
    <3>1. heap[j] = 0 /\ \A c \in Poppers : pop[c].skipped[j] = 0
      BY <2>1 DEF HeapInv, UnknownIsNowhere
    <3>2. QED
      BY <1>0, <2>1, <3>1
  <2>2. CASE k # j
    BY <1>0, <2>2 DEF HeapInv, OneEntry
  <2>3. QED
    BY <2>1, <2>2
<1>4. \A c \in Poppers : j \in pop[c].atEntry => j \in requeued'
  BY DEF HeapInv, UnknownIsNowhere
<1>5. EntryIsReady'
  BY <1>0, <1>4 DEF HeapInv, EntryIsReady
<1>6. NothingDropped'
  BY <1>0 DEF HeapInv, SharedHeapIsSound, NothingDropped
<1>7. UrgentFirst'
  <2>1. SUFFICES ASSUME NEW c \in Poppers, pop[c].result # Nothing, NEW k \in pop[c].atEntry,
                        k < pop[c].result, Ready(k)', k \notin requeued'
                 PROVE  heap'[k] = 0
    BY DEF UrgentFirst
  <2>2. k \in Jobs /\ k # j /\ k \notin requeued /\ k \notin late
    BY <1>0, <1>4, <2>1 DEF HeapInv, EntryIsReady
  <2>3. Ready(k)
    BY <1>0, <2>1, <2>2 DEF Ready
  <2>4. heap[k] = 0
    BY <2>1, <2>2, <2>3 DEF HeapInv, SharedHeapIsSound, UrgentFirst
  <2>5. QED
    BY <1>0, <2>2, <2>4
<1>8. QED
  BY <1>1, <1>2, <1>3, <1>5, <1>6, <1>7 DEF HeapInv, SharedHeapIsSound

LEMMA EnterHeap ==
  ASSUME Typed, HeapInv, NEW c \in Poppers, Enter(c)
  PROVE  HeapInv'
<1>1. /\ UNCHANGED <<status, late, heap, dropped, requeued>>
      /\ \A d \in Poppers \ {c} : pop'[d] = pop[d]
      /\ pop'[c].at = "test" /\ pop'[c].result = Nothing
      /\ \A j \in Jobs : pop'[c].skipped[j] = 0 /\ pop[c].skipped[j] = 0
      /\ pop'[c].atEntry = {j \in InHeap : Ready(j)}
      /\ pop[c].result = Nothing
  BY Entries DEF Enter, memory, history, HeapInv, Phases, Out, Empty
<1>2. \A k \in pop'[c].atEntry : k \in Jobs /\ heap[k] > 0 /\ status[k] = "queued" /\ k \notin late
  BY <1>1 DEF InHeap, Ready
<1>3. Phases'
  BY <1>1 DEF HeapInv, Phases
<1>4. UnknownIsNowhere'
  BY <1>1, <1>2, Entries DEF HeapInv, UnknownIsNowhere
<1>5. OneEntry'
  BY <1>1, Entries DEF HeapInv, OneEntry
<1>6. EntryIsReady'
  <2>1. SUFFICES ASSUME NEW b \in Poppers, NEW k \in pop'[b].atEntry \ requeued
                 PROVE  k \notin late /\ \A d \in Poppers : pop'[d].skipped[k] > 0 => status[k] # "queued"
    BY <1>1 DEF EntryIsReady
  <2>2. CASE b = c
    <3>1. k \in Jobs \ requeued /\ heap[k] = 1
      BY <1>2, <2>2, Entries DEF HeapInv, OneEntry
    <3>2. \A d \in Poppers : pop[d].skipped[k] = 0
      BY <3>1 DEF HeapInv, OneEntry
    <3>3. QED
      BY <1>1, <1>2, <2>2, <3>1, <3>2
  <2>3. CASE b # c
    <3>1. k \in Jobs
      BY <1>1, <2>3, Entries
    <3>2. QED
      BY <1>1, <2>3, <3>1 DEF HeapInv, EntryIsReady
  <2>4. QED
    BY <2>2, <2>3
<1>7. NothingDropped'
  BY <1>1, JobsAreNumbers DEF HeapInv, SharedHeapIsSound, NothingDropped
<1>8. UrgentFirst'
  BY <1>1 DEF HeapInv, SharedHeapIsSound, UrgentFirst, Ready
<1>9. QED
  BY <1>3, <1>4, <1>5, <1>6, <1>7, <1>8 DEF HeapInv, SharedHeapIsSound

LEMMA TestHeap ==
  ASSUME Typed, HeapInv, NEW c \in Poppers, Test(c)
  PROVE  HeapInv'
<1>1. /\ UNCHANGED <<status, late, heap, dropped, requeued>>
      /\ \A d \in Poppers : /\ pop'[d].skipped = pop[d].skipped
                            /\ pop'[d].result = pop[d].result
                            /\ pop'[d].atEntry = pop[d].atEntry
      /\ pop[c].at = "test" /\ pop'[c].at # "out"
      /\ \A d \in Poppers \ {c} : pop'[d].at = pop[d].at
  BY Entries DEF Test, memory, history, PopType
<1>2. Phases'
  BY <1>1 DEF HeapInv, Phases
<1>3. UnknownIsNowhere' /\ OneEntry' /\ EntryIsReady'
  BY <1>1 DEF HeapInv, UnknownIsNowhere, OneEntry, EntryIsReady
<1>4. NothingDropped' /\ UrgentFirst'
  BY <1>1 DEF HeapInv, SharedHeapIsSound, NothingDropped, UrgentFirst, Ready
<1>5. QED
  BY <1>2, <1>3, <1>4 DEF HeapInv, SharedHeapIsSound

(* A call that ends, with an error or a result, leaves its record as Out.  *)
LEMMA PopEmptyHeap ==
  ASSUME Typed, HeapInv, NEW c \in Poppers, PopEmpty(c)
  PROVE  HeapInv'
<1>1. /\ UNCHANGED <<status, late, heap, requeued>>
      /\ \A d \in Poppers \ {c} : pop'[d] = pop[d]
      /\ pop'[c] = Out /\ pop[c].result = Nothing
      /\ dropped' = dropped \cup {j \in Jobs : pop[c].skipped[j] > 0}
  BY Entries DEF PopEmpty, memory, HeapInv, Phases
<1>2. Phases' /\ UnknownIsNowhere' /\ OneEntry' /\ EntryIsReady'
  <2>1. Phases' /\ UnknownIsNowhere'
    BY <1>1, Shapes, Entries DEF HeapInv, Phases, UnknownIsNowhere
  <2>2. OneEntry'
    BY <1>1, Shapes, Entries DEF HeapInv, OneEntry
  <2>3. EntryIsReady'
    BY <1>1, Shapes, Entries DEF HeapInv, EntryIsReady
  <2>4. QED
    BY <2>1, <2>2, <2>3
<1>3. NothingDropped'
  BY <1>1, Shapes, Entries, JobsAreNumbers DEF HeapInv, SharedHeapIsSound, NothingDropped
<1>4. UrgentFirst'
  BY <1>1, Shapes DEF HeapInv, SharedHeapIsSound, UrgentFirst, Ready
<1>5. QED
  BY <1>2, <1>3, <1>4 DEF HeapInv, SharedHeapIsSound

LEMMA ReturnHeap ==
  ASSUME Typed, HeapInv, NEW c \in Poppers, Return(c)
  PROVE  HeapInv'
<1>0. status \in [Jobs -> JobStates \cup {"none"}]
  BY DEF Typed, TypeOK, States
<1>1. /\ UNCHANGED <<late, heap, dropped, requeued>>
      /\ \A d \in Poppers \ {c} : pop'[d] = pop[d]
      /\ pop'[c] = Out /\ \A j \in Jobs : pop[c].skipped[j] = 0
  BY Entries DEF Return, history, Empty
<1>2. /\ \A j \in Jobs : status'[j] = "queued" => status[j] = "queued" /\ pop[c].result # j
      /\ \A j \in Jobs : status'[j] = "none" => status[j] = "none"
  BY <1>0, JobsAreNumbers DEF Return
<1>3. Phases' /\ UnknownIsNowhere'
  BY <1>1, <1>2, Shapes, Entries DEF HeapInv, Phases, UnknownIsNowhere
<1>4. OneEntry'
  BY <1>1, Shapes, Entries DEF HeapInv, OneEntry
<1>5. EntryIsReady'
  BY <1>1, <1>2, Shapes, Entries DEF HeapInv, EntryIsReady
<1>6. NothingDropped'
  BY <1>1, <1>2, Entries DEF HeapInv, SharedHeapIsSound, NothingDropped
<1>7. UrgentFirst'
  <2>1. SUFFICES ASSUME NEW d \in Poppers, pop'[d].result # Nothing, NEW k \in pop'[d].atEntry,
                        k < pop'[d].result, Ready(k)', k \notin requeued
                 PROVE  heap[k] = 0
    BY <1>1 DEF UrgentFirst
  <2>2. d # c /\ pop'[d] = pop[d]
    BY <1>1, <2>1, Shapes
  <2>3. k \in Jobs
    BY <2>2, Entries
  <2>4. Ready(k)
    BY <1>1, <1>2, <2>1, <2>3 DEF Ready
  <2>5. QED
    BY <2>1, <2>2, <2>4 DEF HeapInv, SharedHeapIsSound, UrgentFirst
<1>8. QED
  BY <1>3, <1>4, <1>5, <1>6, <1>7 DEF HeapInv, SharedHeapIsSound

LEMMA PopHeap ==
  ASSUME Typed, HeapInv, NEW c \in Poppers, Pop(c)
  PROVE  HeapInv'
<1>1. PICK j \in InHeap :
        /\ \A k \in InHeap : j <= k
        /\ heap' = [heap EXCEPT ![j] = @ - 1]
        /\ pop' = IF Ready(j)
                  THEN [pop EXCEPT ![c].at = "restore", ![c].result = j]
                  ELSE [pop EXCEPT ![c].at = "test", ![c].skipped[j] = @ + 1]
  BY DEF Pop
<1>2. /\ UNCHANGED <<status, late, dropped, requeued>>
      /\ pop[c].at = "pop" /\ pop[c].result = Nothing
      /\ j \in Jobs /\ heap[j] > 0 /\ heap'[j] = heap[j] - 1
      /\ \A k \in Jobs \ {j} : heap'[k] = heap[k]
      /\ \A k \in Jobs : heap[k] > 0 => j <= k
      /\ \A d \in Poppers \ {c} : pop'[d] = pop[d]
      /\ pop'[c].atEntry = pop[c].atEntry
      /\ \A k \in Jobs \ {j} : pop'[c].skipped[k] = pop[c].skipped[k]
  BY <1>1, Entries DEF Pop, InHeap, history, HeapInv, Phases, PopType
<1>3. \/ /\ Ready(j) /\ pop'[c].at = "restore" /\ pop'[c].result = j
         /\ pop'[c].skipped[j] = pop[c].skipped[j]
      \/ /\ ~Ready(j) /\ pop'[c].at = "test" /\ pop'[c].result = Nothing
         /\ pop'[c].skipped[j] = pop[c].skipped[j] + 1
  BY <1>1, <1>2, Entries DEF PopType
<1>4. status[j] # "none"
  BY <1>2, Entries DEF HeapInv, UnknownIsNowhere
<1>5. Phases'
  BY <1>2, <1>3 DEF HeapInv, Phases
<1>6. UnknownIsNowhere'
  BY <1>2, <1>4 DEF HeapInv, UnknownIsNowhere
<1>7. OneEntry'
  <2> SUFFICES ASSUME NEW k \in Jobs \ requeued
               PROVE  /\ heap'[k] <= 1
                      /\ heap'[k] = 1 => \A d \in Poppers : pop'[d].skipped[k] = 0
                      /\ \A d, e \in Poppers : pop'[d].skipped[k] > 0 /\ pop'[e].skipped[k] > 0 => d = e
                      /\ \A d \in Poppers : pop'[d].skipped[k] <= 1
    BY <1>2 DEF OneEntry
  <2>1. CASE k = j
    <3>1. heap[j] = 1 /\ \A d \in Poppers : pop[d].skipped[j] = 0
      BY <1>2, <2>1, Entries DEF HeapInv, OneEntry
    <3>2. heap'[j] = 0 /\ pop'[c].skipped[j] \in {0, 1}
      BY <1>2, <1>3, <3>1
    <3>3. \A d \in Poppers \ {c} : pop'[d].skipped[j] = 0
      BY <1>2, <3>1
    <3>4. QED
      BY <2>1, <3>2, <3>3
  <2>2. CASE k # j
    BY <1>2, <2>2 DEF HeapInv, OneEntry
  <2>3. QED
    BY <2>1, <2>2
<1>8. EntryIsReady'
  <2>1. SUFFICES ASSUME NEW b \in Poppers, NEW k \in pop[b].atEntry \ requeued
                 PROVE  k \notin late /\ \A d \in Poppers : pop'[d].skipped[k] > 0 => status[k] # "queued"
    BY <1>2 DEF EntryIsReady
  <2>2. /\ k \in Jobs /\ k \notin late
        /\ \A d \in Poppers : pop[d].skipped[k] > 0 => status[k] # "queued"
    BY Entries DEF HeapInv, EntryIsReady
  <2>3. CASE Ready(j) \/ k # j
    <3>1. \A d \in Poppers : pop'[d].skipped[k] = pop[d].skipped[k]
      BY <1>2, <1>3, <2>2, <2>3
    <3>2. QED
      BY <2>2, <3>1
  <2>4. CASE ~Ready(j) /\ k = j
    BY <2>2, <2>4 DEF Ready
  <2>5. QED
    BY <2>3, <2>4
<1>9. NothingDropped'
  <2>1. SUFFICES ASSUME NEW k \in Jobs, status[k] = "queued", k \notin dropped
                 PROVE  heap'[k] > 0 \/ \E d \in Poppers : pop'[d].skipped[k] > 0 \/ pop'[d].result = k
    BY <1>2 DEF NothingDropped
  <2>2. CASE k = j
    <3>1. pop'[c].result = j \/ pop'[c].skipped[j] > 0
      BY <1>2, <1>3, Entries
    <3>2. QED
      BY <2>2, <3>1
  <2>3. CASE k # j
    <3>1. heap[k] > 0 \/ \E d \in Poppers : pop[d].skipped[k] > 0 \/ pop[d].result = k
      BY <2>1 DEF HeapInv, SharedHeapIsSound, NothingDropped
    <3>2. CASE heap[k] > 0
      BY <1>2, <2>3, <3>2
    <3>3. ASSUME NEW d \in Poppers, pop[d].skipped[k] > 0 \/ pop[d].result = k
          PROVE  pop'[d].skipped[k] > 0 \/ pop'[d].result = k
      BY <1>2, <2>3, <3>3, JobsAreNumbers
    <3>4. QED
      BY <3>1, <3>2, <3>3
  <2>4. QED
    BY <2>2, <2>3
<1>10. UrgentFirst'
  <2>1. SUFFICES ASSUME NEW d \in Poppers, pop'[d].result # Nothing, NEW k \in pop'[d].atEntry,
                        k < pop'[d].result, Ready(k), k \notin requeued
                 PROVE  heap'[k] = 0
    BY <1>2 DEF UrgentFirst, Ready
  <2>2. k \in Jobs /\ heap[k] \in Nat
    BY <1>2, Entries
  <2>3. heap[k] = 0
    <3>1. CASE d = c
      BY <1>2, <1>3, <2>1, <2>2, <3>1, JobsAreNumbers
    <3>2. CASE d # c
      BY <1>2, <2>1, <3>2 DEF HeapInv, SharedHeapIsSound, UrgentFirst
    <3>3. QED
      BY <3>1, <3>2
  <2>4. QED
    BY <1>2, <2>2, <2>3
<1>11. QED
  BY <1>5, <1>6, <1>7, <1>8, <1>9, <1>10 DEF HeapInv, SharedHeapIsSound

LEMMA PutBackHeap ==
  ASSUME Typed, HeapInv, NEW c \in Poppers, NEW j \in Jobs, PutBack(c, j)
  PROVE  HeapInv'
<1>1. /\ UNCHANGED <<status, late, dropped, requeued>>
      /\ pop[c].skipped[j] > 0 /\ pop'[c].skipped[j] = pop[c].skipped[j] - 1
      /\ heap'[j] = heap[j] + 1
      /\ \A k \in Jobs \ {j} : heap'[k] = heap[k] /\ pop'[c].skipped[k] = pop[c].skipped[k]
      /\ \A d \in Poppers \ {c} : pop'[d] = pop[d]
      /\ \A d \in Poppers : /\ pop'[d].atEntry = pop[d].atEntry
                            /\ pop'[d].result = pop[d].result
                            /\ pop'[d].at = pop[d].at
      /\ pop[c].at = "restore"
  BY Entries DEF PutBack, Push, history, PopType
<1>2. status[j] # "none"
  BY <1>1, Entries DEF HeapInv, UnknownIsNowhere
<1>3. Phases'
  BY <1>1 DEF HeapInv, Phases
<1>4. UnknownIsNowhere'
  BY <1>1, <1>2 DEF HeapInv, UnknownIsNowhere
<1>5. OneEntry'
  <2> SUFFICES ASSUME NEW k \in Jobs \ requeued
               PROVE  /\ heap'[k] <= 1
                      /\ heap'[k] = 1 => \A d \in Poppers : pop'[d].skipped[k] = 0
                      /\ \A d, e \in Poppers : pop'[d].skipped[k] > 0 /\ pop'[e].skipped[k] > 0 => d = e
                      /\ \A d \in Poppers : pop'[d].skipped[k] <= 1
    BY <1>1 DEF OneEntry
  <2>1. CASE k = j
    <3>0. /\ heap[j] \in Nat /\ pop[c].skipped[j] \in Nat
          /\ heap[j] <= 1 /\ pop[c].skipped[j] <= 1
          /\ heap[j] = 1 => pop[c].skipped[j] = 0
      BY <2>1, Entries DEF HeapInv, OneEntry
    <3>1. pop[c].skipped[j] = 1 /\ heap[j] = 0
      BY <1>1, <3>0
    <3>2. \A d \in Poppers \ {c} : pop[d].skipped[j] = 0
      BY <2>1, <3>1, Entries DEF HeapInv, OneEntry
    <3>3. QED
      BY <1>1, <2>1, <3>1, <3>2
  <2>2. CASE k # j
    BY <1>1, <2>2 DEF HeapInv, OneEntry
  <2>3. QED
    BY <2>1, <2>2
<1>6. EntryIsReady'
  <2>1. \A d \in Poppers, k \in Jobs : pop'[d].skipped[k] > 0 => pop[d].skipped[k] > 0
    BY <1>1, Entries
  <2>2. QED
    BY <1>1, <2>1, Entries DEF HeapInv, EntryIsReady
<1>7. NothingDropped'
  BY <1>1, Entries DEF HeapInv, SharedHeapIsSound, NothingDropped
<1>8. UrgentFirst'
  <2>1. SUFFICES ASSUME NEW d \in Poppers, pop[d].result # Nothing, NEW k \in pop[d].atEntry,
                        k < pop[d].result, Ready(k), k \notin requeued
                 PROVE  heap'[k] = 0
    BY <1>1 DEF UrgentFirst, Ready
  <2>2. k \in Jobs /\ heap[k] = 0
    BY <2>1, Entries DEF HeapInv, SharedHeapIsSound, UrgentFirst
  <2>3. k # j
    BY <1>1, <2>1 DEF HeapInv, EntryIsReady, Ready
  <2>4. QED
    BY <1>1, <2>2, <2>3
<1>9. QED
  BY <1>3, <1>4, <1>5, <1>6, <1>7, <1>8 DEF HeapInv, SharedHeapIsSound

(* A restart counts the entries afresh and interrupts every call.          *)
LEMMA RestartHeap ==
  ASSUME Typed, Restart
  PROVE  HeapInv'
<1>1. /\ \A c \in Poppers : pop'[c] = Out
      /\ \A j \in Jobs : heap'[j] = IF status'[j] = "queued" THEN 1 ELSE 0
  BY DEF Restart, HeapOf
<1>2. QED
  BY <1>1, Shapes, Entries DEF HeapInv, Phases, UnknownIsNowhere, OneEntry, EntryIsReady,
     SharedHeapIsSound, NothingDropped, UrgentFirst

LEMMA NextHeap == Typed /\ HeapInv /\ [Next]_vars => HeapInv'
<1> SUFFICES ASSUME Typed, HeapInv, [Next]_vars PROVE HeapInv'
  OBVIOUS
<1>0. status \in [Jobs -> JobStates \cup {"none"}]
  BY DEF Typed, TypeOK, States
<1>1. ASSUME NEW c \in Savers, NEW j \in Jobs, NEW now \in BOOLEAN, Submit(c, j, now)
      PROVE  HeapInv'
  BY <1>1, Queueing DEF Submit, history
<1>2. ASSUME NEW c \in Savers, NEW j \in Jobs, CancelJob(c, j)
      PROVE  HeapInv'
  BY <1>0, <1>2, Bystander DEF CancelJob, history
<1>3. ASSUME NEW c \in Savers, NEW j \in Jobs, RequeueFailed(c, j)
      PROVE  HeapInv'
  BY <1>3, Queueing DEF RequeueFailed
<1>4. ASSUME NEW c \in Savers, Snapshot(c) \/ Open(c) \/ Dump(c)
      PROVE  HeapInv'
  BY <1>4, Bystander DEF Snapshot, Open, Dump, memory, history
<1>5. ASSUME NEW j \in Jobs, BecomeDue(j)
      PROVE  HeapInv'
  BY <1>5, Bystander DEF BecomeDue, history
<1>6. ASSUME NEW j \in Jobs, Finish(j)
      PROVE  HeapInv'
  <2>1. UNCHANGED <<heap, pop, dropped, requeued, late>>
    BY <1>6 DEF Finish, history
  <2>2. \A k \in Jobs : /\ status'[k] = "queued" => status[k] = "queued"
                        /\ status'[k] = "none" => status[k] = "none"
    BY <1>0, <1>6 DEF Finish
  <2>3. QED
    BY <2>1, <2>2, Bystander
<1>7. ASSUME NEW c \in Poppers, Enter(c) \/ Test(c) \/ Pop(c) \/ PopEmpty(c) \/ Return(c)
      PROVE  HeapInv'
  BY <1>7, EnterHeap, TestHeap, PopHeap, PopEmptyHeap, ReturnHeap
<1>8. ASSUME NEW c \in Poppers, NEW j \in Jobs, PutBack(c, j)
      PROVE  HeapInv'
  BY <1>8, PutBackHeap
<1>9. CASE Restart
  BY <1>9, RestartHeap
<1>10. CASE UNCHANGED vars
  BY <1>10, Bystander DEF vars, memory, history
<1>11. QED
  BY <1>1, <1>2, <1>3, <1>4, <1>5, <1>6, <1>7, <1>8, <1>9, <1>10 DEF Next

(* next_job: however many dispatchers pop the heap without a lock, a       *)
(* queued job keeps an entry unless an IndexError takes it, and no call    *)
(* settles on a job while a more urgent one it found ready waits.          *)
THEOREM HeapIsShared == Spec => []SharedHeapIsSound
<1>1. HeapInv => SharedHeapIsSound
  BY DEF HeapInv
<1>2. QED
  BY <1>1, InitType, NextType, InitHeap, NextHeap, PTL DEF Spec

-----------------------------------------------------------------------------
(* What the queue has acknowledged, under one saver and restarts between   *)
(* calls: with two savers an older snapshot may be dumped last, and a      *)
(* restart inside a save finds the truncated file.                         *)

Durable(st) == /\ \A j \in accepted : st[j] # "none"
               /\ \A j \in cancelled : st[j] = "cancelled"

(* A call that is saving holds what it is about to acknowledge, in memory  *)
(* and in the snapshot.                                                    *)
SavesDurably ==
  \A c \in Savers :
    /\ save[c].at # "idle" /\ save[c].op = "submit" => status[save[c].job] # "none"
    /\ save[c].at # "idle" /\ save[c].op = "cancel" => status[save[c].job] = "cancelled"
    /\ save[c].at \in {"built", "opened"} =>
         /\ Durable(save[c].data)
         /\ save[c].op = "submit" => save[c].data[save[c].job] # "none"
         /\ save[c].op = "cancel" => save[c].data[save[c].job] = "cancelled"

(* Between calls the file holds all that was acknowledged.                 *)
FileDurable == (\A c \in Savers : save[c].at = "idle") => Durable(Loaded)

DurableInv == Durable(status) /\ SavesDurably /\ FileDurable

LEMMA InitDurable == Init => DurableInv
  BY Shapes DEF Init, DurableInv, Durable, SavesDurably, FileDurable

(* A step of no saver that brings no cancelled job back.                   *)
LEMMA NotSaving ==
  ASSUME Typed, DurableInv, UNCHANGED <<file, save, accepted, cancelled>>,
         \A j \in Jobs : /\ status[j] # "none" => status'[j] # "none"
                         /\ status[j] = "cancelled" => status'[j] = "cancelled"
  PROVE  DurableInv'
<1>1. accepted \subseteq Jobs /\ cancelled \subseteq Jobs
  BY DEF Typed, TypeOK
<1>2. Durable(status)'
  BY <1>1 DEF DurableInv, Durable
<1>3. SavesDurably'
  BY DEF DurableInv, SavesDurably, Typed, SavesJobs, Durable
<1>4. FileDurable'
  BY DEF DurableInv, FileDurable, Durable, Loaded
<1>5. QED
  BY <1>2, <1>3, <1>4 DEF DurableInv

LEMMA NextDurable ==
  ASSUME CrashPoints = "quiet", \A c, d \in Savers : c = d,
         Typed, DurableInv, [Next]_vars
  PROVE  DurableInv'
<1>0. /\ status \in [Jobs -> JobStates \cup {"none"}]
      /\ accepted \subseteq Jobs /\ cancelled \subseteq Jobs
      /\ save \in [Savers -> SaveType]
  BY DEF Typed, TypeOK, States, SaveType
<1>1. ASSUME NEW c \in Savers, NEW op \in {"submit", "cancel", "requeue"}, NEW j \in Jobs, Begin(c, op, j),
             Durable(status)', op = "submit" => status'[j] # "none",
             op = "cancel" => status'[j] = "cancelled"
      PROVE  DurableInv'
  <2>1. /\ save'[c].at = "changed" /\ save'[c].op = op /\ save'[c].job = j
        /\ \A d \in Savers : d = c
    BY <1>0, <1>1 DEF Begin
  <2>2. SavesDurably'
    BY <1>1, <2>1 DEF SavesDurably
  <2>3. FileDurable'
    BY <2>1 DEF FileDurable
  <2>4. QED
    BY <1>1, <2>2, <2>3 DEF DurableInv
<1>2. ASSUME NEW c \in Savers, NEW j \in Jobs, NEW now \in BOOLEAN, Submit(c, j, now)
      PROVE  DurableInv'
  <2>1. Durable(status)' /\ status'[j] # "none"
    BY <1>0, <1>2 DEF Submit, history, DurableInv, Durable
  <2>2. QED
    BY <1>1, <1>2, <2>1 DEF Submit
<1>3. ASSUME NEW c \in Savers, NEW j \in Jobs, CancelJob(c, j)
      PROVE  DurableInv'
  <2>1. Durable(status)' /\ status'[j] = "cancelled"
    BY <1>0, <1>3 DEF CancelJob, history, DurableInv, Durable
  <2>2. QED
    BY <1>1, <1>3, <2>1 DEF CancelJob
<1>4. ASSUME NEW c \in Savers, NEW j \in Jobs, RequeueFailed(c, j)
      PROVE  DurableInv'
  <2>1. Durable(status)'
    BY <1>0, <1>4 DEF RequeueFailed, DurableInv, Durable
  <2>2. QED
    BY <1>1, <1>4, <2>1 DEF RequeueFailed
<1>5. ASSUME NEW c \in Savers, Snapshot(c)
      PROVE  DurableInv'
  <2>1. /\ save'[c].at = "built" /\ save'[c].data = status
        /\ save'[c].op = save[c].op /\ save'[c].job = save[c].job
        /\ save[c].at = "changed"
        /\ \A d \in Savers : d = c
        /\ UNCHANGED <<status, accepted, cancelled>>
    BY <1>0, <1>5 DEF Snapshot, memory, history, SaveType
  <2>2. SavesDurably'
    BY <2>1 DEF DurableInv, SavesDurably, Durable
  <2>3. FileDurable'
    BY <2>1 DEF FileDurable
  <2>4. QED
    BY <2>1, <2>2, <2>3 DEF DurableInv, Durable
<1>6. ASSUME NEW c \in Savers, Open(c)
      PROVE  DurableInv'
  <2>1. /\ save'[c].at = "opened" /\ save'[c].data = save[c].data
        /\ save'[c].op = save[c].op /\ save'[c].job = save[c].job
        /\ save[c].at = "built"
        /\ \A d \in Savers : d = c
        /\ UNCHANGED <<status, accepted, cancelled>>
    BY <1>0, <1>6 DEF Open, memory, history, SaveType
  <2>2. SavesDurably'
    BY <2>1 DEF DurableInv, SavesDurably, Durable
  <2>3. FileDurable'
    BY <2>1 DEF FileDurable
  <2>4. QED
    BY <2>1, <2>2, <2>3 DEF DurableInv, Durable
<1>7. ASSUME NEW c \in Savers, Dump(c)
      PROVE  DurableInv'
  <2> DEFINE data == save[c].data  j == save[c].job
  <2>1. /\ save[c].at = "opened" /\ data \in States /\ j \in Jobs
        /\ file' = data
        /\ accepted' = IF save[c].op = "submit" THEN accepted \cup {j} ELSE accepted
        /\ cancelled' = IF save[c].op = "cancel" /\ status[j] = "cancelled"
                        THEN cancelled \cup {j} ELSE cancelled
        /\ save'[c].at = "idle"
        /\ \A d \in Savers : d = c
        /\ status' = status
    BY <1>0, <1>7, Shapes DEF Dump, memory, Typed, SavesJobs
  <2>2. /\ Durable(data) /\ Durable(status)
        /\ save[c].op = "submit" => data[j] # "none" /\ status[j] # "none"
        /\ save[c].op = "cancel" => data[j] = "cancelled"
    BY <2>1 DEF DurableInv, SavesDurably
  <2>3. Loaded' = data
    BY <2>1, FileAssumption DEF Loaded
  <2> HIDE DEF data, j
  <2>4. Durable(status)' /\ Durable(Loaded)'
    BY <2>1, <2>2, <2>3 DEF Durable
  <2>5. SavesDurably'
    BY <2>1 DEF SavesDurably
  <2>6. QED
    BY <2>4, <2>5 DEF DurableInv, FileDurable
<1>8. ASSUME NEW c \in Poppers, Enter(c) \/ Test(c) \/ Pop(c) \/ PopEmpty(c)
      PROVE  DurableInv'
  BY <1>8, NotSaving DEF Enter, Test, Pop, PopEmpty, memory, history
<1>9. ASSUME NEW c \in Poppers, Return(c)
      PROVE  DurableInv'
  <2>1. \A j \in Jobs : /\ status[j] # "none" => status'[j] # "none"
                        /\ status[j] = "cancelled" => status'[j] = "cancelled"
    BY <1>0, <1>9 DEF Return
  <2>2. QED
    BY <1>9, <2>1, NotSaving DEF Return, history
<1>10. ASSUME NEW c \in Poppers, NEW j \in Jobs, PutBack(c, j)
       PROVE  DurableInv'
  BY <1>10, NotSaving DEF PutBack, history
<1>11. ASSUME NEW j \in Jobs, BecomeDue(j) \/ Finish(j)
       PROVE  DurableInv'
  <2>1. \A k \in Jobs : /\ status[k] # "none" => status'[k] # "none"
                        /\ status[k] = "cancelled" => status'[k] = "cancelled"
    BY <1>0, <1>11 DEF BecomeDue, Finish
  <2>2. QED
    BY <1>11, <2>1, NotSaving DEF BecomeDue, Finish, history
<1>12. CASE Restart
  <2>1. /\ status' = Loaded /\ Loaded' = Loaded
        /\ UNCHANGED <<accepted, cancelled>>
        /\ \A c \in Savers : save[c].at = "idle" /\ save'[c].at = "idle"
    BY <1>12, Shapes DEF Restart, Loaded
  <2>2. Durable(Loaded)
    BY <2>1 DEF DurableInv, FileDurable
  <2>3. QED
    BY <2>1, <2>2 DEF DurableInv, SavesDurably, FileDurable, Durable
<1>13. CASE UNCHANGED vars
  BY <1>13, NotSaving DEF vars, memory, history
<1>14. QED
  BY <1>2, <1>3, <1>4, <1>5, <1>6, <1>7, <1>8, <1>9, <1>10, <1>11, <1>12, <1>13 DEF Next

(* queue_manager.py:5: "Persists queue state to disk so jobs survive       *)
(* restarts": with one thread that submits and cancels, and no crash       *)
(* inside a save, a job whose submit returned is known and a job whose     *)
(* cancel returned is cancelled, whatever restarts, poppers and workers do.*)
THEOREM AcknowledgedJobsSurvive ==
  ASSUME CrashPoints = "quiet", \A c, d \in Savers : c = d
  PROVE  Spec => []AcknowledgedSurvives
<1>1. DurableInv => AcknowledgedSurvives
  BY DEF DurableInv, Durable, AcknowledgedSurvives, AcceptedSurvive, CancelSurvives
<1>2. Typed /\ DurableInv /\ [Next]_vars => DurableInv'
  BY NextDurable
<1>3. QED
  BY <1>1, <1>2, InitType, NextType, InitDurable, PTL DEF Spec
===============================================================================
