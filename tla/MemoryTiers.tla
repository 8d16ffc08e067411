----------------------------- MODULE MemoryTiers -----------------------------
(***************************************************************************)
(* The memory in three tiers (openvs/resilience/memory.py).  Importance is *)
(* counted in parts of One, so that halving stays exact; time in half      *)
(* lives of a memory.                                                      *)
(***************************************************************************)
EXTENDS Naturals, Sequences, FiniteSets, SequencesExt, Tables

CONSTANTS
  Memories,     \* what is stored, each once
  ShortLimit,   \* short_term_limit
  Importances,  \* that callers store with
  LastHalfLife, \* bound: time
  MaxMemActs    \* bound: calls after the stores

One   == 1024   \* importance 1.0
Boost == 512    \* of a recall
Most  == 10240  \* 10.0

(* importance < 0.1 *)
Unimportant(i) == 10 * i < One

(* Nobody stores what the next run of decay would take at once. *)
ASSUME TiersAssumption ==
  /\ ShortLimit \in Nat \ {0} /\ LastHalfLife \in Nat /\ MaxMemActs \in Nat
  /\ \A i \in Importances : i \in Nat /\ ~Unimportant(i)

VARIABLES
  shortTerm,    \* _short_term
  longTerm,     \* _long_term
  episodic,     \* the entries of all episodes
  importance,   \* of each entry
  lastAccessed,
  halfLife,     \* time
  memActs,
  lost          \* history: how a stored memory was dropped, when and with what importance

tierVars == <<shortTerm, longTerm, episodic, importance, lastAccessed, halfLife, memActs, lost>>

TiersInit ==
  /\ shortTerm = <<>> /\ longTerm = {} /\ episodic = {} /\ lost = {}
  /\ importance = [m \in Memories |-> 0] /\ lastAccessed = [m \in Memories |-> 0]
  /\ halfLife = 0 /\ memActs = 0

-----------------------------------------------------------------------------
Short   == ToSet(shortTerm)
Held    == Short \union longTerm \union episodic
Lost(m, how) == [memory |-> m, how |-> how, idle |-> halfLife - lastAccessed[m],
                 importance |-> importance[m]]
IsNew(m) == m \notin Held /\ m \notin {l.memory : l \in lost}

Count == memActs < MaxMemActs /\ memActs' = memActs + 1

(* Slip: only what is more than important is promoted. *)
WorthMore(m) == importance[m] > One

Worth(m) == importance[m] >= One

(* _promote_oldest. *)
Promoted(m) == IF Worth(m) THEN {m} ELSE {}

(* store: a new entry; when the short list overflows its oldest entry is   *)
(* promoted, or dropped.                                                   *)
StoreMemory(m, tier, i) ==
  /\ IsNew(m)
  /\ importance' = [importance EXCEPT ![m] = i]
  /\ lastAccessed' = [lastAccessed EXCEPT ![m] = halfLife]
  /\ LET list == IF tier = "short" THEN Append(shortTerm, m) ELSE shortTerm
         over == IF Len(list) > ShortLimit THEN {Head(list)} ELSE {}
         kept == UNION {Promoted(o) : o \in over}
     IN  /\ shortTerm' = IF over = {} THEN list ELSE Tail(list)
         /\ longTerm' = longTerm \union kept \union IF tier = "long" THEN {m} ELSE {}
         /\ lost' = lost \union {Lost(o, "overflow") : o \in over \ kept}
  /\ episodic' = episodic \union IF tier = "episodic" THEN {m} ELSE {}
  /\ UNCHANGED <<halfLife, memActs>>

(* Slip: an access is counted, its time forgotten. *)
StillIdle(found) == lastAccessed

(* reinforce, of what is returned. *)
Accessed(found) == [m \in Memories |-> IF m \in found THEN halfLife ELSE lastAccessed[m]]

(* recall: whatever the query finds among the most important or most       *)
(* fitting, at least min_importance important, is reinforced.              *)
Recall(found) ==
  /\ found # {} /\ found \subseteq Held /\ Count
  /\ lastAccessed' = Accessed(found)
  /\ importance' = [m \in Memories |->
       IF m \notin found THEN importance[m]
       ELSE IF importance[m] + Boost > Most THEN Most ELSE importance[m] + Boost]
  /\ UNCHANGED <<shortTerm, longTerm, episodic, halfLife, lost>>

(* decay: halved once for every half life since the last access, and again *)
(* by the next run, which counts from the same access.                     *)
Halve(i, halfLives) == i \div 2
Decayed(m) == FoldLeft(Halve, importance[m], [k \in 1..(halfLife - lastAccessed[m]) |-> k])

(* run_decay, which leaves the episodes alone. *)
RunDecay ==
  /\ Count
  /\ LET decays == Short \union longTerm
         prunes == {m \in decays : Unimportant(Decayed(m))}
     IN  /\ importance' = [m \in Memories |-> IF m \in decays THEN Decayed(m) ELSE importance[m]]
         /\ longTerm' = longTerm \ prunes
         /\ shortTerm' = Only(shortTerm, {i \in DOMAIN shortTerm : shortTerm[i] \notin prunes})
         /\ lost' = lost \union {Lost(m, "decay") : m \in prunes}
  /\ UNCHANGED <<episodic, lastAccessed, halfLife>>

TimeGoesOn ==
  /\ halfLife < LastHalfLife /\ halfLife' = halfLife + 1
  /\ UNCHANGED <<shortTerm, longTerm, episodic, importance, lastAccessed, memActs, lost>>

TiersNext ==
  \/ \E m \in Memories, i \in Importances : \E tier \in {"short", "long", "episodic"} :
       StoreMemory(m, tier, i)
  \/ \E found \in SUBSET Held : Recall(found)
  \/ RunDecay \/ TimeGoesOn

TiersSpec == TiersInit /\ [][TiersNext]_tierVars

-----------------------------------------------------------------------------
(* Every memory is in one tier, and the short list within its limit.       *)
OneTierEach ==
  /\ Len(shortTerm) <= ShortLimit /\ Cardinality(Short) = Len(shortTerm)
  /\ Short \intersect (longTerm \union episodic) = {} /\ longTerm \intersect episodic = {}

(* "Memories lose importance over time unless reinforced by access": decay *)
(* takes no memory that was recalled within the present half life, and an  *)
(* overflow none of importance 1.0; an episode is never forgotten.         *)
AccessKeepsMemories ==
  \A l \in lost :
    /\ l.memory \notin Held
    /\ l.how = "decay" => l.idle > 0
    /\ l.how = "overflow" => l.importance < One

TiersAreSound == OneTierEach /\ AccessKeepsMemories
=============================================================================
