---------------------------- MODULE Engine_proofs ----------------------------
(***************************************************************************)
(* Proofs about the engine (its jobs, its log of events and what is        *)
(* replayed from it, its network layer and its plugins) and about the      *)
(* libraries of openvs (calls that are tried again, caches, tables in      *)
(* files, memories).  For each part the invariant that its steps preserve, *)
(* for any requests, crashes, starts, handlers, workers, manifests, limits *)
(* and times, and what follows from it.                                    *)
(***************************************************************************)
EXTENDS FiniteSetTheorems, SequenceTheorems, EngineProcess, EngineNetwork, EnginePlugins,
        Caches, Registries, Resilience, MemoryTiers, TLAPS

-----------------------------------------------------------------------------
(* Lists of which some places are kept (Tables): what a fold leaves of a   *)
(* list, by induction over it (FoldFacts).                                 *)

(* What the entries of a list to be filtered carry.                        *)
Items(s) == {s[i].item : i \in DOMAIN s}

(* x is what the first n entries of s leave: e tells where its items were. *)
Filters(base, s, n, x) ==
  /\ x \in Seq(Items(s)) /\ Len(x) <= n
  /\ \E e \in [DOMAIN x -> {i \in 1..n : s[i].keep}] :
       /\ \A k \in DOMAIN x : x[k] = s[e[k]].item
       /\ \A k, m \in DOMAIN x : k < m => e[k] < e[m]
       /\ \A i \in 1..n : s[i].keep => \E k \in DOMAIN x : e[k] = i

Filtered == INSTANCE FoldFacts WITH Op <- Filter, Holds <- Filters

(* Only is the fold of Filter.                                             *)
LEMMA OnlyIsFold ==
  ASSUME NEW s, NEW P
  PROVE  Only(s, P) = Filtered!Folded(<< >>, [i \in DOMAIN s |-> [item |-> s[i], keep |-> i \in P]])
  BY DEF Only, Filtered!Folded, Filtered!FoldLeft, FoldLeft, MapThenFoldSet, Filtered!MapThenFoldSet, Max, Filtered!Max

(* One more entry: it is kept at the end, or left out.                     *)
LEMMA FilterStep ==
  ASSUME NEW E, NEW s \in Seq(E), NEW n \in 1..Len(s), NEW x,
         x \in Seq(Items(s)), Len(x) <= n - 1,
         NEW e \in [DOMAIN x -> {i \in 1..(n - 1) : s[i].keep}],
         \A k \in DOMAIN x : x[k] = s[e[k]].item,
         \A k, m \in DOMAIN x : k < m => e[k] < e[m],
         \A i \in 1..(n - 1) : s[i].keep => \E k \in DOMAIN x : e[k] = i
  PROVE  Filters(<< >>, s, n, Filter(x, s[n]))
<1>1. s[n].item \in Items(s)
  BY DEF Items
<1>2. CASE ~s[n].keep
  <2>1. Filter(x, s[n]) = x
    BY <1>2 DEF Filter
  <2>2. {i \in 1..n : s[i].keep} = {i \in 1..(n - 1) : s[i].keep}
    BY <1>2
  <2>3. Len(x) <= n
    OBVIOUS
  <2>4. \A i \in 1..n : s[i].keep => \E k \in DOMAIN x : e[k] = i
    BY <1>2
  <2>5. e \in [DOMAIN x -> {i \in 1..n : s[i].keep}]
    BY <2>2
  <2>6. QED
    BY <2>1, <2>3, <2>4, <2>5 DEF Filters
<1>3. CASE s[n].keep
  <2> DEFINE y == Append(x, s[n].item)
             d == [k \in DOMAIN y |-> IF k = Len(y) THEN n ELSE e[k]]
  <2>1. Filter(x, s[n]) = y
    BY <1>3 DEF Filter
  <2>2. /\ y \in Seq(Items(s)) /\ Len(y) = Len(x) + 1 /\ DOMAIN y = 1..(Len(x) + 1) /\ Len(x) \in Nat
        /\ DOMAIN x = 1..Len(x) /\ y[Len(y)] = s[n].item /\ \A k \in DOMAIN x : y[k] = x[k]
    BY <1>1
  <2>3. /\ d[Len(y)] = n /\ Len(y) \in DOMAIN y /\ DOMAIN d = DOMAIN y
        /\ \A k \in DOMAIN x : d[k] = e[k] /\ k \in DOMAIN y /\ k < Len(y)
        /\ \A k \in DOMAIN y : k = Len(y) \/ k \in DOMAIN x
    BY <2>2
  <2>4. \A k \in DOMAIN x : e[k] \in 1..(n - 1) /\ s[e[k]].keep
    OBVIOUS
  <2> HIDE DEF y, d
  <2>5. Len(y) <= n
    BY <2>2
  <2>6. d \in [DOMAIN y -> {i \in 1..n : s[i].keep}]
    <3>1. \A k \in DOMAIN y : d[k] \in 1..n /\ s[d[k]].keep
      BY <1>3, <2>3, <2>4
    <3>2. d = [k \in DOMAIN y |-> d[k]]
      BY DEF d
    <3>3. QED
      BY <3>1, <3>2
  <2>7. \A k \in DOMAIN y : y[k] = s[d[k]].item
    BY <2>2, <2>3
  <2>8. \A k, m \in DOMAIN y : k < m => d[k] < d[m]
    <3>1. ASSUME NEW k \in DOMAIN y, NEW m \in DOMAIN y, k < m PROVE d[k] < d[m]
      <4>1. k \in DOMAIN x
        BY <2>2, <2>3, <3>1
      <4>2. CASE m = Len(y)
        BY <2>3, <2>4, <4>1, <4>2
      <4>3. CASE m \in DOMAIN x
        BY <2>3, <3>1, <4>1, <4>3
      <4>4. QED
        BY <2>3, <4>2, <4>3
    <3>2. QED
      BY <3>1
  <2>9. \A i \in 1..n : s[i].keep => \E k \in DOMAIN y : d[k] = i
    <3>1. ASSUME NEW i \in 1..n, s[i].keep PROVE \E k \in DOMAIN y : d[k] = i
      <4>1. CASE i = n
        BY <2>3, <4>1
      <4>2. CASE i # n
        <5>1. i \in 1..(n - 1)
          BY <4>2
        <5>2. PICK k \in DOMAIN x : e[k] = i
          BY <3>1, <5>1
        <5>3. QED
          BY <2>3, <5>2
      <4>3. QED
        BY <4>1, <4>2
    <3>2. QED
      BY <3>1
  <2>10. QED
    BY <2>1, <2>2, <2>5, <2>6, <2>7, <2>8, <2>9 DEF Filters
<1>4. QED
  BY <1>1, <1>2, <1>3

(* A filtered list holds what is at the places, in their order. *)
(* What Only leaves: entries of the list, in their order, exactly those of *)
(* the places that are kept.                                               *)
LEMMA OnlyHolds ==
  ASSUME NEW E, NEW s \in Seq(E), NEW P
  PROVE  /\ Only(s, P) \in Seq(E) /\ Len(Only(s, P)) <= Len(s)
         /\ \E e \in [DOMAIN Only(s, P) -> P \intersect DOMAIN s] :
              /\ \A k \in DOMAIN Only(s, P) : Only(s, P)[k] = s[e[k]]
              /\ \A k, m \in DOMAIN Only(s, P) : k < m => e[k] < e[m]
              /\ \A i \in P \intersect DOMAIN s : \E k \in DOMAIN Only(s, P) : e[k] = i

<1> DEFINE r == [i \in DOMAIN s |-> [item |-> s[i], keep |-> i \in P]]
<1> DEFINE R == {r[i] : i \in DOMAIN s}
<1>1. r \in Seq(R) /\ Len(r) = Len(s) /\ DOMAIN r = DOMAIN s
      /\ DOMAIN s = 1..Len(s) /\ Len(s) \in Nat
  <2>1. DOMAIN s = 1..Len(s) /\ Len(s) \in Nat
    OBVIOUS
  <2>2. DOMAIN r = 1..Len(s) /\ \A i \in 1..Len(s) : r[i] \in R
    BY <2>1
  <2>3. r = [i \in 1..Len(s) |-> r[i]]
    BY <2>1
  <2> HIDE DEF r, R
  <2>4. r \in Seq(R)
    BY <2>1, <2>2, <2>3
  <2>5. QED
    BY <2>1, <2>2, <2>4
<1>2. \A i \in DOMAIN s : r[i].item = s[i] /\ (r[i].keep <=> i \in P)
  OBVIOUS
<1>3. Only(s, P) = Filtered!Folded(<< >>, r)
  BY OnlyIsFold
<1> HIDE DEF r, R
<1>8. Items(r) = {s[i] : i \in DOMAIN s}
  BY <1>1, <1>2 DEF Items
<1>4. Filters(<< >>, r, 0, << >>)
  <2>1. << >> \in Seq(Items(r)) /\ Len(<< >>) <= 0 /\ DOMAIN << >> = {}
    OBVIOUS
  <2>2. << >> \in [DOMAIN << >> -> {i \in 1..0 : r[i].keep}]
    OBVIOUS
  <2>3. \A i \in 1..0 : FALSE
    OBVIOUS
  <2>4. /\ \A k \in DOMAIN << >> : << >>[k] = r[<< >>[k]].item
        /\ \A k, m \in DOMAIN << >> : k < m => << >>[k] < << >>[m]
        /\ \A i \in 1..0 : r[i].keep => \E k \in DOMAIN << >> : << >>[k] = i
    BY <2>1, <2>3
  <2>5. QED
    BY <2>1, <2>2, <2>4 DEF Filters
<1>5. ASSUME NEW n \in 1..Len(r), NEW x, Filters(<< >>, r, n - 1, x)
      PROVE  Filters(<< >>, r, n, Filter(x, r[n]))
  <2>1. x \in Seq(Items(r)) /\ Len(x) <= n - 1
    BY <1>5 DEF Filters
  <2>2. PICK e \in [DOMAIN x -> {i \in 1..(n - 1) : r[i].keep}] :
         /\ \A k \in DOMAIN x : x[k] = r[e[k]].item
         /\ \A k, m \in DOMAIN x : k < m => e[k] < e[m]
         /\ \A i \in 1..(n - 1) : r[i].keep => \E k \in DOMAIN x : e[k] = i
    BY <1>5 DEF Filters
  <2>3. QED
    BY <1>1, <2>1, <2>2, FilterStep
<1>6. Filters(<< >>, r, Len(r), Filtered!Folded(<< >>, r))
  BY <1>1, <1>4, <1>5, Filtered!FoldKeeps
<1> DEFINE x == Only(s, P)
<1>9. x \in Seq(Items(r)) /\ Len(x) <= Len(s)
  BY <1>1, <1>3, <1>6 DEF Filters
<1>10. PICK e \in [DOMAIN x -> {i \in 1..Len(r) : r[i].keep}] :
         /\ \A k \in DOMAIN x : x[k] = r[e[k]].item
         /\ \A k, m \in DOMAIN x : k < m => e[k] < e[m]
         /\ \A i \in 1..Len(r) : r[i].keep => \E k \in DOMAIN x : e[k] = i
  BY <1>3, <1>6 DEF Filters
<1> HIDE DEF x
<1>11. {i \in 1..Len(r) : r[i].keep} = P \intersect DOMAIN s
  BY <1>1, <1>2
<1>12. x \in Seq(E)
  BY <1>8, <1>9
<1>13. \A k \in DOMAIN x : x[k] = s[e[k]]
  BY <1>2, <1>10, <1>11
<1>14. \A i \in P \intersect DOMAIN s : \E k \in DOMAIN x : e[k] = i
  BY <1>1, <1>2, <1>10
<1>15. e \in [DOMAIN x -> P \intersect DOMAIN s]
  BY <1>11
<1>16. QED
  BY <1>9, <1>10, <1>12, <1>13, <1>14, <1>15 DEF x

(* No entry stands twice.                                                  *)
Distinct(s) == \A i, j \in DOMAIN s : s[i] = s[j] => i = j

LEMMA AppendDistinct ==
  ASSUME NEW E, NEW s \in Seq(E), NEW x \in E, Distinct(s), x \notin ToSet(s)
  PROVE  /\ Append(s, x) \in Seq(E) /\ Len(Append(s, x)) = Len(s) + 1
         /\ Distinct(Append(s, x)) /\ ToSet(Append(s, x)) = ToSet(s) \union {x}
<1> DEFINE r == Append(s, x)
<1>1. /\ r \in Seq(E) /\ Len(r) = Len(s) + 1 /\ DOMAIN r = 1..(Len(s) + 1) /\ DOMAIN s = 1..Len(s) /\ Len(s) \in Nat
      /\ r[Len(s) + 1] = x /\ \A i \in DOMAIN s : r[i] = s[i]
  OBVIOUS
<1> HIDE DEF r
<1>2. \A i \in DOMAIN r : i = Len(s) + 1 \/ i \in DOMAIN s
  BY <1>1
<1>3. \A i \in DOMAIN s : r[i] # x
  BY <1>1 DEF ToSet
<1>4. Distinct(r)
  BY <1>1, <1>2, <1>3 DEF Distinct
<1>5. ToSet(r) = ToSet(s) \union {x}
  BY <1>1, <1>2 DEF ToSet
<1>6. QED
  BY <1>1, <1>4, <1>5 DEF r

LEMMA TailDistinct ==
  ASSUME NEW E, NEW s \in Seq(E), s # << >>, Distinct(s)
  PROVE  /\ Tail(s) \in Seq(E) /\ Len(Tail(s)) = Len(s) - 1 /\ Distinct(Tail(s))
         /\ Head(s) \in ToSet(s) /\ ToSet(Tail(s)) = ToSet(s) \ {Head(s)}
<1> DEFINE r == Tail(s)
<1>1. /\ r \in Seq(E) /\ Len(r) = Len(s) - 1 /\ DOMAIN r = 1..(Len(s) - 1) /\ DOMAIN s = 1..Len(s)
      /\ Len(s) \in Nat \ {0} /\ Head(s) = s[1] /\ \A i \in DOMAIN r : r[i] = s[i + 1]
  OBVIOUS
<1> HIDE DEF r
<1>2. \A i \in DOMAIN r : i + 1 \in DOMAIN s /\ i + 1 # 1
  BY <1>1
<1>3. \A i \in DOMAIN s : i # 1 => i - 1 \in DOMAIN r /\ r[i - 1] = s[i]
  BY <1>1
<1>4. 1 \in DOMAIN s
  BY <1>1
<1>5. Distinct(r)
  <2>1. ASSUME NEW i \in DOMAIN r, NEW j \in DOMAIN r, r[i] = r[j] PROVE i = j
    <3>1. i + 1 = j + 1
      BY <1>1, <1>2, <2>1 DEF Distinct
    <3>2. QED
      BY <1>1, <3>1
  <2>2. QED
    BY <2>1 DEF Distinct
<1>6. ToSet(r) = ToSet(s) \ {Head(s)}
  <2>1. \A i \in DOMAIN r : r[i] \in ToSet(s) /\ r[i] # s[1]
    BY <1>1, <1>2, <1>4 DEF ToSet, Distinct
  <2>2. \A i \in DOMAIN s : s[i] # s[1] => s[i] \in ToSet(r)
    BY <1>3 DEF ToSet
  <2>3. QED
    BY <1>1, <2>1, <2>2 DEF ToSet
<1>7. QED
  BY <1>1, <1>4, <1>5, <1>6 DEF r, ToSet

LEMMA OnlyDistinct ==
  ASSUME NEW E, NEW s \in Seq(E), NEW P \in SUBSET DOMAIN s, Distinct(s)
  PROVE  /\ Only(s, P) \in Seq(E) /\ Len(Only(s, P)) <= Len(s)
         /\ Distinct(Only(s, P)) /\ ToSet(Only(s, P)) = {s[i] : i \in P}
<1> DEFINE x == Only(s, P)
<1>1. x \in Seq(E) /\ Len(x) <= Len(s)
  BY OnlyHolds
<1>2. PICK e \in [DOMAIN x -> P \intersect DOMAIN s] :
         /\ \A k \in DOMAIN x : x[k] = s[e[k]]
         /\ \A k, m \in DOMAIN x : k < m => e[k] < e[m]
         /\ \A i \in P \intersect DOMAIN s : \E k \in DOMAIN x : e[k] = i
  BY OnlyHolds
<1> HIDE DEF x
<1>3. DOMAIN x = 1..Len(x) /\ DOMAIN s = 1..Len(s)
  BY <1>1
<1>4. Distinct(x)
  <2>1. ASSUME NEW k \in DOMAIN x, NEW m \in DOMAIN x, x[k] = x[m] PROVE k = m
    <3>1. e[k] = e[m] /\ e[k] \in Int /\ e[m] \in Int
      BY <1>2, <1>3, <2>1 DEF Distinct
    <3>2. ~(k < m) /\ ~(m < k)
      BY <1>2, <3>1
    <3>3. QED
      BY <1>3, <3>2
  <2>2. QED
    BY <2>1 DEF Distinct
<1>5. ToSet(x) = {s[i] : i \in P}
  BY <1>2 DEF ToSet
<1>6. QED
  BY <1>1, <1>4, <1>5 DEF x

(* A list without repetitions is as long as its set is large. *)
LEMMA DistinctCount ==
  ASSUME NEW E, NEW s \in Seq(E), Distinct(s)
  PROVE  IsFiniteSet(ToSet(s)) /\ Cardinality(ToSet(s)) = Len(s)
<1>1. DOMAIN s = 1..Len(s) /\ Len(s) \in Nat
  OBVIOUS
<1>2. IsFiniteSet(1..Len(s)) /\ Cardinality(1..Len(s)) = Len(s)
  <2>1. 1 \in Int /\ Len(s) \in Int /\ Len(s) >= 0
    BY <1>1
  <2>2. QED
    BY <1>1, <2>1, FS_Interval
<1>3. s \in Injection(1..Len(s), ToSet(s)) /\ s \in Surjection(1..Len(s), ToSet(s))
  <2>1. s \in [1..Len(s) -> ToSet(s)]
    BY <1>1 DEF ToSet
  <2>2. QED
    BY <1>1, <2>1 DEF Injection, IsInjective, Surjection, ToSet, Distinct
<1>4. QED
  BY <1>2, <1>3, FS_Surjection

-----------------------------------------------------------------------------
(* The network of the engine (EngineNetwork).                              *)

Sends == [method : NetMethods, of : NetWorkers \union NetTasks, failed : Nat, runs : BOOLEAN]
TaskStates == {"unknown", "submitted", "submit_failed", "completed", "failed"}

Submits(send, t) == send.method = "task.submit" /\ send.of = t

(* While a submission that nothing entangled is under way it is the only   *)
(* one of its task, and the task stands as submitted and not delivered.    *)
NetInv ==
  /\ sendsNow \in Seq(Sends) /\ taskStatus \in [NetTasks -> TaskStates]
  /\ \A i \in DOMAIN sendsNow : sendsNow[i].method = "task.submit" => sendsNow[i].of \in NetTasks
  /\ NodesAreWelcome /\ SubmissionsAreTrue
  /\ \A t \in NetTasks \ entangled :
       /\ Submitting(t) => taskStatus[t] = "submitted" /\ t \notin delivered
       /\ \A i, j \in DOMAIN sendsNow : Submits(sendsNow[i], t) /\ Submits(sendsNow[j], t) => i = j

LEMMA NetInitially == ASSUME NetInit PROVE NetInv
<1>1. sendsNow = << >> /\ << >> \in Seq(Sends) /\ DOMAIN << >> = {}
  BY DEF NetInit
<1>2. QED
  BY <1>1 DEF NetInit, NetInv, NodesAreWelcome, SubmissionsAreTrue, Submitting, TaskStates

(* A send begins: the sends in progress, one more inside them.             *)
LEMMA SendBegins ==
  ASSUME sendsNow \in Seq(Sends), NEW m \in NetMethods, NEW x \in NetWorkers \union NetTasks, SendFor(m, x)
  PROVE  /\ sendsNow' \in Seq(Sends)
         /\ DOMAIN sendsNow' = DOMAIN sendsNow \union {Len(sendsNow) + 1}
         /\ Len(sendsNow) + 1 \notin DOMAIN sendsNow
         /\ \A i \in DOMAIN sendsNow : sendsNow'[i] = sendsNow[i]
         /\ sendsNow'[Len(sendsNow) + 1].method = m /\ sendsNow'[Len(sendsNow) + 1].of = x
<1> DEFINE new == [method |-> m, of |-> x, failed |-> 0, runs |-> FALSE]
<1>1. new \in Sends
  BY DEF Sends
<1>2. sendsNow' = Append(sendsNow, new)
  BY DEF SendFor
<1>3. new.method = m /\ new.of = x
  OBVIOUS
<1> HIDE DEF new
<1>4. QED
  BY <1>1, <1>2, <1>3

(* The innermost send returns.                                             *)
LEMMA SendEnds ==
  ASSUME sendsNow \in Seq(Sends), sendsNow # << >>, sendsNow' = Front(sendsNow)
  PROVE  /\ sendsNow' \in Seq(Sends) /\ Len(sendsNow) \in DOMAIN sendsNow
         /\ Innermost = sendsNow[Len(sendsNow)] /\ Innermost \in Sends
         /\ DOMAIN sendsNow' = DOMAIN sendsNow \ {Len(sendsNow)}
         /\ \A i \in DOMAIN sendsNow' : sendsNow'[i] = sendsNow[i]
<1>1. Len(sendsNow) \in Nat /\ Len(sendsNow) > 0
  OBVIOUS
<1>2. sendsNow' = SubSeq(sendsNow, 1, Len(sendsNow) - 1)
  BY DEF Front
<1>3. Innermost = sendsNow[Len(sendsNow)]
  BY DEF Innermost, Last
<1>4. QED
  BY <1>1, <1>2, <1>3

(* The innermost send returns: what it was about is settled.               *)
LEMMA SendReturnsStep ==
  ASSUME NetInv, sendsNow # << >>, NEW failed \in BOOLEAN, NEW accepted \in BOOLEAN,
         SendReturns(failed, accepted)
  PROVE  NetInv'
<1> DEFINE me == Innermost
<1>1. /\ sendsNow' = Front(sendsNow) /\ taskStatus' = StatusAfter(me, failed)
      /\ delivered' = IF me.method = "task.submit" /\ ~failed THEN delivered \union {me.of} ELSE delivered
      /\ shaken' = Enrolled(shaken, me, accepted) /\ nodesOnline' = Enrolled(nodesOnline, me, accepted)
      /\ welcomed' = Enrolled(welcomed, me, accepted) /\ UNCHANGED entangled
  BY DEF SendReturns
<1>2. /\ sendsNow' \in Seq(Sends) /\ Len(sendsNow) \in DOMAIN sendsNow
      /\ me = sendsNow[Len(sendsNow)] /\ me \in Sends
      /\ DOMAIN sendsNow' = DOMAIN sendsNow \ {Len(sendsNow)}
      /\ \A i \in DOMAIN sendsNow' : sendsNow'[i] = sendsNow[i]
  BY <1>1, SendEnds DEF NetInv
<1> HIDE DEF me
<1>3. NodesAreWelcome'
  BY <1>1 DEF NetInv, NodesAreWelcome, Enrolled
<1>4. me.method = "task.submit" => me.of \in NetTasks
  BY <1>2 DEF NetInv
<1>5. taskStatus' \in [NetTasks -> TaskStates]
      /\ \A t \in NetTasks : ~Submits(me, t) => taskStatus'[t] = taskStatus[t] /\ (t \in delivered' <=> t \in delivered)
  <2>1. taskStatus \in [NetTasks -> TaskStates]
    BY DEF NetInv
  <2>2. QED
    BY <1>1, <1>4, <2>1 DEF StatusAfter, TaskStates, Submits
<1>6. ASSUME NEW t \in NetTasks \ entangled
      PROVE  /\ Submitting(t)' => taskStatus'[t] = "submitted" /\ t \notin delivered'
             /\ ~Submitting(t)' => /\ taskStatus'[t] = "submitted" => t \in delivered'
                                   /\ taskStatus'[t] = "submit_failed" => t \notin delivered'
             /\ \A i, j \in DOMAIN sendsNow' : Submits(sendsNow'[i], t) /\ Submits(sendsNow'[j], t) => i = j
  <2>1. /\ Submitting(t) => taskStatus[t] = "submitted" /\ t \notin delivered
        /\ ~Submitting(t) => /\ taskStatus[t] = "submitted" => t \in delivered
                             /\ taskStatus[t] = "submit_failed" => t \notin delivered
        /\ \A i, j \in DOMAIN sendsNow : Submits(sendsNow[i], t) /\ Submits(sendsNow[j], t) => i = j
    BY DEF NetInv, SubmissionsAreTrue
  <2>2. CASE Submits(me, t)
    <3>1. ~Submitting(t)' /\ Submitting(t)
      BY <1>2, <2>1, <2>2 DEF Submitting, Submits
    <3>2. \A i, j \in DOMAIN sendsNow' : Submits(sendsNow'[i], t) /\ Submits(sendsNow'[j], t) => i = j
      BY <1>2, <2>1
    <3>3. taskStatus[t] = "submitted" /\ t \notin delivered
      BY <2>1, <3>1
    <3>4. DOMAIN taskStatus = NetTasks
      BY DEF NetInv
    <3>5. CASE failed
      <4>1. taskStatus'[t] = "submit_failed" /\ t \notin delivered'
        BY <1>1, <2>2, <3>3, <3>4, <3>5 DEF StatusAfter, Submits
      <4>2. QED
        BY <3>1, <3>2, <4>1
    <3>6. CASE ~failed
      <4>1. taskStatus'[t] = "submitted" /\ t \in delivered'
        BY <1>1, <2>2, <3>3, <3>6 DEF StatusAfter, Submits
      <4>2. QED
        BY <3>1, <3>2, <4>1
    <3>7. QED
      BY <3>5, <3>6
  <2>3. CASE ~Submits(me, t)
    <3>1. Submitting(t)' <=> Submitting(t)
      BY <1>2, <2>3 DEF Submitting, Submits
    <3>2. \A i, j \in DOMAIN sendsNow' : Submits(sendsNow'[i], t) /\ Submits(sendsNow'[j], t) => i = j
      BY <1>2, <2>1
    <3>3. taskStatus'[t] = taskStatus[t] /\ (t \in delivered' <=> t \in delivered)
      BY <1>5, <2>3
    <3>4. QED
      BY <2>1, <3>1, <3>2, <3>3
  <2>4. QED
    BY <2>2, <2>3
<1>7. \A i \in DOMAIN sendsNow' : sendsNow'[i].method = "task.submit" => sendsNow'[i].of \in NetTasks
  BY <1>2 DEF NetInv
<1>8. SubmissionsAreTrue'
  BY <1>1, <1>6 DEF SubmissionsAreTrue
<1>9. QED
  BY <1>1, <1>2, <1>3, <1>5, <1>6, <1>7, <1>8 DEF NetInv

(* A step of the innermost send that leaves what it is about as it is.     *)
LEMMA SameSubmissions ==
  ASSUME NetInv, sendsNow' \in Seq(Sends), DOMAIN sendsNow' = DOMAIN sendsNow,
         \A i \in DOMAIN sendsNow : sendsNow'[i].method = sendsNow[i].method /\ sendsNow'[i].of = sendsNow[i].of,
         UNCHANGED <<taskStatus, delivered, entangled>>, NodesAreWelcome'
  PROVE  NetInv'
<1>1. \A t \in NetTasks : Submitting(t)' <=> Submitting(t)
  BY DEF Submitting
<1>2. \A t \in NetTasks, i \in DOMAIN sendsNow : Submits(sendsNow'[i], t) <=> Submits(sendsNow[i], t)
  BY DEF Submits
<1>3. SubmissionsAreTrue'
  BY <1>1 DEF NetInv, SubmissionsAreTrue
<1>4. QED
  BY <1>1, <1>2, <1>3 DEF NetInv

LEMMA NetStep == ASSUME NetInv, NetNext PROVE NetInv'
<1>0. sendsNow \in Seq(Sends) /\ taskStatus \in [NetTasks -> TaskStates]
      /\ \A i \in DOMAIN sendsNow : sendsNow[i].method = "task.submit" => sendsNow[i].of \in NetTasks
  BY DEF NetInv
<1>1. ASSUME NEW m \in NetMethods, RegisterHandler(m) PROVE NetInv'
  BY <1>1, SameSubmissions DEF RegisterHandler, NetInv, NodesAreWelcome
<1>2. ASSUME NEW w \in NetWorkers, RegisterWorker(w) PROVE NetInv'
  <2>1. SendFor("handshake.init", w) /\ UNCHANGED <<shaken, nodesOnline, taskStatus, welcomed, delivered, entangled>>
    BY <1>2 DEF RegisterWorker
  <2>2. /\ sendsNow' \in Seq(Sends)
        /\ DOMAIN sendsNow' = DOMAIN sendsNow \union {Len(sendsNow) + 1}
        /\ \A i \in DOMAIN sendsNow : sendsNow'[i] = sendsNow[i]
        /\ sendsNow'[Len(sendsNow) + 1].method = "handshake.init"
    BY <1>0, <2>1, SendBegins DEF NetMethods
  <2>3. \A t \in NetTasks : Submitting(t)' <=> Submitting(t)
    BY <2>2 DEF Submitting
  <2>4. \A t \in NetTasks, i \in DOMAIN sendsNow' : Submits(sendsNow'[i], t) => i \in DOMAIN sendsNow /\ Submits(sendsNow[i], t)
    BY <2>2 DEF Submits
  <2>5. SubmissionsAreTrue' /\ NodesAreWelcome'
    BY <2>1, <2>3 DEF NetInv, SubmissionsAreTrue, NodesAreWelcome
  <2>6. \A i \in DOMAIN sendsNow' : sendsNow'[i].method = "task.submit" => sendsNow'[i].of \in NetTasks
    BY <1>0, <2>2
  <2>7. QED
    BY <2>1, <2>2, <2>3, <2>4, <2>5, <2>6 DEF NetInv
<1>3. ASSUME NEW u \in NetTasks, SubmitNetTask(u) PROVE NetInv'
  <2>1. /\ SendFor("task.submit", u) /\ UNCHANGED <<shaken, nodesOnline, welcomed>>
        /\ taskStatus' = [taskStatus EXCEPT ![u] = "submitted"] /\ delivered' = delivered \ {u}
        /\ entangled' = IF Submitting(u) THEN entangled \union {u} ELSE entangled \ {u}
    BY <1>3 DEF SubmitNetTask
  <2>2. /\ sendsNow' \in Seq(Sends)
        /\ DOMAIN sendsNow' = DOMAIN sendsNow \union {Len(sendsNow) + 1}
        /\ \A i \in DOMAIN sendsNow : sendsNow'[i] = sendsNow[i]
        /\ sendsNow'[Len(sendsNow) + 1].method = "task.submit" /\ sendsNow'[Len(sendsNow) + 1].of = u
    <3>1. "task.submit" \in NetMethods /\ u \in NetWorkers \union NetTasks
      BY DEF NetMethods
    <3>2. QED
      BY <1>0, <2>1, <3>1, SendBegins
  <2>3. \A t \in NetTasks : t # u => (Submitting(t)' <=> Submitting(t))
    BY <2>2 DEF Submitting
  <2>4. \A t \in NetTasks, i \in DOMAIN sendsNow' :
          t # u /\ Submits(sendsNow'[i], t) => i \in DOMAIN sendsNow /\ Submits(sendsNow[i], t)
    BY <2>2 DEF Submits
  <2>5. Submitting(u)'
    BY <2>2 DEF Submitting
  <2>6. u \notin entangled' => \A i \in DOMAIN sendsNow' : Submits(sendsNow'[i], u) => i = Len(sendsNow) + 1
    BY <2>1, <2>2 DEF Submits, Submitting
  <2>7. \A i \in DOMAIN sendsNow' : sendsNow'[i].method = "task.submit" => sendsNow'[i].of \in NetTasks
    BY <1>0, <2>2
  <2>8. ASSUME NEW t \in NetTasks \ entangled'
        PROVE  /\ Submitting(t)' => taskStatus'[t] = "submitted" /\ t \notin delivered'
               /\ ~Submitting(t)' => /\ taskStatus'[t] = "submitted" => t \in delivered'
                                     /\ taskStatus'[t] = "submit_failed" => t \notin delivered'
               /\ \A i, j \in DOMAIN sendsNow' : Submits(sendsNow'[i], t) /\ Submits(sendsNow'[j], t) => i = j
    <3>1. CASE t = u
      BY <1>0, <2>1, <2>5, <2>6, <3>1
    <3>2. CASE t # u
      <4>1. /\ t \in NetTasks \ entangled /\ taskStatus'[t] = taskStatus[t] /\ (t \in delivered' <=> t \in delivered)
        BY <1>0, <2>1, <3>2
      <4>2. QED
        BY <2>3, <2>4, <3>2, <4>1 DEF NetInv, SubmissionsAreTrue
    <3>3. QED
      BY <3>1, <3>2
  <2>9. SubmissionsAreTrue' /\ NodesAreWelcome'
    BY <2>1, <2>8 DEF NetInv, SubmissionsAreTrue, NodesAreWelcome
  <2>10. taskStatus' \in [NetTasks -> TaskStates]
    BY <1>0, <2>1 DEF TaskStates
  <2>11. QED
    BY <2>2, <2>7, <2>8, <2>9, <2>10 DEF NetInv
<1>4. ASSUME NEW u \in NetTasks, NEW m \in {"task.result", "task.fail"}, NEW s \in {"completed", "failed"},
             EndNetTask(u, m, s)
      PROVE  NetInv'
  <2>1. /\ SendFor(m, u) /\ UNCHANGED <<shaken, nodesOnline, welcomed, delivered>>
        /\ taskStatus' = IF Known(u) THEN [taskStatus EXCEPT ![u] = s] ELSE taskStatus
        /\ entangled' = IF Submitting(u) THEN entangled \union {u} ELSE entangled
    BY <1>4 DEF EndNetTask
  <2>2. /\ sendsNow' \in Seq(Sends)
        /\ DOMAIN sendsNow' = DOMAIN sendsNow \union {Len(sendsNow) + 1}
        /\ \A i \in DOMAIN sendsNow : sendsNow'[i] = sendsNow[i]
        /\ sendsNow'[Len(sendsNow) + 1].method # "task.submit"
    BY <1>0, <2>1, SendBegins DEF NetMethods
  <2>3. \A t \in NetTasks : Submitting(t)' <=> Submitting(t)
    BY <2>2 DEF Submitting
  <2>4. \A t \in NetTasks, i \in DOMAIN sendsNow' : Submits(sendsNow'[i], t) => i \in DOMAIN sendsNow /\ Submits(sendsNow[i], t)
    BY <2>2 DEF Submits
  <2>5. \A i \in DOMAIN sendsNow' : sendsNow'[i].method = "task.submit" => sendsNow'[i].of \in NetTasks
    BY <1>0, <2>2
  <2>6. taskStatus' \in [NetTasks -> TaskStates] /\ NodesAreWelcome'
        /\ \A t \in NetTasks : t # u => taskStatus'[t] = taskStatus[t]
    BY <1>0, <2>1 DEF TaskStates, NetInv, NodesAreWelcome
  <2>7. Submitting(u) \/ taskStatus'[u] \notin {"submitted", "submit_failed"} \/ taskStatus'[u] = taskStatus[u]
    BY <1>0, <2>1
  <2>8. ASSUME NEW t \in NetTasks \ entangled'
        PROVE  /\ Submitting(t)' => taskStatus'[t] = "submitted" /\ t \notin delivered'
               /\ ~Submitting(t)' => /\ taskStatus'[t] = "submitted" => t \in delivered'
                                     /\ taskStatus'[t] = "submit_failed" => t \notin delivered'
               /\ \A i, j \in DOMAIN sendsNow' : Submits(sendsNow'[i], t) /\ Submits(sendsNow'[j], t) => i = j
    <3>1. t \in NetTasks \ entangled /\ (t = u => ~Submitting(u))
      BY <2>1
    <3>2. QED
      BY <2>1, <2>3, <2>4, <2>6, <2>7, <3>1 DEF NetInv, SubmissionsAreTrue
  <2>9. SubmissionsAreTrue'
    BY <2>8 DEF SubmissionsAreTrue
  <2>10. QED
    BY <2>2, <2>5, <2>6, <2>8, <2>9 DEF NetInv
<1>5. CASE NobodyHandles
  BY <1>5, SendReturnsStep DEF NobodyHandles
<1>6. CASE RunHandler
  <2>1. sendsNow # << >> /\ sendsNow' = [sendsNow EXCEPT ![Len(sendsNow)].runs = TRUE]
        /\ UNCHANGED <<shaken, nodesOnline, taskStatus, welcomed, delivered, entangled>>
    BY <1>6 DEF RunHandler
  <2>2. Len(sendsNow) \in DOMAIN sendsNow /\ sendsNow[Len(sendsNow)] \in Sends
    BY <1>0, <2>1
  <2>3. [sendsNow[Len(sendsNow)] EXCEPT !.runs = TRUE] \in Sends
    BY <2>2 DEF Sends
  <2>4. sendsNow' \in Seq(Sends) /\ DOMAIN sendsNow' = DOMAIN sendsNow
    BY <1>0, <2>1, <2>2, <2>3
  <2>5. \A i \in DOMAIN sendsNow : sendsNow'[i].method = sendsNow[i].method /\ sendsNow'[i].of = sendsNow[i].of
    BY <1>0, <2>1, <2>2 DEF Sends
  <2>6. QED
    BY <2>1, <2>4, <2>5, SameSubmissions DEF NetInv, NodesAreWelcome
<1>7. CASE Respond
  <2>1. UNCHANGED <<sendsNow, taskStatus, delivered, entangled>> /\ NodesAreWelcome'
    BY <1>7 DEF Respond, NetInv, NodesAreWelcome
  <2>2. QED
    BY <1>0, <2>1, SameSubmissions
<1>8. CASE NetHandlerReturns
  BY <1>8, SendReturnsStep DEF NetHandlerReturns, HandlerRuns
<1>9. CASE NetHandlerRaises
  <2>1. CASE Innermost.failed < SendRetries
    <3>1. /\ sendsNow # << >>
          /\ sendsNow' = [sendsNow EXCEPT ![Len(sendsNow)].failed = @ + 1, ![Len(sendsNow)].runs = FALSE]
          /\ UNCHANGED <<shaken, nodesOnline, taskStatus, welcomed, delivered, entangled>>
      BY <1>9, <2>1 DEF NetHandlerRaises, HandlerRuns
    <3>2. Len(sendsNow) \in DOMAIN sendsNow /\ sendsNow[Len(sendsNow)] \in Sends
      BY <1>0, <3>1
    <3>3. [sendsNow[Len(sendsNow)] EXCEPT !.failed = @ + 1, !.runs = FALSE] \in Sends
      <4>1. ASSUME NEW x \in Sends PROVE [x EXCEPT !.failed = @ + 1, !.runs = FALSE] \in Sends
        <5> DEFINE y == [x EXCEPT !.failed = @ + 1]
        <5>1. y \in Sends
          BY DEF Sends
        <5>2. [x EXCEPT !.failed = @ + 1, !.runs = FALSE] = [y EXCEPT !.runs = FALSE]
          OBVIOUS
        <5> HIDE DEF y
        <5>3. [y EXCEPT !.runs = FALSE] \in Sends
          BY <5>1 DEF Sends
        <5>4. QED
          BY <5>2, <5>3
      <4>2. QED
        BY <3>2, <4>1
    <3>4. sendsNow' = [sendsNow EXCEPT ![Len(sendsNow)] = [sendsNow[Len(sendsNow)] EXCEPT !.failed = @ + 1, !.runs = FALSE]]
      BY <1>0, <3>1, <3>2
    <3>5. sendsNow' \in Seq(Sends) /\ DOMAIN sendsNow' = DOMAIN sendsNow
      BY <1>0, <3>2, <3>3, <3>4
    <3>6. \A i \in DOMAIN sendsNow : sendsNow'[i].method = sendsNow[i].method /\ sendsNow'[i].of = sendsNow[i].of
      BY <1>0, <3>2, <3>4 DEF Sends
    <3>7. QED
      BY <3>1, <3>5, <3>6, SameSubmissions DEF NetInv, NodesAreWelcome
  <2>2. CASE ~(Innermost.failed < SendRetries)
    BY <1>9, <2>2, SendReturnsStep DEF NetHandlerRaises, HandlerRuns
  <2>3. QED
    BY <2>1, <2>2
<1>10. QED
  BY <1>1, <1>2, <1>3, <1>4, <1>5, <1>6, <1>7, <1>8, <1>9 DEF NetNext

LEMMA NetRests == ASSUME NetInv, UNCHANGED netVars PROVE NetInv'
<1>1. NodesAreWelcome'
  BY DEF netVars, NetInv, NodesAreWelcome
<1>2. QED
  BY <1>1, SameSubmissions DEF netVars, NetInv

-----------------------------------------------------------------------------
(* The plugins of the engine (EnginePlugins).                              *)

(* The shapes of the tables and of what a registration has of them.        *)
EventNames == UNION {Range(m.events) : m \in Manifests}
Listener == [event : EventNames, owner : Nat, nth : Nat]
PluginObject ==
  [name : PluginNames, manifest : Manifests, active : BOOLEAN, runs : Nat,
   commands : SUBSET PluginCommands, subscribed : Seq(Listener), hooks : Seq(HookEvents)]
AliasTable == [PluginCommands -> PluginCommands \union {""}]
Entries ==
  [id : Nat, object : PluginObject, commandOf : [PluginCommands -> Nat], aliasOf : AliasTable,
   allowed : SUBSET PluginCommands, listeners : Seq(Listener), hookTable : [HookEvents -> Seq(Nat)],
   full : BOOLEAN, violations : Nat]

LEMMA PluginConstants ==
  /\ OwnCommands \subseteq PluginCommands
  /\ OwnAliases \in [PluginCommands -> PluginCommands \union {""}]
  /\ \A m \in Manifests : /\ m.commands \in Seq(PluginCommands) /\ m.executions \in Nat
                           /\ m.aliases \in [PluginCommands -> SUBSET PluginCommands]
                           /\ m.events \in Seq(Range(m.events)) /\ m.hooks \in Seq(Range(m.hooks))
  /\ MaxSubscriptions \in Nat /\ MaxCommands \in Nat /\ MaxHooks \in Nat
  /\ MaxLoads \in Nat /\ MaxUses \in Nat /\ MaxDepth \in Nat \ {0}
  /\ \A m \in Manifests : m.hooks \in Seq(HookEvents) /\ m.events \in Seq(EventNames)
<1>1. \A m \in Manifests : Range(m.hooks) \subseteq HookEvents /\ Range(m.events) \subseteq EventNames
  BY DEF HookEvents, EventNames
<1>2. ASSUME NEW S, NEW T, S \subseteq T, NEW s \in Seq(S) PROVE s \in Seq(T)
  BY <1>2
<1>3. \A m \in Manifests : m.hooks \in Seq(HookEvents) /\ m.events \in Seq(EventNames)
  BY <1>1, <1>2, PluginAssumption
<1>4. QED
  BY <1>3, PluginAssumption

(* What the first n commands, subscriptions and hooks of a manifest made   *)
(* of the tables.                                                          *)
Commanded(base, s, n, x) ==
  /\ x \in Entries /\ x.id = base.id /\ x.listeners = base.listeners /\ x.hookTable = base.hookTable
  /\ x.object = [base.object EXCEPT !.commands = x.object.commands]
  /\ IsFiniteSet(x.object.commands) /\ Cardinality(x.object.commands) <= MaxCommands
  /\ \A c \in PluginCommands :
       x.commandOf[c] = IF c \in x.object.commands THEN x.id ELSE base.commandOf[c]
  /\ \A c \in x.object.commands : base.commandOf[c] = 0 /\ c \in x.allowed
  /\ base.allowed \subseteq x.allowed

Heard(base, s, n, x) ==
  /\ x \in Entries /\ x.id = base.id /\ x.commandOf = base.commandOf /\ x.allowed = base.allowed
  /\ x.hookTable = base.hookTable
  /\ x.object = [base.object EXCEPT !.subscribed = x.object.subscribed]
  /\ \A i \in DOMAIN x.listeners :
       x.listeners[i].owner = x.id \/ \E k \in DOMAIN base.listeners : x.listeners[i] = base.listeners[k]

Hooked(base, s, n, x) ==
  /\ x \in Entries /\ x.id = base.id /\ x.commandOf = base.commandOf /\ x.allowed = base.allowed
  /\ x.listeners = base.listeners
  /\ x.object = [base.object EXCEPT !.hooks = x.object.hooks]
  /\ Len(x.object.hooks) <= MaxHooks
  /\ \A e \in HookEvents : \A i \in DOMAIN x.hookTable[e] :
       \/ \E k \in DOMAIN base.hookTable[e] : x.hookTable[e][i] = base.hookTable[e][k]
       \/ x.hookTable[e][i] = x.id /\ e \in Range(x.object.hooks)

Commanding  == INSTANCE FoldFacts WITH Op <- AddCommand, Holds <- Commanded
Subscribing == INSTANCE FoldFacts WITH Op <- Subscribe, Holds <- Heard
Hooking     == INSTANCE FoldFacts WITH Op <- AddHook, Holds <- Hooked

LEMMA StagesAreFolds ==
  ASSUME NEW base, NEW s
  PROVE  /\ FoldLeft(AddCommand, base, s) = Commanding!Folded(base, s)
         /\ FoldLeft(Subscribe, base, s) = Subscribing!Folded(base, s)
         /\ FoldLeft(AddHook, base, s) = Hooking!Folded(base, s)
<1>1. FoldLeft(AddCommand, base, s) = Commanding!Folded(base, s)
  BY DEF Commanding!Folded, Commanding!FoldLeft, FoldLeft, MapThenFoldSet, Commanding!MapThenFoldSet,
         Max, Commanding!Max
<1>2. FoldLeft(Subscribe, base, s) = Subscribing!Folded(base, s)
  BY DEF Subscribing!Folded, Subscribing!FoldLeft, FoldLeft, MapThenFoldSet,
         Subscribing!MapThenFoldSet, Max, Subscribing!Max
<1>3. FoldLeft(AddHook, base, s) = Hooking!Folded(base, s)
  BY DEF Hooking!Folded, Hooking!FoldLeft, FoldLeft, MapThenFoldSet, Hooking!MapThenFoldSet, Max, Hooking!Max
<1>4. QED
  BY <1>1, <1>2, <1>3

LEMMA EntryFields ==
  ASSUME NEW x \in Entries
  PROVE  /\ x.id \in Nat /\ x.object \in PluginObject /\ x.commandOf \in [PluginCommands -> Nat]
         /\ x.aliasOf \in AliasTable /\ x.allowed \in SUBSET PluginCommands
         /\ x.listeners \in Seq(Listener) /\ x.hookTable \in [HookEvents -> Seq(Nat)]
         /\ x.full \in BOOLEAN /\ x.violations \in Nat
  BY DEF Entries

LEMMA ObjectFields ==
  ASSUME NEW o \in PluginObject
  PROVE  /\ o.name \in PluginNames /\ o.manifest \in Manifests /\ o.active \in BOOLEAN /\ o.runs \in Nat
         /\ o.commands \in SUBSET PluginCommands /\ o.subscribed \in Seq(Listener)
         /\ o.hooks \in Seq(HookEvents)
  BY DEF PluginObject

(* One command more, or a violation.                                       *)
CommandAdded(x, c, y) ==
  /\ y \in Entries /\ y.id = x.id /\ y.listeners = x.listeners /\ y.hookTable = x.hookTable
  /\ \/ y.object = x.object /\ y.commandOf = x.commandOf /\ y.allowed = x.allowed
     \/ /\ ~(Cardinality(x.object.commands) >= MaxCommands) /\ ~(x.commandOf[c] # 0)
        /\ y.object = [x.object EXCEPT !.commands = @ \union {c}]
        /\ y.commandOf = [x.commandOf EXCEPT ![c] = x.id]
        /\ c \in y.allowed /\ x.allowed \subseteq y.allowed

LEMMA AddCommandStep ==
  ASSUME NEW x \in Entries, NEW c \in PluginCommands, NEW y, y = AddCommand(x, c),
         IsFiniteSet(x.object.commands)
  PROVE  CommandAdded(x, c, y)
<1> DEFINE o == x.object
           al == [a \in DOMAIN x.aliasOf |-> IF a \in o.manifest.aliases[c] THEN c ELSE x.aliasOf[a]]
           ad == [x EXCEPT !.object.commands = @ \union {c},
                           !.commandOf[c] = x.id,
                           !.aliasOf = [a \in DOMAIN @ |-> IF a \in o.manifest.aliases[c] THEN c ELSE @[a]],
                           !.allowed = @ \union {c} \union o.manifest.aliases[c]]
<1>0. x.id \in Nat /\ o \in PluginObject /\ x.commandOf \in [PluginCommands -> Nat]
      /\ x.aliasOf \in AliasTable /\ x.allowed \in SUBSET PluginCommands /\ x.violations \in Nat
  BY EntryFields
<1>1. o.manifest.aliases[c] \in SUBSET PluginCommands /\ o.commands \in SUBSET PluginCommands
  BY <1>0, ObjectFields, PluginConstants
<1>6. Cardinality(o.commands) \in Nat /\ MaxCommands \in Nat
  BY FS_CardinalityType, PluginConstants
<1>2. CASE y = [x EXCEPT !.violations = @ + 1] \/ y = [x EXCEPT !.violations = @ + 2] \/ y = x
  <2>1. x.violations + 1 \in Nat /\ x.violations + 2 \in Nat
    BY <1>0
  <2>3. \A v \in Nat : [x EXCEPT !.violations = v] \in Entries
    BY DEF Entries
  <2>4. y = [x EXCEPT !.violations = x.violations + 1] \/ y = [x EXCEPT !.violations = x.violations + 2] \/ y = x
    BY <1>2
  <2>5. y \in Entries
    BY <2>1, <2>3, <2>4
  <2>2. QED
    BY <1>2, <2>5 DEF Entries, CommandAdded
<1>3. CASE y = ad /\ ~(Cardinality(o.commands) >= MaxCommands) /\ ~(x.commandOf[c] # 0)
  <2>1. /\ y.id = x.id /\ y.listeners = x.listeners /\ y.hookTable = x.hookTable
        /\ y.object = [o EXCEPT !.commands = @ \union {c}]
        /\ y.commandOf = [x.commandOf EXCEPT ![c] = x.id]
        /\ y.aliasOf = al
        /\ y.allowed = x.allowed \union {c} \union o.manifest.aliases[c]
        /\ y.full = x.full /\ y.violations = x.violations
    BY <1>3 DEF Entries
  <2>2. [o EXCEPT !.commands = @ \union {c}] \in PluginObject
    BY <1>0 DEF PluginObject
  <2>3. al \in AliasTable
    BY <1>0 DEF AliasTable
  <2>4. [x.commandOf EXCEPT ![c] = x.id] \in [PluginCommands -> Nat]
    BY <1>0
  <2>5. x.allowed \union {c} \union o.manifest.aliases[c] \in SUBSET PluginCommands
    BY <1>0, <1>1
  <2> HIDE DEF al
  <2>6. y = [x EXCEPT !.object = [o EXCEPT !.commands = @ \union {c}],
                      !.commandOf = [x.commandOf EXCEPT ![c] = x.id],
                      !.aliasOf = al,
                      !.allowed = x.allowed \union {c} \union o.manifest.aliases[c]]
    BY <1>3 DEF al, Entries
  <2>7. y \in Entries
    BY <2>2, <2>3, <2>4, <2>5, <2>6 DEF Entries
  <2>8. QED
    BY <1>3, <2>1, <2>7 DEF CommandAdded
<1>4. \/ y = [x EXCEPT !.violations = @ + 1] \/ y = [x EXCEPT !.violations = @ + 2] \/ y = x
      \/ y = ad /\ ~(Cardinality(o.commands) >= MaxCommands) /\ ~(x.commandOf[c] # 0)
  <2>1. CASE c \notin o.manifest.mayCommand
    BY <2>1 DEF AddCommand
  <2>2. CASE c \in o.manifest.mayCommand /\ Cardinality(o.commands) >= MaxCommands
    <3>1. y = [x EXCEPT !.violations = @ + 2]
      BY <1>6, <2>2 DEF AddCommand
    <3>2. QED
      BY <3>1
  <2>3. CASE /\ c \in o.manifest.mayCommand /\ ~(Cardinality(o.commands) >= MaxCommands)
             /\ Cardinality(o.commands) < MaxCommands /\ x.commandOf[c] # 0
    BY <1>6, <2>3 DEF AddCommand
  <2>4. QED
    BY <1>6, <2>1, <2>2, <2>3 DEF AddCommand
<1>5. QED
  BY <1>2, <1>3, <1>4

LEMMA SubscribeStep ==
  ASSUME NEW x \in Entries, NEW e \in EventNames, NEW y, y = Subscribe(x, e)
  PROVE  /\ y \in Entries /\ y.id = x.id /\ y.commandOf = x.commandOf /\ y.allowed = x.allowed
         /\ y.hookTable = x.hookTable
         /\ y.object = [x.object EXCEPT !.subscribed = y.object.subscribed]
         /\ \/ y.listeners = x.listeners
            \/ \E l \in Listener : y.listeners = Append(x.listeners, l) /\ l.owner = x.id
<1> DEFINE o == x.object
           new == [event |-> e, owner |-> x.id, nth |-> Len(x.listeners) + 1]
           rest == Only(o.subscribed, {i \in DOMAIN o.subscribed : o.subscribed[i].event # e})
           ad == [x EXCEPT !.listeners = Append(@, new),
                           !.object.subscribed = Append(Only(@, {i \in DOMAIN @ : @[i].event # e}), new)]
<1>0. x.id \in Nat /\ o \in PluginObject /\ x.listeners \in Seq(Listener) /\ x.violations \in Nat
  BY EntryFields
<1>1. o.subscribed \in Seq(Listener)
  BY <1>0, ObjectFields
<1>2. y = [x EXCEPT !.violations = @ + 1] \/ y = [x EXCEPT !.violations = @ + 2] \/ y = ad
  BY DEF Subscribe
<1>3. CASE y = [x EXCEPT !.violations = @ + 1] \/ y = [x EXCEPT !.violations = @ + 2]
  <2>1. x.violations + 1 \in Nat /\ x.violations + 2 \in Nat
    BY <1>0
  <2>2. \A v \in Nat : [x EXCEPT !.violations = v] \in Entries
    BY DEF Entries
  <2>3. y = [x EXCEPT !.violations = x.violations + 1] \/ y = [x EXCEPT !.violations = x.violations + 2]
    BY <1>3
  <2>4. y \in Entries
    BY <2>1, <2>2, <2>3
  <2>5. y.object = [x.object EXCEPT !.subscribed = y.object.subscribed]
    BY <1>0, <1>3 DEF Entries, PluginObject
  <2>6. QED
    BY <1>3, <2>4, <2>5 DEF Entries
<1>4. CASE y = ad
  <2>1. new \in Listener
    BY <1>0 DEF Listener
  <2>2. rest \in Seq(Listener)
    <3> DEFINE P == {i \in DOMAIN o.subscribed : o.subscribed[i].event # e}
    <3> HIDE DEF P
    <3>1. Only(o.subscribed, P) \in Seq(Listener)
      BY <1>1, OnlyHolds
    <3>2. QED
      BY <3>1 DEF P
  <2>3. /\ y.id = x.id /\ y.commandOf = x.commandOf /\ y.allowed = x.allowed
        /\ y.hookTable = x.hookTable
        /\ y.listeners = Append(x.listeners, new)
        /\ y.object = [o EXCEPT !.subscribed = Append(rest, new)]
    BY <1>4 DEF Entries
  <2>4. y = [x EXCEPT !.listeners = Append(x.listeners, new),
                      !.object = [o EXCEPT !.subscribed = Append(rest, new)]]
    BY <1>4 DEF Entries
  <2>5. new.owner = x.id
    OBVIOUS
  <2> HIDE DEF new, rest
  <2>6. [o EXCEPT !.subscribed = Append(rest, new)] \in PluginObject
    <3>1. Append(rest, new) \in Seq(Listener)
      BY <2>1, <2>2
    <3>2. QED
      BY <1>0, <3>1 DEF PluginObject
  <2>7. Append(x.listeners, new) \in Seq(Listener)
    BY <1>0, <2>1
  <2>8. y \in Entries
    BY <2>4, <2>6, <2>7 DEF Entries
  <2>9. y.object = [x.object EXCEPT !.subscribed = y.object.subscribed]
    BY <1>0, <2>3 DEF PluginObject
  <2>10. QED
    BY <2>1, <2>3, <2>5, <2>8, <2>9
<1>5. QED
  BY <1>2, <1>3, <1>4

(* One hook more, or a violation.                                          *)
HookAdded(x, e, y) ==
  /\ y \in Entries /\ y.id = x.id /\ y.commandOf = x.commandOf /\ y.allowed = x.allowed
  /\ y.listeners = x.listeners
  /\ \/ y.object = x.object /\ y.hookTable = x.hookTable
     \/ /\ ~(Len(x.object.hooks) >= MaxHooks)
        /\ y.object = [x.object EXCEPT !.hooks = Append(@, e)]
        /\ y.hookTable = [x.hookTable EXCEPT ![e] = Append(@, x.id)]

LEMMA AddHookStep ==
  ASSUME NEW x \in Entries, NEW e \in HookEvents, NEW y, y = AddHook(x, e)
  PROVE  HookAdded(x, e, y)
<1> DEFINE o == x.object
           ad == [x EXCEPT !.object.hooks = Append(@, e), !.hookTable[e] = Append(@, x.id)]
<1>0. /\ x.id \in Nat /\ o \in PluginObject /\ x.hookTable \in [HookEvents -> Seq(Nat)]
      /\ x.violations \in Nat /\ x.full \in BOOLEAN
  BY EntryFields
<1>1. o.hooks \in Seq(HookEvents)
  BY <1>0, ObjectFields
<1>2. \/ y = x \/ y = [x EXCEPT !.full = TRUE, !.violations = @ + 1]
      \/ y = ad /\ ~(Len(o.hooks) >= MaxHooks)
  BY DEF AddHook
<1>3. CASE y = x
  BY <1>3 DEF HookAdded
<1>4. CASE y = [x EXCEPT !.full = TRUE, !.violations = @ + 1]
  <2>1. x.violations + 1 \in Nat
    BY <1>0
  <2>2. \A v \in Nat : [x EXCEPT !.full = TRUE, !.violations = v] \in Entries
    BY DEF Entries
  <2>3. y = [x EXCEPT !.full = TRUE, !.violations = x.violations + 1]
    BY <1>4
  <2>4. y \in Entries
    BY <2>1, <2>2, <2>3
  <2>5. QED
    BY <1>4, <2>4 DEF Entries, HookAdded
<1>5. CASE y = ad /\ ~(Len(o.hooks) >= MaxHooks)
  <2>1. /\ y.id = x.id /\ y.commandOf = x.commandOf /\ y.allowed = x.allowed
        /\ y.listeners = x.listeners
        /\ y.object = [o EXCEPT !.hooks = Append(@, e)]
        /\ y.hookTable = [x.hookTable EXCEPT ![e] = Append(@, x.id)]
    BY <1>5 DEF Entries
  <2>2. y = [x EXCEPT !.object = [o EXCEPT !.hooks = Append(o.hooks, e)],
                      !.hookTable = [x.hookTable EXCEPT ![e] = Append(x.hookTable[e], x.id)]]
    BY <1>5 DEF Entries
  <2>3. [o EXCEPT !.hooks = Append(o.hooks, e)] \in PluginObject
    <3>1. Append(o.hooks, e) \in Seq(HookEvents)
      BY <1>1
    <3>2. QED
      BY <1>0, <3>1 DEF PluginObject
  <2>4. [x.hookTable EXCEPT ![e] = Append(x.hookTable[e], x.id)] \in [HookEvents -> Seq(Nat)]
    <3>1. Append(x.hookTable[e], x.id) \in Seq(Nat)
      BY <1>0
    <3>2. QED
      BY <1>0, <3>1
  <2>5. y \in Entries
    BY <2>2, <2>3, <2>4 DEF Entries
  <2>6. QED
    BY <1>5, <2>1, <2>5 DEF HookAdded
<1>6. QED
  BY <1>2, <1>3, <1>4, <1>5

(* The three stages of a registration, and the registration.               *)
LEMMA CommandsEntered ==
  ASSUME NEW base \in Entries, base.id # 0, base.object.commands = {},
         NEW m \in Manifests
  PROVE  \E n : Commanded(base, m.commands, n, FoldLeft(AddCommand, base, m.commands))
<1> DEFINE s == m.commands
<1>1. s \in Seq(PluginCommands) /\ MaxCommands \in Nat
  BY PluginConstants
<1>2. Commanded(base, s, 0, base)
  <2>1. base.object = [base.object EXCEPT !.commands = base.object.commands]
    BY EntryFields DEF PluginObject
  <2>2. IsFiniteSet(base.object.commands) /\ Cardinality(base.object.commands) = 0
    BY FS_EmptySet
  <2>3. QED
    BY <1>1, <2>1, <2>2 DEF Commanded
<1>3. ASSUME NEW n \in 1..Len(s), NEW x, Commanded(base, s, n - 1, x)
      PROVE  Commanded(base, s, n, AddCommand(x, s[n]))
  <2> DEFINE y == AddCommand(x, s[n])
             c == s[n]
  <2>0. /\ x \in Entries /\ x.id = base.id /\ x.listeners = base.listeners /\ x.hookTable = base.hookTable
        /\ x.object = [base.object EXCEPT !.commands = x.object.commands]
        /\ IsFiniteSet(x.object.commands) /\ Cardinality(x.object.commands) <= MaxCommands
        /\ \A d \in PluginCommands :
             x.commandOf[d] = IF d \in x.object.commands THEN x.id ELSE base.commandOf[d]
        /\ \A d \in x.object.commands : base.commandOf[d] = 0 /\ d \in x.allowed
        /\ base.allowed \subseteq x.allowed
    BY <1>3 DEF Commanded
  <2>1. c \in PluginCommands
    BY <1>1
  <2> HIDE DEF y, c
  <2>2. /\ y \in Entries /\ y.id = x.id /\ y.listeners = x.listeners /\ y.hookTable = x.hookTable
        /\ \/ y.object = x.object /\ y.commandOf = x.commandOf /\ y.allowed = x.allowed
           \/ /\ ~(Cardinality(x.object.commands) >= MaxCommands) /\ ~(x.commandOf[c] # 0)
              /\ y.object = [x.object EXCEPT !.commands = @ \union {c}]
              /\ y.commandOf = [x.commandOf EXCEPT ![c] = x.id]
              /\ c \in y.allowed /\ x.allowed \subseteq y.allowed
    <3>1. y = AddCommand(x, c)
      BY DEF y, c
    <3>2. x \in Entries /\ IsFiniteSet(x.object.commands)
      BY <2>0
    <3>3. CommandAdded(x, c, y)
      BY <2>1, <3>1, <3>2, AddCommandStep
    <3>4. QED
      BY <3>3 DEF CommandAdded
  <2>3. CASE y.object = x.object /\ y.commandOf = x.commandOf /\ y.allowed = x.allowed
    <3>1. Commanded(base, s, n, y)
      BY <2>0, <2>2, <2>3 DEF Commanded
    <3>2. QED
      BY <3>1 DEF y, c
  <2>4. CASE /\ ~(Cardinality(x.object.commands) >= MaxCommands) /\ ~(x.commandOf[c] # 0)
             /\ y.object = [x.object EXCEPT !.commands = @ \union {c}]
             /\ y.commandOf = [x.commandOf EXCEPT ![c] = x.id]
             /\ c \in y.allowed /\ x.allowed \subseteq y.allowed
    <3>1. x.object \in PluginObject /\ base.object \in PluginObject /\ x.commandOf \in [PluginCommands -> Nat]
          /\ x.object.commands \in SUBSET PluginCommands
      BY <2>0, EntryFields, ObjectFields
    <3>2. y.object.commands = x.object.commands \union {c}
      BY <2>4, <3>1 DEF PluginObject
    <3>3. y.object = [base.object EXCEPT !.commands = y.object.commands]
      <4> DEFINE X == x.object
                 Y == y.object
                 B == base.object
                 K == Y.commands
      <4>1. X = [B EXCEPT !.commands = X.commands] /\ Y = [X EXCEPT !.commands = K]
        BY <2>0, <2>4, <3>2
      <4>2. B \in PluginObject
        BY <3>1
      <4> HIDE DEF X, Y, B, K
      <4>3. Y = [B EXCEPT !.commands = K]
        BY <4>1, <4>2 DEF PluginObject
      <4>4. QED
        BY <4>3 DEF X, Y, B, K
    <3>4. IsFiniteSet(y.object.commands) /\ Cardinality(y.object.commands) <= MaxCommands
      <4> DEFINE C == x.object.commands
      <4>3. IsFiniteSet(C)
        BY <2>0
      <4> HIDE DEF C
      <4>4. IsFiniteSet(C \union {c}) /\ Cardinality(C \union {c}) = Cardinality(C) + (IF c \in C THEN 0 ELSE 1)
        <5>1. IsFiniteSet(C \union {c})
              /\ Cardinality(C \union {c}) = IF c \in C THEN Cardinality(C) ELSE Cardinality(C) + 1
          BY <4>3, FS_AddElement
        <5>2. Cardinality(C) \in Nat
          BY <4>3, FS_CardinalityType
        <5>3. QED
          BY <5>1, <5>2
      <4>1. IsFiniteSet(x.object.commands \union {c})
            /\ Cardinality(x.object.commands \union {c}) <= Cardinality(x.object.commands) + 1
            /\ Cardinality(x.object.commands) \in Nat /\ Cardinality(x.object.commands \union {c}) \in Nat
        <5>1. Cardinality(C) \in Nat /\ Cardinality(C \union {c}) \in Nat
          BY <4>3, <4>4, FS_CardinalityType
        <5>2. Cardinality(C \union {c}) <= Cardinality(C) + 1
          BY <4>4, <5>1
        <5>3. QED
          BY <4>4, <5>1, <5>2 DEF C
      <4>2. QED
        BY <1>1, <2>4, <3>2, <4>1
    <3>5. x.commandOf[c] = 0 /\ c \notin x.object.commands /\ base.commandOf[c] = 0
      BY <2>0, <2>1, <2>4
    <3>6. \A d \in PluginCommands :
             y.commandOf[d] = IF d \in y.object.commands THEN y.id ELSE base.commandOf[d]
      BY <2>0, <2>1, <2>2, <2>4, <3>1, <3>2
    <3>7. \A d \in y.object.commands : base.commandOf[d] = 0 /\ d \in y.allowed
      BY <2>0, <2>4, <3>2, <3>5
    <3>8. Commanded(base, s, n, y)
      BY <2>0, <2>2, <2>4, <3>3, <3>4, <3>6, <3>7 DEF Commanded
    <3>9. QED
      BY <3>8 DEF y, c
  <2>5. QED
    BY <2>2, <2>3, <2>4
<1>4. Commanded(base, s, Len(s), Commanding!Folded(base, s))
  <2> HIDE DEF s
  <2>1. QED
    BY <1>1, <1>2, <1>3, Commanding!FoldKeeps
<1>5. QED
  BY <1>4, StagesAreFolds

LEMMA EventsEntered ==
  ASSUME NEW base \in Entries, NEW m \in Manifests
  PROVE  \E n : Heard(base, m.events, n, FoldLeft(Subscribe, base, m.events))
<1> DEFINE s == m.events
<1>1. s \in Seq(EventNames)
  BY PluginConstants
<1>2. Heard(base, s, 0, base)
  <2>1. base.object = [base.object EXCEPT !.subscribed = base.object.subscribed]
    BY EntryFields DEF PluginObject
  <2>2. QED
    BY <2>1 DEF Heard
<1>3. ASSUME NEW n \in 1..Len(s), NEW x, Heard(base, s, n - 1, x)
      PROVE  Heard(base, s, n, Subscribe(x, s[n]))
  <2> DEFINE y == Subscribe(x, s[n])
             e == s[n]
  <2>0. /\ x \in Entries /\ x.id = base.id /\ x.commandOf = base.commandOf /\ x.allowed = base.allowed
        /\ x.hookTable = base.hookTable
        /\ x.object = [base.object EXCEPT !.subscribed = x.object.subscribed]
        /\ \A i \in DOMAIN x.listeners :
             x.listeners[i].owner = x.id \/ \E k \in DOMAIN base.listeners : x.listeners[i] = base.listeners[k]
    BY <1>3 DEF Heard
  <2>1. e \in EventNames
    BY <1>1
  <2> HIDE DEF y, e
  <2>2. /\ y \in Entries /\ y.id = x.id /\ y.commandOf = x.commandOf /\ y.allowed = x.allowed
        /\ y.hookTable = x.hookTable
        /\ y.object = [x.object EXCEPT !.subscribed = y.object.subscribed]
        /\ \/ y.listeners = x.listeners
           \/ \E l \in Listener : y.listeners = Append(x.listeners, l) /\ l.owner = x.id
    <3>1. y = Subscribe(x, e)
      BY DEF y, e
    <3>2. QED
      BY <2>0, <2>1, <3>1, SubscribeStep
  <2>3. y.object = [base.object EXCEPT !.subscribed = y.object.subscribed]
    <3> DEFINE X == x.object
               Y == y.object
               B == base.object
               K == Y.subscribed
               J == X.subscribed
    <3>1. X = [B EXCEPT !.subscribed = J] /\ Y = [X EXCEPT !.subscribed = K] /\ B \in PluginObject
      BY <2>0, <2>2, EntryFields
    <3> HIDE DEF X, Y, B, K, J
    <3>2. Y = [B EXCEPT !.subscribed = K]
      BY <3>1 DEF PluginObject
    <3>3. QED
      BY <3>2 DEF X, Y, B, K, J
  <2>4. \A i \in DOMAIN y.listeners :
          y.listeners[i].owner = y.id \/ \E k \in DOMAIN base.listeners : y.listeners[i] = base.listeners[k]
    <3>1. CASE y.listeners = x.listeners
      BY <2>0, <2>2, <3>1
    <3>2. ASSUME NEW l \in Listener, y.listeners = Append(x.listeners, l), l.owner = x.id
          PROVE  \A i \in DOMAIN y.listeners :
                   y.listeners[i].owner = y.id \/ \E k \in DOMAIN base.listeners : y.listeners[i] = base.listeners[k]
      <4>1. x.listeners \in Seq(Listener)
        BY <2>0, EntryFields
      <4>2. \A i \in DOMAIN y.listeners : y.listeners[i] = l \/ (i \in DOMAIN x.listeners /\ y.listeners[i] = x.listeners[i])
        BY <3>2, <4>1
      <4>3. QED
        BY <2>0, <2>2, <3>2, <4>2
    <3>3. QED
      BY <2>2, <3>1, <3>2
  <2>5. Heard(base, s, n, y)
    BY <2>0, <2>2, <2>3, <2>4 DEF Heard
  <2>6. QED
    BY <2>5 DEF y, e
<1>4. Heard(base, s, Len(s), Subscribing!Folded(base, s))
  <2> HIDE DEF s
  <2>1. QED
    BY <1>1, <1>2, <1>3, Subscribing!FoldKeeps
<1>5. QED
  BY <1>4, StagesAreFolds

LEMMA HooksEntered ==
  ASSUME NEW base \in Entries, base.object.hooks = << >>, NEW m \in Manifests
  PROVE  \E n : Hooked(base, m.hooks, n, FoldLeft(AddHook, base, m.hooks))
<1> DEFINE s == m.hooks
<1>1. s \in Seq(HookEvents) /\ MaxHooks \in Nat
  BY PluginConstants
<1>2. Hooked(base, s, 0, base)
  <2>1. base.object = [base.object EXCEPT !.hooks = base.object.hooks]
    BY EntryFields DEF PluginObject
  <2>2. Len(base.object.hooks) <= MaxHooks
    BY <1>1
  <2>3. QED
    BY <2>1, <2>2 DEF Hooked
<1>3. ASSUME NEW n \in 1..Len(s), NEW x, Hooked(base, s, n - 1, x)
      PROVE  Hooked(base, s, n, AddHook(x, s[n]))
  <2> DEFINE y == AddHook(x, s[n])
             e == s[n]
  <2>0. /\ x \in Entries /\ x.id = base.id /\ x.commandOf = base.commandOf /\ x.allowed = base.allowed
        /\ x.listeners = base.listeners
        /\ x.object = [base.object EXCEPT !.hooks = x.object.hooks]
        /\ Len(x.object.hooks) <= MaxHooks
        /\ \A f \in HookEvents : \A i \in DOMAIN x.hookTable[f] :
             \/ \E k \in DOMAIN base.hookTable[f] : x.hookTable[f][i] = base.hookTable[f][k]
             \/ x.hookTable[f][i] = x.id /\ f \in Range(x.object.hooks)
    BY <1>3 DEF Hooked
  <2>1. e \in HookEvents
    BY <1>1
  <2> HIDE DEF y, e
  <2>2. /\ y \in Entries /\ y.id = x.id /\ y.commandOf = x.commandOf /\ y.allowed = x.allowed
        /\ y.listeners = x.listeners
        /\ \/ y.object = x.object /\ y.hookTable = x.hookTable
           \/ /\ ~(Len(x.object.hooks) >= MaxHooks)
              /\ y.object = [x.object EXCEPT !.hooks = Append(@, e)]
              /\ y.hookTable = [x.hookTable EXCEPT ![e] = Append(@, x.id)]
    <3>1. y = AddHook(x, e)
      BY DEF y, e
    <3>2. x \in Entries
      BY <2>0
    <3>3. HookAdded(x, e, y)
      BY <2>1, <3>1, <3>2, AddHookStep
    <3>4. QED
      BY <3>3 DEF HookAdded
  <2>3. CASE y.object = x.object /\ y.hookTable = x.hookTable
    <3>1. Hooked(base, s, n, y)
      BY <2>0, <2>2, <2>3 DEF Hooked
    <3>2. QED
      BY <3>1 DEF y, e
  <2>4. CASE /\ ~(Len(x.object.hooks) >= MaxHooks)
             /\ y.object = [x.object EXCEPT !.hooks = Append(@, e)]
             /\ y.hookTable = [x.hookTable EXCEPT ![e] = Append(@, x.id)]
    <3>1. x.object \in PluginObject /\ base.object \in PluginObject /\ x.id \in Nat
          /\ x.hookTable \in [HookEvents -> Seq(Nat)] /\ x.object.hooks \in Seq(HookEvents)
      BY <2>0, EntryFields, ObjectFields
    <3>2. y.object.hooks = Append(x.object.hooks, e)
      BY <2>4, <3>1 DEF PluginObject
    <3>3. y.object = [base.object EXCEPT !.hooks = y.object.hooks]
      <4> DEFINE X == x.object
                 Y == y.object
                 B == base.object
                 K == Y.hooks
                 J == X.hooks
      <4>1. X = [B EXCEPT !.hooks = J] /\ Y = [X EXCEPT !.hooks = K] /\ B \in PluginObject
        BY <2>0, <2>4, <3>1, <3>2
      <4> HIDE DEF X, Y, B, K, J
      <4>2. Y = [B EXCEPT !.hooks = K]
        BY <4>1 DEF PluginObject
      <4>3. QED
        BY <4>2 DEF X, Y, B, K, J
    <3>4. Len(y.object.hooks) <= MaxHooks /\ e \in Range(y.object.hooks)
          /\ \A f : f \in Range(x.object.hooks) => f \in Range(y.object.hooks)
      <4> DEFINE J == x.object.hooks
                 K == y.object.hooks
      <4>1. J \in Seq(HookEvents) /\ K = Append(J, e) /\ ~(Len(J) >= MaxHooks)
        BY <2>4, <3>1, <3>2
      <4> HIDE DEF J, K
      <4>2. Len(J) \in Nat /\ Len(K) = Len(J) + 1 /\ DOMAIN K = 1..(Len(J) + 1) /\ DOMAIN J = 1..Len(J)
            /\ K[Len(J) + 1] = e /\ \A i \in 1..Len(J) : K[i] = J[i]
        BY <2>1, <4>1
      <4>3. Len(K) <= MaxHooks
        BY <1>1, <4>1, <4>2
      <4>4. e \in Range(K) /\ \A f : f \in Range(J) => f \in Range(K)
        BY <4>2 DEF Range
      <4>5. QED
        BY <4>3, <4>4 DEF J, K
    <3>5. ASSUME NEW f \in HookEvents, NEW i \in DOMAIN y.hookTable[f]
          PROVE  \/ \E k \in DOMAIN base.hookTable[f] : y.hookTable[f][i] = base.hookTable[f][k]
                 \/ y.hookTable[f][i] = y.id /\ f \in Range(y.object.hooks)
      <4>1. CASE f # e
        <5>1. y.hookTable[f] = x.hookTable[f]
          BY <2>4, <3>1, <4>1
        <5>2. QED
          BY <2>0, <2>2, <3>4, <3>5, <5>1
      <4>2. CASE f = e
        <5>1. y.hookTable[f] = Append(x.hookTable[f], x.id) /\ x.hookTable[f] \in Seq(Nat)
          BY <2>1, <2>4, <3>1, <4>2
        <5>2. \/ y.hookTable[f][i] = x.id
              \/ i \in DOMAIN x.hookTable[f] /\ y.hookTable[f][i] = x.hookTable[f][i]
          BY <3>1, <3>5, <5>1
        <5>3. QED
          BY <2>0, <2>2, <3>4, <4>2, <5>2
      <4>3. QED
        BY <4>1, <4>2
    <3>8. Hooked(base, s, n, y)
      BY <2>0, <2>2, <2>4, <3>3, <3>4, <3>5 DEF Hooked
    <3>9. QED
      BY <3>8 DEF y, e
  <2>5. QED
    BY <2>2, <2>3, <2>4
<1>4. Hooked(base, s, Len(s), Hooking!Folded(base, s))
  <2> HIDE DEF s
  <2>1. QED
    BY <1>1, <1>2, <1>3, Hooking!FoldKeeps
<1>5. QED
  BY <1>4, StagesAreFolds

(* The types of the plugin manager.                                        *)
ToldEvents == [event : {"plugin_loaded", "plugin_unloaded"}, plugin : PluginNames]

TablesTyped ==
  /\ plugins \in [PluginNames -> Nat] /\ objects \in Seq(PluginObject) /\ Len(objects) <= MaxLoads
  /\ commandOf \in [PluginCommands -> Nat] /\ aliasOf \in AliasTable
  /\ allowed \in SUBSET PluginCommands
  /\ listeners \in Seq(Listener) /\ hookTable \in [HookEvents -> Seq(Nat)]
  /\ told \in Seq(ToldEvents)

(* What a registration enters. *)
Registration(name, m, s) ==
  /\ s.id = Len(objects) + 1
  /\ s.object \in PluginObject /\ s.object.manifest = m /\ s.object.runs = 0
  /\ s.commandOf \in [PluginCommands -> Nat] /\ s.aliasOf \in AliasTable
  /\ s.allowed \in SUBSET PluginCommands /\ allowed \subseteq s.allowed
  /\ s.listeners \in Seq(Listener) /\ s.hookTable \in [HookEvents -> Seq(Nat)]
  /\ Cardinality(s.object.commands) <= MaxCommands /\ Len(s.object.hooks) <= MaxHooks
  /\ \A c \in PluginCommands :
       s.commandOf[c] = IF c \in s.object.commands THEN s.id ELSE commandOf[c]
  /\ \A c \in s.object.commands : commandOf[c] = 0 /\ c \in s.allowed
  /\ \A i \in DOMAIN s.listeners :
       s.listeners[i].owner = s.id \/ \E k \in DOMAIN listeners : s.listeners[i] = listeners[k]
  /\ \A e \in HookEvents : \A i \in DOMAIN s.hookTable[e] :
       \/ \E k \in DOMAIN hookTable[e] : s.hookTable[e][i] = hookTable[e][k]
       \/ s.hookTable[e][i] = s.id /\ e \in Range(s.object.hooks)

LEMMA EnteredIsRegistration ==
  ASSUME TablesTyped, NEW name \in PluginNames, NEW m \in Manifests
  PROVE  Registration(name, m, Entered(name, m))
<1> DEFINE s0 == [id |-> Len(objects) + 1, object |-> NewObject(name, m), commandOf |-> commandOf,
                  aliasOf |-> aliasOf, allowed |-> allowed, listeners |-> listeners,
                  hookTable |-> hookTable, full |-> FALSE, violations |-> 0]
           s1 == FoldLeft(AddCommand, s0, m.commands)
           s2 == FoldLeft(Subscribe, s1, m.events)
           s3 == FoldLeft(AddHook, s2, m.hooks)
<1>1. Len(objects) \in Nat
  BY DEF TablesTyped
<1>2. NewObject(name, m) \in PluginObject
  <2>1. << >> \in Seq(Listener) /\ << >> \in Seq(HookEvents)
    OBVIOUS
  <2>2. QED
    BY <2>1 DEF NewObject, PluginObject
<1>3. s0 \in Entries /\ s0.id = Len(objects) + 1 /\ s0.id # 0
      /\ s0.object = NewObject(name, m) /\ s0.commandOf = commandOf /\ s0.allowed = allowed
      /\ s0.listeners = listeners /\ s0.hookTable = hookTable
  BY <1>1, <1>2 DEF Entries, TablesTyped
<1>4. /\ s0.object.commands = {} /\ s0.object.hooks = << >> /\ s0.object.manifest = m
      /\ s0.object.runs = 0
  BY <1>3 DEF NewObject
<1>5. Entered(name, m) = s3
  BY DEF Entered
<1> HIDE DEF s0
<1>6. \E n : Commanded(s0, m.commands, n, s1)
  BY <1>3, <1>4, CommandsEntered
<1> HIDE DEF s1
<1>7. s1 \in Entries
  BY <1>6 DEF Commanded
<1>8. \E n : Heard(s1, m.events, n, s2)
  BY <1>7, EventsEntered
<1> HIDE DEF s2
<1>9. s2 \in Entries
  BY <1>8 DEF Heard
<1>10. /\ s1.object \in PluginObject /\ s2.object \in PluginObject /\ s0.object \in PluginObject
       /\ s2.object = [s1.object EXCEPT !.subscribed = s2.object.subscribed]
       /\ s1.object = [s0.object EXCEPT !.commands = s1.object.commands]
  BY <1>3, <1>6, <1>7, <1>8, <1>9, EntryFields DEF Commanded, Heard
<1>11. /\ s2.object.hooks = << >> /\ s2.object.manifest = m /\ s2.object.runs = 0
       /\ s2.object.commands = s1.object.commands
  <2>1. s1.object.hooks = << >> /\ s1.object.manifest = m /\ s1.object.runs = 0
    BY <1>4, <1>10 DEF PluginObject
  <2>2. QED
    BY <1>10, <2>1 DEF PluginObject
<1>12. \E n : Hooked(s2, m.hooks, n, s3)
  BY <1>9, <1>11, HooksEntered
<1> HIDE DEF s3
<1>13. s3 \in Entries /\ s3.id = s2.id /\ s2.id = s1.id /\ s1.id = s0.id
  BY <1>6, <1>8, <1>12 DEF Commanded, Heard, Hooked
<1>14. s3.object = [s2.object EXCEPT !.hooks = s3.object.hooks] /\ s3.object \in PluginObject
  BY <1>12, <1>13, EntryFields DEF Hooked
<1>15. s3.object.manifest = m /\ s3.object.runs = 0 /\ s3.object.commands = s1.object.commands
  BY <1>10, <1>11, <1>14 DEF PluginObject
<1>16. s3.commandOf = s1.commandOf /\ s3.allowed = s1.allowed /\ s3.listeners = s2.listeners
       /\ s2.hookTable = s0.hookTable /\ s1.listeners = s0.listeners
  BY <1>6, <1>8, <1>12 DEF Commanded, Heard, Hooked
<1>17. /\ s3.commandOf \in [PluginCommands -> Nat] /\ s3.aliasOf \in AliasTable
       /\ s3.allowed \in SUBSET PluginCommands /\ s3.listeners \in Seq(Listener)
       /\ s3.hookTable \in [HookEvents -> Seq(Nat)]
  BY <1>13, EntryFields
<1>18. /\ allowed \subseteq s3.allowed
       /\ Cardinality(s3.object.commands) <= MaxCommands
       /\ \A c \in PluginCommands :
            s3.commandOf[c] = IF c \in s3.object.commands THEN s3.id ELSE commandOf[c]
       /\ \A c \in s3.object.commands : commandOf[c] = 0 /\ c \in s3.allowed
  BY <1>3, <1>6, <1>13, <1>15, <1>16 DEF Commanded
<1>19. \A i \in DOMAIN s3.listeners :
         s3.listeners[i].owner = s3.id \/ \E k \in DOMAIN listeners : s3.listeners[i] = listeners[k]
  BY <1>3, <1>8, <1>13, <1>16 DEF Heard
<1>20. Len(s3.object.hooks) <= MaxHooks
       /\ \A e \in HookEvents : \A i \in DOMAIN s3.hookTable[e] :
            \/ \E k \in DOMAIN hookTable[e] : s3.hookTable[e][i] = hookTable[e][k]
            \/ s3.hookTable[e][i] = s3.id /\ e \in Range(s3.object.hooks)
  BY <1>3, <1>12, <1>16 DEF Hooked
<1>21. QED
  BY <1>3, <1>5, <1>13, <1>14, <1>15, <1>17, <1>18, <1>19, <1>20 DEF Registration

(* Every entry of a table belongs to an installed plugin, and it to them.  *)
TablesInv ==
  /\ \A n \in PluginNames : plugins[n] \in 0..Len(objects)
  /\ \A n, k \in PluginNames : plugins[n] = plugins[k] /\ plugins[n] # 0 => n = k
  /\ \A o \in DOMAIN objects : objects[o].active => o \in Installed
  /\ \A c \in PluginCommands : commandOf[c] \notin {0, Engine} =>
       commandOf[c] \in Installed /\ c \in objects[commandOf[c]].commands
  /\ \A o \in Installed : \A c \in objects[o].commands : commandOf[c] = o /\ c \in allowed
  /\ \A i \in DOMAIN listeners : listeners[i].owner \in DOMAIN objects
  /\ \A e \in HookEvents : \A i \in DOMAIN hookTable[e] :
       hookTable[e][i] \in Installed /\ e \in Range(objects[hookTable[e][i]].hooks)

LEMMA TablesInvMeans == TablesInv => TablesAreOwned
<1> SUFFICES ASSUME TablesInv PROVE TablesAreOwned
  OBVIOUS
<1>1. \A e \in HookEvents : Range(hookTable[e]) \subseteq Installed
  BY DEF TablesInv, Range
<1>2. \A c \in PluginCommands : commandOf[c] \in Installed \union {0, Engine}
  BY DEF TablesInv
<1>3. \A i \in DOMAIN listeners : Active(listeners[i].owner) => listeners[i].owner \in Installed
  BY DEF TablesInv, Active
<1>4. \A o \in Installed : \A c \in objects[o].commands : commandOf[c] = o /\ c \in allowed
  BY DEF TablesInv
<1>5. QED
  BY <1>1, <1>2, <1>3, <1>4 DEF TablesAreOwned

LEMMA InstalledMeans ==
  /\ \A o : o \in Installed <=> (o # 0 /\ \E n \in PluginNames : plugins[n] = o)
  /\ \A o : o \in Installed' <=> (o # 0 /\ \E n \in PluginNames : plugins'[n] = o)
  BY DEF Installed

LEMMA PluginNumbers ==
  MaxLoads \in Nat /\ MaxCommands \in Nat /\ MaxHooks \in Nat /\ Engine \in Nat /\ Engine # 0
<1>1. MaxLoads \in Nat /\ MaxCommands \in Nat /\ MaxHooks \in Nat
  BY PluginAssumption
<1>2. QED
  BY <1>1 DEF Engine

LEMMA PluginsInitially == PluginInit => TablesTyped /\ TablesInv /\ LimitsHold
<1> SUFFICES ASSUME PluginInit PROVE TablesTyped /\ TablesInv /\ LimitsHold
  OBVIOUS
<1>0. /\ plugins = [n \in PluginNames |-> 0] /\ objects = << >> /\ listeners = << >> /\ told = << >>
      /\ commandOf = [c \in PluginCommands |-> IF c \in OwnCommands THEN Engine ELSE 0]
      /\ aliasOf = OwnAliases /\ hookTable = [e \in HookEvents |-> << >>]
      /\ allowed = OwnCommands \union {c \in PluginCommands : OwnAliases[c] # ""}
  BY DEF PluginInit
<1>7. objects = << >> /\ listeners = << >> /\ told = << >>
  BY DEF PluginInit
<1>8. plugins = [n \in PluginNames |-> 0]
  BY DEF PluginInit
<1>9. hookTable = [e \in HookEvents |-> << >>]
  BY DEF PluginInit
<1>1. Engine \in Nat
  BY PluginNumbers
<1>2. TablesTyped
  <2>1. hookTable \in [HookEvents -> Seq(Nat)]
    <3>1. << >> \in Seq(Nat)
      OBVIOUS
    <3>2. QED
      BY <1>0, <3>1
  <2>2. commandOf \in [PluginCommands -> Nat]
    BY <1>0, <1>1
  <2>3. OwnCommands \in SUBSET PluginCommands /\ OwnAliases \in [PluginCommands -> PluginCommands \union {""}]
    BY PluginAssumption
  <2>4. aliasOf \in AliasTable
    BY <1>0, <2>3 DEF AliasTable
  <2>7. allowed \in SUBSET PluginCommands
    BY <1>0, <2>3
  <2>5. objects \in Seq(PluginObject) /\ Len(objects) = 0 /\ listeners \in Seq(Listener)
        /\ told \in Seq(ToldEvents)
    BY <1>7
  <2>8. plugins \in [PluginNames -> Nat] /\ Len(objects) <= MaxLoads
    BY <1>8, <2>5, PluginNumbers
  <2>6. QED
    BY <2>1, <2>2, <2>4, <2>5, <2>7, <2>8 DEF TablesTyped
<1>3. Installed = {}
  BY <1>8 DEF Installed
<1>4. TablesInv
  <2>1. DOMAIN objects = {} /\ Len(objects) = 0 /\ DOMAIN listeners = {}
    BY <1>7
  <2>2. \A e \in HookEvents : DOMAIN hookTable[e] = {}
    BY <1>9
  <2>3. \A n \in PluginNames : plugins[n] = 0
    BY <1>0
  <2>4. \A c \in PluginCommands : commandOf[c] \in {0, Engine}
    BY <1>0
  <2>5. QED
    BY <1>3, <2>1, <2>2, <2>3, <2>4 DEF TablesInv
<1>5. LimitsHold
  <2>1. DOMAIN objects = {}
    BY <1>7
  <2>2. QED
    BY <2>1 DEF LimitsHold
<1>6. QED
  BY <1>2, <1>4, <1>5

(* What the calls that only run plugins, or switch them, do to the objects. *)
SameTables == UNCHANGED <<plugins, commandOf, aliasOf, allowed, hookTable, told>>

ObjectsUsed ==
  \/ UNCHANGED objects
  \/ \E o \in Nat : objects' = [objects EXCEPT ![o].runs = @ + 1] /\ (o \in DOMAIN objects => MayRun(o))

LEMMA UseSteps ==
  ASSUME TablesTyped, [PluginNext]_pluginVars
  PROVE  \/ \E n \in PluginNames, m \in Manifests : Register(n, m)
         \/ \E n \in PluginNames : Unregister(n) \/ Isolate(n)
         \/ \E n \in PluginNames, on \in BOOLEAN : Switch(n, on)
         \/ SameTables /\ UNCHANGED listeners /\ ObjectsUsed
<1>1. CASE UNCHANGED pluginVars
  BY <1>1 DEF pluginVars, SameTables, ObjectsUsed
<1>2. ASSUME NEW c \in PluginCommands, RunCommand(c)
      PROVE  SameTables /\ UNCHANGED listeners /\ ObjectsUsed
  <2>1. SameTables /\ UNCHANGED listeners
    BY <1>2 DEF RunCommand, SameTables
  <2>2. \/ UNCHANGED objects
        \/ /\ Resolved(c) \in DOMAIN objects /\ MayRun(Resolved(c))
           /\ objects' = [objects EXCEPT ![Resolved(c)].runs = @ + 1]
    BY <1>2 DEF RunCommand
  <2>3. DOMAIN objects \subseteq Nat
    BY DEF TablesTyped
  <2>4. QED
    BY <2>1, <2>2, <2>3 DEF ObjectsUsed
<1>3. ASSUME NEW e \in EngineEvents, EngineEmits(e)
      PROVE  SameTables /\ UNCHANGED listeners /\ ObjectsUsed
  BY <1>3 DEF EngineEmits, SameTables, ObjectsUsed
<1>4. ASSUME CallListener
      PROVE  SameTables /\ UNCHANGED listeners /\ ObjectsUsed
  <2> DEFINE o == Head(Head(emitting)).owner
  <2>1. SameTables /\ UNCHANGED listeners
    BY <1>4 DEF CallListener, SameTables
  <2>2. \/ UNCHANGED objects
        \/ MayRun(o) /\ objects' = [objects EXCEPT ![o].runs = @ + 1]
    BY <1>4 DEF CallListener
  <2> HIDE DEF o
  <2>3. CASE o \in DOMAIN objects
    <3>1. DOMAIN objects \subseteq Nat
      BY DEF TablesTyped
    <3>2. QED
      BY <2>1, <2>2, <2>3, <3>1 DEF ObjectsUsed
  <2>4. CASE o \notin DOMAIN objects
    <3>1. [objects EXCEPT ![o].runs = @ + 1] = objects
      BY <2>4 DEF TablesTyped
    <3>2. QED
      BY <2>1, <2>2, <3>1 DEF ObjectsUsed
  <2>5. QED
    BY <2>3, <2>4
<1>5. ASSUME EmitReturns
      PROVE  SameTables /\ UNCHANGED listeners /\ ObjectsUsed
  BY <1>5 DEF EmitReturns, SameTables, ObjectsUsed
<1>6. QED
  BY <1>1, <1>2, <1>3, <1>4, <1>5 DEF PluginNext

(* The objects after a call that enters and takes away none. *)
ObjectsAltered ==
  /\ objects' \in Seq(PluginObject) /\ Len(objects') = Len(objects)
  /\ \A o \in DOMAIN objects :
       /\ objects'[o].commands = objects[o].commands /\ objects'[o].hooks = objects[o].hooks
       /\ objects'[o].manifest = objects[o].manifest
       /\ objects'[o].active => objects[o].active \/ o \in Installed
       /\ objects'[o].runs <= objects'[o].manifest.executions

LEMMA ObjectsFact ==
  ASSUME TablesTyped
  PROVE  /\ Len(objects) \in Nat /\ DOMAIN objects = 1..Len(objects)
         /\ \A o \in DOMAIN objects : objects[o] \in PluginObject /\ objects[o].manifest.executions \in Nat
                                      /\ objects[o].runs \in Nat
<1>1. \A o \in DOMAIN objects : objects[o] \in PluginObject
  BY DEF TablesTyped
<1>2. \A m \in Manifests : m.executions \in Nat
  BY PluginAssumption
<1>3. \A o \in DOMAIN objects : objects[o].manifest \in Manifests /\ objects[o].runs \in Nat
  BY <1>1, ObjectFields
<1>4. QED
  BY <1>1, <1>2, <1>3 DEF TablesTyped

LEMMA PutObject ==
  ASSUME TablesTyped, NEW o \in DOMAIN objects, NEW new \in PluginObject, objects' = [objects EXCEPT ![o] = new]
  PROVE  /\ objects' \in Seq(PluginObject) /\ Len(objects') = Len(objects) /\ DOMAIN objects' = DOMAIN objects
         /\ objects'[o] = new
         /\ \A i \in DOMAIN objects : i # o => objects'[i] = objects[i]
  BY DEF TablesTyped

LEMMA UseAlters ==
  ASSUME TablesTyped, TablesInv, LimitsHold, ObjectsUsed
  PROVE  ObjectsAltered
<1>1. CASE UNCHANGED objects
  BY <1>1, ObjectsFact DEF ObjectsAltered, LimitsHold, TablesTyped
<1>2. ASSUME NEW o \in Nat, objects' = [objects EXCEPT ![o].runs = @ + 1], o \in DOMAIN objects => MayRun(o)
      PROVE  ObjectsAltered
  <2>1. CASE o \notin DOMAIN objects
    <3>1. objects' = objects
      BY <1>2, <2>1 DEF TablesTyped
    <3>2. QED
      BY <1>1, <3>1
  <2>2. CASE o \in DOMAIN objects
    <3> DEFINE new == [objects[o] EXCEPT !.runs = @ + 1]
    <3>1. objects[o] \in PluginObject /\ objects[o].runs \in Nat /\ objects[o].manifest.executions \in Nat
      BY <2>2, ObjectsFact
    <3>2. new \in PluginObject
      <4>1. objects[o].runs + 1 \in Nat
        BY <3>1
      <4>2. \A r \in Nat : [objects[o] EXCEPT !.runs = r] \in PluginObject
        BY <3>1 DEF PluginObject
      <4>3. QED
        BY <4>1, <4>2
    <3>3. /\ new.commands = objects[o].commands /\ new.hooks = objects[o].hooks
          /\ new.manifest = objects[o].manifest /\ new.active = objects[o].active
          /\ new.runs = objects[o].runs + 1
      BY <3>1 DEF PluginObject
    <3>4. objects[o].runs < objects[o].manifest.executions
      BY <1>2, <2>2 DEF MayRun
    <3>5. new.runs <= new.manifest.executions
      BY <3>1, <3>3, <3>4
    <3>6. objects' = [objects EXCEPT ![o] = new]
      BY <1>2
    <3> HIDE DEF new
    <3>7. /\ objects' \in Seq(PluginObject) /\ Len(objects') = Len(objects)
          /\ objects'[o] = new
          /\ \A i \in DOMAIN objects : i # o => objects'[i] = objects[i]
      BY <2>2, <3>2, <3>6, PutObject
    <3>8. QED
      BY <3>3, <3>5, <3>7 DEF ObjectsAltered, LimitsHold
  <2>3. QED
    BY <2>1, <2>2
<1>3. QED
  BY <1>1, <1>2 DEF ObjectsUsed

LEMMA SwitchAlters ==
  ASSUME TablesTyped, TablesInv, LimitsHold, NEW name \in PluginNames, plugins[name] # 0,
         NEW on \in BOOLEAN, objects' = [objects EXCEPT ![plugins[name]].active = on]
  PROVE  ObjectsAltered
<1> DEFINE o == plugins[name]
           new == [objects[o] EXCEPT !.active = on]
<1>1. o \in DOMAIN objects /\ o \in Installed
  BY InstalledMeans, ObjectsFact DEF TablesInv
<1>2. objects[o] \in PluginObject
  BY <1>1, ObjectsFact
<1>3. new \in PluginObject
  BY <1>2 DEF PluginObject
<1>4. /\ new.commands = objects[o].commands /\ new.hooks = objects[o].hooks
      /\ new.manifest = objects[o].manifest /\ new.runs = objects[o].runs
  BY <1>2 DEF PluginObject
<1>5. objects' = [objects EXCEPT ![o] = new]
  OBVIOUS
<1> HIDE DEF o, new
<1>6. /\ objects' \in Seq(PluginObject) /\ Len(objects') = Len(objects)
      /\ objects'[o] = new
      /\ \A i \in DOMAIN objects : i # o => objects'[i] = objects[i]
  BY <1>1, <1>3, <1>5, PutObject
<1>7. QED
  BY <1>1, <1>4, <1>6 DEF ObjectsAltered, LimitsHold

LEMMA SilencedAlters ==
  ASSUME TablesTyped, LimitsHold, NEW o \in DOMAIN objects, objects' = Silenced(o)
  PROVE  ObjectsAltered /\ objects'[o].active = FALSE
                        /\ \A i \in DOMAIN objects : objects'[i].active => objects[i].active
<1> DEFINE new == [objects[o] EXCEPT !.subscribed = << >>, !.active = FALSE]
<1>1. objects[o] \in PluginObject
  BY ObjectsFact
<1>2. new \in PluginObject
  <2>1. << >> \in Seq(Listener)
    OBVIOUS
  <2>2. QED
    BY <1>1, <2>1 DEF PluginObject
<1>3. /\ new.commands = objects[o].commands /\ new.hooks = objects[o].hooks
      /\ new.manifest = objects[o].manifest /\ new.runs = objects[o].runs /\ new.active = FALSE
  BY <1>1 DEF PluginObject
<1>4. objects' = [objects EXCEPT ![o] = new]
  BY DEF Silenced, TablesTyped
<1> HIDE DEF new
<1>5. /\ objects' \in Seq(PluginObject) /\ Len(objects') = Len(objects)
      /\ objects'[o] = new
      /\ \A i \in DOMAIN objects : i # o => objects'[i] = objects[i]
  BY <1>2, <1>4, PutObject
<1>6. QED
  BY <1>3, <1>5 DEF ObjectsAltered, LimitsHold

(* Such a call keeps the tables.                                           *)
LEMMA AlteredKeeps ==
  ASSUME TablesTyped, TablesInv, LimitsHold, SameTables, ObjectsAltered,
         listeners' \in Seq(Listener),
         \A i \in DOMAIN listeners' : \E k \in DOMAIN listeners : listeners'[i] = listeners[k]
  PROVE  TablesTyped' /\ TablesInv' /\ LimitsHold'
<1>1. TablesTyped'
  BY DEF TablesTyped, SameTables, ObjectsAltered
<1>2. Installed' = Installed
  BY DEF Installed, SameTables
<1>3. DOMAIN objects' = DOMAIN objects /\ Len(objects') = Len(objects)
  BY DEF ObjectsAltered, TablesTyped
<1>4. Installed \subseteq DOMAIN objects
  BY InstalledMeans, ObjectsFact DEF TablesInv
<1>5. TablesInv'
  <2>1. (\A n \in PluginNames : plugins[n] \in 0..Len(objects))'
    BY <1>3 DEF TablesInv, SameTables
  <2>2. (\A n, k \in PluginNames : plugins[n] = plugins[k] /\ plugins[n] # 0 => n = k)'
    BY DEF TablesInv, SameTables
  <2>3. (\A o \in DOMAIN objects : objects[o].active => o \in Installed)'
    BY <1>2, <1>3 DEF TablesInv, ObjectsAltered
  <2>4. (\A c \in PluginCommands : commandOf[c] \notin {0, Engine} =>
           commandOf[c] \in Installed /\ c \in objects[commandOf[c]].commands)'
    BY <1>2, <1>4 DEF TablesInv, ObjectsAltered, SameTables, Engine
  <2>5. (\A o \in Installed : \A c \in objects[o].commands : commandOf[c] = o /\ c \in allowed)'
    BY <1>2, <1>4 DEF TablesInv, ObjectsAltered, SameTables
  <2>6. (\A i \in DOMAIN listeners : listeners[i].owner \in DOMAIN objects)'
    BY <1>3 DEF TablesInv
  <2>7. (\A e \in HookEvents : \A i \in DOMAIN hookTable[e] :
           hookTable[e][i] \in Installed /\ e \in Range(objects[hookTable[e][i]].hooks))'
    BY <1>2, <1>4 DEF TablesInv, ObjectsAltered, SameTables
  <2>8. QED
    BY <2>1, <2>2, <2>3, <2>4, <2>5, <2>6, <2>7 DEF TablesInv
<1>6. LimitsHold'
  BY <1>3 DEF LimitsHold, ObjectsAltered
<1>7. QED
  BY <1>1, <1>5, <1>6

LEMMA UnsubscribedFact ==
  ASSUME TablesTyped, NEW o
  PROVE  /\ Unsubscribed(o) \in Seq(Listener)
         /\ \A i \in DOMAIN Unsubscribed(o) : \E k \in DOMAIN listeners : Unsubscribed(o)[i] = listeners[k]
<1> DEFINE P == {i \in DOMAIN listeners : listeners[i] \notin Range(objects[o].subscribed)}
<1>1. Unsubscribed(o) = Only(listeners, P) /\ listeners \in Seq(Listener)
  BY DEF Unsubscribed, TablesTyped
<1> HIDE DEF P
<1>2. /\ Only(listeners, P) \in Seq(Listener)
      /\ \E e \in [DOMAIN Only(listeners, P) -> P \intersect DOMAIN listeners] :
           \A k \in DOMAIN Only(listeners, P) : Only(listeners, P)[k] = listeners[e[k]]
  BY <1>1, OnlyHolds
<1>3. QED
  BY <1>1, <1>2

(* Installing and taking away.                                             *)
LEMMA RegisterKeeps ==
  ASSUME TablesTyped, TablesInv, LimitsHold, NEW name \in PluginNames, NEW m \in Manifests,
         Register(name, m)
  PROVE  TablesTyped' /\ TablesInv' /\ LimitsHold'
<1> DEFINE s == Entered(name, m)
           b == s.object
<1>1. /\ plugins[name] = 0 /\ Len(objects) < MaxLoads
      /\ plugins' = [plugins EXCEPT ![name] = s.id] /\ objects' = Append(objects, s.object)
      /\ commandOf' = s.commandOf /\ aliasOf' = s.aliasOf /\ allowed' = s.allowed
      /\ listeners' = s.listeners /\ hookTable' = s.hookTable
      /\ told' = Append(told, [event |-> "plugin_loaded", plugin |-> name])
  BY DEF Register
<1>2. Registration(name, m, s)
  BY EnteredIsRegistration
<1> HIDE DEF s
<1>3. /\ s.id = Len(objects) + 1
      /\ s.object \in PluginObject /\ s.object.manifest = m /\ s.object.runs = 0
      /\ s.commandOf \in [PluginCommands -> Nat] /\ s.aliasOf \in AliasTable
      /\ s.allowed \in SUBSET PluginCommands /\ allowed \subseteq s.allowed
      /\ s.listeners \in Seq(Listener) /\ s.hookTable \in [HookEvents -> Seq(Nat)]
      /\ Cardinality(s.object.commands) <= MaxCommands /\ Len(s.object.hooks) <= MaxHooks
      /\ s.object.commands \subseteq PluginCommands
  BY <1>2, ObjectFields DEF Registration
<1>4. /\ \A c \in PluginCommands :
           s.commandOf[c] = IF c \in s.object.commands THEN s.id ELSE commandOf[c]
      /\ \A c \in s.object.commands : commandOf[c] = 0 /\ c \in s.allowed
      /\ \A i \in DOMAIN s.listeners :
           s.listeners[i].owner = s.id \/ \E k \in DOMAIN listeners : s.listeners[i] = listeners[k]
      /\ \A e \in HookEvents : \A i \in DOMAIN s.hookTable[e] :
           \/ \E k \in DOMAIN hookTable[e] : s.hookTable[e][i] = hookTable[e][k]
           \/ s.hookTable[e][i] = s.id /\ e \in Range(s.object.hooks)
  BY <1>2 DEF Registration
<1>5. Len(objects) \in Nat /\ DOMAIN objects = 1..Len(objects) /\ plugins \in [PluginNames -> Nat]
      /\ objects \in Seq(PluginObject) /\ MaxLoads \in Nat
  BY ObjectsFact, PluginNumbers DEF TablesTyped
<1>6. /\ objects' \in Seq(PluginObject) /\ Len(objects') = Len(objects) + 1
      /\ DOMAIN objects' = 1..(Len(objects) + 1) /\ objects'[s.id] = s.object
      /\ \A o \in DOMAIN objects : objects'[o] = objects[o]
  BY <1>1, <1>3, <1>5
<1>7. plugins' \in [PluginNames -> Nat] /\ plugins'[name] = s.id /\ \A n \in PluginNames : n # name => plugins'[n] = plugins[n]
  BY <1>1, <1>3, <1>5
<1>8. TablesTyped'
  <2>1. [event |-> "plugin_loaded", plugin |-> name] \in ToldEvents
    BY DEF ToldEvents
  <2>2. told' \in Seq(ToldEvents)
    BY <1>1, <2>1 DEF TablesTyped
  <2>3. Len(objects') <= MaxLoads
    BY <1>1, <1>5, <1>6
  <2>4. QED
    BY <1>1, <1>3, <1>6, <1>7, <2>2, <2>3 DEF TablesTyped
<1>9. s.id # 0 /\ s.id \notin DOMAIN objects /\ s.id # Engine /\ s.id \in DOMAIN objects'
  BY <1>1, <1>3, <1>5, <1>6 DEF Engine
<1>10. \A o : o \in Installed' <=> o \in Installed \/ o = s.id
  BY <1>1, <1>7, <1>9, InstalledMeans
<1>11. \A o \in Installed : o \in DOMAIN objects
  BY InstalledMeans, <1>5 DEF TablesInv
<1>12. TablesInv'
  <2>1. (\A n \in PluginNames : plugins[n] \in 0..Len(objects))'
    BY <1>3, <1>5, <1>6, <1>7 DEF TablesInv
  <2>2. (\A n, k \in PluginNames : plugins[n] = plugins[k] /\ plugins[n] # 0 => n = k)'
    <3>1. \A n \in PluginNames : plugins[n] # s.id
      BY <1>3, <1>5 DEF TablesInv
    <3>2. QED
      BY <1>7, <3>1 DEF TablesInv
  <2>3. (\A o \in DOMAIN objects : objects[o].active => o \in Installed)'
    BY <1>3, <1>5, <1>6, <1>10 DEF TablesInv
  <2>4. (\A c \in PluginCommands : commandOf[c] \notin {0, Engine} =>
           commandOf[c] \in Installed /\ c \in objects[commandOf[c]].commands)'
    <3>1. ASSUME NEW c \in PluginCommands, commandOf'[c] \notin {0, Engine'}
          PROVE  commandOf'[c] \in Installed' /\ c \in objects'[commandOf'[c]].commands
      <4>1. CASE c \in s.object.commands
        BY <1>1, <1>4, <1>6, <1>10, <4>1
      <4>2. CASE c \notin s.object.commands
        <5>1. commandOf'[c] = commandOf[c] /\ commandOf[c] \notin {0, Engine}
          BY <1>1, <1>4, <3>1, <4>2 DEF Engine
        <5>2. commandOf[c] \in Installed /\ c \in objects[commandOf[c]].commands
          BY <5>1 DEF TablesInv
        <5>3. QED
          BY <1>6, <1>10, <1>11, <5>1, <5>2
      <4>3. QED
        BY <4>1, <4>2
    <3>2. QED
      BY <3>1
  <2>5. (\A o \in Installed : \A c \in objects[o].commands : commandOf[c] = o /\ c \in allowed)'
    <3>1. ASSUME NEW o \in Installed', NEW c \in objects'[o].commands
          PROVE  commandOf'[c] = o /\ c \in allowed'
      <4>1. CASE o = s.id
        <5>1. c \in s.object.commands
          BY <1>6, <3>1, <4>1
        <5>2. QED
          BY <1>1, <1>3, <1>4, <4>1, <5>1
      <4>2. CASE o \in Installed /\ o # s.id
        <5>1. o \in DOMAIN objects /\ c \in objects[o].commands /\ o # 0
          BY <1>6, <1>11, <4>2, InstalledMeans
        <5>2. commandOf[c] = o /\ c \in allowed
          BY <4>2, <5>1 DEF TablesInv
        <5>3. c \in PluginCommands
          BY <5>1, ObjectFields DEF TablesTyped
        <5>4. c \notin s.object.commands
          BY <1>4, <5>1, <5>2
        <5>5. QED
          BY <1>1, <1>3, <1>4, <5>2, <5>3, <5>4
      <4>3. QED
        BY <1>10, <4>1, <4>2
    <3>2. QED
      BY <3>1
  <2>6. (\A i \in DOMAIN listeners : listeners[i].owner \in DOMAIN objects)'
    <3>1. ASSUME NEW i \in DOMAIN listeners' PROVE listeners'[i].owner \in DOMAIN objects'
      <4>1. CASE listeners'[i].owner = s.id
        BY <1>9, <4>1
      <4>2. ASSUME NEW k \in DOMAIN listeners, listeners'[i] = listeners[k]
            PROVE  listeners'[i].owner \in DOMAIN objects'
        BY <1>5, <1>6, <4>2 DEF TablesInv
      <4>3. QED
        BY <1>1, <1>4, <3>1, <4>1, <4>2
    <3>2. QED
      BY <3>1
  <2>7. (\A e \in HookEvents : \A i \in DOMAIN hookTable[e] :
           hookTable[e][i] \in Installed /\ e \in Range(objects[hookTable[e][i]].hooks))'
    <3>1. ASSUME NEW e \in HookEvents, NEW i \in DOMAIN hookTable'[e]
          PROVE  hookTable'[e][i] \in Installed' /\ e \in Range(objects'[hookTable'[e][i]].hooks)
      <4>1. CASE hookTable'[e][i] = s.id /\ e \in Range(s.object.hooks)
        BY <1>6, <1>10, <4>1
      <4>2. ASSUME NEW k \in DOMAIN hookTable[e], hookTable'[e][i] = hookTable[e][k]
            PROVE  hookTable'[e][i] \in Installed' /\ e \in Range(objects'[hookTable'[e][i]].hooks)
        <5>1. hookTable[e][k] \in Installed /\ e \in Range(objects[hookTable[e][k]].hooks)
          BY DEF TablesInv
        <5>2. QED
          BY <1>6, <1>10, <1>11, <4>2, <5>1
      <4>3. QED
        BY <1>1, <1>4, <3>1, <4>1, <4>2
    <3>2. QED
      BY <3>1
  <2>8. QED
    BY <2>1, <2>2, <2>3, <2>4, <2>5, <2>6, <2>7 DEF TablesInv
<1>13. LimitsHold'
  <2>1. m.executions \in Nat
    BY PluginAssumption
  <2>2. ASSUME NEW o \in DOMAIN objects'
        PROVE  /\ objects'[o].runs <= objects'[o].manifest.executions
               /\ Cardinality(objects'[o].commands) <= MaxCommands
               /\ Len(objects'[o].hooks) <= MaxHooks
    <3>1. CASE o = s.id
      BY <1>3, <1>6, <2>1, <3>1
    <3>2. CASE o \in DOMAIN objects
      BY <1>6, <3>2 DEF LimitsHold
    <3>3. QED
      BY <1>3, <1>5, <1>6, <3>1, <3>2
  <2>3. QED
    BY <2>2 DEF LimitsHold
<1>14. QED
  BY <1>8, <1>12, <1>13

LEMMA UnregisterKeeps ==
  ASSUME TablesTyped, TablesInv, LimitsHold, NEW name \in PluginNames, Unregister(name)
  PROVE  TablesTyped' /\ TablesInv' /\ LimitsHold'
<1> DEFINE o == plugins[name]
           its == objects[o].commands
           aliases == UNION {objects[o].manifest.aliases[c] : c \in its}
<1>1. /\ o # 0
      /\ commandOf' = [c \in PluginCommands |-> IF c \in its THEN 0 ELSE commandOf[c]]
      /\ aliasOf' = [a \in PluginCommands |-> IF a \in aliases THEN "" ELSE aliasOf[a]]
      /\ allowed' = allowed \ its
      /\ listeners' = Unsubscribed(o)
      /\ hookTable' = [e \in HookEvents |->
                         IF e \in Range(objects[o].hooks) THEN << >> ELSE hookTable[e]]
      /\ objects' = Silenced(o)
      /\ plugins' = [plugins EXCEPT ![name] = 0]
      /\ told' = Append(told, [event |-> "plugin_unloaded", plugin |-> name])
  BY DEF Unregister
<1>2. o \in DOMAIN objects /\ o \in Installed
  <2>1. plugins[name] \in 0..Len(objects) /\ plugins[name] # 0
    BY <1>1 DEF TablesInv
  <2>2. plugins[name] \in DOMAIN objects
    BY <2>1, ObjectsFact
  <2>3. QED
    BY <2>1, <2>2, InstalledMeans
<1> HIDE DEF aliases
<1>3. ObjectsAltered /\ objects'[o].active = FALSE
      /\ \A i \in DOMAIN objects : objects'[i].active => objects[i].active
  BY <1>1, <1>2, SilencedAlters
<1>4. DOMAIN objects' = DOMAIN objects /\ Len(objects') = Len(objects)
  BY <1>3 DEF ObjectsAltered, TablesTyped
<1>5. listeners' \in Seq(Listener)
      /\ \A i \in DOMAIN listeners' : \E k \in DOMAIN listeners : listeners'[i] = listeners[k]
  BY <1>1, UnsubscribedFact
<1>6. plugins' \in [PluginNames -> Nat] /\ plugins'[name] = 0 /\ \A n \in PluginNames : n # name => plugins'[n] = plugins[n]
  BY <1>1 DEF TablesTyped
<1>7. \A i : i \in Installed' <=> i \in Installed /\ i # o
  <2>1. \A n \in PluginNames : n # name => plugins[n] # o
    BY <1>1 DEF TablesInv
  <2>2. QED
    BY <1>6, <2>1, InstalledMeans
<1>8. Installed \subseteq DOMAIN objects
  BY InstalledMeans, ObjectsFact DEF TablesInv
<1>9. \A i \in DOMAIN objects : objects'[i].commands = objects[i].commands /\ objects'[i].hooks = objects[i].hooks
  BY <1>3 DEF ObjectsAltered
<1>10. TablesTyped'
  <2>1. [event |-> "plugin_unloaded", plugin |-> name] \in ToldEvents
    BY DEF ToldEvents
  <2>2. told' \in Seq(ToldEvents)
    <3> DEFINE ev == [event |-> "plugin_unloaded", plugin |-> name]
    <3>1. told' = Append(told, ev) /\ ev \in ToldEvents /\ told \in Seq(ToldEvents)
      BY <1>1, <2>1 DEF TablesTyped
    <3> HIDE DEF ev
    <3>2. QED
      BY <3>1
  <2>3. commandOf' \in [PluginCommands -> Nat]
    BY <1>1 DEF TablesTyped
  <2>4. aliasOf' \in AliasTable
    BY <1>1 DEF TablesTyped, AliasTable
  <2>5. hookTable' \in [HookEvents -> Seq(Nat)]
    <3>1. << >> \in Seq(Nat)
      OBVIOUS
    <3>2. QED
      BY <1>1, <3>1 DEF TablesTyped
  <2>6. objects' \in Seq(PluginObject) /\ Len(objects') <= MaxLoads
    BY <1>3, <1>4 DEF ObjectsAltered, TablesTyped
  <2>7. allowed' \in SUBSET PluginCommands
    BY <1>1 DEF TablesTyped
  <2>8. QED
    BY <1>5, <1>6, <2>2, <2>3, <2>4, <2>5, <2>6, <2>7 DEF TablesTyped
<1>11. TablesInv'
  <2>1. (\A n \in PluginNames : plugins[n] \in 0..Len(objects))'
    BY <1>4, <1>6, ObjectsFact DEF TablesInv
  <2>2. (\A n, k \in PluginNames : plugins[n] = plugins[k] /\ plugins[n] # 0 => n = k)'
    BY <1>6 DEF TablesInv
  <2>3. (\A i \in DOMAIN objects : objects[i].active => i \in Installed)'
    BY <1>3, <1>4, <1>7 DEF TablesInv
  <2>4. (\A c \in PluginCommands : commandOf[c] \notin {0, Engine} =>
           commandOf[c] \in Installed /\ c \in objects[commandOf[c]].commands)'
    <3>1. ASSUME NEW c \in PluginCommands, commandOf'[c] \notin {0, Engine}
          PROVE  commandOf'[c] \in Installed' /\ c \in objects'[commandOf'[c]].commands
      <4>1. c \notin its /\ commandOf'[c] = commandOf[c]
        BY <1>1, <3>1
      <4>2. commandOf[c] \in Installed /\ c \in objects[commandOf[c]].commands
        BY <3>1, <4>1 DEF TablesInv
      <4>3. commandOf[c] # o
        BY <4>1, <4>2
      <4>4. QED
        BY <1>7, <1>8, <1>9, <4>1, <4>2, <4>3
    <3>2. QED
      BY <3>1 DEF Engine
  <2>5. (\A i \in Installed : \A c \in objects[i].commands : commandOf[c] = i /\ c \in allowed)'
    <3>1. ASSUME NEW i \in Installed', NEW c \in objects'[i].commands
          PROVE  commandOf'[c] = i /\ c \in allowed'
      <4>1. i \in Installed /\ i # o /\ i \in DOMAIN objects /\ c \in objects[i].commands
        BY <1>7, <1>8, <1>9, <3>1
      <4>2. commandOf[c] = i /\ c \in allowed
        BY <4>1 DEF TablesInv
      <4>3. c \notin its
        BY <1>2, <4>1, <4>2 DEF TablesInv
      <4>4. c \in PluginCommands
        BY <4>1, ObjectFields DEF TablesTyped
      <4>5. QED
        BY <1>1, <4>2, <4>3, <4>4
    <3>2. QED
      BY <3>1
  <2>6. (\A i \in DOMAIN listeners : listeners[i].owner \in DOMAIN objects)'
    BY <1>4, <1>5 DEF TablesInv
  <2>7. (\A e \in HookEvents : \A i \in DOMAIN hookTable[e] :
           hookTable[e][i] \in Installed /\ e \in Range(objects[hookTable[e][i]].hooks))'
    <3>1. ASSUME NEW e \in HookEvents, NEW i \in DOMAIN hookTable'[e]
          PROVE  hookTable'[e][i] \in Installed' /\ e \in Range(objects'[hookTable'[e][i]].hooks)
      <4>1. e \notin Range(objects[o].hooks) /\ hookTable'[e] = hookTable[e]
        <5>1. CASE e \in Range(objects[o].hooks)
          <6>1. hookTable'[e] = << >>
            BY <1>1, <5>1
          <6>2. QED
            BY <3>1, <6>1
        <5>2. QED
          BY <1>1, <5>1
      <4>2. hookTable[e][i] \in Installed /\ e \in Range(objects[hookTable[e][i]].hooks)
        BY <3>1, <4>1 DEF TablesInv
      <4>3. hookTable[e][i] # o
        BY <4>1, <4>2
      <4>4. QED
        BY <1>7, <1>8, <1>9, <4>1, <4>2, <4>3
    <3>2. QED
      BY <3>1
  <2>8. QED
    BY <2>1, <2>2, <2>3, <2>4, <2>5, <2>6, <2>7 DEF TablesInv
<1>12. LimitsHold'
  BY <1>3, <1>4 DEF LimitsHold, ObjectsAltered
<1>13. QED
  BY <1>10, <1>11, <1>12

LEMMA TablesStep ==
  ASSUME TablesTyped, TablesInv, LimitsHold, [PluginNext]_pluginVars
  PROVE  TablesTyped' /\ TablesInv' /\ LimitsHold'
<1>1. CASE SameTables /\ UNCHANGED listeners /\ ObjectsUsed
  <2>1. listeners' \in Seq(Listener)
        /\ \A i \in DOMAIN listeners' : \E k \in DOMAIN listeners : listeners'[i] = listeners[k]
    BY <1>1 DEF TablesTyped
  <2>2. QED
    BY <1>1, <2>1, UseAlters, AlteredKeeps
<1>2. ASSUME NEW n \in PluginNames, NEW on \in BOOLEAN, Switch(n, on)
      PROVE  TablesTyped' /\ TablesInv' /\ LimitsHold'
  <2>1. plugins[n] # 0 /\ SameTables /\ UNCHANGED listeners
        /\ objects' = [objects EXCEPT ![plugins[n]].active = on]
    BY <1>2 DEF Switch, SameTables
  <2>2. listeners' \in Seq(Listener)
        /\ \A i \in DOMAIN listeners' : \E k \in DOMAIN listeners : listeners'[i] = listeners[k]
    BY <2>1 DEF TablesTyped
  <2>3. ObjectsAltered
    BY <2>1, SwitchAlters
  <2>4. QED
    BY <2>1, <2>2, <2>3, AlteredKeeps
<1>3. ASSUME NEW n \in PluginNames, Isolate(n)
      PROVE  TablesTyped' /\ TablesInv' /\ LimitsHold'
  <2>1. plugins[n] # 0 /\ SameTables /\ listeners' = Unsubscribed(plugins[n])
        /\ objects' = Silenced(plugins[n])
    BY <1>3 DEF Isolate, SameTables
  <2>2. listeners' \in Seq(Listener)
        /\ \A i \in DOMAIN listeners' : \E k \in DOMAIN listeners : listeners'[i] = listeners[k]
    BY <2>1, UnsubscribedFact
  <2>3. plugins[n] \in DOMAIN objects
    BY <2>1, ObjectsFact DEF TablesInv
  <2>4. ObjectsAltered
    BY <2>1, <2>3, SilencedAlters
  <2>5. QED
    BY <2>1, <2>2, <2>4, AlteredKeeps
<1>4. QED
  BY <1>1, <1>2, <1>3, UseSteps, RegisterKeeps, UnregisterKeeps

(* RemoveFirst of the community modules, from a list without repetitions. *)
LEMMA RemoveFirstIs ==
  ASSUME NEW E, NEW s \in Seq(E), NEW e, NEW k \in DOMAIN s, s[k] = e, IsInjective(s)
  PROVE  RemoveFirst(s, e) = SubSeq(s, 1, k - 1) \o SubSeq(s, k + 1, Len(s))
<1> DEFINE I == {i \in 1..Len(s) : s[i] = e}
<1>1. I = {k}
  BY DEF IsInjective
<1>2. SelectInSeq(s, LAMBDA v : v = e) = IF I # {} THEN Min(I) ELSE 0
  BY DEF SelectInSeq
<1>3. Min(I) = k
  <2>1. \A x \in {k} : (\A y \in {k} : x <= y) => x = k
    OBVIOUS
  <2>2. k <= k
    OBVIOUS
  <2>3. Min({k}) = CHOOSE x \in {k} : \A y \in {k} : x <= y
    BY DEF Min
  <2>4. QED
    BY <1>1, <2>1, <2>2, <2>3
<1>4. \E i \in 1..Len(s) : s[i] = e
  OBVIOUS
<1>5. RemoveFirst(s, e) = RemoveAt(s, SelectInSeq(s, LAMBDA v : v = e))
  BY <1>4 DEF RemoveFirst
<1>6. QED
  BY <1>1, <1>2, <1>3, <1>5 DEF RemoveAt

LEMMA RemoveFirstHolds ==
  ASSUME NEW E, NEW s \in Seq(E), NEW e, e \in Range(s), IsInjective(s)
  PROVE  /\ RemoveFirst(s, e) \in Seq(E) /\ IsInjective(RemoveFirst(s, e))
         /\ Range(RemoveFirst(s, e)) = Range(s) \ {e}
<1>1. PICK k \in DOMAIN s : s[k] = e
  BY DEF Range
<1> DEFINE a == SubSeq(s, 1, k - 1)
           b == SubSeq(s, k + 1, Len(s))
           r == a \o b
<1>2. RemoveFirst(s, e) = r
  BY <1>1, RemoveFirstIs
<1>3. /\ Len(s) \in Nat /\ k \in 1..Len(s) /\ DOMAIN s = 1..Len(s)
  BY <1>1
<1>4. a \in Seq(E) /\ Len(a) = k - 1 /\ \A i \in 1..(k - 1) : a[i] = s[i]
  BY <1>3
<1>5. b \in Seq(E) /\ Len(b) = Len(s) - k /\ \A i \in 1..(Len(s) - k) : b[i] = s[k + i]
  BY <1>3
<1> HIDE DEF a, b
<1>6. /\ r \in Seq(E) /\ Len(r) = Len(s) - 1 /\ DOMAIN r = 1..(Len(s) - 1)
      /\ \A i \in 1..(Len(s) - 1) : r[i] = IF i < k THEN s[i] ELSE s[i + 1]
  <2>1. r \in Seq(E) /\ Len(r) = Len(s) - 1
    <3>1. r \in Seq(E) /\ Len(r) = Len(a) + Len(b)
      <4>1. a \in Seq(E) /\ b \in Seq(E)
        BY <1>4, <1>5
      <4>2. QED
        BY <4>1, ConcatProperties
    <3>2. QED
      BY <1>3, <1>4, <1>5, <3>1
  <2>2. ASSUME NEW i \in 1..(Len(s) - 1) PROVE r[i] = IF i < k THEN s[i] ELSE s[i + 1]
    <3>1. CASE i < k
      <4>1. i \in 1..Len(a)
        BY <1>3, <1>4, <3>1
      <4>2. r[i] = a[i]
        BY <1>4, <1>5, <4>1
      <4>3. QED
        BY <1>3, <1>4, <3>1, <4>2
    <3>2. CASE ~(i < k)
      <4>1. i - (k - 1) \in 1..(Len(s) - k) /\ k + (i - (k - 1)) = i + 1
        BY <1>3, <3>2
      <4>2. r[i] = b[i - (k - 1)]
        BY <1>3, <1>4, <1>5, <3>2, <4>1
      <4>3. QED
        BY <1>5, <3>2, <4>1, <4>2
    <3>3. QED
      BY <3>1, <3>2
  <2>3. DOMAIN r = 1..(Len(s) - 1)
    <3> HIDE DEF r
    <3>1. QED
      BY <2>1
  <2>4. QED
    BY <2>1, <2>2, <2>3
<1> HIDE DEF r
<1>7. IsInjective(r)
  <2>1. ASSUME NEW i \in DOMAIN r, NEW j \in DOMAIN r, r[i] = r[j] PROVE i = j
    <3>1. \A x, y \in 1..Len(s) : s[x] = s[y] => x = y
      BY <1>3 DEF IsInjective
    <3> DEFINE p(x) == IF x < k THEN x ELSE x + 1
    <3>2. p(i) \in 1..Len(s) /\ p(j) \in 1..Len(s) /\ r[i] = s[p(i)] /\ r[j] = s[p(j)]
      BY <1>3, <1>6
    <3>3. p(i) = p(j)
      BY <2>1, <3>1, <3>2
    <3>4. QED
      BY <1>3, <1>6, <3>3
  <2>2. QED
    BY <2>1 DEF IsInjective
<1>8. ASSUME NEW x PROVE x \in Range(r) <=> x \in Range(s) /\ x # e
  <2>1. ASSUME x \in Range(r) PROVE x \in Range(s) /\ x # e
    <3>1. PICK i \in DOMAIN r : r[i] = x
      BY <2>1 DEF Range
    <3> DEFINE j == IF i < k THEN i ELSE i + 1
    <3>2. j \in 1..Len(s) /\ j # k /\ s[j] = x
      BY <1>3, <1>6, <3>1
    <3>3. QED
      BY <1>1, <1>3, <3>2 DEF Range, IsInjective
  <2>2. ASSUME x \in Range(s), x # e PROVE x \in Range(r)
    <3>1. PICK j \in DOMAIN s : s[j] = x
      BY <2>2 DEF Range
    <3> DEFINE i == IF j < k THEN j ELSE j - 1
    <3>2. j # k
      BY <1>1, <2>2, <3>1
    <3>3. i \in 1..(Len(s) - 1) /\ r[i] = x
      BY <1>3, <1>6, <3>1, <3>2
    <3>4. QED
      BY <1>6, <3>3 DEF Range
  <2>3. QED
    BY <2>1, <2>2
<1>9. Range(r) = Range(s) \ {e}
  BY <1>8
<1>10. QED
  BY <1>2, <1>6, <1>7, <1>9

(* The two replays are folds: one event more is one step more.             *)
Replaying      == INSTANCE FoldFacts WITH Op <- ReplayEvent, Holds <- Heard
Reconstructing == INSTANCE FoldFacts WITH Op <- ReconstructEvent, Holds <- Heard

LEMMA ReplaysAreFolds ==
  ASSUME NEW s
  PROVE  /\ Replayed(s) = Replaying!Folded(NothingReplayed, s)
         /\ Reconstructed(s) = Reconstructing!Folded(NothingReconstructed, s)
<1>1. Replayed(s) = Replaying!Folded(NothingReplayed, s)
  BY DEF Replayed, Replaying!Folded, Replaying!FoldLeft, FoldLeft, MapThenFoldSet, Replaying!MapThenFoldSet,
         Max, Replaying!Max
<1>2. Reconstructed(s) = Reconstructing!Folded(NothingReconstructed, s)
  BY DEF Reconstructed, Reconstructing!Folded, Reconstructing!FoldLeft, FoldLeft, MapThenFoldSet,
         Reconstructing!MapThenFoldSet, Max, Reconstructing!Max
<1>3. QED
  BY <1>1, <1>2

LEMMA ReplaysAppend ==
  ASSUME NEW E, NEW s \in Seq(E), NEW e \in E
  PROVE  /\ Replayed(Append(s, e)) = ReplayEvent(Replayed(s), e)
         /\ Reconstructed(Append(s, e)) = ReconstructEvent(Reconstructed(s), e)
<1>1. Replaying!Folded(NothingReplayed, Append(s, e)) = ReplayEvent(Replaying!Folded(NothingReplayed, s), e)
  BY Replaying!FoldAppend
<1>2. Reconstructing!Folded(NothingReconstructed, Append(s, e))
        = ReconstructEvent(Reconstructing!Folded(NothingReconstructed, s), e)
  BY Reconstructing!FoldAppend
<1>3. QED
  BY <1>1, <1>2, ReplaysAreFolds

LEMMA ReplaysEmpty ==
  Replayed(<< >>) = NothingReplayed /\ Reconstructed(<< >>) = NothingReconstructed
  BY ReplaysAreFolds, Replaying!FoldEmpty, Reconstructing!FoldEmpty

(* What the replays show loaded is what is.                                *)
Present == {n \in PluginNames : plugins[n] # 0}

ShownInv ==
  LET r == Replayed(told)
      q == Reconstructed(told)
  IN  /\ "loaded" \in DOMAIN r /\ "loaded" \in DOMAIN q
      /\ r.loaded \in Seq(PluginNames) /\ IsInjective(r.loaded) /\ Range(r.loaded) = Present
      /\ q.loaded = r.loaded

LEMMA ShownInitially == PluginInit => ShownInv
<1> SUFFICES ASSUME PluginInit PROVE ShownInv
  OBVIOUS
<1>1. told = << >>
  BY DEF PluginInit
<1>2. Present = {}
  BY DEF PluginInit, Present
<1>3. << >> \in Seq(PluginNames) /\ IsInjective(<< >>) /\ Range(<< >>) = {}
  BY DEF IsInjective, Range
<1>4. /\ "loaded" \in DOMAIN NothingReplayed /\ NothingReplayed.loaded = << >>
      /\ "loaded" \in DOMAIN NothingReconstructed /\ NothingReconstructed.loaded = << >>
  BY DEF NothingReplayed, NothingReconstructed
<1>5. Replayed(told) = NothingReplayed /\ Reconstructed(told) = NothingReconstructed
  BY <1>1, ReplaysEmpty
<1>6. QED
  BY <1>2, <1>3, <1>4, <1>5 DEF ShownInv

LEMMA ReplayLoads ==
  ASSUME NEW r, "loaded" \in DOMAIN r, NEW n, NEW e, e = [event |-> "plugin_loaded", plugin |-> n]
  PROVE  /\ "loaded" \in DOMAIN ReplayEvent(r, e) /\ ReplayEvent(r, e).loaded = Append(r.loaded, n)
         /\ "loaded" \in DOMAIN ReconstructEvent(r, e) /\ ReconstructEvent(r, e).loaded = Append(r.loaded, n)
<1>1. e.event = "plugin_loaded" /\ e.plugin = n
  OBVIOUS
<1>2. Handled(r, e) = [r EXCEPT !.loaded = Append(@, n)]
  BY <1>1 DEF Handled
<1>3. ReconstructEvent(r, e) = [r EXCEPT !.loaded = Append(@, n)]
  BY <1>1 DEF ReconstructEvent
<1>4. QED
  BY <1>2, <1>3 DEF ReplayEvent

LEMMA ReplayUnloads ==
  ASSUME NEW r, "loaded" \in DOMAIN r, NEW n, NEW e, e = [event |-> "plugin_unloaded", plugin |-> n]
  PROVE  /\ "loaded" \in DOMAIN ReplayEvent(r, e) /\ ReplayEvent(r, e).loaded = RemoveFirst(r.loaded, n)
         /\ "loaded" \in DOMAIN ReconstructEvent(r, e)
         /\ ReconstructEvent(r, e).loaded = RemoveFirst(r.loaded, n)
<1>1. e.event = "plugin_unloaded" /\ e.plugin = n
  OBVIOUS
<1>2. Handled(r, e) = [r EXCEPT !.loaded = RemoveFirst(@, n), !.unloaded = Append(@, n)]
  BY <1>1 DEF Handled
<1>3. ReconstructEvent(r, e) = [r EXCEPT !.loaded = RemoveFirst(@, n)]
  BY <1>1 DEF ReconstructEvent
<1>4. QED
  BY <1>2, <1>3 DEF ReplayEvent

LEMMA ShownStep ==
  ASSUME TablesTyped, ShownInv, [PluginNext]_pluginVars
  PROVE  ShownInv'
<1> DEFINE r == Replayed(told)
           q == Reconstructed(told)
<1>0. /\ "loaded" \in DOMAIN r /\ "loaded" \in DOMAIN q
      /\ r.loaded \in Seq(PluginNames) /\ IsInjective(r.loaded) /\ Range(r.loaded) = Present
      /\ q.loaded = r.loaded
  BY DEF ShownInv
<1>1. CASE UNCHANGED <<plugins, told>>
  BY <1>1 DEF ShownInv, Present
<1>2. ASSUME NEW n \in PluginNames, NEW m \in Manifests, Register(n, m) PROVE ShownInv'
  <2> DEFINE e == [event |-> "plugin_loaded", plugin |-> n]
             R == Replayed(told')
             Q == Reconstructed(told')
  <2>1. /\ plugins[n] = 0 /\ told' = Append(told, e)
        /\ plugins' = [plugins EXCEPT ![n] = Entered(n, m).id]
    BY <1>2 DEF Register
  <2>2. Entered(n, m).id # 0
    <3>1. Entered(n, m).id = Len(objects) + 1
      BY EnteredIsRegistration DEF Registration
    <3>2. QED
      BY <3>1, ObjectsFact
  <2>3. e \in ToldEvents /\ told \in Seq(ToldEvents)
    BY DEF ToldEvents, TablesTyped
  <2>4. R = ReplayEvent(r, e) /\ Q = ReconstructEvent(q, e)
    BY <2>1, <2>3, ReplaysAppend
  <2>5. /\ "loaded" \in DOMAIN R /\ R.loaded = Append(r.loaded, n)
        /\ "loaded" \in DOMAIN Q /\ Q.loaded = Append(q.loaded, n)
    <3>1. /\ "loaded" \in DOMAIN ReplayEvent(r, e) /\ ReplayEvent(r, e).loaded = Append(r.loaded, n)
          /\ "loaded" \in DOMAIN ReconstructEvent(q, e) /\ ReconstructEvent(q, e).loaded = Append(q.loaded, n)
      <4> HIDE DEF r, q
      <4>1. QED
        BY <1>0, ReplayLoads
    <3>2. QED
      BY <2>4, <3>1
  <2>6. n \notin Range(r.loaded)
    BY <1>0, <2>1 DEF Present
  <2>7. Present' = Present \union {n}
    BY <2>1, <2>2 DEF Present, TablesTyped
  <2>8. R.loaded \in Seq(PluginNames) /\ IsInjective(R.loaded) /\ Range(R.loaded) = Present'
    <3> DEFINE s == r.loaded
               t == R.loaded
    <3>1. s \in Seq(PluginNames) /\ IsInjective(s) /\ t = Append(s, n) /\ n \notin Range(s) /\ Range(s) = Present
      BY <1>0, <2>5, <2>6
    <3> HIDE DEF s, t
    <3>2. /\ t \in Seq(PluginNames) /\ DOMAIN t = 1..(Len(s) + 1) /\ DOMAIN s = 1..Len(s) /\ Len(s) \in Nat
          /\ t[Len(s) + 1] = n /\ \A i \in DOMAIN s : t[i] = s[i]
      BY <3>1
    <3>3. IsInjective(t)
      BY <3>1, <3>2 DEF IsInjective, Range
    <3>4. Range(t) = Range(s) \union {n}
      BY <3>2 DEF Range
    <3>5. QED
      BY <2>7, <3>1, <3>2, <3>3, <3>4 DEF s, t
  <2>9. QED
    BY <1>0, <2>5, <2>8 DEF ShownInv
<1>3. ASSUME NEW n \in PluginNames, Unregister(n) PROVE ShownInv'
  <2> DEFINE e == [event |-> "plugin_unloaded", plugin |-> n]
             R == Replayed(told')
             Q == Reconstructed(told')
  <2>1. /\ plugins[n] # 0 /\ told' = Append(told, e) /\ plugins' = [plugins EXCEPT ![n] = 0]
    BY <1>3 DEF Unregister
  <2>3. e \in ToldEvents /\ told \in Seq(ToldEvents)
    BY DEF ToldEvents, TablesTyped
  <2>4. R = ReplayEvent(r, e) /\ Q = ReconstructEvent(q, e)
    BY <2>1, <2>3, ReplaysAppend
  <2>5. /\ "loaded" \in DOMAIN R /\ R.loaded = RemoveFirst(r.loaded, n)
        /\ "loaded" \in DOMAIN Q /\ Q.loaded = RemoveFirst(q.loaded, n)
    BY <1>0, <2>4, ReplayUnloads
  <2>6. n \in Range(r.loaded)
    BY <1>0, <2>1 DEF Present
  <2>7. Present' = Present \ {n}
    BY <2>1 DEF Present, TablesTyped
  <2>8. R.loaded \in Seq(PluginNames) /\ IsInjective(R.loaded) /\ Range(R.loaded) = Present'
    BY <1>0, <2>5, <2>6, <2>7, RemoveFirstHolds
  <2>9. QED
    BY <1>0, <2>5, <2>8 DEF ShownInv
<1>4. QED
  <2>1. \/ UNCHANGED <<plugins, told>>
        \/ \E n \in PluginNames, m \in Manifests : Register(n, m)
        \/ \E n \in PluginNames : Unregister(n)
    BY UseSteps DEF Switch, Isolate, SameTables
  <2>2. QED
    BY <1>1, <1>2, <1>3, <2>1

-----------------------------------------------------------------------------
(* The job log, the event log and the answers of the engine                *)
(* (EngineProcess).                                                        *)

(* The lines of the job log.                                               *)
Lines == [job : Nat \ {0}, status : Open \union Closed]

(* The last line of a job.                                                 *)
LEMMA LastOf ==
  ASSUME NEW T, NEW n \in Nat, T \in SUBSET (1..n), T # {}
  PROVE  Max(T) \in T /\ \A i \in T : i <= Max(T)
<1> DEFINE D == {n - i : i \in T}
<1>1. D \in SUBSET Nat /\ D # {}
  <2>1. \A i \in T : n - i \in Nat
    OBVIOUS
  <2>2. \E i \in T : n - i \in D
    OBVIOUS
  <2>3. QED
    BY <2>1, <2>2
<1>2. PICK d \in D : \A m \in D : d <= m
  BY <1>1, Filtered!LeastMember
<1>3. PICK k \in T : d = n - k
  BY <1>2
<1>4. \A i \in T : k >= i
  <2>1. ASSUME NEW i \in T PROVE k >= i
    <3>1. n - k <= n - i
      BY <1>2, <1>3
    <3>2. QED
      BY <3>1
  <2>2. QED
    BY <2>1
<1>5. \E x \in T : \A y \in T : x >= y
  BY <1>4
<1>6. Max(T) \in T /\ \A y \in T : Max(T) >= y
  BY <1>5 DEF Max
<1>7. QED
  BY <1>6

LEMMA LinesFact ==
  ASSUME jobLog \in Seq(Lines), NEW j \in Logged
  PROVE  /\ Max(LinesOf(j)) \in LinesOf(j) /\ \A i \in LinesOf(j) : i <= Max(LinesOf(j))
         /\ LastStatus(j) = jobLog[Max(LinesOf(j))].status /\ LastStatus(j) \in Open \union Closed
<1>1. LinesOf(j) \in SUBSET (1..Len(jobLog)) /\ LinesOf(j) # {} /\ Len(jobLog) \in Nat
  BY DEF LinesOf, Logged
<1>2. Max(LinesOf(j)) \in LinesOf(j) /\ \A i \in LinesOf(j) : i <= Max(LinesOf(j))
  BY <1>1, LastOf
<1>3. jobLog[Max(LinesOf(j))] \in Lines
  BY <1>1, <1>2
<1>4. QED
  BY <1>2, <1>3 DEF LastStatus, Lines

(* A line more: it is the last of its job, and the others keep theirs.     *)
LineAdded(j, mark) ==
  /\ jobLog' \in Seq(Lines) /\ Logged' = Logged \union {j}
  /\ LastStatus(j)' = mark
  /\ \A k \in Logged : k # j => LastStatus(k)' = LastStatus(k)
  /\ \A k \in Logged : k # j => LinesOf(k)' = LinesOf(k)
  /\ LinesOf(j)' = LinesOf(j) \union {Len(jobLog) + 1}
  /\ Max(LinesOf(j))' = Len(jobLog) + 1
  /\ \A i \in DOMAIN jobLog : jobLog'[i] = jobLog[i]
  /\ jobLog'[Len(jobLog) + 1].status = mark

LEMMA LogStep ==
  ASSUME jobLog \in Seq(Lines), NEW j \in Nat \ {0}, NEW mark \in Open \union Closed, Log(j, mark)
  PROVE  LineAdded(j, mark)
<1> DEFINE n == Len(jobLog)
           new == [job |-> j, status |-> mark]
<1>1. /\ new \in Lines /\ jobLog' = Append(jobLog, new) /\ n \in Nat
  BY DEF Log, Lines
<1>2. /\ jobLog' \in Seq(Lines) /\ DOMAIN jobLog' = 1..(n + 1) /\ DOMAIN jobLog = 1..n
      /\ jobLog'[n + 1] = new /\ \A i \in 1..n : jobLog'[i] = jobLog[i]
  BY <1>1
<1>3. new.job = j /\ new.status = mark
  OBVIOUS
<1> HIDE DEF new
<1>4. Logged' = Logged \union {j}
  <2>1. \A k : k \in Logged' <=> \E i \in 1..(n + 1) : jobLog'[i].job = k
    BY <1>2 DEF Logged
  <2>2. \A k : k \in Logged <=> \E i \in 1..n : jobLog[i].job = k
    BY <1>2 DEF Logged
  <2>3. ASSUME NEW k \in Logged' PROVE k \in Logged \union {j}
    <3>1. PICK i \in 1..(n + 1) : jobLog'[i].job = k
      BY <2>1
    <3>2. CASE i = n + 1
      BY <1>2, <1>3, <3>1, <3>2
    <3>3. CASE i # n + 1
      <4>1. i \in 1..n
        BY <1>1, <3>3
      <4>2. QED
        BY <1>2, <2>2, <3>1, <4>1
    <3>4. QED
      BY <3>2, <3>3
  <2>4. ASSUME NEW k \in Logged PROVE k \in Logged'
    <3>1. PICK i \in 1..n : jobLog[i].job = k
      BY <2>2
    <3>2. i \in 1..(n + 1)
      BY <1>1
    <3>3. QED
      BY <1>2, <2>1, <3>1, <3>2
  <2>5. j \in Logged'
    <3>1. n + 1 \in 1..(n + 1)
      BY <1>1
    <3>2. QED
      BY <1>2, <1>3, <2>1, <3>1
  <2>6. QED
    BY <2>3, <2>4, <2>5
<1>5. /\ \A k : k # j => LinesOf(k)' = LinesOf(k)
      /\ LinesOf(j)' = LinesOf(j) \union {n + 1}
  BY <1>1, <1>2, <1>3 DEF LinesOf
<1>6. Max(LinesOf(j))' = n + 1
  <2>1. LinesOf(j)' \in SUBSET (1..(n + 1)) /\ n + 1 \in LinesOf(j)' /\ n + 1 \in Nat
    BY <1>1, <1>2, <1>5 DEF LinesOf
  <2>2. Max(LinesOf(j)') \in LinesOf(j)' /\ \A i \in LinesOf(j)' : i <= Max(LinesOf(j)')
    BY <2>1, LastOf
  <2>3. Max(LinesOf(j)') = n + 1
    BY <2>1, <2>2
  <2>4. QED
    BY <2>3
<1>7. LastStatus(j)' = mark
  BY <1>2, <1>3, <1>6 DEF LastStatus
<1>8. ASSUME NEW k \in Logged, k # j PROVE LastStatus(k)' = LastStatus(k)
  <2>1. Max(LinesOf(k)) \in LinesOf(k)
    BY <1>8, LinesFact
  <2>2. Max(LinesOf(k)) \in 1..n
    BY <1>2, <2>1 DEF LinesOf
  <2>3. LinesOf(k)' = LinesOf(k)
    BY <1>5, <1>8
  <2>4. QED
    BY <1>2, <2>2, <2>3 DEF LastStatus
<1>9. QED
  BY <1>2, <1>3, <1>4, <1>5, <1>6, <1>7, <1>8 DEF LineAdded

(* What is told: the names of the events, and those that a replay looks at. *)
PlainNames == {"error_occurred", "job_started", "command_executed", "config_updated", "jobs_recovered",
               "session_restoring", "session_restored", "engine_stopped"}
EventRecords ==
  [event : PlainNames \union {"job_finished", "job_recovered", "engine_starting", "engine_ready",
                              "engine_shutting_down"},
   job : Nat]

(* The store: one event more.                                              *)
Stores == [buf : Seq(EventRecords), file : Seq(EventRecords)]
Whole(s) == s.file \o s.buf

EventStored(s, e, x) ==
  /\ x \in Stores /\ Whole(x) = Append(Whole(s), e)
  /\ x.file = s.file \/ x.file = Append(Whole(s), e)

LEMMA StoreEventStep ==
  ASSUME NEW s \in Stores, NEW e \in EventRecords
  PROVE  EventStored(s, e, StoreEvent(s, e))
<1> DEFINE x == StoreEvent(s, e)
<1>1. s.buf \in Seq(EventRecords) /\ s.file \in Seq(EventRecords) /\ s = [buf |-> s.buf, file |-> s.file]
  BY DEF Stores
<1>2. Append(s.buf, e) \in Seq(EventRecords)
  BY <1>1
<1>3. s.file \o Append(s.buf, e) = Append(s.file \o s.buf, e)
      /\ s.file \o Append(s.buf, e) \in Seq(EventRecords)
  BY <1>1, <1>2
<1>4. x = [buf |-> << >>, file |-> s.file \o Append(s.buf, e)] \/ x = [buf |-> Append(s.buf, e), file |-> s.file]
  BY <1>1 DEF StoreEvent
<1> HIDE DEF x
<1>5. CASE x = [buf |-> << >>, file |-> s.file \o Append(s.buf, e)]
  <2>1. x.buf = << >> /\ x.file = s.file \o Append(s.buf, e)
    BY <1>5
  <2>2. x \in Stores
    BY <1>3, <1>5 DEF Stores
  <2>3. x.file \o << >> = x.file
    BY <1>3, <2>1
  <2>4. Whole(x) = x.file
    BY <2>1, <2>3 DEF Whole
  <2>5. QED
    BY <1>3, <2>1, <2>2, <2>4 DEF EventStored, Whole, x
<1>6. CASE x = [buf |-> Append(s.buf, e), file |-> s.file]
  <2>1. x.buf = Append(s.buf, e) /\ x.file = s.file
    BY <1>6
  <2>2. x \in Stores
    BY <1>1, <1>2, <1>6 DEF Stores
  <2>3. QED
    BY <1>3, <2>1, <2>2 DEF EventStored, Whole, x
<1>7. QED
  BY <1>4, <1>5, <1>6

Storing == INSTANCE FoldFacts WITH Op <- StoreEvent, Holds <- Filters

OneByOne(s, a, b, c) ==
  /\ Appended(s, << >>) = s
  /\ Appended(s, <<a>>) = StoreEvent(s, a)
  /\ Appended(s, <<a, b>>) = StoreEvent(StoreEvent(s, a), b)
  /\ Appended(s, <<a, b, c>>) = StoreEvent(StoreEvent(StoreEvent(s, a), b), c)

LEMMA AppendedIs ==
  ASSUME NEW s, NEW a \in EventRecords, NEW b \in EventRecords, NEW c \in EventRecords
  PROVE  OneByOne(s, a, b, c)
<1>1. \A es : Appended(s, es) = Storing!Folded(s, es)
  BY DEF Appended, Storing!Folded, Storing!FoldLeft, FoldLeft, MapThenFoldSet, Storing!MapThenFoldSet,
         Max, Storing!Max
<1>2. ASSUME NEW es \in Seq(EventRecords), NEW e \in EventRecords
      PROVE  Appended(s, Append(es, e)) = StoreEvent(Appended(s, es), e)
  <2>1. Storing!Folded(s, Append(es, e)) = StoreEvent(Storing!Folded(s, es), e)
    BY Storing!FoldAppend
  <2>2. QED
    BY <1>1, <2>1
<1>3. Appended(s, << >>) = s
  BY <1>1, Storing!FoldEmpty
<1>4. /\ << >> \in Seq(EventRecords) /\ <<a>> \in Seq(EventRecords) /\ <<a, b>> \in Seq(EventRecords)
      /\ <<a>> = Append(<< >>, a) /\ <<a, b>> = Append(<<a>>, b) /\ <<a, b, c>> = Append(<<a, b>>, c)
  OBVIOUS
<1>5. Appended(s, Append(<< >>, a)) = StoreEvent(Appended(s, << >>), a)
  BY <1>2, <1>4
<1>6. Appended(s, Append(<<a>>, b)) = StoreEvent(Appended(s, <<a>>), b)
  BY <1>2, <1>4
<1>7. Appended(s, Append(<<a, b>>, c)) = StoreEvent(Appended(s, <<a, b>>), c)
  BY <1>2, <1>4
<1>8. QED
  BY <1>3, <1>4, <1>5, <1>6, <1>7 DEF OneByOne

(* The fields of a replay that the ledger is about.                        *)
Replays == {"completed", "jobs", "transitions", "loaded", "commands", "errors"}
Counted == {"completed", "loaded", "commands", "errors"}

ReplayedOne(r, e, x) ==
  /\ Replays \subseteq DOMAIN x
  /\ x.completed = IF e.event = "job_finished" THEN r.completed + 1 ELSE r.completed
  /\ x.commands = IF e.event = "command_executed" THEN r.commands + 1 ELSE r.commands
  /\ x.errors = IF e.event = "error_occurred" THEN r.errors + 1 ELSE r.errors
  /\ x.loaded = r.loaded
  /\ x.jobs = JobsApplied(r.jobs, e)
  /\ x.transitions = CASE e.event = "engine_starting"      -> Append(r.transitions, "starting")
                       [] e.event = "engine_ready"         -> Append(r.transitions, "ready")
                       [] e.event = "engine_shutting_down" -> Append(r.transitions, "stopped")
                       [] OTHER -> r.transitions

(* One event more, in the replay engine.                                   *)
LEMMA ReplayOne ==
  ASSUME NEW r, Replays \cup {"started", "recovered", "restored", "events"} \subseteq DOMAIN r, NEW e \in EventRecords
  PROVE  /\ ReplayedOne(r, e, ReplayEvent(r, e))
         /\ DOMAIN ReplayEvent(r, e) = DOMAIN r
<1> DEFINE h == Handled(r, e)
           x == ReplayEvent(r, e)
<1>1. e.event \in PlainNames \union {"job_finished", "job_recovered", "engine_starting", "engine_ready",
                                     "engine_shutting_down"}
  BY DEF EventRecords
<1>2. /\ DOMAIN h = DOMAIN r
      /\ h.jobs = r.jobs /\ h.loaded = r.loaded
      /\ h.completed = IF e.event = "job_finished" THEN r.completed + 1 ELSE r.completed
      /\ h.commands = IF e.event = "command_executed" THEN r.commands + 1 ELSE r.commands
      /\ h.errors = IF e.event = "error_occurred" THEN r.errors + 1 ELSE r.errors
      /\ h.transitions = CASE e.event = "engine_starting"      -> Append(r.transitions, "starting")
                           [] e.event = "engine_ready"         -> Append(r.transitions, "ready")
                           [] e.event = "engine_shutting_down" -> Append(r.transitions, "stopped")
                           [] OTHER -> r.transitions
  <2>1. CASE e.event = "job_started"
    <3>1. h = [r EXCEPT !.started = @ + 1]
      BY <2>1 DEF Handled
    <3>2. QED
      BY <2>1, <3>1 DEF Replays
  <2>2. CASE e.event = "job_finished"
    <3>1. h = [r EXCEPT !.completed = @ + 1]
      BY <2>2 DEF Handled
    <3>2. QED
      BY <2>2, <3>1 DEF Replays
  <2>3. CASE e.event = "job_recovered"
    <3>1. h = [r EXCEPT !.recovered = @ + 1]
      BY <2>3 DEF Handled
    <3>2. QED
      BY <2>3, <3>1 DEF Replays
  <2>4. CASE e.event = "command_executed"
    <3>1. h = [r EXCEPT !.commands = @ + 1]
      BY <2>4 DEF Handled
    <3>2. QED
      BY <2>4, <3>1 DEF Replays
  <2>5. CASE e.event = "error_occurred"
    <3>1. h = [r EXCEPT !.errors = @ + 1]
      BY <2>5 DEF Handled
    <3>2. QED
      BY <2>5, <3>1 DEF Replays
  <2>6. CASE e.event = "session_restoring"
    <3>1. h = [r EXCEPT !.restored = TRUE]
      BY <2>6 DEF Handled
    <3>2. QED
      BY <2>6, <3>1 DEF Replays
  <2>7. CASE e.event = "engine_starting"
    <3>1. h = [r EXCEPT !.transitions = Append(@, "starting")]
      BY <2>7 DEF Handled, Transition
    <3>2. QED
      BY <2>7, <3>1 DEF Replays
  <2>8. CASE e.event = "engine_ready"
    <3>1. h = [r EXCEPT !.transitions = Append(@, "ready")]
      BY <2>8 DEF Handled, Transition
    <3>2. QED
      BY <2>8, <3>1 DEF Replays
  <2>9. CASE e.event = "engine_shutting_down"
    <3>1. h = [r EXCEPT !.transitions = Append(@, "stopped")]
      BY <2>9 DEF Handled, Transition
    <3>2. QED
      BY <2>9, <3>1 DEF Replays
  <2>10. CASE e.event \in {"config_updated", "jobs_recovered", "session_restored", "engine_stopped"}
    <3>1. h = r
      BY <2>10 DEF Handled
    <3>2. QED
      BY <2>10, <3>1 DEF Replays
  <2>11. QED
    BY <1>1, <2>1, <2>2, <2>3, <2>4, <2>5, <2>6, <2>7, <2>8, <2>9, <2>10 DEF PlainNames
<1>3. x = [h EXCEPT !.events = @ + 1, !.jobs = JobsApplied(@, e)]
  BY DEF ReplayEvent
<1> HIDE DEF h, x
<1>4. /\ DOMAIN x = DOMAIN h /\ x.jobs = JobsApplied(h.jobs, e) /\ x.loaded = h.loaded
      /\ x.completed = h.completed /\ x.commands = h.commands /\ x.errors = h.errors
      /\ x.transitions = h.transitions
  BY <1>2, <1>3 DEF Replays
<1>5. ReplayedOne(r, e, x)
  BY <1>2, <1>4 DEF ReplayedOne, Replays
<1>6. QED
  BY <1>2, <1>4, <1>5 DEF x

(* The store's own replay.                                                 *)
LEMMA ReconstructOne ==
  ASSUME NEW q, DOMAIN q = Counted, NEW e \in EventRecords, NEW y, y = ReconstructEvent(q, e)
  PROVE  /\ DOMAIN y = Counted /\ y.loaded = q.loaded
         /\ y.completed = IF e.event = "job_finished" THEN q.completed + 1 ELSE q.completed
         /\ y.commands = IF e.event = "command_executed" THEN q.commands + 1 ELSE q.commands
         /\ y.errors = IF e.event = "error_occurred" THEN q.errors + 1 ELSE q.errors
<1>1. e.event \notin {"plugin_loaded", "plugin_unloaded"}
  BY DEF EventRecords, PlainNames
<1>2. CASE e.event = "job_finished"
  <2>1. y = [q EXCEPT !.completed = @ + 1]
    BY <1>2 DEF ReconstructEvent
  <2>2. QED
    BY <1>2, <2>1 DEF Counted
<1>3. CASE e.event = "command_executed"
  <2>1. y = [q EXCEPT !.commands = @ + 1]
    BY <1>3 DEF ReconstructEvent
  <2>2. QED
    BY <1>3, <2>1 DEF Counted
<1>4. CASE e.event = "error_occurred"
  <2>1. y = [q EXCEPT !.errors = @ + 1]
    BY <1>4 DEF ReconstructEvent
  <2>2. QED
    BY <1>4, <2>1 DEF Counted
<1>5. CASE e.event \notin {"job_finished", "command_executed", "error_occurred"}
  <2>1. y = q
    BY <1>1, <1>5 DEF ReconstructEvent
  <2>2. QED
    BY <1>5, <2>1 DEF Counted
<1>6. QED
  BY <1>2, <1>3, <1>4, <1>5

(* The lifecycle in which only one that was ready stops.                   *)
LastStage(t) == IF Len(t) = 0 THEN "none" ELSE t[Len(t)]
StageBefore(t, i) == IF i = 1 THEN "none" ELSE t[i - 1]
InOrder(t) ==
  \A i \in DOMAIN t : /\ t[i] = "ready" => StageBefore(t, i) = "starting"
                      /\ t[i] = "stopped" => StageBefore(t, i) \in {"ready", "stopped"}

(* st: how the log has every job.                                          *)
RebuiltJobs == [job : Nat, status : {"running", "recovered", "completed"}]
RecoveredCrashed(js, st) ==
  \A i \in DOMAIN js : js[i].status = "recovered" => js[i].job \in DOMAIN st /\ st[js[i].job] = "crashed"

ReplayFits(r, q, st) ==
  /\ Replays \union {"started", "recovered", "restored", "events"} \subseteq DOMAIN r
  /\ DOMAIN q = Counted /\ \A field \in Counted : q[field] = r[field]
  /\ r.completed \in Nat
  /\ r.jobs \in Seq(RebuiltJobs) /\ RecoveredCrashed(r.jobs, st)
  /\ r.transitions \in Seq({"starting", "ready", "stopped"}) /\ InOrder(r.transitions)

EventFits(r, e, st) ==
  /\ e.event = "job_recovered" => e.job \in DOMAIN st /\ st[e.job] = "crashed"
  /\ e.event = "engine_ready" => LastStage(r.transitions) = "starting"
  /\ e.event = "engine_shutting_down" => LastStage(r.transitions) \in {"ready", "stopped"}

LEMMA AppendInOrder ==
  ASSUME NEW t \in Seq({"starting", "ready", "stopped"}), InOrder(t), NEW v \in {"starting", "ready", "stopped"},
         v = "ready" => LastStage(t) = "starting",
         v = "stopped" => LastStage(t) \in {"ready", "stopped"}
  PROVE  Append(t, v) \in Seq({"starting", "ready", "stopped"}) /\ InOrder(Append(t, v))
         /\ LastStage(Append(t, v)) = v
<1> DEFINE u == Append(t, v)
<1>1. /\ u \in Seq({"starting", "ready", "stopped"}) /\ Len(u) = Len(t) + 1 /\ Len(t) \in Nat
      /\ u[Len(t) + 1] = v /\ \A i \in 1..Len(t) : u[i] = t[i]
      /\ DOMAIN u = 1..(Len(t) + 1) /\ DOMAIN t = 1..Len(t)
  OBVIOUS
<1> HIDE DEF u
<1>2. StageBefore(u, Len(t) + 1) = LastStage(t)
  <2>1. CASE Len(t) = 0
    BY <1>1, <2>1 DEF StageBefore, LastStage
  <2>2. CASE Len(t) # 0
    <3>1. Len(t) \in 1..Len(t) /\ Len(t) + 1 # 1 /\ (Len(t) + 1) - 1 = Len(t)
      BY <1>1, <2>2
    <3>2. QED
      BY <1>1, <2>2, <3>1 DEF StageBefore, LastStage
  <2>3. QED
    BY <2>1, <2>2
<1>3. ASSUME NEW i \in 1..Len(t) PROVE StageBefore(u, i) = StageBefore(t, i) /\ u[i] = t[i]
  <2>1. i # 1 => i - 1 \in 1..Len(t)
    BY <1>1
  <2>2. QED
    BY <1>1, <2>1 DEF StageBefore
<1>4. ASSUME NEW i \in DOMAIN u
      PROVE  /\ u[i] = "ready" => StageBefore(u, i) = "starting"
             /\ u[i] = "stopped" => StageBefore(u, i) \in {"ready", "stopped"}
  <2>1. CASE i \in 1..Len(t)
    BY <1>1, <1>3, <2>1 DEF InOrder
  <2>2. CASE i = Len(t) + 1
    BY <1>1, <1>2, <2>2
  <2>3. QED
    BY <1>1, <2>1, <2>2
<1>5. InOrder(u)
  BY <1>4 DEF InOrder
<1>6. LastStage(u) = v
  BY <1>1 DEF LastStage
<1>7. QED
  BY <1>1, <1>5, <1>6 DEF u

LEMMA JobsRebuilt ==
  ASSUME NEW js \in Seq(RebuiltJobs), NEW st, RecoveredCrashed(js, st), NEW e \in EventRecords,
         e.event = "job_recovered" => e.job \in DOMAIN st /\ st[e.job] = "crashed"
  PROVE  JobsApplied(js, e) \in Seq(RebuiltJobs) /\ RecoveredCrashed(JobsApplied(js, e), st)
<1> DEFINE ks == JobsApplied(js, e)
<1>0. e.job \in Nat
  BY DEF EventRecords
<1>1. ASSUME NEW j \in RebuiltJobs, j.status = "recovered" => j.job \in DOMAIN st /\ st[j.job] = "crashed"
      PROVE  Append(js, j) \in Seq(RebuiltJobs) /\ RecoveredCrashed(Append(js, j), st)
  <2>1. \A i \in DOMAIN Append(js, j) : i \in DOMAIN js \/ Append(js, j)[i] = j
    OBVIOUS
  <2>2. \A i \in DOMAIN js : Append(js, j)[i] = js[i]
    OBVIOUS
  <2>3. QED
    BY <1>1, <2>1, <2>2 DEF RecoveredCrashed
<1>2. CASE e.event = "job_started"
  <2> DEFINE new == [job |-> 0, status |-> "running"]
  <2>1. ks = Append(js, new)
    BY <1>2 DEF JobsApplied
  <2>2. new \in RebuiltJobs /\ new.status # "recovered"
    BY DEF RebuiltJobs
  <2> HIDE DEF new
  <2>3. QED
    BY <1>1, <2>1, <2>2
<1>3. CASE e.event = "job_recovered"
  <2> DEFINE new == [job |-> e.job, status |-> "recovered"]
  <2>1. ks = Append(js, new)
    BY <1>3 DEF JobsApplied
  <2>2. new \in RebuiltJobs /\ new.job = e.job
    BY <1>0 DEF RebuiltJobs
  <2> HIDE DEF new
  <2>3. QED
    BY <1>1, <1>3, <2>1, <2>2
<1>4. CASE e.event = "job_finished"
  <2>1. PICK P : ks = [i \in DOMAIN js |-> IF i \in P THEN [js[i] EXCEPT !.status = "completed"] ELSE js[i]]
    <3> DEFINE its == {i \in DOMAIN js : js[i].job = e.job}
               F == {i \in DOMAIN js : i \in its /\ \A k \in its : i <= k}
    <3>1. ks = [i \in DOMAIN js |-> IF i \in its /\ \A k \in its : i <= k
                                    THEN [js[i] EXCEPT !.status = "completed"] ELSE js[i]]
      BY <1>4 DEF JobsApplied
    <3>2. \A i \in DOMAIN js : i \in F <=> (i \in its /\ \A k \in its : i <= k)
      OBVIOUS
    <3> HIDE DEF F, its
    <3>3. ks = [i \in DOMAIN js |-> IF i \in F THEN [js[i] EXCEPT !.status = "completed"] ELSE js[i]]
      BY <3>1, <3>2
    <3>4. QED
      BY <3>3
  <2> HIDE DEF ks
  <2>7. ASSUME NEW j \in RebuiltJobs
        PROVE  [j EXCEPT !.status = "completed"] \in RebuiltJobs
               /\ [j EXCEPT !.status = "completed"].status = "completed"
    BY DEF RebuiltJobs
  <2>2. \A i \in DOMAIN js : js[i] \in RebuiltJobs /\ [js[i] EXCEPT !.status = "completed"] \in RebuiltJobs
                             /\ [js[i] EXCEPT !.status = "completed"].status = "completed"
    <3>1. \A i \in DOMAIN js : js[i] \in RebuiltJobs
      OBVIOUS
    <3>2. QED
      BY <2>7, <3>1
  <2>3. DOMAIN ks = DOMAIN js /\ \A i \in DOMAIN js : ks[i] \in RebuiltJobs
        /\ (ks[i].status = "completed" \/ ks[i] = js[i])
    BY <2>1, <2>2
  <2>4. ks \in Seq(RebuiltJobs)
    <3>1. DOMAIN js = 1..Len(js) /\ Len(js) \in Nat
      OBVIOUS
    <3>2. ks = [i \in 1..Len(js) |-> ks[i]]
      BY <2>1, <3>1
    <3>3. QED
      BY <2>3, <3>1, <3>2
  <2>5. RecoveredCrashed(ks, st)
    BY <2>3 DEF RecoveredCrashed
  <2>6. QED
    BY <2>4, <2>5 DEF ks
<1>5. CASE e.event \notin {"job_started", "job_recovered", "job_finished"}
  BY <1>5 DEF JobsApplied
<1>6. QED
  BY <1>2, <1>3, <1>4, <1>5

LEMMA ReplayFitsStep ==
  ASSUME NEW r, NEW q, NEW st, ReplayFits(r, q, st), NEW e \in EventRecords, EventFits(r, e, st),
         NEW x, x = ReplayEvent(r, e), NEW y, y = ReconstructEvent(q, e)
  PROVE  /\ ReplayFits(x, y, st)
         /\ x.completed = IF e.event = "job_finished" THEN r.completed + 1 ELSE r.completed
         /\ LastStage(x.transitions) = CASE e.event = "engine_starting"      -> "starting"
                                         [] e.event = "engine_ready"         -> "ready"
                                         [] e.event = "engine_shutting_down" -> "stopped"
                                         [] OTHER -> LastStage(r.transitions)
<1>1. ReplayedOne(r, e, x) /\ DOMAIN x = DOMAIN r
  BY ReplayOne DEF ReplayFits
<1>2. /\ DOMAIN y = Counted /\ y.loaded = q.loaded
      /\ y.completed = IF e.event = "job_finished" THEN q.completed + 1 ELSE q.completed
      /\ y.commands = IF e.event = "command_executed" THEN q.commands + 1 ELSE q.commands
      /\ y.errors = IF e.event = "error_occurred" THEN q.errors + 1 ELSE q.errors
  BY ReconstructOne DEF ReplayFits
<1>3. q.completed = r.completed /\ q.loaded = r.loaded /\ q.commands = r.commands /\ q.errors = r.errors
  BY DEF ReplayFits, Counted
<1>4. \A field \in Counted : y[field] = x[field]
  BY <1>1, <1>2, <1>3 DEF ReplayedOne, Counted
<1>5. x.completed \in Nat
  BY <1>1 DEF ReplayedOne, ReplayFits
<1>6. x.jobs \in Seq(RebuiltJobs) /\ RecoveredCrashed(x.jobs, st)
  <2>1. x.jobs = JobsApplied(r.jobs, e)
    BY <1>1 DEF ReplayedOne
  <2>2. QED
    BY <2>1, JobsRebuilt DEF ReplayFits, EventFits
<1>7. /\ x.transitions \in Seq({"starting", "ready", "stopped"}) /\ InOrder(x.transitions)
      /\ LastStage(x.transitions) = CASE e.event = "engine_starting"      -> "starting"
                                      [] e.event = "engine_ready"         -> "ready"
                                      [] e.event = "engine_shutting_down" -> "stopped"
                                      [] OTHER -> LastStage(r.transitions)
  <2> DEFINE t == r.transitions
  <2>0. t \in Seq({"starting", "ready", "stopped"}) /\ InOrder(t)
    BY DEF ReplayFits
  <2>1. CASE e.event = "engine_starting"
    <3>1. x.transitions = Append(t, "starting")
      BY <1>1, <2>1 DEF ReplayedOne
    <3>2. QED
      BY <2>0, <2>1, <3>1, AppendInOrder
  <2>2. CASE e.event = "engine_ready"
    <3>1. x.transitions = Append(t, "ready") /\ LastStage(t) = "starting"
      BY <1>1, <2>2 DEF ReplayedOne, EventFits
    <3>2. QED
      BY <2>0, <2>2, <3>1, AppendInOrder
  <2>3. CASE e.event = "engine_shutting_down"
    <3>1. x.transitions = Append(t, "stopped") /\ LastStage(t) \in {"ready", "stopped"}
      BY <1>1, <2>3 DEF ReplayedOne, EventFits
    <3>2. QED
      BY <2>0, <2>3, <3>1, AppendInOrder
  <2>4. CASE e.event \notin {"engine_starting", "engine_ready", "engine_shutting_down"}
    <3>1. x.transitions = t
      BY <1>1, <2>4 DEF ReplayedOne
    <3>2. QED
      BY <2>0, <2>4, <3>1
  <2>5. QED
    BY <2>1, <2>2, <2>3, <2>4
<1>8. x.completed = IF e.event = "job_finished" THEN r.completed + 1 ELSE r.completed
  BY <1>1 DEF ReplayedOne
<1>9. QED
  BY <1>1, <1>2, <1>4, <1>5, <1>6, <1>7, <1>8 DEF ReplayFits

(* What a list of events tells is so, and so is what a replay makes of it. *)
IsSo(e, st) ==
  /\ e.job # 0 => e.job \in DOMAIN st
  /\ e.event = "job_finished" => e.job \in DOMAIN st /\ st[e.job] = "completed"
  /\ e.event = "job_recovered" => e.job \in DOMAIN st /\ st[e.job] = "crashed"
IsTrue(s, st) ==
  /\ s \in Seq(EventRecords)
  /\ \A i \in DOMAIN s : IsSo(s[i], st)
  /\ \A i, k \in DOMAIN s : s[i].event = "job_recovered" /\ s[k] = s[i] => i = k
  /\ ReplayFits(Replayed(s), Reconstructed(s), st)
DoneIn(s)  == Replayed(s).completed
StageOf(s) == LastStage(Replayed(s).transitions)

Suits(s, e, st) ==
  /\ e \in EventRecords /\ IsSo(e, st)
  /\ e.event = "job_recovered" => \A i \in DOMAIN s : s[i] # e
  /\ e.event = "engine_ready" => StageOf(s) = "starting"
  /\ e.event = "engine_shutting_down" => StageOf(s) \in {"ready", "stopped"}

(* One event more, of which what it tells is so.                           *)
LEMMA TrueStep ==
  ASSUME NEW s, NEW st, IsTrue(s, st), NEW e, Suits(s, e, st)
  PROVE  /\ IsTrue(Append(s, e), st)
         /\ DoneIn(Append(s, e)) = IF e.event = "job_finished" THEN DoneIn(s) + 1 ELSE DoneIn(s)
         /\ StageOf(Append(s, e)) = CASE e.event = "engine_starting"      -> "starting"
                                      [] e.event = "engine_ready"         -> "ready"
                                      [] e.event = "engine_shutting_down" -> "stopped"
                                      [] OTHER -> StageOf(s)
<1> DEFINE u == Append(s, e)
<1>1. s \in Seq(EventRecords) /\ e \in EventRecords
  BY DEF IsTrue, Suits
<1>2. Replayed(u) = ReplayEvent(Replayed(s), e) /\ Reconstructed(u) = ReconstructEvent(Reconstructed(s), e)
  BY <1>1, ReplaysAppend
<1>3. EventFits(Replayed(s), e, st)
  BY DEF EventFits, Suits, IsSo, StageOf
<1>4. ReplayFits(Replayed(s), Reconstructed(s), st)
  BY DEF IsTrue
<1>5. /\ ReplayFits(Replayed(u), Reconstructed(u), st)
      /\ Replayed(u).completed = IF e.event = "job_finished" THEN Replayed(s).completed + 1
                                 ELSE Replayed(s).completed
      /\ LastStage(Replayed(u).transitions) = CASE e.event = "engine_starting"      -> "starting"
                                                [] e.event = "engine_ready"         -> "ready"
                                                [] e.event = "engine_shutting_down" -> "stopped"
                                                [] OTHER -> LastStage(Replayed(s).transitions)
  BY <1>1, <1>2, <1>3, <1>4, ReplayFitsStep
<1>6. /\ u \in Seq(EventRecords) /\ DOMAIN u = 1..(Len(s) + 1) /\ DOMAIN s = 1..Len(s) /\ Len(s) \in Nat
      /\ u[Len(s) + 1] = e /\ \A i \in 1..Len(s) : u[i] = s[i]
  BY <1>1
<1> HIDE DEF u
<1>7. \A i \in DOMAIN u : IsSo(u[i], st)
  <2>1. ASSUME NEW i \in DOMAIN u PROVE IsSo(u[i], st)
    <3>1. CASE i = Len(s) + 1
      BY <1>6, <3>1 DEF Suits
    <3>2. CASE i # Len(s) + 1
      <4>1. i \in 1..Len(s)
        BY <1>6, <3>2
      <4>2. QED
        BY <1>6, <4>1 DEF IsTrue
    <3>3. QED
      BY <3>1, <3>2
  <2>2. QED
    BY <2>1
<1>8. \A i, k \in DOMAIN u : u[i].event = "job_recovered" /\ u[k] = u[i] => i = k
  <2>1. ASSUME NEW i \in DOMAIN u, NEW k \in DOMAIN u, u[i].event = "job_recovered", u[k] = u[i]
        PROVE  i = k
    <3>1. (i = Len(s) + 1 \/ i \in DOMAIN s) /\ (k = Len(s) + 1 \/ k \in DOMAIN s)
      BY <1>6
    <3>2. CASE i \in DOMAIN s /\ k \in DOMAIN s
      BY <1>6, <2>1, <3>2 DEF IsTrue
    <3>3. CASE i = Len(s) + 1 /\ k \in DOMAIN s
      BY <1>6, <2>1, <3>3 DEF Suits
    <3>4. CASE k = Len(s) + 1 /\ i \in DOMAIN s
      BY <1>6, <2>1, <3>4 DEF Suits
    <3>5. QED
      BY <3>1, <3>2, <3>3, <3>4
  <2>2. QED
    BY <2>1
<1>9. IsTrue(u, st)
  BY <1>5, <1>6, <1>7, <1>8 DEF IsTrue
<1>10. QED
  BY <1>5, <1>9 DEF DoneIn, StageOf, u

(* The same of a store, that is its file and all that it was told.         *)
StoreIsTrue(b, st, most) ==
  /\ b \in Stores /\ IsTrue(b.file, st) /\ IsTrue(Whole(b), st)
  /\ DoneIn(b.file) <= most /\ DoneIn(Whole(b)) <= most

StoreTold(b, e, x, st, most) ==
  /\ StoreIsTrue(x, st, most) /\ Whole(x) = Append(Whole(b), e)
  /\ DoneIn(Whole(x)) = IF e.event = "job_finished" THEN DoneIn(Whole(b)) + 1 ELSE DoneIn(Whole(b))
  /\ StageOf(Whole(x)) = CASE e.event = "engine_starting"      -> "starting"
                           [] e.event = "engine_ready"         -> "ready"
                           [] e.event = "engine_shutting_down" -> "stopped"
                           [] OTHER -> StageOf(Whole(b))

LEMMA StoreTrueStep ==
  ASSUME NEW b, NEW st, NEW most \in Nat, StoreIsTrue(b, st, most), NEW e, Suits(Whole(b), e, st),
         e.event = "job_finished" => DoneIn(Whole(b)) + 1 <= most
  PROVE  StoreTold(b, e, StoreEvent(b, e), st, most)
<1> DEFINE x == StoreEvent(b, e)
<1>1. EventStored(b, e, x)
  BY StoreEventStep DEF StoreIsTrue, Suits
<1> HIDE DEF x
<1>2. /\ IsTrue(Append(Whole(b), e), st)
      /\ DoneIn(Append(Whole(b), e)) = IF e.event = "job_finished" THEN DoneIn(Whole(b)) + 1 ELSE DoneIn(Whole(b))
      /\ StageOf(Append(Whole(b), e)) = CASE e.event = "engine_starting"      -> "starting"
                                          [] e.event = "engine_ready"         -> "ready"
                                          [] e.event = "engine_shutting_down" -> "stopped"
                                          [] OTHER -> StageOf(Whole(b))
  BY TrueStep DEF StoreIsTrue
<1>3. DoneIn(Append(Whole(b), e)) <= most
  BY <1>2 DEF StoreIsTrue
<1>4. x \in Stores /\ Whole(x) = Append(Whole(b), e) /\ (x.file = b.file \/ x.file = Append(Whole(b), e))
  BY <1>1 DEF EventStored
<1>5. IsTrue(x.file, st) /\ DoneIn(x.file) <= most
  BY <1>2, <1>3, <1>4 DEF StoreIsTrue
<1>6. StoreIsTrue(x, st, most)
  BY <1>2, <1>3, <1>4, <1>5 DEF StoreIsTrue
<1>7. QED
  BY <1>2, <1>4, <1>6 DEF StoreTold, x

(* A plain event changes nothing of it.                                    *)
Unchanged(b, x, st, most) ==
  /\ StoreIsTrue(x, st, most) /\ DoneIn(Whole(x)) = DoneIn(Whole(b)) /\ StageOf(Whole(x)) = StageOf(Whole(b))

LEMMA PlainStep ==
  ASSUME NEW b, NEW st, NEW most \in Nat, StoreIsTrue(b, st, most), NEW name \in PlainNames,
         NEW j \in Nat, j # 0 => j \in DOMAIN st
  PROVE  Unchanged(b, StoreEvent(b, Ev(name, j)), st, most)
<1> DEFINE e == Ev(name, j)
<1>1. e.event = name /\ e.job = j /\ e \in EventRecords
  BY DEF Ev, EventRecords
<1>2. name \notin {"job_finished", "job_recovered", "engine_starting", "engine_ready", "engine_shutting_down"}
  BY DEF PlainNames
<1> HIDE DEF e
<1>3. Suits(Whole(b), e, st)
  BY <1>1, <1>2 DEF Suits, IsSo
<1>4. StoreTold(b, e, StoreEvent(b, e), st, most)
  BY <1>1, <1>2, <1>3, StoreTrueStep
<1>5. QED
  BY <1>1, <1>2, <1>4 DEF StoreTold, Unchanged, e

(* More is logged: what was so of jobs that were closed still is.          *)
LEMMA TrueStays ==
  ASSUME NEW s, NEW st, IsTrue(s, st), NEW tt, DOMAIN st \subseteq DOMAIN tt,
         \A j \in DOMAIN st : st[j] \in Closed => tt[j] = st[j]
  PROVE  IsTrue(s, tt)
<1>1. "completed" \in Closed /\ "crashed" \in Closed
  BY DEF Closed
<1>2. \A i \in DOMAIN s : IsSo(s[i], tt)
  BY <1>1 DEF IsTrue, IsSo
<1>3. ReplayFits(Replayed(s), Reconstructed(s), tt)
  BY <1>1 DEF IsTrue, ReplayFits, RecoveredCrashed
<1>4. QED
  BY <1>2, <1>3 DEF IsTrue

(* The log has the last word: how it has every job, and how many are done. *)
Standing == [j \in Logged |-> LastStatus(j)]
MostDone == 2 * Cardinality(EndedAs("completed"))
TheStore == [buf |-> buffer, file |-> eventFile]

ClosedIsLast == \A j \in Logged : \A i \in LinesOf(j) : jobLog[i].status \in Closed => i = Max(LinesOf(j))

LogTyped == jobLog \in Seq(Lines) /\ jobs \in Nat /\ Logged = 1..jobs

LogKept(j, mark) ==
  /\ jobLog' \in Seq(Lines) /\ Logged' = Logged \union {j} /\ LastStatus(j)' = mark
  /\ \A k \in Logged : k # j => LastStatus(k)' = LastStatus(k)
  /\ ClosedIsLast'
  /\ \A s : IsTrue(s, Standing) => IsTrue(s, Standing')
  /\ MostDone \in Nat /\ MostDone' \in Nat /\ MostDone' = IF mark = "completed" THEN MostDone + 2 ELSE MostDone

LEMMA LogKeeps ==
  ASSUME LogTyped, ClosedIsLast, NEW j \in Nat \ {0}, NEW mark \in Open \union Closed, Log(j, mark),
         j \in Logged => LastStatus(j) \in Open
  PROVE  LogKept(j, mark)
<1>1. LineAdded(j, mark)
  BY LogStep DEF LogTyped
<1>2. Logged' = Logged \union {j} /\ LastStatus(j)' = mark
      /\ \A k \in Logged : k # j => LastStatus(k)' = LastStatus(k)
  BY <1>1 DEF LineAdded
<1>3. \A x \in Open : x \notin Closed /\ x # "completed"
  BY DEF Open, Closed
<1>4. ClosedIsLast'
  <2>1. ASSUME NEW k \in Logged', NEW i \in LinesOf(k)', jobLog'[i].status \in Closed
        PROVE  i = Max(LinesOf(k))'
    <3>1. CASE k # j
      <4>1. k \in Logged /\ LinesOf(k)' = LinesOf(k)
        BY <1>1, <1>2, <3>1 DEF LineAdded
      <4>2. i \in DOMAIN jobLog /\ jobLog'[i] = jobLog[i]
        BY <1>1, <2>1, <4>1 DEF LineAdded, LinesOf
      <4>3. i = Max(LinesOf(k))
        BY <2>1, <4>1, <4>2 DEF ClosedIsLast
      <4>4. QED
        BY <4>1, <4>3
    <3>2. CASE k = j
      <4>1. i = Len(jobLog) + 1 \/ i \in LinesOf(j)
        BY <1>1, <2>1, <3>2 DEF LineAdded
      <4>2. ASSUME i \in LinesOf(j) PROVE FALSE
        <5>1. i \in DOMAIN jobLog /\ j \in Logged
          BY <4>2 DEF LinesOf, Logged
        <5>2. jobLog[i].status \in Closed
          BY <1>1, <2>1, <5>1 DEF LineAdded
        <5>3. i = Max(LinesOf(j))
          BY <4>2, <5>1, <5>2 DEF ClosedIsLast
        <5>4. LastStatus(j) = jobLog[i].status
          BY <5>3 DEF LastStatus
        <5>5. QED
          BY <1>3, <5>1, <5>2, <5>4
      <4>3. QED
        BY <1>1, <3>2, <4>1, <4>2 DEF LineAdded
    <3>3. QED
      BY <3>1, <3>2
  <2>2. QED
    BY <2>1 DEF ClosedIsLast
<1>5. ASSUME NEW s, IsTrue(s, Standing) PROVE IsTrue(s, Standing')
  <2> DEFINE a == Standing
             b == [k \in Logged' |-> LastStatus(k)']
  <2>1. Standing' = b
    BY DEF Standing
  <2>2. DOMAIN a = Logged /\ DOMAIN b = Logged' /\ Logged \subseteq Logged'
    BY <1>2 DEF Standing
  <2>3. ASSUME NEW k \in Logged, a[k] \in Closed PROVE b[k] = a[k]
    <3>1. a[k] = LastStatus(k) /\ b[k] = LastStatus(k)'
      BY <2>2 DEF Standing
    <3>2. k # j
      BY <1>3, <2>3, <3>1
    <3>3. QED
      BY <1>2, <3>1, <3>2
  <2>4. IsTrue(s, a)
    BY <1>5
  <2> HIDE DEF a, b
  <2>5. IsTrue(s, b)
    BY <2>2, <2>3, <2>4, TrueStays
  <2>6. QED
    BY <2>1, <2>5
<1>6. MostDone \in Nat /\ MostDone' \in Nat /\ MostDone' = IF mark = "completed" THEN MostDone + 2 ELSE MostDone
  <2> DEFINE A == EndedAs("completed")
             B == {k \in Logged' : LastStatus(k)' = "completed"}
  <2>1. IsFiniteSet(A)
    <3>1. IsFiniteSet(1..jobs)
      BY FS_Interval DEF LogTyped
    <3>2. A \subseteq 1..jobs
      BY DEF LogTyped, EndedAs
    <3>3. QED
      BY <3>1, <3>2, FS_Subset
  <2>2. j \notin A
    BY <1>3 DEF EndedAs
  <2>3. B = IF mark = "completed" THEN A \union {j} ELSE A
    <3>1. \A k \in Logged : k # j => (k \in B <=> k \in A)
      BY <1>2 DEF EndedAs
    <3>2. j \in B <=> mark = "completed"
      BY <1>2
    <3>3. B \subseteq Logged \union {j} /\ A \subseteq Logged
      BY <1>2 DEF EndedAs
    <3>4. QED
      BY <2>2, <3>1, <3>2, <3>3
  <2>4. MostDone' = 2 * Cardinality(B) /\ MostDone = 2 * Cardinality(A)
    BY DEF MostDone, EndedAs
  <2> HIDE DEF A, B
  <2>5. Cardinality(A) \in Nat /\ Cardinality(A \union {j}) = Cardinality(A) + 1
    BY <2>1, <2>2, FS_CardinalityType, FS_AddElement
  <2>6. QED
    BY <2>3, <2>4, <2>5
<1>7. QED
  BY <1>1, <1>2, <1>4, <1>5, <1>6 DEF LogKept, LineAdded

LEMMA SameLog ==
  ASSUME UNCHANGED <<jobLog, jobs>>
  PROVE  /\ Logged' = Logged /\ Standing' = Standing /\ MostDone' = MostDone
         /\ LogTyped' = LogTyped /\ ClosedIsLast' = ClosedIsLast
         /\ \A j : LastStatus(j)' = LastStatus(j)
<1>1. Logged' = Logged /\ \A j : LinesOf(j)' = LinesOf(j)
  BY DEF Logged, LinesOf
<1>2. \A j : LastStatus(j)' = LastStatus(j)
  BY <1>1 DEF LastStatus
<1>3. Standing' = Standing
  BY <1>1, <1>2 DEF Standing
<1>4. EndedAs("completed")' = EndedAs("completed")
  BY <1>1, <1>2 DEF EndedAs
<1>5. MostDone' = MostDone
  BY <1>4 DEF MostDone
<1>6. LogTyped' = LogTyped
  BY <1>1 DEF LogTyped
<1>7. ClosedIsLast' = ClosedIsLast
  BY <1>1 DEF ClosedIsLast
<1>8. QED
  BY <1>1, <1>2, <1>3, <1>5, <1>6, <1>7

(* The jobs that are open are those that the step of the process is about. *)
Answering == {"idle", "submit", "execute", "call", "close", "tell"}
Outcomes  == {"text", "no_text", "error", "stub"}

OpenInv ==
  /\ enginePc \in Answering \union {"down", "recover"} /\ streamed \in BOOLEAN
  /\ todo \in Seq(Nat) /\ IsInjective(todo)
  /\ enginePc = "recover" => Range(todo) = {j \in Logged : LastStatus(j) \in Open}
  /\ enginePc \in {"idle", "submit", "tell"} => \A j \in Logged : LastStatus(j) \in Closed
  /\ enginePc \in {"execute", "call", "close"} =>
       /\ jobs \in Logged /\ LastStatus(jobs) \in Open
       /\ \A j \in Logged : j # jobs => LastStatus(j) \in Closed
  /\ enginePc = "close" => outcome \in Outcomes
  /\ enginePc = "tell" => outcome \in Outcomes /\ jobs \in Logged /\ LastStatus(jobs) = StatusOf(outcome)

(* What was told is so; what a completed job has yet to be told of counts. *)
Untold == IF enginePc = "tell" /\ outcome # "error" THEN 2 ELSE 0
ToldInv ==
  /\ StoreIsTrue(TheStore, Standing, MostDone) /\ DoneIn(AllTold) + Untold <= MostDone
  /\ enginePc \in Answering => StageOf(AllTold) \in {"ready", "stopped"}

AnswerInv ==
  answered.job # 0 => /\ answered.job \in Logged /\ answered.says \in Closed
                      /\ LastStatus(answered.job) = answered.says

LedgerInv == LogTyped /\ ClosedIsLast /\ OpenInv /\ ToldInv /\ AnswerInv

(* The store, as it is written and flushed.                                *)
LEMMA StoreFact ==
  /\ Whole(TheStore) = AllTold /\ (Whole(TheStore) = AllTold)' /\ TheStore.buf = buffer /\ TheStore.file = eventFile
  BY DEF Whole, TheStore, AllTold

LEMMA WrittenIs ==
  ASSUME NEW x, WriteLog(x), x \in Stores
  PROVE  TheStore' = x /\ AllTold' = Whole(x)
<1>1. x = [buf |-> x.buf, file |-> x.file]
  BY DEF Stores
<1>2. TheStore' = x
  BY <1>1 DEF WriteLog, TheStore
<1>3. QED
  BY <1>2, StoreFact

LEMMA FlushedIsTrue ==
  ASSUME NEW st, NEW most, StoreIsTrue(TheStore, st, most)
  PROVE  /\ StoreIsTrue(Flushed, st, most) /\ Whole(Flushed) = AllTold
         /\ Unchanged(TheStore, Flushed, st, most)
<1>1. AllTold \in Seq(EventRecords) /\ Flushed.file = AllTold /\ Flushed.buf = << >>
  BY StoreFact DEF StoreIsTrue, IsTrue, Flushed, AllTold
<1>2. Whole(Flushed) = AllTold
  BY <1>1 DEF Whole
<1>3. Flushed \in Stores
  <2>1. << >> \in Seq(EventRecords)
    OBVIOUS
  <2>2. QED
    BY <1>1, <2>1 DEF Stores, Flushed, AllTold
<1>4. StoreIsTrue(Flushed, st, most)
  BY <1>1, <1>2, <1>3, StoreFact DEF StoreIsTrue
<1>5. QED
  BY <1>2, <1>4, StoreFact DEF Unchanged

LEMMA MostIs == ASSUME LogTyped PROVE MostDone \in Nat
<1>1. IsFiniteSet(1..jobs)
  BY FS_Interval DEF LogTyped
<1>2. EndedAs("completed") \subseteq 1..jobs
  BY DEF LogTyped, EndedAs
<1>3. Cardinality(EndedAs("completed")) \in Nat
  BY <1>1, <1>2, FS_Subset, FS_CardinalityType
<1>4. QED
  BY <1>3 DEF MostDone

(* Plain events, one, two or three of them, or none.                       *)
LEMMA PlainList ==
  ASSUME NEW b, NEW st, NEW most \in Nat, StoreIsTrue(b, st, most),
         NEW n1 \in PlainNames, NEW n2 \in PlainNames, NEW n3 \in PlainNames
  PROVE  /\ Unchanged(b, Appended(b, << >>), st, most)
         /\ Unchanged(b, Appended(b, <<Ev(n1, 0)>>), st, most)
         /\ Unchanged(b, Appended(b, <<Ev(n1, 0), Ev(n2, 0), Ev(n3, 0)>>), st, most)
<1>1. ASSUME NEW c, StoreIsTrue(c, st, most), NEW n \in PlainNames
      PROVE  Unchanged(c, StoreEvent(c, Ev(n, 0)), st, most)
  BY <1>1, PlainStep
<1>2. \A n \in PlainNames : Ev(n, 0) \in EventRecords
  BY DEF Ev, EventRecords
<1>3. Unchanged(b, b, st, most)
  BY DEF Unchanged
<1> DEFINE c == StoreEvent(b, Ev(n1, 0))
           d == StoreEvent(c, Ev(n2, 0))
           e == StoreEvent(d, Ev(n3, 0))
<1>4. Unchanged(b, c, st, most)
  BY <1>1
<1>5. /\ Appended(b, << >>) = b /\ Appended(b, <<Ev(n1, 0)>>) = c
      /\ Appended(b, <<Ev(n1, 0), Ev(n2, 0), Ev(n3, 0)>>) = e
  <2>1. Ev(n1, 0) \in EventRecords /\ Ev(n2, 0) \in EventRecords /\ Ev(n3, 0) \in EventRecords
    BY <1>2
  <2>2. OneByOne(b, Ev(n1, 0), Ev(n2, 0), Ev(n3, 0))
    BY <2>1, AppendedIs
  <2>3. QED
    BY <2>2 DEF OneByOne
<1> HIDE DEF c
<1>6. Unchanged(c, d, st, most)
  BY <1>1, <1>4 DEF Unchanged
<1> HIDE DEF d
<1>7. Unchanged(d, e, st, most)
  BY <1>1, <1>6 DEF Unchanged
<1> HIDE DEF e
<1>8. Unchanged(b, e, st, most)
  BY <1>4, <1>6, <1>7 DEF Unchanged
<1>9. QED
  BY <1>3, <1>4, <1>5, <1>8

(* Lists of three and of two.                                              *)
LEMMA PairAfter ==
  ASSUME NEW E, NEW x \in E, NEW y \in E, NEW z \in E
  PROVE  <<x>> \o <<y, z>> = <<x, y, z>>
<1> DEFINE u == <<x>> \o <<y, z>>
           v == <<x, y, z>>
<1>1. /\ <<x>> \in Seq(E) /\ <<y, z>> \in Seq(E) /\ v \in Seq(E) /\ Len(v) = 3
      /\ Len(<<x>>) = 1 /\ Len(<<y, z>>) = 2 /\ v[1] = x /\ v[2] = y /\ v[3] = z
      /\ <<x>>[1] = x /\ <<y, z>>[1] = y /\ <<y, z>>[2] = z
  OBVIOUS
<1>2. u \in Seq(E) /\ Len(u) = 1 + 2
      /\ \A i \in 1..3 : u[i] = IF i <= 1 THEN <<x>>[i] ELSE <<y, z>>[i - 1]
  BY <1>1, ConcatProperties
<1>3. u[1] = x /\ u[2] = y /\ u[3] = z
  BY <1>1, <1>2
<1>6. /\ u \in Seq(E) /\ Len(u) = 3
  BY <1>2
<1> HIDE DEF u, v
<1>4. \A i \in 1..Len(u) : u[i] = v[i]
  <2>1. Len(u) = 3
    BY <1>2
  <2>2. \A i \in 1..3 : i = 1 \/ i = 2 \/ i = 3
    OBVIOUS
  <2>3. v[1] = x /\ v[2] = y /\ v[3] = z
    BY <1>1
  <2>4. QED
    BY <1>3, <2>1, <2>2, <2>3
<1>5. QED
  <2>1. u \in Seq(E) /\ v \in Seq(E) /\ Len(u) = Len(v)
    BY <1>1, <1>2
  <2>2. u = v
    BY <1>4, <2>1, SeqEqual
  <2>3. QED
    BY <2>2 DEF u, v

(* A request that is told of by plain events only.                         *)
PlainRequest ==
  /\ enginePc = "idle" /\ enginePc' \in {"idle", "submit"}
  /\ UNCHANGED <<jobLog, jobs, todo, outcome>> /\ streamed' \in BOOLEAN /\ answered'.job = 0
  /\ Unchanged(TheStore, TheStore', Standing, MostDone)

LEMMA PlainRequestKeeps == ASSUME LedgerInv, PlainRequest PROVE LedgerInv'
<1>1. /\ Logged' = Logged /\ Standing' = Standing /\ MostDone' = MostDone
      /\ LogTyped' = LogTyped /\ ClosedIsLast' = ClosedIsLast
      /\ \A j : LastStatus(j)' = LastStatus(j)
  BY SameLog DEF PlainRequest
<1>2. OpenInv'
  <2>1. todo \in Seq(Nat) /\ IsInjective(todo) /\ \A j \in Logged : LastStatus(j) \in Closed
    BY DEF LedgerInv, OpenInv, PlainRequest
  <2>2. todo' \in Seq(Nat) /\ IsInjective(todo') /\ \A j \in Logged' : LastStatus(j)' \in Closed
    BY <1>1, <2>1 DEF PlainRequest
  <2>3. enginePc' \in {"idle", "submit"} /\ streamed' \in BOOLEAN /\ enginePc' \in Answering
    BY DEF PlainRequest, Answering
  <2>4. enginePc' \notin {"recover", "execute", "call", "close", "tell"}
    BY <2>3
  <2>5. QED
    BY <2>2, <2>3, <2>4 DEF OpenInv
<1>3. ToldInv'
  <2>1. StoreIsTrue(TheStore', Standing, MostDone) /\ DoneIn(AllTold') = DoneIn(AllTold)
        /\ StageOf(AllTold') = StageOf(AllTold)
    BY StoreFact DEF PlainRequest, Unchanged
  <2>2. StoreIsTrue(TheStore, Standing, MostDone)'
    BY <1>1, <2>1 DEF StoreIsTrue
  <2>3. Untold = 0 /\ Untold' = 0
    BY DEF PlainRequest, Untold
  <2>4. DoneIn(AllTold)' = DoneIn(AllTold) /\ StageOf(AllTold)' = StageOf(AllTold)
    BY <2>1 DEF DoneIn, StageOf
  <2>5. enginePc \in Answering
    BY DEF PlainRequest, Answering
  <2>6. QED
    BY <1>1, <2>2, <2>3, <2>4, <2>5 DEF LedgerInv, ToldInv
<1>4. AnswerInv'
  BY DEF AnswerInv, PlainRequest
<1>5. QED
  BY <1>1, <1>2, <1>3, <1>4 DEF LedgerInv

LEMMA PlainRequests ==
  ASSUME LedgerInv,
         \/ \E b \in BOOLEAN : RefuseTask(b) \/ ReadTask(b) \/ HandleInit(b) \/ HandleDiagnostics(b)
         \/ RefuseCommand \/ HandleCommand \/ EventsCommand \/ CommandSetsKey \/ RequestSetsKey
         \/ HandleReplay \/ HandleEvents
  PROVE  PlainRequest
<1>0. StoreIsTrue(TheStore, Standing, MostDone) /\ MostDone \in Nat
  BY MostIs DEF LedgerInv, ToldInv
<1>1. StoreIsTrue(Flushed, Standing, MostDone) /\ Unchanged(TheStore, Flushed, Standing, MostDone)
  BY <1>0, FlushedIsTrue
<1>2. ASSUME NEW n \in PlainNames
      PROVE  /\ Unchanged(TheStore, Appended(TheStore, <<Ev(n, 0)>>), Standing, MostDone)
             /\ Unchanged(TheStore, Appended(Flushed, <<Ev(n, 0)>>), Standing, MostDone)
             /\ Unchanged(TheStore, Appended(TheStore, << >>), Standing, MostDone)
             /\ \A n2, n3 \in PlainNames :
                  Unchanged(TheStore, Appended(TheStore, <<Ev(n, 0), Ev(n2, 0), Ev(n3, 0)>>), Standing, MostDone)
  <2>1. Unchanged(Flushed, Appended(Flushed, <<Ev(n, 0)>>), Standing, MostDone)
    BY <1>0, <1>1, PlainList
  <2>2. Unchanged(TheStore, Appended(Flushed, <<Ev(n, 0)>>), Standing, MostDone)
    BY <1>1, <2>1 DEF Unchanged
  <2>3. QED
    BY <1>0, <2>2, PlainList
<1>3. ASSUME NEW x, Unchanged(TheStore, x, Standing, MostDone), WriteLog(x)
      PROVE  Unchanged(TheStore, TheStore', Standing, MostDone)
  <2>1. TheStore' = x
    BY <1>3, WrittenIs DEF Unchanged, StoreIsTrue
  <2>2. QED
    BY <1>3, <2>1
<1>4. streamed \in BOOLEAN
  BY DEF LedgerInv, OpenInv
<1>5. ASSUME NEW n \in PlainNames, Emit(<<Ev(n, 0)>>) \/ WriteLog(Appended(Flushed, <<Ev(n, 0)>>))
      PROVE  Unchanged(TheStore, TheStore', Standing, MostDone)
  <2>1. CASE Emit(<<Ev(n, 0)>>)
    <3>1. WriteLog(Appended(TheStore, <<Ev(n, 0)>>))
      BY <2>1 DEF Emit, TheStore
    <3>2. QED
      BY <1>2, <1>3, <3>1
  <2>2. CASE WriteLog(Appended(Flushed, <<Ev(n, 0)>>))
    BY <1>2, <1>3, <2>2
  <2>3. QED
    BY <1>5, <2>1, <2>2
<1>6. ASSUME NEW b \in BOOLEAN, RefuseTask(b) PROVE PlainRequest
  <2>1. Unchanged(TheStore, TheStore', Standing, MostDone)
    <3>1. CASE b
      <4>1. WriteLog(Appended(TheStore, << >>))
        BY <1>6, <3>1 DEF RefuseTask, Emit, TheStore
      <4>2. "error_occurred" \in PlainNames
        BY DEF PlainNames
      <4>3. QED
        BY <1>2, <1>3, <4>1, <4>2
    <3>2. CASE ~b
      <4>1. Emit(<<Ev("error_occurred", 0)>>) /\ "error_occurred" \in PlainNames
        BY <1>6, <3>2 DEF RefuseTask, PlainNames
      <4>2. QED
        BY <1>5, <4>1
    <3>3. QED
      BY <3>1, <3>2
  <2>2. QED
    BY <1>4, <1>6, <2>1 DEF RefuseTask, Request, PlainRequest
<1>7. ASSUME NEW b \in BOOLEAN, ReadTask(b) PROVE PlainRequest
  <2>1. Emit(<<Ev("job_started", 0)>>) /\ "job_started" \in PlainNames
    BY <1>7 DEF ReadTask, PlainNames
  <2>2. Unchanged(TheStore, TheStore', Standing, MostDone)
    BY <1>5, <2>1
  <2>3. QED
    BY <1>7, <2>2 DEF ReadTask, Request, PlainRequest
<1>8. ASSUME NEW b \in BOOLEAN, HandleInit(b) PROVE PlainRequest
  <2>1. {"command_executed", "session_restoring", "session_restored"} \subseteq PlainNames
    BY DEF PlainNames
  <2>2. Unchanged(TheStore, TheStore', Standing, MostDone)
    <3> DEFINE es == <<Ev("command_executed", 0)>>
                       \o (IF b THEN <<Ev("session_restoring", 0), Ev("session_restored", 0)>> ELSE << >>)
    <3>1. WriteLog(Appended(TheStore, es))
      BY <1>8 DEF HandleInit, Emit, TheStore
    <3>2. CASE b
      <4>1. es = <<Ev("command_executed", 0), Ev("session_restoring", 0), Ev("session_restored", 0)>>
        <5>1. ASSUME NEW x \in EventRecords, NEW y \in EventRecords, NEW z \in EventRecords
              PROVE  <<x>> \o <<y, z>> = <<x, y, z>>
          BY <5>1, PairAfter
        <5>2. \A n \in PlainNames : Ev(n, 0) \in EventRecords
          BY DEF Ev, EventRecords
        <5>3. es = <<Ev("command_executed", 0)>> \o <<Ev("session_restoring", 0), Ev("session_restored", 0)>>
          BY <3>2
        <5>4. QED
          BY <2>1, <5>1, <5>2, <5>3
      <4>2. Unchanged(TheStore, Appended(TheStore, es), Standing, MostDone)
        BY <1>2, <2>1, <4>1
      <4>3. QED
        BY <1>3, <3>1, <4>2
    <3>3. CASE ~b
      <4>1. es = <<Ev("command_executed", 0)>>
        BY <3>3
      <4>2. Unchanged(TheStore, Appended(TheStore, es), Standing, MostDone)
        BY <1>2, <2>1, <4>1
      <4>3. QED
        BY <1>3, <3>1, <4>2
    <3>4. QED
      BY <3>2, <3>3
  <2>3. QED
    BY <1>4, <1>8, <2>2 DEF HandleInit, Request, PlainRequest
<1>9. ASSUME NEW b \in BOOLEAN, HandleDiagnostics(b) PROVE PlainRequest
  <2>1. Unchanged(TheStore, TheStore', Standing, MostDone)
    <3>1. CASE b
      BY <1>1, <1>3, <1>9, <3>1 DEF HandleDiagnostics
    <3>2. CASE ~b
      <4>1. TheStore' = TheStore
        BY <1>9, <3>2 DEF HandleDiagnostics, TheStore
      <4>2. QED
        BY <1>0, <4>1 DEF Unchanged
    <3>3. QED
      BY <3>1, <3>2
  <2>2. QED
    BY <1>4, <1>9, <2>1 DEF HandleDiagnostics, Request, PlainRequest
<1>10. ASSUME RefuseCommand PROVE PlainRequest
  <2>1. Emit(<<Ev("error_occurred", 0)>>) /\ "error_occurred" \in PlainNames
    BY <1>10 DEF RefuseCommand, PlainNames
  <2>2. Unchanged(TheStore, TheStore', Standing, MostDone)
    BY <1>5, <2>1
  <2>3. QED
    BY <1>4, <1>10, <2>2 DEF RefuseCommand, Request, PlainRequest
<1>11. ASSUME HandleCommand \/ EventsCommand \/ CommandSetsKey PROVE PlainRequest
  <2>1. "command_executed" \in PlainNames
    BY DEF PlainNames
  <2>2. CommandDone(TheStore) \/ CommandDone(Flushed)
    BY <1>11 DEF HandleCommand, EventsCommand, CommandSetsKey, TheStore
  <2>3. Unchanged(TheStore, TheStore', Standing, MostDone)
    BY <1>2, <1>3, <2>1, <2>2 DEF CommandDone
  <2>4. QED
    BY <1>4, <1>11, <2>3 DEF HandleCommand, EventsCommand, CommandSetsKey, CommandDone, Request, PlainRequest
<1>12. ASSUME RequestSetsKey PROVE PlainRequest
  <2>1. Emit(<<Ev("config_updated", 0)>>) /\ "config_updated" \in PlainNames
    BY <1>12 DEF RequestSetsKey, PlainNames
  <2>2. Unchanged(TheStore, TheStore', Standing, MostDone)
    BY <1>5, <2>1
  <2>3. QED
    BY <1>4, <1>12, <2>2 DEF RequestSetsKey, Request, PlainRequest
<1>13. ASSUME HandleReplay PROVE PlainRequest
  <2>1. TheStore' = TheStore
    BY <1>13 DEF HandleReplay, TheStore, logVars
  <2>2. Unchanged(TheStore, TheStore', Standing, MostDone)
    BY <1>0, <2>1 DEF Unchanged
  <2>3. QED
    BY <1>4, <1>13, <2>2 DEF HandleReplay, Request, PlainRequest, logVars
<1>14. ASSUME HandleEvents PROVE PlainRequest
  <2>1. Unchanged(TheStore, TheStore', Standing, MostDone)
    BY <1>1, <1>3, <1>14 DEF HandleEvents
  <2>2. QED
    BY <1>4, <1>14, <2>1 DEF HandleEvents, Request, PlainRequest
<1>15. QED
  BY <1>6, <1>7, <1>8, <1>9, <1>10, <1>11, <1>12, <1>13, <1>14

(* The jobs that a new process finds open.                                 *)
LEMMA FoundIsOpen ==
  ASSUME LogTyped
  PROVE  /\ FindIncomplete \in Seq(Nat) /\ IsInjective(FindIncomplete)
         /\ Range(FindIncomplete) = {j \in Logged : LastStatus(j) \in Open}
<1> DEFINE numbers == [i \in DOMAIN jobLog |-> jobLog[i].job]
           firsts == {i \in DOMAIN jobLog : IsFirstLine(i) /\ IsIncomplete(jobLog[i].job)}
           r == Only(numbers, firsts)
<1>1. jobLog \in Seq(Lines) /\ DOMAIN jobLog = 1..Len(jobLog) /\ Len(jobLog) \in Nat
      /\ \A i \in DOMAIN jobLog : jobLog[i].job \in Nat
  <2>1. jobLog \in Seq(Lines)
    BY DEF LogTyped
  <2>2. \A i \in DOMAIN jobLog : jobLog[i] \in Lines
    BY <2>1
  <2>3. \A l \in Lines : l.job \in Nat
    BY DEF Lines
  <2>4. QED
    BY <2>1, <2>2, <2>3
<1>2. numbers \in Seq(Nat) /\ DOMAIN numbers = DOMAIN jobLog /\ \A i \in DOMAIN jobLog : numbers[i] = jobLog[i].job
  BY <1>1
<1>3. firsts \subseteq DOMAIN jobLog
  OBVIOUS
<1>4. \A i \in DOMAIN jobLog : i \in firsts <=> (IsFirstLine(i) /\ IsIncomplete(jobLog[i].job))
  OBVIOUS
<1>5. FindIncomplete = r
  BY DEF FindIncomplete
<1> HIDE DEF numbers, firsts
<1>6. PICK e \in [DOMAIN r -> firsts \intersect DOMAIN numbers] :
         /\ \A k \in DOMAIN r : r[k] = numbers[e[k]]
         /\ \A k, m \in DOMAIN r : k < m => e[k] < e[m]
         /\ \A i \in firsts \intersect DOMAIN numbers : \E k \in DOMAIN r : e[k] = i
  BY <1>2, OnlyHolds
<1>7. r \in Seq(Nat)
  BY <1>2, OnlyHolds
<1> HIDE DEF r
<1>8. \A k \in DOMAIN r : e[k] \in firsts /\ e[k] \in DOMAIN jobLog /\ r[k] = jobLog[e[k]].job
  BY <1>2, <1>6
<1>9. ASSUME NEW a \in DOMAIN r, NEW b \in DOMAIN r, r[a] = r[b] PROVE a = b
  <2>1. e[a] \in LinesOf(r[a]) /\ e[b] \in LinesOf(r[a]) /\ IsFirstLine(e[a]) /\ IsFirstLine(e[b])
    BY <1>4, <1>8, <1>9 DEF LinesOf
  <2>2. e[a] <= e[b] /\ e[b] <= e[a]
    BY <1>8, <1>9, <2>1 DEF IsFirstLine
  <2>3. e[a] \in Nat /\ e[b] \in Nat /\ a \in Nat /\ b \in Nat
    BY <1>1, <1>7, <1>8
  <2>4. ~(a < b) /\ ~(b < a)
    BY <1>6, <2>2, <2>3
  <2>5. QED
    BY <2>3, <2>4
<1>10. ASSUME NEW j \in Range(r) PROVE j \in Logged /\ LastStatus(j) \in Open
  <2>1. PICK k \in DOMAIN r : r[k] = j
    BY DEF Range
  <2>2. QED
    BY <1>4, <1>8, <2>1 DEF Logged, IsIncomplete
<1>11. ASSUME NEW j \in Logged, LastStatus(j) \in Open PROVE j \in Range(r)
  <2>1. LinesOf(j) \in SUBSET Nat /\ LinesOf(j) # {} /\ LinesOf(j) \subseteq DOMAIN jobLog
    BY <1>1 DEF LinesOf, Logged
  <2>2. PICK i \in LinesOf(j) : \A k \in LinesOf(j) : i <= k
    BY <2>1, Filtered!LeastMember
  <2>3. jobLog[i].job = j /\ i \in DOMAIN jobLog
    BY DEF LinesOf
  <2>4. IsFirstLine(i) /\ IsIncomplete(jobLog[i].job)
    BY <1>11, <2>2, <2>3 DEF IsFirstLine, IsIncomplete
  <2>5. i \in firsts \intersect DOMAIN numbers
    BY <1>2, <1>4, <2>3, <2>4
  <2>6. PICK k \in DOMAIN r : e[k] = i
    BY <1>6, <2>5
  <2>7. r[k] = j
    BY <1>8, <2>3, <2>6
  <2>8. QED
    BY <2>7 DEF Range
<1>12. IsInjective(r)
  BY <1>9 DEF IsInjective
<1>13. Range(r) = {j \in Logged : LastStatus(j) \in Open}
  BY <1>10, <1>11
<1>14. QED
  BY <1>5, <1>7, <1>12, <1>13

LEMMA StartEngineKeeps == ASSUME LedgerInv, StartEngine PROVE LedgerInv'
<1>1. UNCHANGED <<jobLog, jobs, buffer, eventFile, streamed, outcome, answered>>
      /\ enginePc = "down" /\ enginePc' = "recover" /\ todo' = FindIncomplete
  BY DEF StartEngine, logVars
<1>2. /\ Logged' = Logged /\ Standing' = Standing /\ MostDone' = MostDone
      /\ LogTyped' = LogTyped /\ ClosedIsLast' = ClosedIsLast
      /\ \A j : LastStatus(j)' = LastStatus(j)
  BY <1>1, SameLog
<1>3. OpenInv'
  <2>1. todo' \in Seq(Nat) /\ IsInjective(todo') /\ Range(todo') = {j \in Logged : LastStatus(j) \in Open}
    BY <1>1, FoundIsOpen DEF LedgerInv
  <2>2. {j \in Logged : LastStatus(j) \in Open}' = {j \in Logged : LastStatus(j) \in Open}
    BY <1>2
  <2>3. streamed' \in BOOLEAN
    BY <1>1 DEF LedgerInv, OpenInv
  <2>4. enginePc' = "recover" /\ enginePc' \in Answering \union {"down", "recover"}
    BY <1>1
  <2>5. QED
    BY <2>1, <2>2, <2>3, <2>4 DEF OpenInv
<1>4. ToldInv'
  <2>1. TheStore' = TheStore /\ AllTold' = AllTold
    BY <1>1 DEF TheStore, AllTold
  <2>2. StoreIsTrue(TheStore, Standing, MostDone)'
    BY <1>2, <2>1 DEF StoreIsTrue, LedgerInv, ToldInv
  <2>3. Untold = 0 /\ Untold' = 0 /\ enginePc' \notin Answering
    BY <1>1 DEF Untold, Answering
  <2>4. DoneIn(AllTold)' = DoneIn(AllTold)
    BY <2>1 DEF DoneIn
  <2>5. QED
    BY <1>2, <2>2, <2>3, <2>4 DEF LedgerInv, ToldInv
<1>5. AnswerInv'
  BY <1>1, <1>2 DEF LedgerInv, AnswerInv
<1>6. QED
  BY <1>2, <1>3, <1>4, <1>5 DEF LedgerInv

(* A line is logged and nothing told, of a job that is open or new.        *)
LogOnly(j, mark) ==
  /\ Log(j, mark) /\ j \in Nat \ {0} /\ mark \in Open \union Closed
  /\ j \in Logged => LastStatus(j) \in Open
  /\ UNCHANGED <<buffer, eventFile, answered>>

LEMMA LogOnlyKeeps ==
  ASSUME LedgerInv, NEW j, NEW mark, LogOnly(j, mark)
  PROVE  /\ LogKept(j, mark)
         /\ StoreIsTrue(TheStore, Standing, MostDone)' /\ DoneIn(AllTold)' = DoneIn(AllTold)
         /\ StageOf(AllTold)' = StageOf(AllTold)
         /\ AnswerInv'
<1>1. LogKept(j, mark)
  BY LogKeeps DEF LogOnly, LedgerInv
<1>2. TheStore' = TheStore /\ AllTold' = AllTold
  BY DEF LogOnly, TheStore, AllTold
<1>3. StoreIsTrue(TheStore, Standing, MostDone)
  BY DEF LedgerInv, ToldInv
<1>4. \A s : IsTrue(s, Standing) => IsTrue(s, Standing')
  BY <1>1 DEF LogKept
<1>5. MostDone \in Nat /\ MostDone' \in Nat /\ MostDone <= MostDone'
  BY <1>1 DEF LogKept
<1>6. DoneIn(TheStore.file) \in Nat /\ DoneIn(Whole(TheStore)) \in Nat
  BY <1>3 DEF StoreIsTrue, IsTrue, ReplayFits, DoneIn
<1>7. StoreIsTrue(TheStore, Standing', MostDone')
  BY <1>3, <1>4, <1>5, <1>6 DEF StoreIsTrue
<1>8. StoreIsTrue(TheStore, Standing, MostDone)'
  BY <1>2, <1>7 DEF StoreIsTrue
<1>9. DoneIn(AllTold)' = DoneIn(AllTold) /\ StageOf(AllTold)' = StageOf(AllTold)
  BY <1>2 DEF DoneIn, StageOf
<1>10. AnswerInv'
  <2>1. \A x \in Open : x \notin Closed
    BY DEF Open, Closed
  <2>2. answered' = answered
    BY DEF LogOnly
  <2>3. answered.job # 0 => answered.job # j
    BY <2>1 DEF LedgerInv, AnswerInv, LogOnly
  <2>4. QED
    BY <1>1, <2>2, <2>3 DEF LogKept, LedgerInv, AnswerInv
<1>11. QED
  BY <1>1, <1>8, <1>9, <1>10

LEMMA SubmitTaskKeeps == ASSUME LedgerInv, SubmitTask PROVE LedgerInv'
<1>0. PICK j : j = jobs + 1
  OBVIOUS
<1>1. /\ enginePc = "submit" /\ enginePc' = "execute" /\ jobs' = j /\ Log(j, "pending")
      /\ UNCHANGED <<buffer, eventFile, todo, streamed, outcome, answered>>
  BY <1>0 DEF SubmitTask, Log
<1>2. jobs \in Nat /\ Logged = 1..jobs /\ j \in Nat \ {0} /\ j \notin Logged
  BY <1>0 DEF LedgerInv, LogTyped
<1>3. "pending" \in Open
  BY DEF Open
<1>4. LogOnly(j, "pending")
  BY <1>1, <1>2, <1>3 DEF LogOnly
<1>5. /\ LogKept(j, "pending")
      /\ StoreIsTrue(TheStore, Standing, MostDone)' /\ DoneIn(AllTold)' = DoneIn(AllTold)
      /\ StageOf(AllTold)' = StageOf(AllTold)
      /\ AnswerInv'
  BY <1>4, LogOnlyKeeps
<1>6. /\ jobLog' \in Seq(Lines) /\ Logged' = Logged \union {j} /\ LastStatus(j)' = "pending"
      /\ \A k \in Logged : k # j => LastStatus(k)' = LastStatus(k)
      /\ ClosedIsLast' /\ MostDone \in Nat /\ MostDone' \in Nat /\ MostDone' = MostDone
  BY <1>5 DEF LogKept
<1>7. LogTyped'
  <2>1. Logged' = 1..j
    BY <1>0, <1>2, <1>6
  <2>2. QED
    BY <1>1, <1>2, <1>6, <2>1 DEF LogTyped
<1>8. OpenInv'
  <2>1. \A k \in Logged : LastStatus(k) \in Closed
    BY <1>1 DEF LedgerInv, OpenInv
  <2>2. jobs' \in Logged' /\ LastStatus(j)' \in Open /\ \A k \in Logged' : k # j => LastStatus(k)' \in Closed
    BY <1>1, <1>3, <1>6, <2>1
  <2>3. todo' \in Seq(Nat) /\ IsInjective(todo') /\ streamed' \in BOOLEAN
    BY <1>1 DEF LedgerInv, OpenInv
  <2>4. LastStatus(jobs)' = LastStatus(j)'
    BY <1>1
  <2>5. QED
    BY <1>1, <2>2, <2>3, <2>4 DEF OpenInv, Answering
<1>9. ToldInv'
  <2>1. Untold = 0 /\ Untold' = 0 /\ enginePc \in Answering
    BY <1>1 DEF Untold, Answering
  <2>2. QED
    BY <1>5, <1>6, <2>1 DEF LedgerInv, ToldInv
<1>10. QED
  BY <1>5, <1>6, <1>7, <1>8, <1>9 DEF LedgerInv

LEMMA MarkJobRunningKeeps == ASSUME LedgerInv, MarkJobRunning PROVE LedgerInv'
<1>0. PICK j : j = jobs
  OBVIOUS
<1>1. /\ enginePc = "execute" /\ enginePc' = "call" /\ jobs' = j /\ Log(j, "running")
      /\ UNCHANGED <<buffer, eventFile, todo, streamed, outcome, answered>>
  BY <1>0 DEF MarkJobRunning, Log
<1>2. /\ j \in Nat \ {0} /\ j \in Logged /\ Logged = 1..j /\ LastStatus(j) \in Open
      /\ \A k \in Logged : k # j => LastStatus(k) \in Closed
  BY <1>0, <1>1 DEF LedgerInv, LogTyped, OpenInv
<1>3. "running" \in Open
  BY DEF Open
<1>4. LogOnly(j, "running")
  BY <1>1, <1>2, <1>3 DEF LogOnly
<1>5. /\ LogKept(j, "running")
      /\ StoreIsTrue(TheStore, Standing, MostDone)' /\ DoneIn(AllTold)' = DoneIn(AllTold)
      /\ StageOf(AllTold)' = StageOf(AllTold)
      /\ AnswerInv'
  BY <1>4, LogOnlyKeeps
<1>6. /\ jobLog' \in Seq(Lines) /\ Logged' = Logged /\ LastStatus(j)' = "running"
      /\ \A k \in Logged : k # j => LastStatus(k)' = LastStatus(k)
      /\ ClosedIsLast' /\ MostDone \in Nat /\ MostDone' \in Nat /\ MostDone' = MostDone
  BY <1>2, <1>5 DEF LogKept
<1>7. LogTyped'
  BY <1>1, <1>2, <1>6 DEF LogTyped
<1>8. OpenInv'
  <2>1. jobs' \in Logged' /\ LastStatus(j)' \in Open /\ \A k \in Logged' : k # j => LastStatus(k)' \in Closed
    BY <1>1, <1>2, <1>3, <1>6
  <2>2. todo' \in Seq(Nat) /\ IsInjective(todo') /\ streamed' \in BOOLEAN
    BY <1>1 DEF LedgerInv, OpenInv
  <2>3. LastStatus(jobs)' = LastStatus(j)'
    BY <1>1
  <2>4. QED
    BY <1>1, <2>1, <2>2, <2>3 DEF OpenInv, Answering
<1>9. ToldInv'
  <2>1. Untold = 0 /\ Untold' = 0 /\ enginePc \in Answering
    BY <1>1 DEF Untold, Answering
  <2>2. QED
    BY <1>5, <1>6, <2>1 DEF LedgerInv, ToldInv
<1>10. QED
  BY <1>5, <1>6, <1>7, <1>8, <1>9 DEF LedgerInv

LEMMA CallReturnsKeeps == ASSUME LedgerInv, CallReturns PROVE LedgerInv'
<1>1. UNCHANGED <<jobLog, jobs, buffer, eventFile, streamed, todo, answered>>
      /\ enginePc = "call" /\ enginePc' = "close" /\ outcome' \in Outcomes
  BY DEF CallReturns, logVars, Outcomes
<1>2. /\ Logged' = Logged /\ Standing' = Standing /\ MostDone' = MostDone
      /\ LogTyped' = LogTyped /\ ClosedIsLast' = ClosedIsLast
      /\ \A j : LastStatus(j)' = LastStatus(j)
  BY <1>1, SameLog
<1>3. OpenInv'
  <2>1. PICK j : j = jobs
    OBVIOUS
  <2>2. j \in Logged /\ LastStatus(j) \in Open /\ \A k \in Logged : k # j => LastStatus(k) \in Closed
    BY <1>1, <2>1 DEF LedgerInv, OpenInv
  <2>3. jobs' \in Logged' /\ LastStatus(j)' \in Open /\ \A k \in Logged' : k # jobs' => LastStatus(k)' \in Closed
    BY <1>1, <1>2, <2>1, <2>2
  <2>4. LastStatus(jobs)' = LastStatus(j)'
    BY <1>1, <2>1
  <2>5. todo' \in Seq(Nat) /\ IsInjective(todo') /\ streamed' \in BOOLEAN
    BY <1>1 DEF LedgerInv, OpenInv
  <2>6. QED
    BY <1>1, <2>3, <2>4, <2>5 DEF OpenInv, Answering
<1>4. ToldInv'
  <2>1. TheStore' = TheStore /\ AllTold' = AllTold
    BY <1>1 DEF TheStore, AllTold
  <2>2. StoreIsTrue(TheStore, Standing, MostDone)'
    BY <1>2, <2>1 DEF StoreIsTrue, LedgerInv, ToldInv
  <2>3. Untold = 0 /\ Untold' = 0 /\ enginePc \in Answering
    BY <1>1 DEF Untold, Answering
  <2>4. DoneIn(AllTold)' = DoneIn(AllTold) /\ StageOf(AllTold)' = StageOf(AllTold)
    BY <2>1 DEF DoneIn, StageOf
  <2>5. QED
    BY <1>2, <2>2, <2>3, <2>4 DEF LedgerInv, ToldInv
<1>5. AnswerInv'
  BY <1>1, <1>2 DEF LedgerInv, AnswerInv
<1>6. QED
  BY <1>2, <1>3, <1>4, <1>5 DEF LedgerInv

LEMMA CloseJobKeeps == ASSUME LedgerInv, CloseJob PROVE LedgerInv'
<1>0. PICK j, mark : j = jobs /\ mark = StatusOf(outcome)
  OBVIOUS
<1>1. /\ enginePc = "close" /\ enginePc' = "tell" /\ jobs' = j /\ Log(j, mark)
      /\ UNCHANGED <<buffer, eventFile, todo, streamed, outcome, answered>>
  BY <1>0 DEF CloseJob, Log
<1>2. /\ j \in Nat \ {0} /\ j \in Logged /\ Logged = 1..j /\ LastStatus(j) \in Open
      /\ \A k \in Logged : k # j => LastStatus(k) \in Closed
      /\ outcome \in Outcomes
  BY <1>0, <1>1 DEF LedgerInv, LogTyped, OpenInv
<1>3. mark \in Closed /\ (mark = "completed" <=> outcome # "error") /\ StatusOf(outcome)' = mark
  BY <1>0, <1>1 DEF Closed, StatusOf
<1>4. LogOnly(j, mark)
  BY <1>1, <1>2, <1>3 DEF LogOnly
<1>5. /\ LogKept(j, mark)
      /\ StoreIsTrue(TheStore, Standing, MostDone)' /\ DoneIn(AllTold)' = DoneIn(AllTold)
      /\ StageOf(AllTold)' = StageOf(AllTold)
      /\ AnswerInv'
  BY <1>4, LogOnlyKeeps
<1>6. /\ jobLog' \in Seq(Lines) /\ Logged' = Logged /\ LastStatus(j)' = mark
      /\ \A k \in Logged : k # j => LastStatus(k)' = LastStatus(k)
      /\ ClosedIsLast' /\ MostDone \in Nat /\ MostDone' = IF mark = "completed" THEN MostDone + 2 ELSE MostDone
  BY <1>2, <1>5 DEF LogKept
<1>7. LogTyped'
  BY <1>1, <1>2, <1>6 DEF LogTyped
<1>8. OpenInv'
  <2>1. jobs' \in Logged' /\ LastStatus(j)' = mark /\ \A k \in Logged' : LastStatus(k)' \in Closed
    BY <1>1, <1>2, <1>3, <1>6
  <2>2. todo' \in Seq(Nat) /\ IsInjective(todo') /\ streamed' \in BOOLEAN /\ outcome' \in Outcomes
    BY <1>1, <1>2 DEF LedgerInv, OpenInv
  <2>3. LastStatus(jobs)' = LastStatus(j)'
    BY <1>1
  <2>4. QED
    BY <1>1, <1>3, <2>1, <2>2, <2>3 DEF OpenInv, Answering
<1>9. ToldInv'
  <2>1. Untold = 0 /\ Untold' = (IF mark = "completed" THEN 2 ELSE 0) /\ enginePc \in Answering
    BY <1>1, <1>3 DEF Untold, Answering
  <2>2. DoneIn(AllTold) \in Nat
    BY StoreFact DEF LedgerInv, ToldInv, StoreIsTrue, IsTrue, ReplayFits, DoneIn
  <2>3. DoneIn(AllTold) + 0 <= MostDone
    BY <2>1 DEF LedgerInv, ToldInv
  <2>4. DoneIn(AllTold) + Untold' <= MostDone'
    BY <1>6, <2>1, <2>2, <2>3
  <2>5. QED
    BY <1>5, <2>1, <2>4 DEF LedgerInv, ToldInv
<1>10. QED
  BY <1>5, <1>6, <1>7, <1>8, <1>9 DEF LedgerInv

(* What is told besides: n times that a job is done, or a stage.           *)
Further(b, x, st, most, n, stage) ==
  StoreIsTrue(x, st, most) /\ DoneIn(Whole(x)) = DoneIn(Whole(b)) + n /\ StageOf(Whole(x)) = stage

(* Each kind of event that may follow, and one after the other.            *)
LEMMA DoneType ==
  ASSUME NEW b, NEW st, NEW most, StoreIsTrue(b, st, most)
  PROVE  DoneIn(Whole(b)) \in Nat /\ DoneIn(b.file) \in Nat
BY DEF StoreIsTrue, IsTrue, ReplayFits, DoneIn

LEMMA FinishStep ==
  ASSUME NEW b, NEW st, NEW most \in Nat, StoreIsTrue(b, st, most), NEW j \in Nat, j \in DOMAIN st,
         st[j] = "completed", DoneIn(Whole(b)) + 1 <= most
  PROVE  Further(b, StoreEvent(b, Ev("job_finished", j)), st, most, 1, StageOf(Whole(b)))
<1> DEFINE e == Ev("job_finished", j)
<1>1. e.event = "job_finished" /\ e.job = j /\ e \in EventRecords
  BY DEF Ev, EventRecords
<1> HIDE DEF e
<1>2. Suits(Whole(b), e, st)
  BY <1>1 DEF Suits, IsSo
<1>3. StoreTold(b, e, StoreEvent(b, e), st, most)
  BY <1>1, <1>2, StoreTrueStep
<1>4. QED
  BY <1>1, <1>3 DEF StoreTold, Further, e

LEMMA PlainFurther ==
  ASSUME NEW b, NEW st, NEW most \in Nat, StoreIsTrue(b, st, most), NEW name \in PlainNames,
         NEW j \in Nat, j # 0 => j \in DOMAIN st
  PROVE  Further(b, StoreEvent(b, Ev(name, j)), st, most, 0, StageOf(Whole(b)))
<1>1. Unchanged(b, StoreEvent(b, Ev(name, j)), st, most)
  BY PlainStep
<1>2. DoneIn(Whole(b)) \in Nat
  BY DoneType
<1>3. QED
  BY <1>1, <1>2 DEF Unchanged, Further

StageNamed(name) ==
  CASE name = "engine_starting"      -> "starting"
    [] name = "engine_ready"         -> "ready"
    [] name = "engine_shutting_down" -> "stopped"

LEMMA StageStep ==
  ASSUME NEW b, NEW st, NEW most \in Nat, StoreIsTrue(b, st, most),
         NEW name \in {"engine_starting", "engine_ready", "engine_shutting_down"},
         name = "engine_ready" => StageOf(Whole(b)) = "starting",
         name = "engine_shutting_down" => StageOf(Whole(b)) \in {"ready", "stopped"}
  PROVE  Further(b, StoreEvent(b, Ev(name, 0)), st, most, 0, StageNamed(name))
<1> DEFINE e == Ev(name, 0)
<1>1. e.event = name /\ e.job = 0 /\ e \in EventRecords /\ e.event # "job_finished"
      /\ e.event # "job_recovered"
  BY DEF Ev, EventRecords
<1> HIDE DEF e
<1>2. Suits(Whole(b), e, st)
  BY <1>1 DEF Suits, IsSo
<1>3. StoreTold(b, e, StoreEvent(b, e), st, most)
  BY <1>1, <1>2, StoreTrueStep
<1>4. DoneIn(Whole(b)) \in Nat
  BY DoneType
<1>5. QED
  BY <1>1, <1>3, <1>4 DEF StoreTold, Further, StageNamed, e

LEMMA FurtherOn ==
  ASSUME NEW b, NEW st, NEW most, StoreIsTrue(b, st, most), NEW n \in Nat, NEW m \in Nat, NEW v, NEW w,
         NEW x, NEW y, Further(b, x, st, most, n, v), Further(x, y, st, most, m, w)
  PROVE  Further(b, y, st, most, n + m, w)
<1>1. DoneIn(Whole(b)) \in Nat
  BY DoneType
<1>2. QED
  BY <1>1 DEF Further

(* The buffer is lost.                                                     *)
LEMMA BufferLost ==
  ASSUME NEW b, NEW st, NEW most, StoreIsTrue(b, st, most)
  PROVE  /\ StoreIsTrue([buf |-> << >>, file |-> b.file], st, most)
         /\ Whole([buf |-> << >>, file |-> b.file]) = b.file
<1> DEFINE x == [buf |-> << >>, file |-> b.file]
<1>1. b.file \in Seq(EventRecords) /\ x.buf = << >> /\ x.file = b.file
  BY DEF StoreIsTrue, IsTrue
<1>2. x \in Stores
  <2>1. << >> \in Seq(EventRecords)
    OBVIOUS
  <2>2. QED
    BY <1>1, <2>1 DEF Stores
<1>3. Whole(x) = b.file
  BY <1>1 DEF Whole
<1> HIDE DEF x
<1>4. StoreIsTrue(x, st, most)
  BY <1>1, <1>2, <1>3 DEF StoreIsTrue
<1>5. QED
  BY <1>3, <1>4 DEF x

(* A step that only tells.                                                 *)
LEMMA OnlyTells ==
  ASSUME LedgerInv, UNCHANGED <<jobLog, jobs>>,
         NEW x, NEW n, NEW v, Further(TheStore, x, Standing, MostDone, n, v), WriteLog(x)
  PROVE  /\ StoreIsTrue(TheStore, Standing, MostDone)' /\ DoneIn(AllTold)' = DoneIn(AllTold) + n
         /\ StageOf(AllTold)' = v
         /\ Logged' = Logged /\ MostDone' = MostDone /\ LogTyped' /\ ClosedIsLast'
         /\ \A j : LastStatus(j)' = LastStatus(j)
<1>1. TheStore' = x /\ AllTold' = Whole(x)
  BY WrittenIs DEF Further, StoreIsTrue
<1>2. /\ Logged' = Logged /\ Standing' = Standing /\ MostDone' = MostDone
      /\ LogTyped' = LogTyped /\ ClosedIsLast' = ClosedIsLast
      /\ \A j : LastStatus(j)' = LastStatus(j)
  BY SameLog
<1>3. StoreIsTrue(TheStore', Standing, MostDone) /\ DoneIn(AllTold') = DoneIn(AllTold) + n /\ StageOf(AllTold') = v
  BY <1>1, StoreFact DEF Further
<1>4. StoreIsTrue(TheStore, Standing, MostDone)'
  BY <1>2, <1>3 DEF StoreIsTrue
<1>5. DoneIn(AllTold)' = DoneIn(AllTold) + n /\ StageOf(AllTold)' = v
  BY <1>3 DEF DoneIn, StageOf
<1>6. QED
  BY <1>2, <1>4, <1>5 DEF LedgerInv

LEMMA FlushedFurther ==
  ASSUME LedgerInv
  PROVE  /\ MostDone \in Nat /\ StoreIsTrue(TheStore, Standing, MostDone) /\ DoneIn(AllTold) \in Nat
         /\ StoreIsTrue(Flushed, Standing, MostDone)
         /\ Further(TheStore, Flushed, Standing, MostDone, 0, StageOf(AllTold))
         /\ StageOf(Whole(Flushed)) = StageOf(AllTold)
<1>1. MostDone \in Nat /\ StoreIsTrue(TheStore, Standing, MostDone)
  BY MostIs DEF LedgerInv, ToldInv
<1>2. Unchanged(TheStore, Flushed, Standing, MostDone) /\ StoreIsTrue(Flushed, Standing, MostDone)
      /\ Whole(Flushed) = AllTold
  BY <1>1, FlushedIsTrue
<1>3. DoneIn(AllTold) \in Nat
  BY <1>1, StoreFact, DoneType
<1>4. Further(TheStore, Flushed, Standing, MostDone, 0, StageOf(AllTold))
  BY <1>2, <1>3, StoreFact DEF Unchanged, Further
<1>5. QED
  BY <1>1, <1>2, <1>3, <1>4

(* Each step of the process keeps the ledger.                              *)
LEMMA EngineReadyKeeps == ASSUME LedgerInv, EngineReady PROVE LedgerInv'
<1>1. /\ enginePc = "recover" /\ todo = << >> /\ enginePc' = "idle"
      /\ UNCHANGED <<jobLog, jobs, todo, streamed, answered>>
      /\ WriteLog(Appended(Flushed, <<Ev("engine_starting", 0), Ev("engine_ready", 0)>>))
  BY DEF EngineReady
<1> DEFINE x == StoreEvent(Flushed, Ev("engine_starting", 0))
           y == StoreEvent(x, Ev("engine_ready", 0))
<1>2. /\ MostDone \in Nat /\ StoreIsTrue(TheStore, Standing, MostDone) /\ DoneIn(AllTold) \in Nat
      /\ StoreIsTrue(Flushed, Standing, MostDone) /\ Further(TheStore, Flushed, Standing, MostDone, 0, StageOf(AllTold))
  BY FlushedFurther
<1>3. StageNamed("engine_starting") = "starting" /\ StageNamed("engine_ready") = "ready"
  BY DEF StageNamed
<1>4. Appended(Flushed, <<Ev("engine_starting", 0), Ev("engine_ready", 0)>>) = y
  <2>1. Ev("engine_starting", 0) \in EventRecords /\ Ev("engine_ready", 0) \in EventRecords
    BY DEF Ev, EventRecords
  <2>2. OneByOne(Flushed, Ev("engine_starting", 0), Ev("engine_ready", 0), Ev("engine_ready", 0))
    BY <2>1, AppendedIs
  <2>3. QED
    BY <2>2 DEF OneByOne
<1>5. Further(Flushed, x, Standing, MostDone, 0, "starting")
  BY <1>2, <1>3, StageStep
<1> HIDE DEF x
<1>6. Further(x, y, Standing, MostDone, 0, "ready")
  BY <1>2, <1>3, <1>5, StageStep DEF Further
<1> HIDE DEF y
<1>7. Further(TheStore, y, Standing, MostDone, 0 + 0 + 0, "ready")
  <2>1. Further(TheStore, x, Standing, MostDone, 0 + 0, "starting")
    BY <1>2, <1>5, FurtherOn
  <2>2. QED
    BY <1>2, <1>6, <2>1, FurtherOn
<1>8. /\ StoreIsTrue(TheStore, Standing, MostDone)' /\ DoneIn(AllTold)' = DoneIn(AllTold) + (0 + 0 + 0)
      /\ StageOf(AllTold)' = "ready"
      /\ Logged' = Logged /\ MostDone' = MostDone /\ LogTyped' /\ ClosedIsLast'
      /\ \A j : LastStatus(j)' = LastStatus(j)
  BY <1>1, <1>4, <1>7, OnlyTells
<1>9. OpenInv'
  <2>1. Range(todo) = {}
    BY <1>1 DEF Range
  <2>2. \A j \in Logged : LastStatus(j) \notin Open
    BY <1>1, <2>1 DEF LedgerInv, OpenInv
  <2>3. \A j \in Logged : LastStatus(j) \in Open \union Closed
    BY LinesFact DEF LedgerInv, LogTyped
  <2>4. \A j \in Logged' : LastStatus(j)' \in Closed
    BY <1>8, <2>2, <2>3
  <2>5. todo' \in Seq(Nat) /\ IsInjective(todo') /\ streamed' \in BOOLEAN
    BY <1>1 DEF LedgerInv, OpenInv
  <2>6. QED
    BY <1>1, <2>4, <2>5 DEF OpenInv, Answering
<1>10. ToldInv'
  <2>1. Untold = 0 /\ Untold' = 0
    BY <1>1 DEF Untold
  <2>2. DoneIn(AllTold) + 0 <= MostDone
    BY <2>1 DEF LedgerInv, ToldInv
  <2>3. DoneIn(AllTold)' + Untold' <= MostDone'
    BY <1>2, <1>8, <2>1, <2>2
  <2>4. QED
    BY <1>8, <2>3 DEF ToldInv
<1>11. AnswerInv'
  BY <1>1, <1>8 DEF LedgerInv, AnswerInv
<1>12. QED
  BY <1>8, <1>9, <1>10, <1>11 DEF LedgerInv

LEMMA ShutdownTold ==
  ASSUME LedgerInv, enginePc = "idle"
  PROVE  Further(TheStore, ShuttingDown, Standing, MostDone, 0, "stopped")
<1> DEFINE x == StoreEvent(Flushed, Ev("engine_shutting_down", 0))
           y == StoreEvent(x, Ev("engine_stopped", 0))
<1>1. /\ MostDone \in Nat /\ StoreIsTrue(TheStore, Standing, MostDone) /\ DoneIn(AllTold) \in Nat
      /\ StoreIsTrue(Flushed, Standing, MostDone) /\ Further(TheStore, Flushed, Standing, MostDone, 0, StageOf(AllTold))
      /\ StageOf(Whole(Flushed)) = StageOf(AllTold)
  BY FlushedFurther
<1>2. StageOf(Whole(Flushed)) \in {"ready", "stopped"}
  BY <1>1 DEF LedgerInv, ToldInv, Answering
<1>3. ShuttingDown = y
  <2>1. Ev("engine_shutting_down", 0) \in EventRecords /\ Ev("engine_stopped", 0) \in EventRecords
    BY DEF Ev, EventRecords, PlainNames
  <2>2. OneByOne(Flushed, Ev("engine_shutting_down", 0), Ev("engine_stopped", 0), Ev("engine_stopped", 0))
    BY <2>1, AppendedIs
  <2>3. QED
    BY <2>2 DEF OneByOne, ShuttingDown
<1>4. StageNamed("engine_shutting_down") = "stopped"
  BY DEF StageNamed
<1>5. Further(Flushed, x, Standing, MostDone, 0, "stopped")
  BY <1>1, <1>2, <1>4, StageStep
<1> HIDE DEF x
<1>6. Further(x, y, Standing, MostDone, 0, "stopped")
  <2>1. "engine_stopped" \in PlainNames
    BY DEF PlainNames
  <2>2. Further(x, y, Standing, MostDone, 0, StageOf(Whole(x)))
    BY <1>1, <1>5, <2>1, PlainFurther DEF Further
  <2>3. StageOf(Whole(x)) = "stopped"
    BY <1>5 DEF Further
  <2>4. QED
    BY <2>2, <2>3
<1> HIDE DEF y
<1>7. Further(TheStore, x, Standing, MostDone, 0 + 0, "stopped")
  BY <1>1, <1>5, FurtherOn
<1>8. Further(TheStore, y, Standing, MostDone, 0 + 0 + 0, "stopped")
  BY <1>1, <1>6, <1>7, FurtherOn
<1>9. QED
  BY <1>3, <1>8

LEMMA HandleShutdownKeeps == ASSUME LedgerInv, HandleShutdown PROVE LedgerInv'
<1>1. /\ enginePc = "idle" /\ enginePc' = "idle" /\ answered'.job = 0
      /\ UNCHANGED <<jobLog, jobs, todo, streamed>> /\ WriteLog(ShuttingDown)
  BY DEF HandleShutdown, Request
<1>2. Further(TheStore, ShuttingDown, Standing, MostDone, 0, "stopped")
  BY <1>1, ShutdownTold
<1>3. /\ StoreIsTrue(TheStore, Standing, MostDone)' /\ DoneIn(AllTold)' = DoneIn(AllTold) + 0
      /\ StageOf(AllTold)' = "stopped"
      /\ Logged' = Logged /\ MostDone' = MostDone /\ LogTyped' /\ ClosedIsLast'
      /\ \A j : LastStatus(j)' = LastStatus(j)
  BY <1>1, <1>2, OnlyTells
<1>4. OpenInv'
  <2>1. \A j \in Logged : LastStatus(j) \in Closed
    BY <1>1 DEF LedgerInv, OpenInv
  <2>2. \A j \in Logged' : LastStatus(j)' \in Closed
    BY <1>3, <2>1
  <2>3. todo' \in Seq(Nat) /\ IsInjective(todo') /\ streamed' \in BOOLEAN
    BY <1>1 DEF LedgerInv, OpenInv
  <2>4. QED
    BY <1>1, <2>2, <2>3 DEF OpenInv, Answering
<1>5. ToldInv'
  <2>1. Untold = 0 /\ Untold' = 0 /\ DoneIn(AllTold) \in Nat
    BY <1>1, FlushedFurther DEF Untold
  <2>2. DoneIn(AllTold) + 0 <= MostDone
    BY <2>1 DEF LedgerInv, ToldInv
  <2>3. DoneIn(AllTold)' + Untold' <= MostDone'
    BY <1>3, <2>1, <2>2
  <2>4. QED
    BY <1>3, <2>3 DEF ToldInv
<1>6. AnswerInv'
  BY <1>1 DEF AnswerInv
<1>7. QED
  BY <1>3, <1>4, <1>5, <1>6 DEF LedgerInv

(* The end of the process: what it leaves is a file that is true.          *)
LEMMA EndKeeps ==
  ASSUME LedgerInv, UNCHANGED <<jobLog, jobs, answered>>, enginePc' = "down", buffer' = << >>,
         NEW b, StoreIsTrue(b, Standing, MostDone), eventFile' = b.file,
         todo' \in Seq(Nat), IsInjective(todo'), streamed' \in BOOLEAN
  PROVE  LedgerInv'
<1>1. /\ Logged' = Logged /\ Standing' = Standing /\ MostDone' = MostDone
      /\ LogTyped' = LogTyped /\ ClosedIsLast' = ClosedIsLast
      /\ \A j : LastStatus(j)' = LastStatus(j)
  BY SameLog
<1>2. TheStore' = [buf |-> << >>, file |-> b.file]
  BY DEF TheStore
<1>3. StoreIsTrue(TheStore', Standing, MostDone) /\ DoneIn(Whole(TheStore')) <= MostDone
      /\ DoneIn(Whole(TheStore')) \in Nat
  BY <1>2, BufferLost, DoneType DEF StoreIsTrue
<1>4. StoreIsTrue(TheStore, Standing, MostDone)'
  BY <1>1, <1>3 DEF StoreIsTrue
<1>5. DoneIn(AllTold)' + Untold' <= MostDone'
  <2>1. Untold' = 0
    BY DEF Untold
  <2>2. DoneIn(AllTold)' = DoneIn(Whole(TheStore'))
    BY StoreFact DEF DoneIn
  <2>3. MostDone' \in Nat
    BY <1>1, MostIs DEF LedgerInv
  <2>4. QED
    BY <1>1, <1>3, <2>1, <2>2, <2>3
<1>6. ToldInv'
  <2>1. enginePc' \notin Answering
    BY DEF Answering
  <2>2. QED
    BY <1>4, <1>5, <2>1 DEF ToldInv, Answering
<1>7. OpenInv'
  BY DEF OpenInv
<1>8. AnswerInv'
  BY <1>1 DEF LedgerInv, AnswerInv
<1>9. QED
  BY <1>1, <1>6, <1>7, <1>8 DEF LedgerInv

LEMMA LoopExitKeeps == ASSUME LedgerInv, LoopExit PROVE LedgerInv'
<1>1. /\ enginePc = "idle" /\ enginePc' = "down" /\ buffer' = << >> /\ eventFile' = ShuttingDown.file
      /\ UNCHANGED <<jobLog, jobs, answered, todo, streamed>>
  BY DEF LoopExit
<1>2. StoreIsTrue(ShuttingDown, Standing, MostDone)
  BY <1>1, ShutdownTold DEF Further
<1>3. todo' \in Seq(Nat) /\ IsInjective(todo') /\ streamed' \in BOOLEAN
  BY <1>1 DEF LedgerInv, OpenInv
<1>4. QED
  BY <1>1, <1>2, <1>3, EndKeeps

LEMMA KilledKeeps == ASSUME LedgerInv, Killed PROVE LedgerInv'
<1>1. /\ enginePc' = "down" /\ buffer' = << >> /\ eventFile' = TheStore.file
      /\ UNCHANGED <<jobLog, jobs, answered>> /\ todo' = << >> /\ streamed' = FALSE
  BY DEF Killed, TheStore
<1>2. StoreIsTrue(TheStore, Standing, MostDone)
  BY DEF LedgerInv, ToldInv
<1>3. todo' \in Seq(Nat) /\ IsInjective(todo') /\ streamed' \in BOOLEAN
  <2>1. << >> \in Seq(Nat) /\ DOMAIN << >> = {}
    OBVIOUS
  <2>2. IsInjective(<< >>)
    BY <2>1 DEF IsInjective
  <2>3. QED
    BY <1>1, <2>1, <2>2
<1>4. QED
  BY <1>1, <1>2, <1>3, EndKeeps

(* What is told of the job that is answered.                               *)
LEMMA ToldOfIt ==
  ASSUME LedgerInv, enginePc = "tell", NEW j, j = jobs
  PROVE  \E n \in {0, 1, 2} :
           /\ (outcome = "error") => n = 0
           /\ Further(TheStore, Appended(TheStore, Told), Standing, MostDone, n, StageOf(AllTold))
<1> DEFINE finish == Ev("job_finished", j)
           wrong == Ev("error_occurred", j)
           x == StoreEvent(TheStore, finish)
           y == StoreEvent(x, finish)
           z == StoreEvent(x, wrong)
           w == StoreEvent(TheStore, wrong)
<1>1. /\ MostDone \in Nat /\ StoreIsTrue(TheStore, Standing, MostDone) /\ DoneIn(AllTold) \in Nat
      /\ Whole(TheStore) = AllTold
  BY FlushedFurther, StoreFact
<1>2. /\ j \in Nat /\ j \in DOMAIN Standing /\ Standing[j] = StatusOf(outcome)
      /\ outcome \in Outcomes /\ streamed \in BOOLEAN
  BY DEF LedgerInv, LogTyped, OpenInv, Standing
<1>3. finish \in EventRecords /\ wrong \in EventRecords /\ "error_occurred" \in PlainNames
  BY <1>2 DEF Ev, EventRecords, PlainNames
<1>4. /\ Appended(TheStore, <<finish>>) = x /\ Appended(TheStore, <<finish, finish>>) = y
      /\ Appended(TheStore, <<finish, wrong>>) = z /\ Appended(TheStore, <<wrong>>) = w
  <2>1. OneByOne(TheStore, finish, finish, finish) /\ OneByOne(TheStore, finish, wrong, finish)
        /\ OneByOne(TheStore, wrong, finish, finish)
    BY <1>3, AppendedIs
  <2> HIDE DEF finish, wrong
  <2>2. QED
    BY <2>1 DEF OneByOne
<1>5. CASE outcome = "error"
  <2>0. StatusOf(outcome) = "failed"
    BY <1>5 DEF StatusOf
  <2>1. Told = <<wrong>>
    BY <1>5 DEF Told
  <2>2. Further(TheStore, w, Standing, MostDone, 0, StageOf(AllTold))
    BY <1>1, <1>2, <1>3, PlainFurther
  <2>3. QED
    BY <1>4, <2>1, <2>2
<1>6. CASE outcome # "error"
  <2>1. Standing[j] = "completed" /\ StatusOf(outcome) = "completed"
    BY <1>2, <1>6 DEF StatusOf
  <2>2. DoneIn(AllTold) + 2 <= MostDone
    BY <1>6 DEF LedgerInv, ToldInv, Untold
  <2>3. Told = <<finish, finish>> \/ Told = <<finish, wrong>> \/ Told = <<finish>>
    BY <1>2, <1>6 DEF Told
  <2>4. Further(TheStore, x, Standing, MostDone, 1, StageOf(AllTold))
    <3>1. DoneIn(AllTold) + 1 <= MostDone
      BY <1>1, <2>2
    <3>2. QED
      BY <1>1, <1>2, <2>1, <3>1, FinishStep
  <2> HIDE DEF x
  <2>5. StoreIsTrue(x, Standing, MostDone) /\ DoneIn(Whole(x)) = DoneIn(AllTold) + 1
        /\ StageOf(Whole(x)) = StageOf(AllTold)
    BY <1>1, <2>4 DEF Further
  <2>6. Further(x, y, Standing, MostDone, 1, StageOf(AllTold))
    <3>1. DoneIn(Whole(x)) + 1 <= MostDone
      BY <1>1, <2>2, <2>5
    <3>2. Further(x, y, Standing, MostDone, 1, StageOf(Whole(x)))
      BY <1>1, <1>2, <2>1, <2>5, <3>1, FinishStep
    <3>3. QED
      BY <2>5, <3>2
  <2>7. Further(x, z, Standing, MostDone, 0, StageOf(AllTold))
    <3>1. Further(x, z, Standing, MostDone, 0, StageOf(Whole(x)))
      BY <1>1, <1>2, <1>3, <2>5, PlainFurther
    <3>2. QED
      BY <2>5, <3>1
  <2> HIDE DEF y, z
  <2>8. Further(TheStore, y, Standing, MostDone, 1 + 1, StageOf(AllTold))
        /\ Further(TheStore, z, Standing, MostDone, 1 + 0, StageOf(AllTold))
    BY <1>1, <2>4, <2>6, <2>7, FurtherOn
  <2>9. 1 + 1 = 2 /\ 1 + 0 = 1
    OBVIOUS
  <2>10. QED
    BY <1>4, <1>6, <2>3, <2>4, <2>8, <2>9
<1>7. QED
  BY <1>5, <1>6

LEMMA TellAndAnswerKeeps == ASSUME LedgerInv, TellAndAnswer PROVE LedgerInv'
<1>0. PICK j, mark : j = jobs /\ mark = StatusOf(outcome)
  OBVIOUS
<1>1. /\ enginePc = "tell" /\ enginePc' = "idle" /\ answered' = [says |-> mark, job |-> j]
      /\ UNCHANGED <<jobLog, jobs, todo, streamed>> /\ WriteLog(Appended(TheStore, Told))
  BY <1>0 DEF TellAndAnswer, Emit, TheStore
<1>2. PICK n \in {0, 1, 2} :
         /\ (outcome = "error") => n = 0
         /\ Further(TheStore, Appended(TheStore, Told), Standing, MostDone, n, StageOf(AllTold))
  BY <1>0, <1>1, ToldOfIt
<1>3. /\ StoreIsTrue(TheStore, Standing, MostDone)' /\ DoneIn(AllTold)' = DoneIn(AllTold) + n
      /\ StageOf(AllTold)' = StageOf(AllTold)
      /\ Logged' = Logged /\ MostDone' = MostDone /\ LogTyped' /\ ClosedIsLast'
      /\ \A k : LastStatus(k)' = LastStatus(k)
  BY <1>1, <1>2, OnlyTells
<1>4. j \in Logged /\ LastStatus(j) = mark /\ mark \in Closed
  BY <1>0, <1>1 DEF LedgerInv, OpenInv
<1>5. OpenInv'
  <2>1. \A k \in Logged : LastStatus(k) \in Closed
    BY <1>1 DEF LedgerInv, OpenInv
  <2>2. \A k \in Logged' : LastStatus(k)' \in Closed
    BY <1>3, <2>1
  <2>3. todo' \in Seq(Nat) /\ IsInjective(todo') /\ streamed' \in BOOLEAN
    BY <1>1 DEF LedgerInv, OpenInv
  <2>4. QED
    BY <1>1, <2>2, <2>3 DEF OpenInv, Answering
<1>6. ToldInv'
  <2>1. Untold' = 0 /\ n <= Untold /\ Untold \in Nat /\ n \in Nat
    BY <1>1, <1>2 DEF Untold
  <2>2. DoneIn(AllTold) + Untold <= MostDone /\ DoneIn(AllTold) \in Nat /\ MostDone \in Nat
    BY FlushedFurther DEF LedgerInv, ToldInv
  <2>3. DoneIn(AllTold)' + Untold' <= MostDone'
    BY <1>3, <2>1, <2>2
  <2>4. StageOf(AllTold) \in {"ready", "stopped"}
    BY <1>1 DEF LedgerInv, ToldInv, Answering
  <2>5. QED
    BY <1>3, <2>3, <2>4 DEF ToldInv
<1>7. AnswerInv'
  <2>1. answered'.job = j /\ answered'.says = mark /\ LastStatus(j)' = mark /\ j \in Logged'
    BY <1>1, <1>3, <1>4
  <2>2. QED
    BY <1>4, <2>1 DEF AnswerInv
<1>8. QED
  BY <1>3, <1>5, <1>6, <1>7 DEF LedgerInv

LEMMA TwoInOne ==
  ASSUME NEW E, NEW x \in E, NEW y \in E
  PROVE  <<x>> \o <<y>> = <<x, y>>
<1> DEFINE u == <<x>> \o <<y>>
           v == <<x, y>>
<1>1. /\ <<x>> \in Seq(E) /\ <<y>> \in Seq(E) /\ v \in Seq(E) /\ Len(v) = 2
      /\ Len(<<x>>) = 1 /\ Len(<<y>>) = 1 /\ v[1] = x /\ v[2] = y /\ <<x>>[1] = x /\ <<y>>[1] = y
  OBVIOUS
<1>2. u \in Seq(E) /\ Len(u) = 1 + 1
      /\ \A i \in 1..2 : u[i] = IF i <= 1 THEN <<x>>[i] ELSE <<y>>[i - 1]
  BY <1>1, ConcatProperties
<1>3. u[1] = x /\ u[2] = y
  BY <1>1, <1>2
<1>4. u \in Seq(E) /\ v \in Seq(E) /\ Len(u) = 2 /\ Len(v) = 2 /\ v[1] = x /\ v[2] = y
  BY <1>1, <1>2
<1> HIDE DEF u, v
<1>5. \A i \in 1..Len(u) : u[i] = v[i]
  <2>1. \A i \in 1..2 : i = 1 \/ i = 2
    OBVIOUS
  <2>2. QED
    BY <1>3, <1>4, <2>1
<1>6. u = v
  BY <1>4, <1>5, SeqEqual
<1>7. QED
  BY <1>6 DEF u, v

LEMMA TailOf ==
  ASSUME NEW E, NEW s \in Seq(E), s # << >>, IsInjective(s)
  PROVE  /\ Head(s) \in Range(s) /\ Tail(s) \in Seq(E) /\ IsInjective(Tail(s))
         /\ Range(Tail(s)) = Range(s) \ {Head(s)}
<1>1. Distinct(s)
  BY DEF Distinct, IsInjective
<1>2. /\ Tail(s) \in Seq(E) /\ Distinct(Tail(s))
      /\ Head(s) \in ToSet(s) /\ ToSet(Tail(s)) = ToSet(s) \ {Head(s)}
  BY <1>1, TailDistinct
<1>3. ToSet(s) = Range(s) /\ ToSet(Tail(s)) = Range(Tail(s))
  BY DEF ToSet, Range
<1>4. QED
  BY <1>2, <1>3 DEF Distinct, IsInjective

(* A job that was open is logged as crashed, and then told of.             *)
LEMMA CrashIsTold ==
  ASSUME LedgerInv, NEW j \in Logged, LastStatus(j) \in Open, Log(j, "crashed"), NEW st, st = Standing',
         NEW most, most = MostDone'
  PROVE  /\ LogKept(j, "crashed") /\ most \in Nat /\ most = MostDone
         /\ Further(TheStore, StoreEvent(TheStore, Ev("job_recovered", j)), st, most, 0, StageOf(AllTold))
<1>1. j \in Nat \ {0} /\ "crashed" \in Closed
  BY DEF LedgerInv, LogTyped, Closed
<1>2. LogKept(j, "crashed")
  BY <1>1, LogKeeps DEF LedgerInv
<1>3. /\ \A s : IsTrue(s, Standing) => IsTrue(s, st)
      /\ most \in Nat /\ most = MostDone /\ j \in DOMAIN st /\ st[j] = "crashed"
  <2>1. most \in Nat /\ most = MostDone /\ \A s : IsTrue(s, Standing) => IsTrue(s, st)
    BY <1>2 DEF LogKept
  <2>2. Standing' = [k \in Logged' |-> LastStatus(k)'] /\ j \in Logged' /\ LastStatus(j)' = "crashed"
    BY <1>2 DEF LogKept, Standing
  <2>3. QED
    BY <2>1, <2>2
<1>4. StoreIsTrue(TheStore, Standing, MostDone) /\ Whole(TheStore) = AllTold
  BY StoreFact DEF LedgerInv, ToldInv
<1>5. StoreIsTrue(TheStore, st, most)
  BY <1>3, <1>4 DEF StoreIsTrue
<1> DEFINE e == Ev("job_recovered", j)
<1>6. e.event = "job_recovered" /\ e.job = j /\ e \in EventRecords
  BY <1>1 DEF Ev, EventRecords
<1> HIDE DEF e
<1>7. ASSUME NEW i \in DOMAIN AllTold PROVE AllTold[i] # e
  <2>1. IsSo(AllTold[i], Standing)
    BY <1>4 DEF StoreIsTrue, IsTrue
  <2>2. LastStatus(j) # "crashed"
    BY DEF Open
  <2>3. AllTold[i] = e => Standing[j] = "crashed"
    BY <1>6, <2>1 DEF IsSo
  <2>4. QED
    BY <2>2, <2>3 DEF Standing
<1>8. Suits(Whole(TheStore), e, st)
  BY <1>3, <1>4, <1>6, <1>7 DEF Suits, IsSo
<1>9. StoreTold(TheStore, e, StoreEvent(TheStore, e), st, most)
  BY <1>3, <1>5, <1>6, <1>8, StoreTrueStep
<1>10. DoneIn(AllTold) \in Nat
  BY <1>4, DoneType
<1>11. Further(TheStore, StoreEvent(TheStore, e), st, most, 0, StageOf(AllTold))
  BY <1>4, <1>6, <1>9, <1>10 DEF StoreTold, Further
<1>12. QED
  BY <1>2, <1>3, <1>11 DEF e

LEMMA RecoverJobKeeps == ASSUME LedgerInv, RecoverJob PROVE LedgerInv'
<1>0. PICK j, st, most : j = Head(todo) /\ st = Standing' /\ most = MostDone'
  OBVIOUS
<1> DEFINE e == Ev("job_recovered", j)
           f == Ev("jobs_recovered", 0)
           x == StoreEvent(TheStore, e)
           y == StoreEvent(x, f)
<1>1. /\ enginePc = "recover" /\ enginePc' = "recover" /\ todo # << >> /\ todo' = Tail(todo)
      /\ Log(j, "crashed") /\ UNCHANGED <<jobs, streamed, answered>>
      /\ WriteLog(Appended(TheStore, <<e>> \o IF Tail(todo) = << >> THEN <<f>> ELSE << >>))
  BY <1>0 DEF RecoverJob, Emit, TheStore, Log
<1>2. /\ j \in Range(todo) /\ Tail(todo) \in Seq(Nat) /\ IsInjective(Tail(todo))
      /\ Range(Tail(todo)) = Range(todo) \ {j}
      /\ Range(todo) = {k \in Logged : LastStatus(k) \in Open}
      /\ streamed \in BOOLEAN
  BY <1>0, <1>1, TailOf DEF LedgerInv, OpenInv
<1>3. /\ j \in Logged /\ LastStatus(j) \in Open /\ j \in Nat
  BY <1>2 DEF LedgerInv, LogTyped
<1>4. /\ LogKept(j, "crashed") /\ most \in Nat /\ most = MostDone
      /\ Further(TheStore, x, st, most, 0, StageOf(AllTold))
  BY <1>0, <1>1, <1>3, CrashIsTold
<1>5. e \in EventRecords /\ f \in EventRecords /\ "jobs_recovered" \in PlainNames
  BY <1>3 DEF Ev, EventRecords, PlainNames
<1>6. Appended(TheStore, <<e>>) = x /\ Appended(TheStore, <<e, f>>) = y
  <2>1. OneByOne(TheStore, e, f, f)
    BY <1>5, AppendedIs
  <2> HIDE DEF e, f
  <2>2. QED
    BY <2>1 DEF OneByOne
<1> HIDE DEF x
<1>7. DoneIn(AllTold) \in Nat /\ Whole(TheStore) = AllTold
  BY FlushedFurther, StoreFact
<1>8. Further(TheStore, y, st, most, 0, StageOf(AllTold))
  <2>1. /\ StoreIsTrue(x, st, most) /\ DoneIn(Whole(x)) = DoneIn(AllTold) /\ StageOf(Whole(x)) = StageOf(AllTold)
    BY <1>4, <1>7 DEF Further
  <2>2. Further(x, y, st, most, 0, StageOf(Whole(x)))
    BY <1>4, <1>5, <2>1, PlainFurther
  <2>3. QED
    BY <1>7, <2>1, <2>2 DEF Further
<1> HIDE DEF e, f, y
<1>9. \E z : WriteLog(z) /\ Further(TheStore, z, st, most, 0, StageOf(AllTold))
  <2>1. CASE Tail(todo) = << >>
    <3>1. <<e>> \o <<f>> = <<e, f>>
      BY <1>5, TwoInOne
    <3>2. QED
      BY <1>1, <1>6, <1>8, <2>1, <3>1
  <2>2. CASE Tail(todo) # << >>
    <3>1. <<e>> \o << >> = <<e>>
      BY <1>5
    <3>2. QED
      BY <1>1, <1>4, <1>6, <2>2, <3>1
  <2>3. QED
    BY <2>1, <2>2
<1>10. PICK z : WriteLog(z) /\ Further(TheStore, z, st, most, 0, StageOf(AllTold))
  BY <1>9
<1>11. TheStore' = z /\ AllTold' = Whole(z)
  BY <1>10, WrittenIs DEF Further, StoreIsTrue
<1>12. ToldInv'
  <2>1. StoreIsTrue(TheStore, Standing, MostDone)'
    BY <1>0, <1>10, <1>11 DEF Further, StoreIsTrue
  <2>2. DoneIn(AllTold)' = DoneIn(AllTold)
    BY <1>7, <1>10, <1>11 DEF Further, DoneIn
  <2>3. Untold = 0 /\ Untold' = 0 /\ enginePc' \notin Answering
    BY <1>1 DEF Untold, Answering
  <2>4. DoneIn(AllTold)' + Untold' <= MostDone'
    BY <1>0, <1>4, <2>2, <2>3 DEF LedgerInv, ToldInv
  <2>5. QED
    BY <2>1, <2>3, <2>4 DEF ToldInv
<1>13. /\ jobLog' \in Seq(Lines) /\ Logged' = Logged /\ LastStatus(j)' = "crashed"
       /\ \A k \in Logged : k # j => LastStatus(k)' = LastStatus(k)
       /\ ClosedIsLast'
  BY <1>3, <1>4 DEF LogKept
<1>14. LogTyped'
  BY <1>1, <1>13 DEF LedgerInv, LogTyped
<1>15. OpenInv'
  <2>1. "crashed" \notin Open
    BY DEF Open
  <2>2. Range(todo') = {k \in Logged' : LastStatus(k)' \in Open}
    BY <1>1, <1>2, <1>13, <2>1
  <2>3. QED
    BY <1>1, <1>2, <2>2 DEF OpenInv
<1>16. AnswerInv'
  <2>1. \A v \in Open : v \notin Closed
    BY DEF Open, Closed
  <2>2. answered' = answered
    BY <1>1
  <2>3. answered.job # 0 => answered.job # j
    BY <1>3, <2>1 DEF LedgerInv, AnswerInv
  <2>4. QED
    BY <1>13, <2>2, <2>3 DEF LedgerInv, AnswerInv
<1>17. QED
  BY <1>12, <1>13, <1>14, <1>15, <1>16 DEF LedgerInv
LEMMA LedgerInitially == EngineInit => LedgerInv
<1> SUFFICES ASSUME EngineInit PROVE LedgerInv
  OBVIOUS
<1>1. /\ enginePc = "down" /\ jobLog = << >> /\ buffer = << >> /\ eventFile = << >> /\ todo = << >>
      /\ streamed = FALSE /\ answered.job = 0 /\ jobs = 0
  BY DEF EngineInit
<1>2. DOMAIN jobLog = {} /\ << >> \in Seq(Lines) /\ << >> \in Seq(Nat) /\ << >> \in Seq(EventRecords)
      /\ << >> \in Seq(RebuiltJobs) /\ << >> \in Seq({"starting", "ready", "stopped"}) /\ DOMAIN << >> = {}
  BY <1>1
<1>3. Logged = {}
  BY <1>2 DEF Logged
<1>4. LogTyped
  BY <1>1, <1>2, <1>3 DEF LogTyped
<1>5. ClosedIsLast
  BY <1>3 DEF ClosedIsLast
<1>6. OpenInv
  <2>1. IsInjective(<< >>)
    BY <1>2 DEF IsInjective
  <2>2. QED
    BY <1>1, <1>2, <2>1 DEF OpenInv
<1>7. ReplayFits(NothingReplayed, NothingReconstructed, Standing)
  <2> DEFINE r == NothingReplayed
             q == NothingReconstructed
  <2>1. /\ Replays \union {"started", "recovered", "restored", "events"} \subseteq DOMAIN r
        /\ r.completed = 0 /\ r.jobs = << >> /\ r.transitions = << >> /\ r.loaded = << >>
        /\ r.commands = 0 /\ r.errors = 0
    BY DEF NothingReplayed, Replays
  <2>2. /\ DOMAIN q = Counted /\ q.completed = 0 /\ q.loaded = << >> /\ q.commands = 0 /\ q.errors = 0
    BY DEF NothingReconstructed, Counted
  <2> HIDE DEF r, q
  <2>3. \A field \in Counted : q[field] = r[field]
    BY <2>1, <2>2 DEF Counted
  <2>4. RecoveredCrashed(r.jobs, Standing) /\ InOrder(r.transitions)
    BY <1>2, <2>1 DEF RecoveredCrashed, InOrder
  <2>5. ReplayFits(r, q, Standing)
    BY <1>2, <2>1, <2>2, <2>3, <2>4 DEF ReplayFits
  <2>6. QED
    BY <2>5 DEF r, q
<1>8. IsTrue(<< >>, Standing) /\ DoneIn(<< >>) = 0
  <2>1. Replayed(<< >>) = NothingReplayed /\ Reconstructed(<< >>) = NothingReconstructed
    BY ReplaysEmpty
  <2>2. NothingReplayed.completed = 0
    BY DEF NothingReplayed
  <2>3. QED
    BY <1>2, <1>7, <2>1, <2>2 DEF IsTrue, DoneIn
<1>9. ToldInv
  <2>1. Whole(TheStore) = << >> /\ AllTold = << >> /\ TheStore.file = << >> /\ TheStore \in Stores
    BY <1>1, <1>2, StoreFact DEF AllTold, TheStore, Stores
  <2>2. MostDone \in Nat /\ Untold = 0 /\ enginePc \notin Answering
    BY <1>1, <1>4, MostIs DEF Untold, Answering
  <2>3. QED
    BY <1>8, <2>1, <2>2 DEF ToldInv, StoreIsTrue
<1>10. AnswerInv
  BY <1>1 DEF AnswerInv
<1>11. QED
  BY <1>4, <1>5, <1>6, <1>9, <1>10 DEF LedgerInv

LEMMA LedgerStutters == ASSUME LedgerInv, UNCHANGED engineVars PROVE LedgerInv'
<1>1. UNCHANGED <<jobLog, jobs, buffer, eventFile, streamed, outcome, todo, answered, enginePc>>
  BY DEF engineVars, logVars
<1>2. /\ Logged' = Logged /\ Standing' = Standing /\ MostDone' = MostDone
      /\ LogTyped' = LogTyped /\ ClosedIsLast' = ClosedIsLast
      /\ \A j : LastStatus(j)' = LastStatus(j)
  BY <1>1, SameLog
<1>3. OpenInv'
  <2>1. {j \in Logged : LastStatus(j) \in Open}' = {j \in Logged : LastStatus(j) \in Open}
    BY <1>2
  <2>2. LastStatus(jobs)' = LastStatus(jobs)
    BY <1>1 DEF LastStatus, LinesOf
  <2>3. QED
    BY <1>1, <1>2, <2>1, <2>2 DEF LedgerInv, OpenInv
<1>4. ToldInv'
  BY <1>1, <1>2 DEF LedgerInv, ToldInv, StoreIsTrue, TheStore, AllTold, Whole, Untold, StageOf, DoneIn
<1>5. AnswerInv'
  BY <1>1, <1>2 DEF LedgerInv, AnswerInv
<1>6. QED
  BY <1>2, <1>3, <1>4, <1>5 DEF LedgerInv

LEMMA LedgerKept == LedgerInv /\ [EngineNext]_engineVars => LedgerInv'
<1> SUFFICES ASSUME LedgerInv, [EngineNext]_engineVars PROVE LedgerInv'
  OBVIOUS
<1>1. CASE \/ \E b \in BOOLEAN : RefuseTask(b) \/ ReadTask(b) \/ HandleInit(b) \/ HandleDiagnostics(b)
           \/ RefuseCommand \/ HandleCommand \/ EventsCommand \/ CommandSetsKey \/ RequestSetsKey
           \/ HandleReplay \/ HandleEvents
  BY <1>1, PlainRequests, PlainRequestKeeps
<1>2. CASE StartEngine \/ RecoverJob \/ EngineReady
  BY <1>2, StartEngineKeeps, RecoverJobKeeps, EngineReadyKeeps
<1>3. CASE SubmitTask \/ MarkJobRunning \/ CallReturns \/ CloseJob \/ TellAndAnswer
  BY <1>3, SubmitTaskKeeps, MarkJobRunningKeeps, CallReturnsKeeps, CloseJobKeeps, TellAndAnswerKeeps
<1>4. CASE HandleShutdown \/ LoopExit \/ Killed
  BY <1>4, HandleShutdownKeeps, LoopExitKeeps, KilledKeeps
<1>5. CASE UNCHANGED engineVars
  BY <1>5, LedgerStutters
<1>6. QED
  BY <1>1, <1>2, <1>3, <1>4, <1>5 DEF EngineNext

(* What the invariant says of the three files.                             *)
LEMMA AtMostOne ==
  ASSUME NEW T, \A x, y \in T : x = y
  PROVE  Cardinality(T) <= 1
<1>1. CASE T = {}
  BY <1>1, FS_EmptySet
<1>2. CASE T # {}
  <2>1. PICK x : x \in T
    BY <1>2
  <2>2. T = {x}
    BY <2>1
  <2>3. Cardinality({x}) = 1
    BY FS_Singleton
  <2>4. QED
    BY <2>2, <2>3
<1>3. QED
  BY <1>1, <1>2

LEMMA LedgerSound == LedgerInv => EngineLedger
<1> SUFFICES ASSUME LedgerInv PROVE EngineLedger
  OBVIOUS
<1>1. StoreIsTrue(TheStore, Standing, MostDone) /\ Whole(TheStore) = AllTold /\ TheStore.file = eventFile
  BY StoreFact DEF LedgerInv, ToldInv
<1>2. DOMAIN Standing = Logged /\ \A j \in Logged : Standing[j] = LastStatus(j)
  BY DEF Standing
<1>3. JobsAreClosedOnce
  <2>1. enginePc \in {"idle", "submit"} => \A j \in Logged : LastStatus(j) \in Closed
    BY DEF LedgerInv, OpenInv
  <2>2. ASSUME NEW j \in Logged
        PROVE  Cardinality({i \in LinesOf(j) : jobLog[i].status \in Closed}) <= 1
    <3> DEFINE T == {i \in LinesOf(j) : jobLog[i].status \in Closed}
    <3>1. \A x \in T : x = Max(LinesOf(j))
      BY DEF LedgerInv, ClosedIsLast
    <3> HIDE DEF T
    <3>2. Cardinality(T) <= 1
      BY <3>1, AtMostOne
    <3>3. QED
      BY <3>2 DEF T
  <2>3. QED
    BY <2>1, <2>2 DEF JobsAreClosedOnce
<1>4. EventsFollowLog
  <2>1. IsTrue(AllTold, Standing)
    BY <1>1 DEF StoreIsTrue
  <2>2. \A i \in DOMAIN AllTold : AllTold[i].job # 0 => AllTold[i].job \in Logged
    BY <1>2, <2>1 DEF IsTrue, IsSo
  <2>3. ASSUME NEW j \in Logged
        PROVE  /\ ToldOf("job_finished", j) # {} => LastStatus(j) = "completed"
               /\ ToldOf("job_recovered", j) # {} => LastStatus(j) = "crashed"
               /\ Cardinality(ToldOf("job_recovered", j)) <= 1
    <3>1. \A name : Ev(name, j).event = name /\ Ev(name, j).job = j
      BY DEF Ev
    <3>2. ASSUME NEW name, NEW i \in ToldOf(name, j)
          PROVE  i \in DOMAIN AllTold /\ AllTold[i] = Ev(name, j) /\ AllTold[i].event = name /\ AllTold[i].job = j
      BY <3>1 DEF ToldOf
    <3>3. ToldOf("job_finished", j) # {} => LastStatus(j) = "completed"
      <4>1. ASSUME NEW i \in ToldOf("job_finished", j) PROVE LastStatus(j) = "completed"
        BY <1>2, <2>1, <3>2 DEF IsTrue, IsSo
      <4>2. QED
        BY <4>1
    <3>4. ToldOf("job_recovered", j) # {} => LastStatus(j) = "crashed"
      <4>1. ASSUME NEW i \in ToldOf("job_recovered", j) PROVE LastStatus(j) = "crashed"
        BY <1>2, <2>1, <3>2 DEF IsTrue, IsSo
      <4>2. QED
        BY <4>1
    <3>5. \A x, y \in ToldOf("job_recovered", j) : x = y
      BY <2>1, <3>2 DEF IsTrue
    <3>6. Cardinality(ToldOf("job_recovered", j)) <= 1
      BY <3>5, AtMostOne
    <3>7. QED
      BY <3>3, <3>4, <3>6
  <2>4. answered.job # 0 => LastStatus(answered.job) = answered.says
    BY DEF LedgerInv, AnswerInv
  <2>5. QED
    BY <2>2, <2>3, <2>4 DEF EventsFollowLog
<1>5. ReplayIsPlausible
  <2> DEFINE r == Replayed(eventFile)
             o == Reconstructed(eventFile)
  <2>1. ReplayFits(r, o, Standing) /\ r.completed <= MostDone
    BY <1>1 DEF StoreIsTrue, IsTrue, DoneIn
  <2> HIDE DEF r, o
  <2>2. r.completed <= 2 * Cardinality(EndedAs("completed"))
    BY <2>1 DEF MostDone
  <2>3. {r.jobs[i].job : i \in {k \in DOMAIN r.jobs : r.jobs[k].status = "recovered"}} \subseteq EndedAs("crashed")
    BY <1>2, <2>1 DEF ReplayFits, RecoveredCrashed, EndedAs
  <2>4. \A i \in DOMAIN r.transitions :
           CASE r.transitions[i] = "ready"    -> StageBefore(r.transitions, i) = "starting"
             [] r.transitions[i] = "stopped"  -> StageBefore(r.transitions, i) \in {"ready", "stopped"}
             [] r.transitions[i] = "starting" -> TRUE
    <3>1. \A i \in DOMAIN r.transitions : r.transitions[i] \in {"starting", "ready", "stopped"}
      BY <2>1 DEF ReplayFits
    <3>2. InOrder(r.transitions)
      BY <2>1 DEF ReplayFits
    <3>3. QED
      BY <3>1, <3>2 DEF InOrder
  <2>5. \A field \in DOMAIN o : o[field] = r[field]
    BY <2>1 DEF ReplayFits
  <2>6. QED
    BY <2>2, <2>3, <2>4, <2>5 DEF ReplayIsPlausible, StageBefore, r, o
<1>6. QED
  BY <1>3, <1>4, <1>5 DEF EngineLedger

-----------------------------------------------------------------------------
(* Calls that are tried again (Resilience): the circuit of a key has at    *)
(* most Limit failures, the attempts counted that the calls under way have *)
(* left.                                                                   *)

Policies == {DefaultPolicies[kind] : kind \in DOMAIN DefaultPolicies} \union {BreakerPolicy}
CallerSays == {"nothing", "trying", "raised", "circuit_open", "ok", "exhausted"}
CallStates == [policy : Policies, key : CircuitKeys \union {"none"}, attempt : Nat, says : CallerSays]

(* The attempts that the calls of a key have left.                         *)
Retries   == BreakerPolicy.retries
Trying(c, key) == caller[c].says = "trying" /\ caller[c].key = key
AttemptsLeft(key) ==
  {x \in Callers \X (0..Retries) : Trying(x[1], key) /\ caller[x[1]].attempt <= x[2]}

RetryTyped ==
  /\ circuit \in [CircuitKeys -> Nat] /\ caller \in [Callers -> CallStates]
  /\ \A kind \in DOMAIN policies : policies[kind] \in Policies

CallsCounted ==
  \A c \in Callers :
    /\ caller[c].attempt <= caller[c].policy.retries + 1
    /\ caller[c].says = "exhausted" => caller[c].attempt = caller[c].policy.retries + 1
    /\ caller[c].says = "trying" => /\ caller[c].attempt <= caller[c].policy.retries
                                    /\ caller[c].key \in CircuitKeys
                                    /\ caller[c].key \notin unbroken => HasBreaker(caller[c].policy)
    /\ Raises => caller[c].attempt = 0 /\ caller[c].says # "trying"

Limit == Threshold - 1 + Cardinality(Callers) * (Retries + 1)

CircuitBounded ==
  \A key \in CircuitKeys \ unbroken : circuit[key] + Cardinality(AttemptsLeft(key)) <= Limit

RetryInv == RetryTyped /\ CallsCounted /\ CircuitBounded

(* The bounds are numbers.                                                 *)
LEMMA RetryConstants ==
  /\ Retries \in Nat /\ Threshold \in Nat /\ Threshold >= 1
  /\ IsFiniteSet(Callers) /\ Cardinality(Callers) \in Nat
  /\ IsFiniteSet(Callers \X (0..Retries))
  /\ Cardinality(Callers \X (0..Retries)) = Cardinality(Callers) * (Retries + 1)
  /\ Cardinality(Callers) * (Retries + 1) \in Nat
  /\ \A p \in Policies : p.retries \in Nat /\ (HasBreaker(p) => p.retries = Retries)
<1>1. Retries \in Nat /\ Threshold \in Nat /\ Threshold >= 1 /\ IsFiniteSet(Callers)
  BY ResilienceAssumption DEF Retries
<1>2. IsFiniteSet(0..Retries) /\ Cardinality(0..Retries) = Retries + 1
  <2>1. 0 \in Int /\ Retries \in Int
    BY <1>1
  <2>2. QED
    BY <1>1, <2>1, FS_Interval
<1>3. /\ IsFiniteSet(Callers \X (0..Retries))
      /\ Cardinality(Callers \X (0..Retries)) = Cardinality(Callers) * Cardinality(0..Retries)
  BY <1>1, <1>2, FS_Product
<1>4. Cardinality(Callers) \in Nat
  BY <1>1, FS_CardinalityType
<1>5. \A p \in Policies : p.retries \in Nat /\ (HasBreaker(p) => p.retries = Retries)
  BY ResilienceAssumption DEF Policies, HasBreaker, Retries
<1>6. Cardinality(Callers) * (Retries + 1) \in Nat
  BY <1>1, <1>4
<1>7. QED
  BY <1>1, <1>2, <1>3, <1>4, <1>5, <1>6

LEMMA AttemptsBounded ==
  ASSUME NEW S, S \subseteq Callers \X (0..Retries)
  PROVE  IsFiniteSet(S) /\ Cardinality(S) \in Nat /\ Cardinality(S) <= Cardinality(Callers) * (Retries + 1)
  BY RetryConstants, FS_Subset, FS_CardinalityType

LEMMA RetryInitially == ASSUME ResilienceInit PROVE RetryInv
<1>1. RetryTyped
  <2>1. NotCalling \in CallStates
    BY DEF NotCalling, CallStates, CallerSays, Policies
  <2>2. QED
    BY <2>1 DEF ResilienceInit, RetryTyped, Policies
<1>2. CallsCounted
  BY RetryConstants DEF ResilienceInit, CallsCounted, NotCalling, Retries
<1>3. CircuitBounded
  <2>1. ASSUME NEW key \in CircuitKeys PROVE AttemptsLeft(key) = {} /\ circuit[key] = 0
    BY DEF ResilienceInit, AttemptsLeft, Trying, NotCalling
  <2>2. Cardinality({}) = 0
    BY FS_EmptySet
  <2>3. Limit \in Nat
    BY RetryConstants DEF Limit
  <2>4. ASSUME NEW key \in CircuitKeys
        PROVE  key \notin unbroken => circuit[key] + Cardinality(AttemptsLeft(key)) <= Limit
    BY <2>1, <2>2, <2>3
  <2>5. QED
    BY <2>4 DEF CircuitBounded
<1>4. QED
  BY <1>1, <1>2, <1>3 DEF RetryInv

LEMMA RetryRests == ASSUME RetryInv, UNCHANGED retryVars PROVE RetryInv'
  BY DEF RetryInv, retryVars, RetryTyped, CallsCounted, CircuitBounded, AttemptsLeft, Trying, Raises

(* Each operation of the retry engine.                                     *)
LEMMA PolicyStep ==
  ASSUME RetryInv, NEW kind \in DOMAIN DefaultPolicies \union {"unknown"}, SetPolicy(kind) PROVE RetryInv'
<1>1. /\ policies' = [k \in DOMAIN policies \union {kind} |-> IF k = kind THEN BreakerPolicy ELSE policies[k]]
      /\ UNCHANGED <<circuit, caller, unbroken>>
  BY DEF SetPolicy
<1>2. RetryTyped'
  BY <1>1 DEF RetryInv, RetryTyped, Policies
<1>3. Raises' => Raises
  BY <1>1 DEF Raises
<1>4. CallsCounted'
  BY <1>1, <1>3 DEF RetryInv, CallsCounted
<1>5. CircuitBounded'
  BY <1>1 DEF RetryInv, CircuitBounded, AttemptsLeft, Trying
<1>6. QED
  BY <1>2, <1>4, <1>5 DEF RetryInv

LEMMA ResetStep == ASSUME RetryInv, NEW key \in CircuitKeys, ResetCircuit(key) PROVE RetryInv'
<1>1. circuit' = [circuit EXCEPT ![key] = 0] /\ UNCHANGED <<policies, caller, unbroken>>
  BY DEF ResetCircuit
<1>2. RetryTyped'
  BY <1>1 DEF RetryInv, RetryTyped
<1>3. CallsCounted'
  BY <1>1 DEF RetryInv, CallsCounted, Raises
<1>4. ASSUME NEW k \in CircuitKeys \ unbroken PROVE circuit'[k] + Cardinality(AttemptsLeft(k)) <= Limit
  <2>1. circuit[k] \in Nat /\ circuit'[k] \in Nat /\ circuit'[k] <= circuit[k]
    BY <1>1 DEF RetryInv, RetryTyped
  <2>2. Cardinality(AttemptsLeft(k)) \in Nat /\ Limit \in Nat
    BY AttemptsBounded, RetryConstants DEF AttemptsLeft, Limit
  <2>3. QED
    BY <2>1, <2>2 DEF RetryInv, CircuitBounded
<1>5. CircuitBounded'
  <2>1. \A k : AttemptsLeft(k)' = AttemptsLeft(k)
    BY <1>1 DEF AttemptsLeft, Trying
  <2>2. QED
    BY <1>1, <1>4, <2>1 DEF CircuitBounded
<1>6. QED
  BY <1>2, <1>3, <1>5 DEF RetryInv

LEMMA CallStep ==
  ASSUME RetryInv, NEW c \in Callers, NEW kind \in DOMAIN DefaultPolicies \union {"unknown"},
         NEW key \in CircuitKeys, CallRetried(c, kind, key)
  PROVE  RetryInv'
<1>1. PICK s \in {"raised", "circuit_open", "trying"}, p \in Policies :
        /\ caller' = [caller EXCEPT ![c] = [policy |-> p, key |-> key, attempt |-> 0, says |-> s]]
        /\ s = "raised" <=> Raises
        /\ s # "trying" => unbroken' = unbroken
        /\ s = "trying" => /\ HasBreaker(p) => unbroken' = unbroken /\ ~IsOpen(key)
                           /\ ~HasBreaker(p) => unbroken' = unbroken \union {key}
  <2>1. ~Raises => PolicyFor(kind) \in Policies
    BY DEF Raises, PolicyFor, RetryInv, RetryTyped
  <2>2. CASE Raises
    BY <2>2 DEF CallRetried, Policies
  <2>3. CASE ~Raises /\ HasBreaker(PolicyFor(kind)) /\ IsOpen(key)
    <3>1. /\ caller' = [caller EXCEPT ![c] = [policy |-> PolicyFor(kind), key |-> key, attempt |-> 0, says |-> "circuit_open"]]
          /\ unbroken' = unbroken
      BY <2>3 DEF CallRetried
    <3>2. QED
      BY <2>1, <2>3, <3>1
  <2>4. CASE ~Raises /\ ~(HasBreaker(PolicyFor(kind)) /\ IsOpen(key))
    <3>1. /\ caller' = [caller EXCEPT ![c] = [policy |-> PolicyFor(kind), key |-> key, attempt |-> 0, says |-> "trying"]]
          /\ unbroken' = IF HasBreaker(PolicyFor(kind)) THEN unbroken ELSE unbroken \union {key}
      BY <2>4 DEF CallRetried
    <3>2. QED
      BY <2>1, <2>4, <3>1
  <2>5. QED
    BY <2>2, <2>3, <2>4
<1>2. UNCHANGED <<policies, circuit>> /\ caller[c].says # "trying"
  BY DEF CallRetried
<1> DEFINE new == [policy |-> p, key |-> key, attempt |-> 0, says |-> s]
<1>3. /\ new \in CallStates /\ new.policy = p /\ new.key = key /\ new.attempt = 0 /\ new.says = s
  BY DEF CallStates, CallerSays
<1> HIDE DEF new
<1>4. caller' \in [Callers -> CallStates] /\ caller'[c] = new /\ \A d \in Callers : d # c => caller'[d] = caller[d]
  BY <1>1, <1>3 DEF RetryInv, RetryTyped, new
<1>5. RetryTyped'
  BY <1>2, <1>4 DEF RetryInv, RetryTyped
<1>6. unbroken \subseteq unbroken' /\ Raises' = Raises
  BY <1>1, <1>2 DEF Raises
<1>7. CallsCounted'
  <2>1. ASSUME NEW d \in Callers, d # c
        PROVE  /\ caller'[d].attempt <= caller'[d].policy.retries + 1
               /\ caller'[d].says = "exhausted" => caller'[d].attempt = caller'[d].policy.retries + 1
               /\ caller'[d].says = "trying" => /\ caller'[d].attempt <= caller'[d].policy.retries
                                                /\ caller'[d].key \in CircuitKeys
                                                /\ caller'[d].key \notin unbroken' => HasBreaker(caller'[d].policy)
               /\ Raises' => caller'[d].attempt = 0 /\ caller'[d].says # "trying"
    BY <1>4, <1>6, <2>1 DEF RetryInv, CallsCounted
  <2>2. /\ 0 <= p.retries + 1 /\ 0 <= p.retries
    BY RetryConstants
  <2>3. s = "trying" /\ key \notin unbroken' => HasBreaker(p)
    BY <1>1
  <2>4. /\ caller'[c].attempt <= caller'[c].policy.retries + 1
        /\ caller'[c].says = "exhausted" => caller'[c].attempt = caller'[c].policy.retries + 1
        /\ caller'[c].says = "trying" => /\ caller'[c].attempt <= caller'[c].policy.retries
                                         /\ caller'[c].key \in CircuitKeys
                                         /\ caller'[c].key \notin unbroken' => HasBreaker(caller'[c].policy)
        /\ Raises' => caller'[c].attempt = 0 /\ caller'[c].says # "trying"
    BY <1>1, <1>3, <1>4, <1>6, <2>2, <2>3
  <2>5. QED
    BY <2>1, <2>4 DEF CallsCounted
<1>8. ASSUME NEW k \in CircuitKeys \ unbroken' PROVE circuit[k] + Cardinality(AttemptsLeft(k)') <= Limit
  <2>1. circuit[k] \in Nat
    BY DEF RetryInv, RetryTyped
  <2>2. Cardinality(AttemptsLeft(k)') \in Nat /\ Cardinality(AttemptsLeft(k)') <= Cardinality(Callers) * (Retries + 1)
    BY AttemptsBounded DEF AttemptsLeft
  <2>3. CASE s = "trying" /\ k = key
    <3>1. circuit[k] < Threshold
      BY <1>1, <2>1, <2>3, RetryConstants DEF IsOpen
    <3>2. QED
      BY <2>1, <2>2, <3>1, RetryConstants DEF Limit
  <2>4. CASE ~(s = "trying" /\ k = key)
    <3>1. AttemptsLeft(k)' = AttemptsLeft(k)
      BY <1>2, <1>3, <1>4, <2>4 DEF AttemptsLeft, Trying
    <3>2. QED
      BY <1>6, <3>1 DEF RetryInv, CircuitBounded
  <2>5. QED
    BY <2>3, <2>4
<1>9. CircuitBounded'
  BY <1>2, <1>8 DEF CircuitBounded
<1>10. QED
  BY <1>5, <1>7, <1>9 DEF RetryInv

LEMMA AttemptStep ==
  ASSUME RetryInv, NEW c \in Callers, NEW succeeds \in BOOLEAN, AttemptRetried(c, succeeds) PROVE RetryInv'
<1> DEFINE me    == caller[c]
           key   == me.key
           after == CASE succeeds -> "ok"
                      [] ~succeeds /\ me.attempt < me.policy.retries -> "trying"
                      [] ~succeeds /\ me.attempt >= me.policy.retries -> "exhausted"
<1>1. /\ me.says = "trying" /\ me \in CallStates /\ key \in CircuitKeys
      /\ me.attempt \in Nat /\ me.policy \in Policies /\ me.policy.retries \in Nat
      /\ me.attempt <= me.policy.retries /\ ~Raises
      /\ key \notin unbroken => me.policy.retries = Retries
      /\ circuit' = [circuit EXCEPT ![key] = IF succeeds THEN 0 ELSE @ + 1]
      /\ caller' = [caller EXCEPT ![c].attempt = @ + 1, ![c].says = after]
      /\ UNCHANGED <<policies, unbroken>>
  <2>1. me.says = "trying" /\ me \in CallStates
    BY DEF AttemptRetried, RetryInv, RetryTyped
  <2>2. me.attempt \in Nat /\ me.policy \in Policies /\ me.policy.retries \in Nat
    BY <2>1, RetryConstants DEF CallStates
  <2>3. /\ me.attempt <= me.policy.retries /\ ~Raises /\ key \in CircuitKeys
        /\ key \notin unbroken => HasBreaker(me.policy)
    BY <2>1 DEF RetryInv, CallsCounted
  <2>4. QED
    BY <2>1, <2>2, <2>3, RetryConstants DEF AttemptRetried
<1>2. after \in {"ok", "trying", "exhausted"} /\ (after = "trying" => me.attempt < me.policy.retries)
      /\ (after = "exhausted" => me.attempt = me.policy.retries)
      /\ (after = "ok" => succeeds) /\ (succeeds => after = "ok")
  BY <1>1
<1> DEFINE new == [policy |-> me.policy, key |-> me.key, attempt |-> me.attempt + 1, says |-> after]
<1>3. caller' = [caller EXCEPT ![c] = new]
  <2> DEFINE next == [caller EXCEPT ![c].attempt = @ + 1]
  <2>1. caller \in [Callers -> CallStates]
    BY DEF RetryInv, RetryTyped
  <2>2. me = [policy |-> me.policy, key |-> me.key, attempt |-> me.attempt, says |-> me.says]
    BY <1>1 DEF CallStates
  <2>3. /\ next[c] = [policy |-> me.policy, key |-> me.key, attempt |-> me.attempt + 1, says |-> me.says]
        /\ next = [caller EXCEPT ![c] = next[c]]
    BY <2>1, <2>2
  <2>4. caller' = [next EXCEPT ![c].says = after]
    BY <1>1
  <2> DEFINE half == [policy |-> me.policy, key |-> me.key, attempt |-> me.attempt + 1, says |-> me.says]
  <2> HIDE DEF after
  <2>7. [half EXCEPT !.says = after] = new
    OBVIOUS
  <2> HIDE DEF next, new, half
  <2>8. [next EXCEPT ![c].says = after] = [next EXCEPT ![c] = [next[c] EXCEPT !.says = after]]
    OBVIOUS
  <2>9. next[c] = half
    BY <2>3 DEF half
  <2>5. [next EXCEPT ![c].says = after] = [next EXCEPT ![c] = new]
    BY <2>7, <2>8, <2>9
  <2>6. QED
    BY <2>3, <2>4, <2>5
<1>4. new \in CallStates /\ new.policy = me.policy /\ new.key = key /\ new.attempt = me.attempt + 1 /\ new.says = after
  BY <1>1, <1>2 DEF CallStates, CallerSays
<1> HIDE DEF new, after
<1>5. caller' \in [Callers -> CallStates] /\ caller'[c] = new /\ \A d \in Callers : d # c => caller'[d] = caller[d]
  BY <1>3, <1>4 DEF RetryInv, RetryTyped
<1>6. circuit' \in [CircuitKeys -> Nat] /\ circuit'[key] = (IF succeeds THEN 0 ELSE circuit[key] + 1)
      /\ \A k \in CircuitKeys : k # key => circuit'[k] = circuit[k]
  BY <1>1 DEF RetryInv, RetryTyped
<1>7. RetryTyped'
  BY <1>1, <1>5, <1>6 DEF RetryInv, RetryTyped
<1>8. CallsCounted'
  <2>0. Raises' = Raises
    BY <1>1 DEF Raises
  <2>1. ASSUME NEW d \in Callers, d # c
        PROVE  /\ caller'[d].attempt <= caller'[d].policy.retries + 1
               /\ caller'[d].says = "exhausted" => caller'[d].attempt = caller'[d].policy.retries + 1
               /\ caller'[d].says = "trying" => /\ caller'[d].attempt <= caller'[d].policy.retries
                                                /\ caller'[d].key \in CircuitKeys
                                                /\ caller'[d].key \notin unbroken' => HasBreaker(caller'[d].policy)
               /\ Raises' => caller'[d].attempt = 0 /\ caller'[d].says # "trying"
    BY <1>1, <1>5, <2>0, <2>1 DEF RetryInv, CallsCounted
  <2>2. key \notin unbroken => HasBreaker(me.policy)
    BY <1>1 DEF RetryInv, CallsCounted
  <2>3. /\ caller'[c].attempt <= caller'[c].policy.retries + 1
        /\ caller'[c].says = "exhausted" => caller'[c].attempt = caller'[c].policy.retries + 1
        /\ caller'[c].says = "trying" => /\ caller'[c].attempt <= caller'[c].policy.retries
                                         /\ caller'[c].key \in CircuitKeys
                                         /\ caller'[c].key \notin unbroken' => HasBreaker(caller'[c].policy)
        /\ Raises' => caller'[c].attempt = 0 /\ caller'[c].says # "trying"
    BY <1>1, <1>2, <1>4, <1>5, <2>0, <2>2
  <2>4. QED
    BY <2>1, <2>3 DEF CallsCounted
<1>9. ASSUME NEW k \in CircuitKeys \ unbroken PROVE circuit'[k] + Cardinality(AttemptsLeft(k)') <= Limit
  <2>1. /\ circuit[k] \in Nat /\ circuit[k] + Cardinality(AttemptsLeft(k)) <= Limit
        /\ Cardinality(AttemptsLeft(k)) \in Nat /\ IsFiniteSet(AttemptsLeft(k))
        /\ Cardinality(AttemptsLeft(k)') \in Nat /\ Cardinality(AttemptsLeft(k)') <= Cardinality(Callers) * (Retries + 1)
    BY AttemptsBounded DEF RetryInv, RetryTyped, CircuitBounded, AttemptsLeft
  <2>2. CASE k # key
    <3>1. AttemptsLeft(k)' = AttemptsLeft(k)
      BY <1>4, <1>5, <2>2 DEF AttemptsLeft, Trying
    <3>2. QED
      BY <1>6, <2>1, <2>2, <3>1
  <2>3. CASE k = key /\ succeeds
    BY <1>6, <2>1, <2>3, RetryConstants DEF Limit
  <2>4. CASE k = key /\ ~succeeds
    <3> DEFINE x == <<c, me.attempt>>
    <3>1. me.policy.retries = Retries /\ me.attempt \in 0..Retries
      BY <1>1, <2>4
    <3>2. x \in AttemptsLeft(k)
      BY <1>1, <2>4, <3>1 DEF AttemptsLeft, Trying
    <3>3. AttemptsLeft(k)' = AttemptsLeft(k) \ {x}
      <4>1. ASSUME NEW d \in Callers, NEW n \in 0..Retries
            PROVE  <<d, n>> \in AttemptsLeft(k)' <=> <<d, n>> \in AttemptsLeft(k) \ {x}
        <5>1. CASE d # c
          BY <1>5, <5>1 DEF AttemptsLeft, Trying
        <5>2. CASE d = c /\ after = "trying"
          <6>1. <<d, n>> \in AttemptsLeft(k)' <=> me.attempt + 1 <= n
            BY <1>4, <1>5, <2>4, <5>2 DEF AttemptsLeft, Trying
          <6>2. <<d, n>> \in AttemptsLeft(k) <=> me.attempt <= n
            BY <1>1, <2>4, <5>2 DEF AttemptsLeft, Trying
          <6>3. QED
            BY <1>1, <5>2, <6>1, <6>2
        <5>3. CASE d = c /\ after = "exhausted"
          <6>1. <<d, n>> \notin AttemptsLeft(k)'
            BY <1>4, <1>5, <5>3 DEF AttemptsLeft, Trying
          <6>2. <<d, n>> \in AttemptsLeft(k) <=> me.attempt <= n
            BY <1>1, <2>4, <5>3 DEF AttemptsLeft, Trying
          <6>3. me.attempt <= n <=> n = me.attempt
            BY <1>2, <3>1, <5>3
          <6>4. QED
            BY <5>3, <6>1, <6>2, <6>3
        <5>4. QED
          BY <1>2, <2>4, <5>1, <5>2, <5>3
      <4>2. AttemptsLeft(k)' \subseteq Callers \X (0..Retries) /\ AttemptsLeft(k) \subseteq Callers \X (0..Retries)
        BY DEF AttemptsLeft
      <4>3. \A y \in Callers \X (0..Retries) : y \in AttemptsLeft(k)' <=> y \in AttemptsLeft(k) \ {x}
        BY <4>1
      <4> DEFINE A == AttemptsLeft(k)'
                 B == AttemptsLeft(k) \ {x}
                 P == Callers \X (0..Retries)
      <4>4. A \subseteq P /\ B \subseteq P /\ \A y \in P : y \in A <=> y \in B
        BY <4>2, <4>3
      <4> HIDE DEF A, B, P
      <4>5. A = B
        BY <4>4
      <4>6. QED
        BY <4>5 DEF A, B
    <3>4. Cardinality(AttemptsLeft(k)') = Cardinality(AttemptsLeft(k)) - 1
      <4>1. Cardinality(AttemptsLeft(k) \ {x}) = Cardinality(AttemptsLeft(k)) - 1
        <5> DEFINE B == AttemptsLeft(k)
        <5>1. IsFiniteSet(B) /\ x \in B
          BY <2>1, <3>2
        <5> HIDE DEF B, x
        <5>2. Cardinality(B \ {x}) = Cardinality(B) - 1
          BY <5>1, FS_RemoveElement
        <5>3. QED
          BY <5>2 DEF B, x
      <4>2. QED
        BY <3>3, <4>1
    <3>5. QED
      BY <1>6, <2>1, <2>4, <3>4
  <2>5. QED
    BY <2>2, <2>3, <2>4
<1>10. CircuitBounded'
  BY <1>1, <1>9 DEF CircuitBounded
<1>11. QED
  BY <1>7, <1>8, <1>10 DEF RetryInv

LEMMA RetrySafe == ASSUME RetryInv PROVE BreakerHolds
<1>1. ASSUME NEW key \in CircuitKeys \ unbroken
      PROVE  circuit[key] <= Threshold - 1 + Cardinality(Callers) * (BreakerPolicy.retries + 1)
  <2>1. /\ circuit[key] \in Nat /\ circuit[key] + Cardinality(AttemptsLeft(key)) <= Limit
        /\ Cardinality(AttemptsLeft(key)) \in Nat
    BY AttemptsBounded DEF RetryInv, RetryTyped, CircuitBounded, AttemptsLeft
  <2>2. Limit \in Nat
    BY RetryConstants DEF Limit
  <2>3. circuit[key] <= Limit
    BY <2>1, <2>2
  <2>4. QED
    BY <2>3 DEF Limit, Retries
<1>2. QED
  BY <1>1 DEF RetryInv, CallsCounted, BreakerHolds

-----------------------------------------------------------------------------
(* The chain of fallbacks: what was tried before the step that is next.    *)
ChainInv ==
  /\ tried \in Seq({"ok", "failed"}) /\ step \in Nat
  /\ step > 0 => Len(tried) = step - 1 /\ (step <= ChainLength \/ step = 1)
  /\ step > 0 => \A i \in DOMAIN tried : tried[i] = "failed"
  /\ ChainStops

(* The gate: granted and denied is what was decided last.                  *)
GateInv ==
  /\ DOMAIN decision = Pairs /\ grants = {x \in Pairs : decision[x] = "granted"}
  /\ denials = {x \in Pairs : decision[x] = "denied"}
  /\ \A x \in Pairs : decision[x] \in {"none", "granted", "denied"}

CareInv == ChainInv /\ HealedCanRun /\ GateInv

chainState == <<step, tried>>
gateState  == <<grants, denials, decision>>

LEMMA CareInitially == ASSUME ResilienceInit PROVE CareInv
<1>1. tried = << >> /\ << >> \in Seq({"ok", "failed"}) /\ DOMAIN << >> = {}
  BY DEF ResilienceInit
<1>2. ChainInv
  BY <1>1 DEF ResilienceInit, ChainInv, ChainStops
<1>3. HealedCanRun
  BY DEF ResilienceInit, HealedCanRun
<1>4. GateInv
  BY DEF ResilienceInit, GateInv
<1>5. QED
  BY <1>2, <1>3, <1>4 DEF CareInv

LEMMA CareRests ==
  /\ ChainInv /\ UNCHANGED chainState => ChainInv'
  /\ HealedCanRun /\ UNCHANGED healVars => HealedCanRun'
  /\ GateInv /\ UNCHANGED gateState => GateInv'
  BY DEF ChainInv, chainState, ChainStops, HealedCanRun, healVars, GateInv, gateState

LEMMA TryStepKept == ASSUME ChainInv, NEW succeeds \in BOOLEAN, TryStep(succeeds) PROVE ChainInv'
<1> DEFINE t == IF succeeds THEN "ok" ELSE "failed"
<1>1. step \in 1..ChainLength /\ tried' = Append(tried, t)
      /\ step' = IF succeeds \/ step = ChainLength THEN 0 ELSE step + 1
  BY DEF TryStep
<1>2. tried \in Seq({"ok", "failed"}) /\ Len(tried) = step - 1 /\ \A i \in DOMAIN tried : tried[i] = "failed"
  <2>1. Len(<< >>) = 0
    OBVIOUS
  <2>2. QED
    BY <1>1, <2>1 DEF ChainInv
<1>3. t \in {"ok", "failed"} /\ (t = "ok" <=> succeeds)
  OBVIOUS
<1> HIDE DEF t
<1>4. /\ tried' \in Seq({"ok", "failed"}) /\ Len(tried') = step /\ DOMAIN tried' = 1..step
      /\ tried'[step] = t /\ \A i \in 1..(step - 1) : tried'[i] = "failed"
      /\ tried' # << >>
  BY <1>1, <1>2, <1>3
<1>5. ChainLength \in Nat
  BY ResilienceAssumption
<1>6. \A i \in 1..step : i # step => i \in 1..(step - 1)
  BY <1>1
<1>7. ChainStops'
  BY <1>1, <1>3, <1>4, <1>5, <1>6 DEF ChainStops
<1>8. step' > 0 => Len(tried') = step' - 1 /\ step' <= ChainLength /\ \A i \in DOMAIN tried' : tried'[i] = "failed"
  BY <1>1, <1>3, <1>4, <1>5, <1>6
<1>9. step' \in Nat
  BY <1>1
<1>10. QED
  BY <1>4, <1>7, <1>8, <1>9 DEF ChainInv

LEMMA HealStep == ASSUME Heal PROVE HealedCanRun'
<1> DEFINE failed == {n \in HealIds : nodeStatus[n] = "failed"}
           reset == [n \in HealIds |-> IF n \in failed THEN "pending" ELSE nodeStatus[n]]
<1>1. /\ nodeStatus' = reset
      /\ healed' = [says |-> CASE failed = {} -> "healthy"
                               [] OTHER -> IF \A n \in failed : DependenciesHold(n, reset)
                                           THEN "healed" ELSE "partial",
                    reset |-> failed]
  BY DEF Heal
<1>2. \A n \in HealIds : reset[n] # "failed"
  OBVIOUS
<1>3. healed'.reset = failed
      /\ (healed'.says \in {"healthy", "healed"} => \A n \in failed : DependenciesHold(n, reset))
  BY <1>1
<1> HIDE DEF failed, reset
<1>4. QED
  BY <1>1, <1>2, <1>3 DEF HealedCanRun, DependenciesHold

LEMMA CareStep == ASSUME CareInv, CareNext PROVE CareInv'
<1>0. ChainInv /\ HealedCanRun /\ GateInv
  BY DEF CareInv
<1>1. CASE ExecuteChain
  <2>1. step' = 1 /\ tried' = << >> /\ UNCHANGED healVars /\ UNCHANGED gateState
    BY <1>1 DEF ExecuteChain, gateVars, gateState
  <2>2. << >> \in Seq({"ok", "failed"}) /\ DOMAIN << >> = {}
    OBVIOUS
  <2>3. ChainInv'
    BY <2>1, <2>2 DEF ChainInv, ChainStops
  <2>4. QED
    BY <1>0, <2>1, <2>3, CareRests DEF CareInv
<1>2. CASE Heal
  BY <1>0, <1>2, HealStep, CareRests DEF CareInv, Heal, gateVars, gateState, chainState
<1>3. ASSUME NEW b \in BOOLEAN, TryStep(b) PROVE CareInv'
  <2>1. UNCHANGED healVars /\ UNCHANGED gateState
    BY <1>3 DEF TryStep, gateVars, gateState
  <2>2. QED
    BY <1>0, <1>3, <2>1, TryStepKept, CareRests DEF CareInv
<1>4. ASSUME NEW b \in BOOLEAN, SetAutoApprove(b) PROVE CareInv'
  BY <1>0, <1>4, CareRests DEF SetAutoApprove, CareInv, gateState, chainState
<1>5. ASSUME NEW n \in HealIds, NodeMoves(n) PROVE CareInv'
  <2>1. healed' = [says |-> "nothing", reset |-> {}] /\ UNCHANGED <<step, tried, gateVars>>
    BY <1>5 DEF NodeMoves
  <2>2. HealedCanRun'
    BY <2>1 DEF HealedCanRun
  <2>3. QED
    BY <1>0, <2>1, <2>2, CareRests DEF CareInv, gateVars, gateState, chainState
<1>6. ASSUME NEW x \in Pairs, Grant(x) \/ Deny(x) PROVE CareInv'
  <2>1. GateInv'
    BY <1>0, <1>6 DEF Grant, Deny, GateInv
  <2>2. QED
    BY <1>0, <1>6, <2>1, CareRests DEF CareInv, Grant, Deny, chainState
<1>7. QED
  BY <1>1, <1>2, <1>3, <1>4, <1>5, <1>6 DEF CareNext

LEMMA GateSafe == ASSUME GateInv PROVE LastDecisionCounts
  BY DEF GateInv, LastDecisionCounts, Check

LEMMA ResilienceStep ==
  ASSUME RetryInv, CareInv, [RetryNext \/ CareNext]_resilienceVars PROVE RetryInv' /\ CareInv'
<1>1. CASE RetryNext
  <2>1. UNCHANGED <<step, tried, healVars, gateVars>>
    BY <1>1 DEF RetryNext, SetPolicy, ResetCircuit, CallRetried, AttemptRetried
  <2>2. CareInv'
    BY <2>1, CareRests DEF CareInv, gateVars, gateState, chainState
  <2>3. RetryInv'
    BY <1>1, PolicyStep, ResetStep, CallStep, AttemptStep DEF RetryNext
  <2>4. QED
    BY <2>2, <2>3
<1>2. CASE CareNext
  <2>1. UNCHANGED retryVars
    BY <1>2 DEF CareNext, ExecuteChain, Heal, TryStep, SetAutoApprove, NodeMoves, Grant, Deny
  <2>2. QED
    BY <1>2, <2>1, CareStep, RetryRests
<1>3. CASE UNCHANGED resilienceVars
  BY <1>3, RetryRests, CareRests DEF resilienceVars, CareInv, gateVars, gateState, chainState
<1>4. QED
  BY <1>1, <1>2, <1>3

-----------------------------------------------------------------------------
(* The caches and the checkpoints (Caches).                                *)

-----------------------------------------------------------------------------
(* Entries of the cache of answers.                                        *)
Answers == [key : CachedPrompts, value : Nat, at : Nat]
KeysDiffer(es) == \A i, j \in DOMAIN es : es[i].key = es[j].key => i = j

(* Entries as the cache and its file may have them. *)
IsCache(es) ==
  /\ es \in Seq(Answers) /\ Len(es) <= MaxEntries /\ KeysDiffer(es)
  /\ \A a \in ToSet(es) : a.value = lastPut[a.key] /\ a.at <= now

(* Types, and the keys of the two caches.                                  *)
CacheTyped ==
  /\ now \in Nat /\ puts \in Nat /\ done \in Nat
  /\ lastPut \in [CacheKeys -> Nat] /\ gone \subseteq CacheKeys /\ revived \subseteq CachedPrompts

(* What the cache holds is the last that was put, and not gone.            *)
AnswersInv ==
  /\ IsCache(answers)
  /\ \A a \in ToSet(answers) : a.key \notin gone
  /\ saving = "answers" /\ answers # <<>> => \E a \in ToSet(answers) : a.value = puts

(* The file has a cache that was, less what was invalidated since.         *)
FileInv ==
  \/ answerFile \in {NoCacheFile, TornFile}
  \/ IsCache(answerFile) /\ \A a \in ToSet(answerFile) : a.key \notin gone \ revived

(* The results, as the answers.                                            *)
ResultsInv ==
  /\ DOMAIN results \subseteq ToolCalls
  /\ \A k \in DOMAIN results :
       results[k].value = lastPut[k] /\ results[k].at \in Nat /\ results[k].at <= now /\ k \notin gone

(* The last checkpoint that was written whole, or one that was cut off.    *)
CheckpointInv ==
  \/ cutOff = TRUE /\ checkpoint = TornFile
  \/ cutOff = FALSE /\ savedAt \in Nat /\ checkpoint = savedAt
  \/ cutOff = FALSE /\ savedAt = 0 /\ checkpoint = NoCacheFile

CacheInv == CacheTyped /\ AnswersInv /\ FileInv /\ ResultsInv /\ CheckpointInv /\ HitsAreCurrent

(* The members of a list of answers.                                       *)
LEMMA AnswerKeys == \A es \in Seq(Answers) : \A a \in ToSet(es) : a \in Answers /\ a.key \in CachedPrompts
<1>1. ASSUME NEW es \in Seq(Answers), NEW a \in ToSet(es) PROVE a \in Answers
  <2>1. PICK i \in DOMAIN es : a = es[i]
    BY DEF ToSet
  <2>2. QED
    BY <2>1
<1>2. \A a \in Answers : a.key \in CachedPrompts
  BY DEF Answers
<1>3. QED
  BY <1>1, <1>2

(* A list of answers without two of one key, of which some are kept. *)
LEMMA OnlyKeysDiffer ==
  ASSUME NEW es \in Seq(Answers), KeysDiffer(es), NEW P \in SUBSET DOMAIN es
  PROVE  /\ Distinct(es)
         /\ Only(es, P) \in Seq(Answers) /\ Len(Only(es, P)) <= Len(es)
         /\ KeysDiffer(Only(es, P)) /\ Distinct(Only(es, P)) /\ ToSet(Only(es, P)) = {es[i] : i \in P}
<1> DEFINE x == Only(es, P)
<1>1. Distinct(es)
  BY DEF Distinct, KeysDiffer
<1>2. /\ x \in Seq(Answers) /\ Len(x) <= Len(es)
      /\ Distinct(x) /\ ToSet(x) = {es[i] : i \in P}
  BY <1>1, OnlyDistinct
<1> HIDE DEF x
<1>3. KeysDiffer(x)
  <2>1. ASSUME NEW k \in DOMAIN x, NEW m \in DOMAIN x, x[k].key = x[m].key PROVE k = m
    <3>1. x[k] \in ToSet(x) /\ x[m] \in ToSet(x)
      BY <1>2 DEF ToSet
    <3>2. PICK i \in P, j \in P : x[k] = es[i] /\ x[m] = es[j]
      BY <1>2, <3>1
    <3>3. i = j
      BY <2>1, <3>2 DEF KeysDiffer
    <3>4. QED
      BY <1>2, <3>2, <3>3 DEF Distinct
  <2>2. QED
    BY <2>1 DEF KeysDiffer
<1>4. QED
  BY <1>1, <1>2, <1>3 DEF x

(* A put: the new entry stands in the place of the old one, or last. *)
LEMMA PutHolds ==
  ASSUME answers \in Seq(Answers), KeysDiffer(answers), NEW k \in CachedPrompts, NEW e \in Answers, e.key = k
  PROVE  /\ Put(k, e) \in Seq(Answers) /\ KeysDiffer(Put(k, e)) /\ e \in ToSet(Put(k, e))
         /\ Len(Put(k, e)) <= Len(answers) + 1
         /\ Len(Put(k, e)) > Len(answers) => Put(k, e)[Len(Put(k, e))] = e
         /\ \A a \in ToSet(Put(k, e)) : a = e \/ (a \in ToSet(answers) /\ a.key # k)
<1> DEFINE n == Put(k, e)
<1>1. Len(answers) \in Nat /\ DOMAIN answers = 1..Len(answers)
  OBVIOUS
<1>2. CASE Has(k)
  <2>1. At(k) \in DOMAIN answers /\ answers[At(k)].key = k
    BY <1>2 DEF Has, At
  <2>2. n = [answers EXCEPT ![At(k)] = e]
    BY <1>2 DEF Put
  <2> HIDE DEF n
  <2>3. n \in Seq(Answers) /\ Len(n) = Len(answers) /\ DOMAIN n = DOMAIN answers
    BY <1>1, <2>1, <2>2
  <2>4. n[At(k)] = e /\ \A i \in DOMAIN answers : i # At(k) => n[i] = answers[i]
    BY <2>1, <2>2
  <2>5. \A i \in DOMAIN answers : n[i].key = answers[i].key
    BY <2>1, <2>4
  <2>6. KeysDiffer(n)
    BY <2>3, <2>5 DEF KeysDiffer
  <2>7. \A i \in DOMAIN answers : i # At(k) => answers[i].key # k
    BY <2>1 DEF KeysDiffer
  <2>8. e \in ToSet(n) /\ \A a \in ToSet(n) : a = e \/ (a \in ToSet(answers) /\ a.key # k)
    BY <2>1, <2>3, <2>4, <2>7 DEF ToSet
  <2>9. QED
    BY <1>1, <2>3, <2>6, <2>8 DEF n
<1>3. CASE ~Has(k)
  <2>1. n = Append(answers, e)
    BY <1>3 DEF Put
  <2>2. \A i \in DOMAIN answers : answers[i].key # k
    BY <1>3 DEF Has
  <2> HIDE DEF n
  <2>3. /\ n \in Seq(Answers) /\ Len(n) = Len(answers) + 1 /\ DOMAIN n = 1..(Len(answers) + 1)
        /\ n[Len(answers) + 1] = e /\ \A i \in DOMAIN answers : n[i] = answers[i]
    BY <1>1, <2>1
  <2>4. \A i \in DOMAIN n : i = Len(answers) + 1 \/ i \in DOMAIN answers
    BY <1>1, <2>3
  <2>5. KeysDiffer(n)
    BY <2>2, <2>3, <2>4 DEF KeysDiffer
  <2>6. e \in ToSet(n)
    <3>1. Len(answers) + 1 \in DOMAIN n
      BY <1>1, <2>3
    <3>2. QED
      BY <2>3, <3>1 DEF ToSet
  <2>7. \A a \in ToSet(n) : a = e \/ (a \in ToSet(answers) /\ a.key # k)
    BY <2>2, <2>3, <2>4 DEF ToSet
  <2>8. QED
    BY <1>1, <2>3, <2>5, <2>6, <2>7 DEF n
<1>4. QED
  BY <1>2, <1>3

(* Of the entries of a list one is the oldest. *)
LEMMA OldestEntry ==
  ASSUME NEW es \in Seq(Answers), Len(es) > 0
  PROVE  \E m \in DOMAIN es : \A j \in DOMAIN es :
            ~(es[j].at < es[m].at \/ (es[j].at = es[m].at /\ j < m))
<1> DEFINE T == {es[i].at : i \in DOMAIN es}
<1>1. /\ DOMAIN es = 1..Len(es) /\ Len(es) \in Nat /\ 1 \in DOMAIN es
      /\ \A i \in DOMAIN es : es[i].at \in Nat
  <2>1. DOMAIN es = 1..Len(es) /\ Len(es) \in Nat /\ \A i \in DOMAIN es : es[i] \in Answers
    OBVIOUS
  <2>2. QED
    BY <2>1 DEF Answers
<1>2. T \in SUBSET Nat /\ T # {}
  BY <1>1
<1>3. PICK t \in T : \A u \in T : t <= u
  <2> HIDE DEF T
  <2>1. QED
    BY <1>2, Filtered!LeastMember
<1> DEFINE J == {i \in DOMAIN es : es[i].at = t}
<1>4. J \in SUBSET Nat /\ J # {}
  BY <1>1, <1>3
<1>5. PICK m \in J : \A j \in J : m <= j
  <2> HIDE DEF J
  <2>1. QED
    BY <1>4, Filtered!LeastMember
<1>6. ASSUME NEW j \in DOMAIN es PROVE ~(es[j].at < es[m].at \/ (es[j].at = es[m].at /\ j < m))
  <2>1. t <= es[j].at /\ es[m].at = t /\ t \in Nat /\ es[j].at \in Nat /\ m \in Nat /\ j \in Nat
    BY <1>1, <1>3, <1>5
  <2>2. es[j].at = t => m <= j
    BY <1>5
  <2>3. QED
    BY <2>1, <2>2
<1>7. QED
  BY <1>5, <1>6

(* An eviction leaves at most MaxEntries, and with them the newest. *)
LEMMA EvictedHolds ==
  ASSUME NEW es \in Seq(Answers), KeysDiffer(es), Len(es) <= MaxEntries + 1,
         NEW e \in ToSet(es), \A a \in ToSet(es) : a.at <= e.at,
         Len(es) > MaxEntries => es[Len(es)] = e
  PROVE  /\ Evicted(es) \in Seq(Answers) /\ KeysDiffer(Evicted(es)) /\ Len(Evicted(es)) <= MaxEntries
         /\ ToSet(Evicted(es)) \subseteq ToSet(es) /\ e \in ToSet(Evicted(es))
<1> DEFINE Before(i) == {j \in DOMAIN es : es[j].at < es[i].at \/ (es[j].at = es[i].at /\ j < i)}
           Out == {i \in DOMAIN es : Cardinality(Before(i)) + MaxEntries < Len(es)}
           P == DOMAIN es \ Out
           x == Only(es, P)
<1>1. Evicted(es) = x
  BY DEF Evicted
<1>2. /\ DOMAIN es = 1..Len(es) /\ Len(es) \in Nat /\ MaxEntries \in Nat \ {0}
      /\ IsFiniteSet(DOMAIN es)
  <2>1. DOMAIN es = 1..Len(es) /\ Len(es) \in Nat /\ MaxEntries \in Nat \ {0}
    BY CacheAssumption
  <2>2. QED
    BY <2>1, FS_Interval
<1>3. \A i \in DOMAIN es : IsFiniteSet(Before(i)) /\ Cardinality(Before(i)) \in Nat
  <2>1. \A i \in DOMAIN es : Before(i) \subseteq DOMAIN es
    OBVIOUS
  <2> HIDE DEF Before
  <2>2. QED
    BY <1>2, <2>1, FS_Subset, FS_CardinalityType
<1> HIDE DEF Before
<1>4. P \in SUBSET DOMAIN es
  OBVIOUS
<1> HIDE DEF P
<1>5. /\ x \in Seq(Answers) /\ Len(x) <= Len(es) /\ KeysDiffer(x) /\ Distinct(x) /\ Distinct(es)
      /\ ToSet(x) = {es[i] : i \in P}
  BY <1>4, OnlyKeysDiffer
<1> HIDE DEF x
<1>6. ToSet(x) \subseteq ToSet(es) /\ Len(x) \in Nat
  <2>1. Len(x) \in Nat
    BY <1>5
  <2>2. \A i \in P : es[i] \in ToSet(es)
    BY <1>4 DEF ToSet
  <2>3. QED
    BY <1>5, <2>1, <2>2
<1>7. PICK l \in DOMAIN es : es[l] = e
  BY DEF ToSet
<1>8. CASE Len(es) <= MaxEntries
  <2>1. l \notin Out
    BY <1>2, <1>3, <1>7, <1>8
  <2>2. QED
    BY <1>1, <1>2, <1>5, <1>6, <1>7, <1>8, <2>1 DEF P
<1>9. CASE Len(es) = MaxEntries + 1
  <2>1. Len(x) <= MaxEntries
    <3>1. PICK m \in DOMAIN es : \A j \in DOMAIN es : ~(es[j].at < es[m].at \/ (es[j].at = es[m].at /\ j < m))
      <4>1. Len(es) > 0
        BY <1>2, <1>9
      <4>2. QED
        BY <4>1, OldestEntry
    <3>2. Before(m) = {}
      BY <3>1 DEF Before
    <3>3. m \in Out
      <4>1. Cardinality(Before(m)) = 0
        BY <3>2, FS_EmptySet
      <4>2. 0 + MaxEntries < Len(es)
        BY <1>2, <1>9
      <4>3. QED
        BY <3>1, <4>1, <4>2
    <3>4. ToSet(x) \subseteq ToSet(es) \ {es[m]}
      BY <1>4, <1>5, <1>6, <3>3 DEF P, Distinct
    <3>5. es[m] \in ToSet(es)
      BY <3>1 DEF ToSet
    <3>6. /\ IsFiniteSet(ToSet(es)) /\ Cardinality(ToSet(es)) = Len(es)
          /\ Cardinality(ToSet(x)) = Len(x)
      BY <1>5, DistinctCount
    <3>7. IsFiniteSet(ToSet(es) \ {es[m]}) /\ Cardinality(ToSet(es) \ {es[m]}) = Len(es) - 1
      BY <3>5, <3>6, FS_RemoveElement
    <3>8. Cardinality(ToSet(x)) <= Len(es) - 1
      BY <3>4, <3>7, FS_Subset
    <3>9. QED
      BY <1>2, <1>6, <1>9, <3>6, <3>8
  <2>2. e \in ToSet(x)
    <3>1. Len(es) \in DOMAIN es /\ es[Len(es)] = e /\ 1 \in DOMAIN es /\ 1 < Len(es)
      BY <1>2, <1>9
    <3>2. es[1].at <= e.at /\ es[1].at \in Nat /\ e.at \in Nat
      <4>1. es[1] \in ToSet(es) /\ es[1] \in Answers /\ e \in Answers
        BY <3>1 DEF ToSet
      <4>2. QED
        BY <4>1 DEF Answers
    <3>3. 1 \in Before(Len(es))
      BY <3>1, <3>2 DEF Before
    <3>4. Cardinality(Before(Len(es))) # 0
      BY <1>3, <3>1, <3>3, FS_EmptySet
    <3>5. Len(es) \notin Out
      BY <1>2, <1>3, <1>9, <3>1, <3>4
    <3>6. Len(es) \in P
      BY <3>1, <3>5 DEF P
    <3>7. QED
      BY <1>5, <3>1, <3>6
  <2>3. QED
    BY <1>1, <1>5, <1>6, <2>1, <2>2
<1>10. Len(es) <= MaxEntries \/ Len(es) = MaxEntries + 1
  <2> DEFINE l1 == Len(es)
  <2>1. l1 \in Int /\ MaxEntries \in Int /\ l1 <= MaxEntries + 1
    BY <1>2
  <2> HIDE DEF l1
  <2>2. l1 <= MaxEntries \/ l1 = MaxEntries + 1
    BY <2>1
  <2>3. QED
    BY <2>2 DEF l1
<1>11. QED
  BY <1>8, <1>9, <1>10

(* The empty cache is a cache.                                             *)
LEMMA EmptyCache == << >> \in Seq(Answers) /\ Len(<< >>) = 0 /\ ToSet(<< >>) = {} /\ KeysDiffer(<< >>) /\ IsCache(<< >>)
<1>1. << >> \in Seq(Answers) /\ Len(<< >>) = 0 /\ ToSet(<< >>) = {} /\ KeysDiffer(<< >>)
  BY DEF ToSet, KeysDiffer
<1>2. QED
  BY <1>1, CacheAssumption DEF IsCache

LEMMA CacheInitially == ASSUME CacheInit PROVE CacheInv
<1>1. CacheTyped
  BY DEF CacheInit, CacheTyped
<1>2. AnswersInv
  BY EmptyCache DEF CacheInit, AnswersInv
<1>3. FileInv /\ CheckpointInv /\ HitsAreCurrent
  BY DEF CacheInit, FileInv, CheckpointInv, HitsAreCurrent
<1>4. ResultsInv
  BY DEF CacheInit, ResultsInv
<1>5. QED
  BY <1>1, <1>2, <1>3, <1>4 DEF CacheInv

LEMMA CacheRests == ASSUME CacheInv, UNCHANGED cacheVars PROVE CacheInv'
<1>1. UNCHANGED <<now, answers, answerFile, results, checkpoint, done, saving, puts, hits, lastPut, gone, revived, savedAt, cutOff>>
  BY DEF cacheVars, answerVars, pastVars, resumeVars
<1>2. QED
  BY <1>1 DEF CacheInv, CacheTyped, AnswersInv, IsCache, FileInv, ResultsInv, CheckpointInv, HitsAreCurrent

(* The caches of a step that changes neither time nor what was put.        *)
LEMMA CacheMoves ==
  ASSUME UNCHANGED lastPut, now \in Nat, now' \in Nat, now <= now', NEW es, IsCache(es)
  PROVE  IsCache(es)'
<1>1. \A a \in ToSet(es) : a \in Answers
  BY DEF IsCache, ToSet
<1>2. \A a \in ToSet(es) : a.at \in Nat
  BY <1>1 DEF Answers
<1>3. QED
  BY <1>2 DEF IsCache

LEMMA CacheTimeStep == ASSUME CacheInv, Time PROVE CacheInv'
<1>1. /\ now' = now + 1
      /\ UNCHANGED <<answers, answerFile, results, checkpoint, done, saving, puts, hits, lastPut, gone, revived, savedAt, cutOff>>
  BY DEF Time, answerVars, pastVars, resumeVars
<1>2. now \in Nat /\ now' \in Nat /\ now <= now'
  BY <1>1 DEF CacheInv, CacheTyped
<1>3. CacheTyped' /\ CheckpointInv' /\ HitsAreCurrent'
  BY <1>1, <1>2 DEF CacheInv, CacheTyped, CheckpointInv, HitsAreCurrent
<1>4. \A es : IsCache(es) => IsCache(es)'
  BY <1>1, <1>2, CacheMoves
<1>5. IsCache(answers)'
  BY <1>1, <1>4 DEF CacheInv, AnswersInv
<1>6. AnswersInv'
  BY <1>1, <1>5 DEF CacheInv, AnswersInv
<1>7. FileInv'
  BY <1>1, <1>4 DEF CacheInv, FileInv
<1>8. ResultsInv'
  BY <1>1, <1>2 DEF CacheInv, ResultsInv
<1>9. QED
  BY <1>3, <1>6, <1>7, <1>8 DEF CacheInv

(* A cache without one of its keys.                                        *)
LEMMA WithoutHolds ==
  ASSUME IsCache(answers), NEW k
  PROVE  /\ IsCache(Without(k))
         /\ \A a \in ToSet(Without(k)) : a \in ToSet(answers) /\ a.key # k
<1> DEFINE P == {i \in DOMAIN answers : answers[i].key # k}
           x == Only(answers, P)
<1>1. Without(k) = x
  BY DEF Without
<1>2. answers \in Seq(Answers) /\ KeysDiffer(answers) /\ P \in SUBSET DOMAIN answers
  BY DEF IsCache
<1>3. x \in Seq(Answers) /\ Len(x) <= Len(answers) /\ KeysDiffer(x) /\ ToSet(x) = {answers[i] : i \in P}
  <2> HIDE DEF P
  <2>1. QED
    BY <1>2, OnlyKeysDiffer
<1> HIDE DEF x
<1>4. Len(x) \in Nat /\ Len(answers) \in Nat /\ MaxEntries \in Nat
  BY <1>2, <1>3, CacheAssumption
<1>5. Len(x) <= MaxEntries
  BY <1>3, <1>4 DEF IsCache
<1>6. \A a \in ToSet(x) : a \in ToSet(answers) /\ a.key # k
  BY <1>3 DEF ToSet
<1>7. QED
  BY <1>1, <1>3, <1>5, <1>6 DEF IsCache

(* What the invariant says of each entry.                                  *)
LEMMA CacheFacts ==
  ASSUME CacheInv
  PROVE  /\ now \in Nat /\ puts \in Nat /\ lastPut \in [CacheKeys -> Nat] /\ gone \subseteq CacheKeys
         /\ revived \subseteq CachedPrompts /\ IsCache(answers) /\ CachedPrompts \intersect ToolCalls = {}
         /\ CachedPrompts \subseteq CacheKeys /\ ToolCalls \subseteq CacheKeys
         /\ \A i \in DOMAIN answers :
              /\ answers[i] \in ToSet(answers) /\ answers[i] \in Answers
              /\ answers[i].key \in CachedPrompts /\ answers[i].value \in Nat /\ answers[i].at \in Nat
<1>1. /\ now \in Nat /\ puts \in Nat /\ lastPut \in [CacheKeys -> Nat] /\ gone \subseteq CacheKeys
      /\ revived \subseteq CachedPrompts /\ IsCache(answers)
  BY DEF CacheInv, CacheTyped, AnswersInv
<1>2. \A i \in DOMAIN answers : answers[i] \in ToSet(answers) /\ answers[i] \in Answers
  BY <1>1 DEF IsCache, ToSet
<1>3. QED
  BY <1>1, <1>2, CacheAssumption DEF Answers, CacheKeys

LEMMA GetAnswerStep ==
  ASSUME CacheInv, NEW k \in CachedPrompts, GetAnswer(k) PROVE CacheInv'
<1>1. UNCHANGED <<now, answerFile, results, checkpoint, done, saving, puts, lastPut, gone, revived, savedAt, cutOff>>
  BY DEF GetAnswer, pastVars, resumeVars
<1>2. saving = "nothing"
  BY DEF GetAnswer, Calling
<1>3. AnswersInv' /\ HitsAreCurrent'
  <2>1. CASE Has(k) /\ ~Expired(k)
    <3>1. /\ hits' = [of |-> k, value |-> answers[At(k)].value, age |-> now - answers[At(k)].at]
          /\ answers' = answers
      BY <2>1 DEF GetAnswer
    <3>2. At(k) \in DOMAIN answers /\ answers[At(k)].key = k
      BY <2>1 DEF Has, At
    <3>3. AnswersInv'
      BY <1>1, <3>1 DEF CacheInv, AnswersInv, IsCache
    <3>4. answers[At(k)] \in ToSet(answers) /\ ~(now - answers[At(k)].at > AnswerTTL)
      BY <2>1, <3>2, CacheFacts DEF Expired
    <3>5. answers[At(k)].value = lastPut[k] /\ k \notin gone
      BY <3>2, <3>4 DEF CacheInv, AnswersInv, IsCache
    <3>6. now - answers[At(k)].at <= AnswerTTL
      <4> DEFINE age == now - answers[At(k)].at
      <4>1. age \in Int /\ AnswerTTL \in Int
        BY <3>2, CacheFacts, CacheAssumption
      <4> HIDE DEF age
      <4>2. ~(age > AnswerTTL) => age <= AnswerTTL
        BY <4>1
      <4>3. QED
        BY <3>4, <4>2 DEF age
    <3>7. hits'.of = k /\ hits'.value = answers[At(k)].value /\ hits'.age = now - answers[At(k)].at
      BY <3>1
    <3>8. HitsAreCurrent'
      BY <1>1, <3>5, <3>6, <3>7 DEF HitsAreCurrent
    <3>9. QED
      BY <3>3, <3>8
  <2>2. CASE ~(Has(k) /\ ~Expired(k))
    <3>1. hits' = NoHit /\ answers' = Without(k)
      BY <2>2 DEF GetAnswer
    <3>2. IsCache(Without(k)) /\ \A a \in ToSet(Without(k)) : a \in ToSet(answers)
      BY CacheFacts, WithoutHolds
    <3>3. IsCache(answers')
      BY <3>1, <3>2
    <3>4. IsCache(answers)'
      BY <1>1, <3>3 DEF IsCache
    <3>5. \A a \in ToSet(answers') : a.key \notin gone
      BY <3>1, <3>2 DEF CacheInv, AnswersInv
    <3>6. QED
      BY <1>1, <1>2, <3>1, <3>4, <3>5 DEF AnswersInv, HitsAreCurrent
  <2>3. QED
    BY <2>1, <2>2
<1>4. CacheTyped' /\ CheckpointInv' /\ ResultsInv'
  BY <1>1 DEF CacheInv, CacheTyped, CheckpointInv, ResultsInv
<1>5. FileInv'
  BY <1>1 DEF CacheInv, FileInv, IsCache
<1>6. QED
  BY <1>3, <1>4, <1>5 DEF CacheInv

LEMMA PutAnswerStep ==
  ASSUME CacheInv, NEW k \in CachedPrompts, PutAnswer(k) PROVE CacheInv'
<1> DEFINE e == [key |-> k, value |-> puts', at |-> now]
           n == Put(k, e)
           x == Evicted(n)
<1>1. /\ puts' = puts + 1 /\ answers' = x /\ answerFile' = TornFile /\ saving' = "answers"
      /\ lastPut' = [lastPut EXCEPT ![k] = puts'] /\ gone' = gone \ {k} /\ hits' = NoHit
      /\ UNCHANGED <<now, results, revived, checkpoint, done, savedAt, cutOff>>
  BY DEF PutAnswer, resumeVars
<1>2. e \in Answers /\ e.key = k /\ e.value = puts' /\ e.at = now /\ puts' \in Nat
  BY <1>1, CacheFacts DEF Answers
<1> HIDE DEF e
<1>3. answers \in Seq(Answers) /\ Len(answers) <= MaxEntries /\ KeysDiffer(answers)
  BY CacheFacts DEF IsCache
<1>4. /\ n \in Seq(Answers) /\ KeysDiffer(n) /\ e \in ToSet(n) /\ Len(n) <= Len(answers) + 1
      /\ Len(n) > Len(answers) => n[Len(n)] = e
      /\ \A a \in ToSet(n) : a = e \/ (a \in ToSet(answers) /\ a.key # k)
  BY <1>2, <1>3, PutHolds
<1> HIDE DEF n
<1>5. \A a \in ToSet(answers) : a.at <= now /\ a.value = lastPut[a.key] /\ a.key \notin gone /\ a \in Answers
  BY CacheFacts DEF CacheInv, AnswersInv, IsCache, ToSet
<1>6. \A a \in ToSet(n) : a.at <= e.at
  BY <1>2, <1>4, <1>5, CacheFacts
<1>7. Len(n) \in Nat /\ Len(answers) \in Nat /\ MaxEntries \in Nat
  BY <1>3, <1>4, CacheAssumption
<1>8. Len(n) <= MaxEntries + 1 /\ (Len(n) > MaxEntries => n[Len(n)] = e)
  BY <1>3, <1>4, <1>7
<1>9. /\ x \in Seq(Answers) /\ KeysDiffer(x) /\ Len(x) <= MaxEntries
      /\ ToSet(x) \subseteq ToSet(n) /\ e \in ToSet(x)
  BY <1>4, <1>6, <1>8, EvictedHolds
<1> HIDE DEF x
<1>10. \A a \in ToSet(x) : a.value = lastPut'[a.key] /\ a.at <= now /\ a.key \notin gone'
  <2>1. ASSUME NEW a \in ToSet(x), a = e PROVE a.value = lastPut'[a.key] /\ a.at <= now /\ a.key \notin gone'
    BY <1>1, <1>2, <2>1, CacheFacts
  <2>2. ASSUME NEW a \in ToSet(x), a \in ToSet(answers), a.key # k
        PROVE  a.value = lastPut'[a.key] /\ a.at <= now /\ a.key \notin gone'
    <3>1. a.key \in CacheKeys /\ lastPut'[a.key] = lastPut[a.key]
      BY <1>1, <1>5, <2>2, CacheFacts DEF Answers
    <3>2. QED
      BY <1>1, <1>5, <2>2, <3>1
  <2>3. QED
    BY <1>4, <1>9, <2>1, <2>2
<1>11. AnswersInv'
  BY <1>1, <1>2, <1>9, <1>10 DEF AnswersInv, IsCache
<1>12. CacheTyped'
  BY <1>1, <1>2, CacheFacts DEF CacheInv, CacheTyped
<1>13. FileInv' /\ CheckpointInv' /\ HitsAreCurrent'
  BY <1>1 DEF CacheInv, FileInv, CheckpointInv, HitsAreCurrent
<1>14. ResultsInv'
  <2>1. \A c \in DOMAIN results : c # k /\ c \in CacheKeys
    BY CacheFacts DEF CacheInv, ResultsInv
  <2>2. QED
    BY <1>1, <2>1, CacheFacts DEF CacheInv, ResultsInv
<1>15. QED
  BY <1>11, <1>12, <1>13, <1>14 DEF CacheInv

LEMMA InvalidateStep ==
  ASSUME CacheInv, NEW k \in CachedPrompts, InvalidateAnswer(k) PROVE CacheInv'
<1>1. /\ answers' = Without(k) /\ hits' = NoHit /\ saving = "nothing"
      /\ gone' = gone \union {k} /\ revived' = revived \union {k}
      /\ UNCHANGED <<now, answerFile, results, saving, puts, lastPut, checkpoint, done, savedAt, cutOff>>
  BY DEF InvalidateAnswer, Calling, resumeVars
<1>2. IsCache(Without(k)) /\ \A a \in ToSet(Without(k)) : a \in ToSet(answers) /\ a.key # k
  BY CacheFacts, WithoutHolds
<1>3. IsCache(answers')
  BY <1>1, <1>2
<1>4. IsCache(answers)'
  BY <1>1, <1>3 DEF IsCache
<1>5. \A a \in ToSet(answers') : a.key \notin gone'
  BY <1>1, <1>2 DEF CacheInv, AnswersInv
<1>6. AnswersInv'
  BY <1>1, <1>4, <1>5 DEF AnswersInv
<1>7. FileInv'
  BY <1>1 DEF CacheInv, FileInv, IsCache
<1>8. CacheTyped' /\ CheckpointInv' /\ HitsAreCurrent'
  BY <1>1, CacheFacts DEF CacheInv, CacheTyped, CheckpointInv, HitsAreCurrent
<1>9. ResultsInv'
  BY <1>1, CacheFacts DEF CacheInv, ResultsInv
<1>10. QED
  BY <1>6, <1>7, <1>8, <1>9 DEF CacheInv

LEMMA ClearAnswersStep == ASSUME CacheInv, ClearAnswers PROVE CacheInv'
<1>1. /\ answers' = << >> /\ answerFile' = TornFile /\ gone' = gone \union CachedPrompts /\ hits' = NoHit
      /\ UNCHANGED <<now, results, puts, lastPut, revived, checkpoint, done, savedAt, cutOff>>
  BY DEF ClearAnswers, resumeVars
<1>2. AnswersInv'
  BY <1>1, EmptyCache DEF AnswersInv, IsCache
<1>3. FileInv' /\ CacheTyped' /\ CheckpointInv' /\ HitsAreCurrent'
  BY <1>1, CacheFacts DEF CacheInv, FileInv, CacheTyped, CheckpointInv, HitsAreCurrent
<1>4. ResultsInv'
  BY <1>1, CacheFacts DEF CacheInv, ResultsInv
<1>5. QED
  BY <1>2, <1>3, <1>4 DEF CacheInv

(* What leaves the cache of answers and its file alone.                    *)
LEMMA AnswersRest ==
  ASSUME CacheInv, UNCHANGED <<now, answers, answerFile, revived, saving, puts>>,
         \A k \in CachedPrompts : lastPut'[k] = lastPut[k] /\ (k \in gone' => k \in gone)
  PROVE  AnswersInv' /\ FileInv'
<1>1. \A es \in Seq(Answers) : \A a \in ToSet(es) : a.key \in CachedPrompts
  BY AnswerKeys
<1>2. AnswersInv'
  BY <1>1 DEF CacheInv, AnswersInv, IsCache
<1>3. FileInv'
  BY <1>1 DEF CacheInv, FileInv, IsCache
<1>4. QED
  BY <1>2, <1>3

LEMMA GetResultStep == ASSUME CacheInv, NEW k \in ToolCalls, GetResult(k) PROVE CacheInv'
<1>1. /\ hits' = IF k \in DOMAIN results /\ now - results[k].at < ToolTTL
                 THEN [of |-> k, value |-> results[k].value, age |-> now - results[k].at] ELSE NoHit
      /\ UNCHANGED <<now, answers, answerFile, results, saving, puts, lastPut, gone, revived,
                     checkpoint, done, savedAt, cutOff>>
  BY DEF GetResult, answerVars, pastVars, resumeVars
<1>2. AnswersInv' /\ FileInv' /\ CacheTyped' /\ ResultsInv' /\ CheckpointInv'
  BY <1>1, AnswersRest DEF CacheInv, CacheTyped, ResultsInv, CheckpointInv
<1>3. HitsAreCurrent'
  <2>1. CASE k \in DOMAIN results /\ now - results[k].at < ToolTTL
    <3>1. hits' = [of |-> k, value |-> results[k].value, age |-> now - results[k].at]
      BY <1>1, <2>1
    <3>2. results[k].value = lastPut[k] /\ k \notin gone /\ results[k].at \in Nat
      BY <2>1 DEF CacheInv, ResultsInv
    <3>3. k \notin CachedPrompts /\ ToolTTL \in Nat /\ now \in Nat
      BY CacheFacts, CacheAssumption
    <3>4. now - results[k].at <= ToolTTL
      BY <2>1, <3>2, <3>3
    <3>5. hits'.of = k /\ hits'.value = results[k].value /\ hits'.age = now - results[k].at
      BY <3>1
    <3>6. QED
      BY <1>1, <3>2, <3>3, <3>4, <3>5 DEF HitsAreCurrent
  <2>2. CASE ~(k \in DOMAIN results /\ now - results[k].at < ToolTTL)
    BY <1>1, <2>2 DEF HitsAreCurrent
  <2>3. QED
    BY <2>1, <2>2
<1>4. QED
  BY <1>2, <1>3 DEF CacheInv

LEMMA PutResultStep == ASSUME CacheInv, NEW k \in ToolCalls, PutResult(k) PROVE CacheInv'
<1> DEFINE e == [value |-> puts', at |-> now]
<1>1. /\ puts' = puts + 1 /\ results' = With(results, k, e) /\ saving = "nothing"
      /\ lastPut' = [lastPut EXCEPT ![k] = puts'] /\ gone' = gone \ {k} /\ hits' = NoHit
      /\ UNCHANGED <<now, answers, answerFile, saving, revived, checkpoint, done, savedAt, cutOff>>
  BY DEF PutResult, Calling, answerVars, resumeVars
<1>2. e.value = puts' /\ e.at = now /\ puts' \in Nat
  BY <1>1, CacheFacts
<1> HIDE DEF e
<1>3. \A c \in CachedPrompts : lastPut'[c] = lastPut[c] /\ (c \in gone' => c \in gone)
  BY <1>1, CacheFacts
<1>4. AnswersInv' /\ FileInv'
  <2>1. \A es \in Seq(Answers) : \A a \in ToSet(es) : a.key \in CachedPrompts
    BY AnswerKeys
  <2>2. AnswersInv'
    BY <1>1, <1>3, <2>1 DEF CacheInv, AnswersInv, IsCache
  <2>3. FileInv'
    BY <1>1, <1>3, <2>1 DEF CacheInv, FileInv, IsCache
  <2>4. QED
    BY <2>2, <2>3
<1>5. CacheTyped' /\ CheckpointInv' /\ HitsAreCurrent'
  BY <1>1, <1>2, CacheFacts DEF CacheInv, CacheTyped, CheckpointInv, HitsAreCurrent
<1>6. ResultsInv'
  <2>1. DOMAIN results' = DOMAIN results \union {k} /\ results'[k] = e
        /\ \A c \in DOMAIN results : c # k => results'[c] = results[c]
    BY <1>1 DEF With
  <2>2. \A c \in DOMAIN results : c \in ToolCalls /\ c \in CacheKeys
    BY CacheFacts DEF CacheInv, ResultsInv
  <2>3. DOMAIN results' \subseteq ToolCalls
    BY <2>1, <2>2
  <2>4. ASSUME NEW c \in DOMAIN results'
        PROVE  /\ results'[c].value = lastPut'[c] /\ results'[c].at \in Nat
               /\ results'[c].at <= now /\ c \notin gone'
    <3>1. CASE c = k
      BY <1>1, <1>2, <2>1, <3>1, CacheFacts
    <3>2. CASE c # k
      <4>1. c \in DOMAIN results /\ results'[c] = results[c] /\ lastPut'[c] = lastPut[c]
        BY <1>1, <2>1, <2>2, <3>2, CacheFacts
      <4>2. QED
        BY <1>1, <3>2, <4>1 DEF CacheInv, ResultsInv
    <3>3. QED
      BY <3>1, <3>2
  <2>5. QED
    BY <1>1, <2>3, <2>4 DEF ResultsInv
<1>7. QED
  BY <1>4, <1>5, <1>6 DEF CacheInv

LEMMA DropResultsStep ==
  ASSUME CacheInv, NEW ks \in SUBSET ToolCalls, DropResults(ks) PROVE CacheInv'
<1>1. /\ results' = [k \in DOMAIN results \ ks |-> results[k]]
      /\ gone' = gone \union ks /\ hits' = NoHit
      /\ UNCHANGED <<now, answers, answerFile, saving, puts, lastPut, revived, checkpoint, done, savedAt, cutOff>>
  BY DEF DropResults, answerVars, resumeVars
<1>2. AnswersInv' /\ FileInv'
  BY <1>1, AnswersRest, CacheFacts
<1>3. CacheTyped' /\ CheckpointInv' /\ HitsAreCurrent'
  BY <1>1, CacheFacts DEF CacheInv, CacheTyped, CheckpointInv, HitsAreCurrent
<1>4. ResultsInv'
  BY <1>1 DEF CacheInv, ResultsInv
<1>5. QED
  BY <1>2, <1>3, <1>4 DEF CacheInv

(* The run, its checkpoint and their restarts touch nothing else. *)
LEMMA ResumeSteps ==
  ASSUME CacheInv, CompleteStep \/ SaveCheckpoint \/ WriteCheckpoint \/ Resume \/ ClearCheckpoint
  PROVE  CacheInv'
<1>1. /\ UNCHANGED <<now, answers, answerFile, results, puts, hits, lastPut, gone, revived>>
      /\ saving' = "answers" => saving = "answers"
  BY DEF CompleteStep, SaveCheckpoint, WriteCheckpoint, Resume, ClearCheckpoint, answerVars, pastVars, Calling
<1>2. done' \in Nat /\ CheckpointInv'
  <2>1. done \in Nat /\ CheckpointInv
    BY DEF CacheInv, CacheTyped
  <2>2. ResumedFrom \in Nat
    BY <2>1, CacheAssumption DEF CheckpointInv, ResumedFrom
  <2>3. CASE CompleteStep
    BY <2>1, <2>3 DEF CompleteStep, CheckpointInv
  <2>4. CASE SaveCheckpoint
    BY <2>1, <2>4 DEF SaveCheckpoint, CheckpointInv
  <2>5. CASE WriteCheckpoint
    BY <2>1, <2>5 DEF WriteCheckpoint, CheckpointInv
  <2>6. CASE Resume
    BY <2>1, <2>2, <2>6 DEF Resume, CheckpointInv
  <2>7. CASE ClearCheckpoint
    BY <2>1, <2>7 DEF ClearCheckpoint, CheckpointInv
  <2>8. QED
    BY <2>3, <2>4, <2>5, <2>6, <2>7
<1>3. AnswersInv' /\ FileInv'
  BY <1>1 DEF CacheInv, AnswersInv, FileInv, IsCache
<1>4. CacheTyped' /\ ResultsInv' /\ HitsAreCurrent'
  BY <1>1, <1>2 DEF CacheInv, CacheTyped, ResultsInv, HitsAreCurrent
<1>5. QED
  BY <1>2, <1>3, <1>4 DEF CacheInv

LEMMA WriteAnswersStep == ASSUME CacheInv, WriteAnswers PROVE CacheInv'
<1>1. /\ saving' = "nothing" /\ answerFile' = answers /\ revived' = {}
      /\ UNCHANGED <<now, answers, results, puts, hits, lastPut, gone, checkpoint, done, savedAt, cutOff>>
  BY DEF WriteAnswers, resumeVars
<1>2. AnswersInv' /\ FileInv'
  BY <1>1 DEF CacheInv, AnswersInv, FileInv, IsCache
<1>3. CacheTyped' /\ ResultsInv' /\ HitsAreCurrent' /\ CheckpointInv'
  BY <1>1 DEF CacheInv, CacheTyped, ResultsInv, HitsAreCurrent, CheckpointInv
<1>4. QED
  BY <1>2, <1>3 DEF CacheInv

(* A cache is a file that is there.                                        *)
LEMMA CacheFileIsThere == ASSUME NEW es, IsCache(es) PROVE es \notin {NoCacheFile, TornFile}
<1>1. es \in Seq(Answers) /\ Len(es) <= MaxEntries /\ MaxEntries \in Nat
  BY CacheAssumption DEF IsCache
<1>2. es \in [1..Len(es) -> Answers] /\ Len(es) \in 0..MaxEntries
  BY <1>1
<1>3. QED
  BY <1>2, CacheAssumption DEF Answers

LEMMA RestartStep == ASSUME CacheInv, RestartCaches PROVE CacheInv'
<1>1. /\ answers' = IF answerFile \in {NoCacheFile, TornFile} THEN << >> ELSE answerFile
      /\ results' = << >> /\ done' = 0 /\ saving' = "nothing" /\ hits' = NoHit
      /\ gone' = (gone \ revived) \union ToolCalls /\ revived' = {}
      /\ UNCHANGED <<now, answerFile, puts, lastPut, checkpoint, savedAt, cutOff>>
  BY DEF RestartCaches
<1>2. CacheTyped' /\ CheckpointInv' /\ HitsAreCurrent'
  BY <1>1, CacheFacts DEF CacheInv, CacheTyped, CheckpointInv, HitsAreCurrent
<1>3. ResultsInv'
  BY <1>1 DEF ResultsInv
<1>4. CASE answerFile \in {NoCacheFile, TornFile}
  <2>1. answers' = << >>
    BY <1>1, <1>4
  <2>2. AnswersInv' /\ FileInv'
    BY <1>1, <1>4, <2>1, EmptyCache DEF AnswersInv, FileInv, IsCache
  <2>3. QED
    BY <1>2, <1>3, <2>2 DEF CacheInv
<1>5. CASE answerFile \notin {NoCacheFile, TornFile}
  <2>1. answers' = answerFile
    BY <1>1, <1>5
  <2>2. IsCache(answerFile) /\ \A a \in ToSet(answerFile) : a.key \notin gone \ revived
    BY <1>5 DEF CacheInv, FileInv
  <2>3. \A a \in ToSet(answerFile) : a.key \in CachedPrompts
    BY <2>2, AnswerKeys DEF IsCache
  <2>4. \A a \in ToSet(answerFile) : a.key \notin gone'
    BY <1>1, <2>2, <2>3, CacheFacts
  <2>5. IsCache(answerFile)'
    BY <1>1, <2>2 DEF IsCache
  <2>6. AnswersInv' /\ FileInv'
    BY <1>1, <2>1, <2>4, <2>5 DEF AnswersInv, FileInv, IsCache
  <2>7. QED
    BY <1>2, <1>3, <2>6 DEF CacheInv
<1>6. QED
  BY <1>4, <1>5

LEMMA CacheStep ==
  ASSUME CacheInv, AnswerNext \/ ResultNext \/ ResumeNext PROVE CacheInv'
<1>1. CASE AnswerNext
  BY <1>1, CacheTimeStep, ClearAnswersStep, WriteAnswersStep, RestartStep, GetAnswerStep, PutAnswerStep, InvalidateStep
     DEF AnswerNext
<1>2. CASE ResultNext
  <2>1. DOMAIN results \in SUBSET ToolCalls
    BY DEF CacheInv, ResultsInv
  <2>2. \A k \in ToolCalls : {k} \in SUBSET ToolCalls
    OBVIOUS
  <2>3. QED
    BY <1>2, <2>1, <2>2, CacheTimeStep, RestartStep, DropResultsStep, GetResultStep, PutResultStep DEF ResultNext
<1>3. CASE ResumeNext
  BY <1>3, ResumeSteps, RestartStep DEF ResumeNext
<1>4. QED
  BY <1>1, <1>2, <1>3

LEMMA CachesSafe == ASSUME CacheInv PROVE CachesAreSound
<1>1. CacheIsBounded
  <2>1. saving = "answers" /\ answers # << >> => \E i \in DOMAIN answers : answers[i].value = puts
    BY DEF CacheInv, AnswersInv, ToSet
  <2>2. QED
    BY <2>1 DEF CacheInv, AnswersInv, IsCache, KeysDiffer, CacheIsBounded
<1>2. ResumeIsSafe
  BY CacheAssumption DEF CacheInv, CheckpointInv, ResumeIsSafe, ResumedFrom
<1>3. QED
  BY <1>1, <1>2 DEF CacheInv, CachesAreSound

-----------------------------------------------------------------------------
(* The tables in files (Registries): in memory, in the file or in the      *)
(* hands of a save.                                                        *)

-----------------------------------------------------------------------------
(* Shapes of the tables.                                                   *)
AnyKey   == SigningKeys \union {NoKey}
AllNames == Builtin \union OtherNames
NodeRecords == [id : NodeIds, gpu : BOOLEAN, can : Abilities]
VaultFiles == UNION {[names -> Nat] : names \in SUBSET SecretNames}

(* A save under way is of one of the files.                                *)
PendingInv ==
  /\ pending = [file |-> pending.file, text |-> pending.text]
  /\ pending.file = "none" => pending = Idle
  /\ pending.file \in {"none", "publishers", "nodes"} \union VaultPlugins
  /\ calls \in 0..MaxCalls

(* The publishers of this process and of the file.                         *)
TrustInv ==
  /\ Builtin \subseteq trusted /\ trusted \subseteq AllNames
  /\ publishers \in [trusted -> AnyKey]
  /\ pending.file = "publishers" => publisherFile = Cut /\ pending.text \in [trusted \ Builtin -> AnyKey]
  /\ pending.file # "publishers" =>
       \/ publisherFile \in {Missing, Cut} /\ trusted = Builtin
       \/ publisherFile \in [trusted \ Builtin -> AnyKey]

(* The nodes are those registered, once each, and the file has them.       *)
ClusterInv ==
  /\ nodes \in Seq(NodeRecords) /\ Len(nodes) <= calls
  /\ members = ToSet(nodes)
  /\ \A i, j \in DOMAIN nodes : nodes[i].id = nodes[j].id => i = j
  /\ pending.file = "nodes" => nodeFile = Cut /\ pending.text = nodes
  /\ pending.file # "nodes" => nodeFile = nodes \/ (nodeFile \in {Missing, Cut} /\ nodes = << >>)

(* The secrets of each plugin, or no file of them.                         *)
VaultInv ==
  /\ DOMAIN secretFile = VaultPlugins /\ DOMAIN secrets = VaultPlugins
  /\ \A p \in VaultPlugins :
       /\ secrets[p] \in VaultFiles
       /\ pending.file = p => secretFile[p] = Cut /\ pending.text = secrets[p]
       /\ pending.file # p => secretFile[p] = secrets[p] \/ (secretFile[p] \in {Missing, Cut} /\ secrets[p] = << >>)

RegistryInv == PendingInv /\ TrustInv /\ ClusterInv /\ VaultInv

(* A file that is there is none of those that are not. *)
LEMMA FilesAreThere ==
  /\ \A names \in SUBSET AllNames : \A t \in [names \ Builtin -> AnyKey] : t \notin {Missing, Cut}
  /\ \A t \in VaultFiles : t \notin {Missing, Cut}
  /\ \A ns \in Seq(NodeRecords) : Len(ns) <= MaxCalls => ns \notin {Missing, Cut}
<1>1. ASSUME NEW names \in SUBSET AllNames, NEW t \in [names \ Builtin -> AnyKey] PROVE t \notin {Missing, Cut}
  <2>1. names \ Builtin \in SUBSET OtherNames
    BY DEF AllNames
  <2>2. QED
    BY <2>1, RegistryAssumption DEF AnyKey
<1>2. ASSUME NEW t \in VaultFiles PROVE t \notin {Missing, Cut}
  BY RegistryAssumption DEF VaultFiles
<1>3. ASSUME NEW ns \in Seq(NodeRecords), Len(ns) <= MaxCalls PROVE ns \notin {Missing, Cut}
  <2>1. ns \in [1..Len(ns) -> NodeRecords] /\ Len(ns) \in 0..MaxCalls
    BY <1>3, RegistryAssumption
  <2>2. QED
    BY <2>1, RegistryAssumption DEF NodeRecords
<1>4. QED
  BY <1>1, <1>2, <1>3

(* No plugin has the name of another file.                                 *)
LEMMA TokensDiffer ==
  /\ "publishers" \notin VaultPlugins /\ "nodes" \notin VaultPlugins /\ "none" \notin VaultPlugins
  BY RegistryAssumption

(* A table without entries is a table.                                     *)
LEMMA EmptyTable ==
  << >> \in VaultFiles /\ DOMAIN << >> = {} /\ << >> \in Seq(NodeRecords)
<1>1. << >> \in [{} -> Nat]
  OBVIOUS
<1>2. {} \in SUBSET SecretNames
  OBVIOUS
<1>3. << >> \in VaultFiles
  BY <1>1, <1>2 DEF VaultFiles
<1>4. QED
  BY <1>3

LEMMA RegistryInitially == ASSUME RegistryInit PROVE RegistryInv
<1>1. PendingInv
  BY RegistryAssumption DEF RegistryInit, PendingInv, Idle
<1>2. pending.file = "none"
  BY DEF RegistryInit, Idle
<1>3. TrustInv
  BY <1>2 DEF RegistryInit, TrustInv, BuiltinTrust, AnyKey, AllNames
<1>4. ClusterInv
  <2>1. ToSet(<< >>) = {} /\ Len(<< >>) = 0
    BY EmptyTable DEF ToSet
  <2>2. QED
    BY <1>2, <2>1, EmptyTable DEF RegistryInit, ClusterInv
<1>5. VaultInv
  BY <1>2, EmptyTable, TokensDiffer DEF RegistryInit, VaultInv
<1>6. QED
  BY <1>1, <1>3, <1>4, <1>5 DEF RegistryInv

LEMMA RegistryRests == ASSUME RegistryInv, UNCHANGED registryVars PROVE RegistryInv'
<1>1. UNCHANGED <<publishers, publisherFile, trusted, nodes, nodeFile, members, secretFile, secrets, pending, calls>>
  BY DEF registryVars, publisherVars, nodeVars, secretVars
<1>2. QED
  BY <1>1 DEF RegistryInv, PendingInv, TrustInv, ClusterInv, VaultInv

(* A call that changes one table leaves the invariants of the others.      *)
LEMMA CallBegins ==
  ASSUME RegistryInv, Call
  PROVE  /\ pending = Idle /\ pending.file = "none" /\ calls' = calls + 1 /\ calls' \in 0..MaxCalls
         /\ calls \in Nat
  BY RegistryAssumption DEF RegistryInv, PendingInv, Call, Idle

LEMMA NodesRest ==
  ASSUME RegistryInv, Call, UNCHANGED nodeVars, pending'.file # "nodes" PROVE ClusterInv'
<1>1. pending.file # "nodes" /\ calls <= calls' /\ calls \in Nat /\ calls' \in Nat
  BY CallBegins
<1>2. ClusterInv /\ Len(nodes) \in Nat
  BY DEF RegistryInv, ClusterInv
<1>3. QED
  BY <1>1, <1>2 DEF ClusterInv, nodeVars

LEMMA TrustRests ==
  ASSUME RegistryInv, Call, UNCHANGED publisherVars, pending'.file # "publishers" PROVE TrustInv'
<1>1. pending.file # "publishers"
  BY CallBegins
<1>2. QED
  BY <1>1 DEF RegistryInv, TrustInv, publisherVars

LEMMA VaultsRest ==
  ASSUME RegistryInv, Call, UNCHANGED secretVars, pending'.file \notin VaultPlugins PROVE VaultInv'
<1>1. pending.file \notin VaultPlugins
  BY CallBegins, TokensDiffer
<1>2. QED
  BY <1>1 DEF RegistryInv, VaultInv, secretVars

(* A save of the publishers.                                               *)
LEMMA SavePublishersStep ==
  ASSUME RegistryInv, Call, NEW p, SavePublishers(p), UNCHANGED <<nodeVars, secretVars>>,
         trusted' = DOMAIN p, Builtin \subseteq DOMAIN p, DOMAIN p \subseteq AllNames, p \in [DOMAIN p -> AnyKey]
  PROVE  RegistryInv'
<1>1. /\ publishers' = p /\ publisherFile' = Cut
      /\ pending' = [file |-> "publishers", text |-> [n \in DOMAIN p \ Builtin |-> p[n]]]
  BY DEF SavePublishers
<1>2. pending'.file = "publishers" /\ pending'.text = [n \in DOMAIN p \ Builtin |-> p[n]]
  BY <1>1
<1>3. pending'.text \in [DOMAIN p \ Builtin -> AnyKey]
  BY <1>2
<1>4. TrustInv'
  BY <1>1, <1>2, <1>3 DEF TrustInv
<1>5. PendingInv'
  BY <1>1, <1>2, CallBegins DEF PendingInv
<1>6. ClusterInv'
  BY <1>2, NodesRest
<1>7. VaultInv'
  BY <1>2, VaultsRest, TokensDiffer
<1>8. QED
  BY <1>4, <1>5, <1>6, <1>7 DEF RegistryInv

LEMMA PublisherCalls ==
  ASSUME RegistryInv, NEW n \in AllNames, NEW k \in AnyKey,
         RemoveTrusted(n) \/ AddTrusted(n, k) \/ VerifyPublisher(n, k)
  PROVE  RegistryInv'
<1>1. /\ Builtin \subseteq trusted /\ trusted \subseteq AllNames /\ publishers \in [trusted -> AnyKey]
      /\ DOMAIN publishers = trusted
  BY DEF RegistryInv, TrustInv
<1>2. CASE RemoveTrusted(n)
  <2> DEFINE p == Drop(publishers, n)
  <2>1. /\ Call /\ n \notin Builtin /\ SavePublishers(p) /\ trusted' = trusted \ {n}
        /\ UNCHANGED <<nodeVars, secretVars>>
    BY <1>2 DEF RemoveTrusted
  <2>2. DOMAIN p = trusted \ {n} /\ p \in [DOMAIN p -> AnyKey]
    BY <1>1 DEF Drop
  <2> HIDE DEF p
  <2>3. QED
    BY <1>1, <2>1, <2>2, SavePublishersStep
<1>3. CASE AddTrusted(n, k)
  <2> DEFINE p == With(publishers, n, k)
  <2>1. /\ Call /\ SavePublishers(p) /\ trusted' = trusted \union {n}
        /\ UNCHANGED <<nodeVars, secretVars>>
    BY <1>3 DEF AddTrusted
  <2>2. DOMAIN p = trusted \union {n} /\ p \in [DOMAIN p -> AnyKey]
    BY <1>1 DEF With
  <2> HIDE DEF p
  <2>3. QED
    BY <1>1, <2>1, <2>2, SavePublishersStep
<1>4. CASE VerifyPublisher(n, k)
  <2>1. Call /\ SavePublishers(publishers) /\ UNCHANGED <<trusted, nodeVars, secretVars>>
    BY <1>4 DEF VerifyPublisher
  <2>2. QED
    BY <1>1, <2>1, SavePublishersStep
<1>5. QED
  BY <1>2, <1>3, <1>4

LEMMA SaveNodesStep ==
  ASSUME RegistryInv, Call, NEW ns \in Seq(NodeRecords), SaveNodes(ns), UNCHANGED <<publisherVars, secretVars>>,
         Len(ns) <= Len(nodes) + 1, members' = ToSet(ns),
         \A i, j \in DOMAIN ns : ns[i].id = ns[j].id => i = j
  PROVE  RegistryInv'
<1>1. nodes' = ns /\ nodeFile' = Cut /\ pending' = [file |-> "nodes", text |-> ns]
  BY DEF SaveNodes
<1>2. pending'.file = "nodes" /\ pending'.text = ns
  BY <1>1
<1>3. Len(ns) <= calls'
  <2>1. Len(nodes) \in Nat /\ Len(ns) \in Nat /\ Len(nodes) <= calls
    BY DEF RegistryInv, ClusterInv
  <2>2. QED
    BY <2>1, CallBegins
<1>4. ClusterInv'
  BY <1>1, <1>2, <1>3 DEF ClusterInv
<1>5. PendingInv'
  BY <1>1, <1>2, CallBegins DEF PendingInv
<1>6. TrustInv'
  BY <1>2, TrustRests
<1>7. VaultInv'
  BY <1>2, VaultsRest, TokensDiffer
<1>8. QED
  BY <1>4, <1>5, <1>6, <1>7 DEF RegistryInv

(* The nodes at the places that are kept.                                  *)
LEMMA NodesChosen ==
  ASSUME RegistryInv, NEW P
  PROVE  \E e \in [DOMAIN Only(nodes, P) -> P \intersect DOMAIN nodes] :
              /\ \A k \in DOMAIN Only(nodes, P) : Only(nodes, P)[k] = nodes[e[k]]
              /\ \A k, m \in DOMAIN Only(nodes, P) : k < m => e[k] < e[m]
              /\ \A i \in P \intersect DOMAIN nodes : \E k \in DOMAIN Only(nodes, P) : e[k] = i
<1>1. nodes \in Seq(NodeRecords)
  BY DEF RegistryInv, ClusterInv
<1>2. QED
  BY <1>1, OnlyHolds

LEMMA RegisterStep ==
  ASSUME RegistryInv, NEW node \in NodeRecords, RegisterNode(node) PROVE RegistryInv'
<1> DEFINE at == {i \in DOMAIN nodes : nodes[i].id = node.id}
           ns == IF at = {} THEN Append(nodes, node)
                 ELSE [i \in DOMAIN nodes |-> IF i \in at THEN node ELSE nodes[i]]
<1>1. /\ Call /\ SaveNodes(ns) /\ UNCHANGED <<publisherVars, secretVars>>
      /\ members' = {m \in members : m.id # node.id} \union {node}
  BY DEF RegisterNode
<1>2. /\ nodes \in Seq(NodeRecords) /\ members = ToSet(nodes) /\ Len(nodes) \in Nat
      /\ DOMAIN nodes = 1..Len(nodes)
      /\ \A i, j \in DOMAIN nodes : nodes[i].id = nodes[j].id => i = j
  BY DEF RegistryInv, ClusterInv
<1>3. CASE at = {}
  <2> DEFINE s == Append(nodes, node)
  <2>1. /\ s \in Seq(NodeRecords) /\ Len(s) = Len(nodes) + 1 /\ DOMAIN s = 1..(Len(nodes) + 1)
        /\ s[Len(nodes) + 1] = node /\ \A i \in DOMAIN nodes : s[i] = nodes[i]
    BY <1>2
  <2>2. ns = s
    BY <1>3
  <2>3. \A i \in DOMAIN nodes : nodes[i].id # node.id
    BY <1>3
  <2> HIDE DEF s, ns, at
  <2>4. \A i \in DOMAIN s : i = Len(nodes) + 1 \/ i \in DOMAIN nodes
    BY <1>2, <2>1
  <2>5. \A i, j \in DOMAIN s : s[i].id = s[j].id => i = j
    BY <1>2, <2>1, <2>3, <2>4
  <2>6. members' = ToSet(s)
    <3>1. ToSet(s) = ToSet(nodes) \union {node}
      BY <1>2, <2>1, <2>4 DEF ToSet
    <3>2. \A m \in members : m.id # node.id
      BY <1>2, <2>3 DEF ToSet
    <3>3. QED
      BY <1>1, <1>2, <3>1, <3>2
  <2>7. QED
    BY <1>1, <2>1, <2>2, <2>5, <2>6, SaveNodesStep
<1>4. CASE at # {}
  <2> HIDE DEF at
  <2>1. ns = [i \in DOMAIN nodes |-> IF i \in at THEN node ELSE nodes[i]]
    BY <1>4
  <2> HIDE DEF ns
  <2> USE DEF at
  <2>2. DOMAIN ns = DOMAIN nodes /\ \A i \in DOMAIN nodes : ns[i].id = nodes[i].id /\ ns[i] \in NodeRecords
    BY <1>2, <2>1
  <2>3. ns \in Seq(NodeRecords) /\ Len(ns) = Len(nodes)
    BY <1>2, <2>1, <2>2
  <2>4. \A i, j \in DOMAIN ns : ns[i].id = ns[j].id => i = j
    BY <1>2, <2>2
  <2>5. members' = ToSet(ns)
    <3>1. \A i \in DOMAIN nodes : ns[i] = IF nodes[i].id = node.id THEN node ELSE nodes[i]
      BY <2>1
    <3>2. PICK i \in DOMAIN nodes : nodes[i].id = node.id
      BY <1>4
    <3>3. QED
      BY <1>1, <1>2, <2>2, <3>1, <3>2 DEF ToSet
  <2> HIDE DEF at
  <2>6. Len(ns) <= Len(nodes) + 1
    BY <1>2, <2>3
  <2>7. QED
    BY <1>1, <2>3, <2>4, <2>5, <2>6, SaveNodesStep DEF ns
<1>5. QED
  BY <1>3, <1>4

LEMMA DeregisterStep ==
  ASSUME RegistryInv, NEW id, DeregisterNode(id) PROVE RegistryInv'
<1> DEFINE others == {i \in DOMAIN nodes : nodes[i].id # id}
           x == Only(nodes, others)
<1>1. /\ Call /\ SaveNodes(x) /\ UNCHANGED <<publisherVars, secretVars>>
      /\ members' = {m \in members : m.id # id}
  BY DEF DeregisterNode, Others
<1>2. /\ nodes \in Seq(NodeRecords) /\ members = ToSet(nodes)
      /\ \A i, j \in DOMAIN nodes : nodes[i].id = nodes[j].id => i = j
  BY DEF RegistryInv, ClusterInv
<1>3. x \in Seq(NodeRecords) /\ Len(x) <= Len(nodes)
  BY <1>2, OnlyHolds
<1> HIDE DEF others
<1>4. PICK e \in [DOMAIN x -> others \intersect DOMAIN nodes] :
         /\ \A k \in DOMAIN x : x[k] = nodes[e[k]]
         /\ \A k, m \in DOMAIN x : k < m => e[k] < e[m]
         /\ \A i \in others \intersect DOMAIN nodes : \E k \in DOMAIN x : e[k] = i
  BY NodesChosen
<1> HIDE DEF x
<1> USE DEF others
<1>5. DOMAIN x = 1..Len(x) /\ DOMAIN nodes = 1..Len(nodes) /\ Len(x) \in Nat /\ Len(nodes) \in Nat
  BY <1>2, <1>3
<1>6. \A i, j \in DOMAIN x : x[i].id = x[j].id => i = j
  <2>1. ASSUME NEW i \in DOMAIN x, NEW j \in DOMAIN x, x[i].id = x[j].id PROVE i = j
    <3>1. e[i] = e[j] /\ e[i] \in Int /\ e[j] \in Int
      BY <1>2, <1>4, <1>5, <2>1
    <3>2. ~(i < j) /\ ~(j < i)
      BY <1>4, <3>1
    <3>3. QED
      BY <1>5, <3>2
  <2>2. QED
    BY <2>1
<1>7. members' = ToSet(x)
  BY <1>1, <1>2, <1>4 DEF ToSet
<1>8. Len(x) <= Len(nodes) + 1
  BY <1>3, <1>5
<1>9. QED
  BY <1>1, <1>3, <1>6, <1>7, <1>8, SaveNodesStep

LEMMA SecretsRead ==
  ASSUME RegistryInv, pending = Idle, NEW p \in VaultPlugins PROVE Secrets(p) = secrets[p]
<1>1. pending.file # p
  BY TokensDiffer DEF Idle
<1>2. secrets[p] \in VaultFiles
  BY DEF RegistryInv, VaultInv
<1>3. QED
  BY <1>1, <1>2, FilesAreThere DEF RegistryInv, VaultInv, Secrets, Content

LEMMA SaveSecretsStep ==
  ASSUME RegistryInv, Call, NEW p \in VaultPlugins, NEW s \in VaultFiles, SaveSecrets(p, s),
         secrets' = [secrets EXCEPT ![p] = s]
  PROVE  RegistryInv'
<1>1. /\ secretFile' = [secretFile EXCEPT ![p] = Cut] /\ pending' = [file |-> p, text |-> s]
      /\ UNCHANGED <<publisherVars, nodeVars>>
  BY DEF SaveSecrets
<1>2. pending'.file = p /\ pending'.text = s
  BY <1>1
<1>3. VaultInv'
  <2>1. VaultInv /\ pending.file = "none"
    BY CallBegins DEF RegistryInv
  <2>2. ASSUME NEW q \in VaultPlugins
        PROVE  /\ secrets'[q] \in VaultFiles
               /\ pending'.file = q => secretFile'[q] = Cut /\ pending'.text = secrets'[q]
               /\ pending'.file # q => secretFile'[q] = secrets'[q] \/ (secretFile'[q] \in {Missing, Cut} /\ secrets'[q] = << >>)
    BY <1>1, <1>2, <2>1, TokensDiffer DEF VaultInv
  <2>3. QED
    BY <1>1, <2>1, <2>2 DEF VaultInv
<1>4. PendingInv'
  BY <1>1, <1>2, CallBegins, TokensDiffer DEF PendingInv
<1>5. TrustInv'
  BY <1>1, <1>2, TrustRests, TokensDiffer
<1>6. ClusterInv'
  BY <1>1, <1>2, NodesRest, TokensDiffer
<1>7. QED
  BY <1>3, <1>4, <1>5, <1>6 DEF RegistryInv

LEMMA SecretCalls ==
  ASSUME RegistryInv, NEW p \in VaultPlugins, NEW s \in SecretNames,
         StoreSecret(p, s) \/ DeleteSecret(p, s)
  PROVE  RegistryInv'
<1>1. PICK names \in SUBSET SecretNames : secrets[p] \in [names -> Nat]
  BY DEF RegistryInv, VaultInv, VaultFiles
<1>2. CASE StoreSecret(p, s)
  <2> DEFINE t == With(secrets[p], s, calls')
  <2>1. Call
    BY <1>2 DEF StoreSecret
  <2>2. Secrets(p) = secrets[p] /\ calls' \in Nat
    BY <2>1, SecretsRead, CallBegins DEF Call
  <2>3. t \in [names \union {s} -> Nat]
    BY <1>1, <2>2 DEF With
  <2>4. t \in VaultFiles
    BY <2>3 DEF VaultFiles
  <2>5. SaveSecrets(p, t) /\ secrets' = [secrets EXCEPT ![p] = t]
    BY <1>2, <2>2 DEF StoreSecret
  <2> HIDE DEF t
  <2>6. QED
    BY <2>1, <2>4, <2>5, SaveSecretsStep
<1>3. CASE DeleteSecret(p, s)
  <2> DEFINE t == Drop(secrets[p], s)
  <2>1. Call
    BY <1>3 DEF DeleteSecret
  <2>2. Secrets(p) = secrets[p]
    BY <2>1, SecretsRead DEF Call
  <2>3. t \in [names \ {s} -> Nat]
    BY <1>1 DEF Drop
  <2>4. t \in VaultFiles
    BY <2>3 DEF VaultFiles
  <2>5. SaveSecrets(p, t) /\ secrets' = [secrets EXCEPT ![p] = t]
    BY <1>3, <2>2 DEF DeleteSecret
  <2> HIDE DEF t
  <2>6. QED
    BY <2>1, <2>4, <2>5, SaveSecretsStep
<1>4. QED
  BY <1>2, <1>3

LEMMA VaultIsDeleted == ASSUME RegistryInv, NEW p \in VaultPlugins, DeleteVault(p) PROVE RegistryInv'
<1>1. /\ Call /\ secretFile' = [secretFile EXCEPT ![p] = Missing]
      /\ secrets' = [secrets EXCEPT ![p] = << >>]
      /\ UNCHANGED <<publisherVars, nodeVars, pending>>
  BY DEF DeleteVault
<1>2. pending = Idle /\ pending' = Idle /\ pending'.file = "none" /\ VaultInv /\ PendingInv /\ calls' \in 0..MaxCalls
  BY <1>1, CallBegins DEF RegistryInv
<1>3. VaultInv'
  <2>1. ASSUME NEW q \in VaultPlugins
        PROVE  /\ secrets'[q] \in VaultFiles /\ pending'.file # q
               /\ secretFile'[q] = secrets'[q] \/ (secretFile'[q] \in {Missing, Cut} /\ secrets'[q] = << >>)
    BY <1>1, <1>2, EmptyTable, TokensDiffer DEF VaultInv
  <2>2. QED
    BY <1>1, <1>2, <2>1 DEF VaultInv
<1>4. PendingInv'
  BY <1>1, <1>2 DEF PendingInv
<1>5. TrustInv' /\ ClusterInv'
  BY <1>1, <1>2, TrustRests, NodesRest
<1>6. QED
  BY <1>3, <1>4, <1>5 DEF RegistryInv

LEMMA WriteStep == ASSUME RegistryInv, WriteFile PROVE RegistryInv'
<1>1. /\ pending # Idle /\ pending' = Idle
      /\ publisherFile' = IF pending.file = "publishers" THEN pending.text ELSE publisherFile
      /\ nodeFile' = IF pending.file = "nodes" THEN pending.text ELSE nodeFile
      /\ secretFile' = [p \in VaultPlugins |-> IF pending.file = p THEN pending.text ELSE secretFile[p]]
      /\ UNCHANGED <<publishers, trusted, nodes, members, secrets, calls>>
  BY DEF WriteFile
<1>2. pending'.file = "none"
  BY <1>1 DEF Idle
<1>3. PendingInv'
  BY <1>1, <1>2 DEF RegistryInv, PendingInv, Idle
<1>4. TrustInv'
  <2>1. CASE pending.file = "publishers"
    <3>1. publisherFile' = pending.text
      BY <1>1, <2>1
    <3>2. QED
      BY <1>1, <1>2, <2>1, <3>1 DEF RegistryInv, TrustInv
  <2>2. CASE pending.file # "publishers"
    <3>1. publisherFile' = publisherFile
      BY <1>1, <2>2
    <3>2. QED
      BY <1>1, <1>2, <2>2, <3>1 DEF RegistryInv, TrustInv
  <2>3. QED
    BY <2>1, <2>2
<1>5. ClusterInv'
  <2>0. ClusterInv /\ UNCHANGED <<nodes, members, calls>>
    BY <1>1 DEF RegistryInv
  <2>1. CASE pending.file = "nodes"
    <3>1. nodeFile' = pending.text
      BY <1>1, <2>1
    <3>2. QED
      BY <1>2, <2>0, <2>1, <3>1 DEF ClusterInv
  <2>2. CASE pending.file # "nodes"
    <3>1. nodeFile' = nodeFile
      BY <1>1, <2>2
    <3>2. QED
      BY <1>2, <2>0, <2>2, <3>1 DEF ClusterInv
  <2>3. QED
    BY <2>1, <2>2
<1>6. VaultInv'
  <2>1. VaultInv /\ UNCHANGED secrets /\ DOMAIN secretFile' = VaultPlugins
    BY <1>1 DEF RegistryInv
  <2>2. ASSUME NEW p \in VaultPlugins
        PROVE  secretFile'[p] = secrets[p] \/ (secretFile'[p] \in {Missing, Cut} /\ secrets[p] = << >>)
    <3>1. secretFile'[p] = IF pending.file = p THEN pending.text ELSE secretFile[p]
      BY <1>1
    <3>2. CASE pending.file = p
      BY <2>1, <3>1, <3>2 DEF VaultInv
    <3>3. CASE pending.file # p
      BY <2>1, <3>1, <3>3 DEF VaultInv
    <3>4. QED
      BY <3>2, <3>3
  <2>3. \A p \in VaultPlugins : pending'.file # p
    BY <1>2, TokensDiffer
  <2>4. QED
    BY <2>1, <2>2, <2>3 DEF VaultInv
<1>7. QED
  BY <1>3, <1>4, <1>5, <1>6 DEF RegistryInv

LEMMA ProcessStep == ASSUME RegistryInv, NewProcess PROVE RegistryInv'
<1>1. /\ pending' = Idle
      /\ publishers' = Over(Content(publisherFile, << >>), BuiltinTrust)
      /\ trusted' = IF publisherFile = Cut THEN Builtin ELSE trusted
      /\ nodes' = Content(nodeFile, << >>)
      /\ members' = IF nodeFile = Cut THEN {} ELSE members
      /\ secrets' = [p \in VaultPlugins |-> IF secretFile[p] = Cut THEN << >> ELSE secrets[p]]
      /\ UNCHANGED <<publisherFile, nodeFile, secretFile, calls>>
  BY DEF NewProcess
<1>2. pending'.file = "none"
  BY <1>1 DEF Idle
<1>3. PendingInv'
  BY <1>1, <1>2 DEF RegistryInv, PendingInv, Idle
<1>4. TrustInv'
  <2>1. CASE publisherFile \in {Missing, Cut}
    <3>1. trusted' = Builtin
      <4>1. \A t \in [trusted \ Builtin -> AnyKey] : t \notin {Missing, Cut}
        <5>1. trusted \in SUBSET AllNames
          BY DEF RegistryInv, TrustInv
        <5>2. QED
          BY <5>1, FilesAreThere
      <4>2. publisherFile = Cut \/ trusted = Builtin
        BY <2>1, <4>1 DEF RegistryInv, TrustInv
      <4>3. QED
        BY <1>1, <4>2
    <3>2. publishers' = BuiltinTrust
      BY <1>1, <2>1, EmptyTable DEF Content, Over, BuiltinTrust
    <3>3. QED
      BY <1>1, <1>2, <2>1, <3>1, <3>2 DEF TrustInv, BuiltinTrust, AnyKey, AllNames
  <2>2. CASE publisherFile \notin {Missing, Cut}
    <3>1. publisherFile \in [trusted \ Builtin -> AnyKey] /\ Builtin \subseteq trusted /\ trusted \subseteq AllNames
      BY <2>2 DEF RegistryInv, TrustInv
    <3>2. publishers' = Over(publisherFile, BuiltinTrust) /\ trusted' = trusted
      BY <1>1, <2>2 DEF Content
    <3>3. publishers' \in [trusted -> AnyKey]
      <4>1. DOMAIN publisherFile \union Builtin = trusted
        BY <3>1
      <4>2. \A n \in trusted : (IF n \in DOMAIN publisherFile THEN publisherFile[n] ELSE BuiltinTrust[n]) \in AnyKey
        BY <3>1 DEF BuiltinTrust, AnyKey
      <4>3. QED
        BY <3>2, <4>1, <4>2 DEF Over, BuiltinTrust
    <3>4. QED
      BY <1>1, <1>2, <3>1, <3>2, <3>3 DEF TrustInv
  <2>3. QED
    BY <2>1, <2>2
<1>5. ClusterInv'
  <2>1. ToSet(<< >>) = {} /\ Len(<< >>) = 0 /\ calls \in Nat /\ Len(nodes) <= MaxCalls
    <3>1. calls \in 0..MaxCalls /\ Len(nodes) \in Nat /\ Len(nodes) <= calls /\ MaxCalls \in Nat
      BY RegistryAssumption DEF RegistryInv, PendingInv, ClusterInv
    <3>2. QED
      BY <3>1, EmptyTable DEF ToSet
  <2>2. CASE nodeFile \in {Missing, Cut}
    <3>1. nodes' = << >>
      BY <1>1, <2>2 DEF Content
    <3>2. members' = {}
      <4>1. nodes \notin {Missing, Cut}
        BY <2>1, FilesAreThere DEF RegistryInv, ClusterInv
      <4>2. nodeFile = Cut \/ nodes = << >>
        BY <2>2, <4>1 DEF RegistryInv, ClusterInv
      <4>3. nodeFile = Cut \/ members = {}
        BY <2>1, <4>2 DEF RegistryInv, ClusterInv
      <4>4. QED
        BY <1>1, <4>3
    <3>3. QED
      <4>1. nodeFile' \in {Missing, Cut} /\ calls' = calls /\ pending'.file # "nodes"
        BY <1>1, <1>2, <2>2
      <4>2. nodes' \in Seq(NodeRecords) /\ Len(nodes') <= calls' /\ members' = ToSet(nodes') /\ DOMAIN nodes' = {}
        BY <2>1, <3>1, <3>2, <4>1, EmptyTable
      <4>3. QED
        BY <3>1, <4>1, <4>2 DEF ClusterInv
  <2>3. CASE nodeFile \notin {Missing, Cut}
    <3>1. nodeFile = nodes /\ ClusterInv
      BY <2>3 DEF RegistryInv, ClusterInv
    <3>2. nodes' = nodes /\ members' = members
      BY <1>1, <2>3, <3>1 DEF Content
    <3>3. nodeFile' = nodeFile /\ calls' = calls
      BY <1>1
    <3>4. QED
      BY <1>2, <3>1, <3>2, <3>3, TokensDiffer, SMTT(30) DEF ClusterInv
  <2>4. QED
    BY <2>2, <2>3
<1>6. VaultInv'
  BY <1>1, <1>2, EmptyTable, TokensDiffer DEF RegistryInv, VaultInv
<1>7. QED
  BY <1>3, <1>4, <1>5, <1>6 DEF RegistryInv

LEMMA RegistryStep ==
  ASSUME RegistryInv, PublisherNext \/ NodeNext \/ SecretNext PROVE RegistryInv'
<1>1. CASE PublisherNext
  <2>1. \A n \in AllNames, k \in AnyKey : RemoveTrusted(n) \/ AddTrusted(n, k) \/ VerifyPublisher(n, k) => RegistryInv'
    BY PublisherCalls
  <2>2. NoKey \in AnyKey
    BY DEF AnyKey
  <2>3. QED
    BY <1>1, <2>1, <2>2, WriteStep, ProcessStep DEF PublisherNext, AllNames, AnyKey
<1>2. CASE NodeNext
  <2>1. \A id \in NodeIds, gpu \in BOOLEAN, can \in Abilities :
          [id |-> id, gpu |-> gpu, can |-> can] \in NodeRecords
    BY DEF NodeRecords
  <2>2. QED
    BY <1>2, <2>1, RegisterStep, DeregisterStep, WriteStep, ProcessStep DEF NodeNext
<1>3. CASE SecretNext
  <2>1. \A p \in VaultPlugins, s \in SecretNames : StoreSecret(p, s) \/ DeleteSecret(p, s) => RegistryInv'
    BY SecretCalls
  <2>2. \A p \in VaultPlugins : DeleteVault(p) => RegistryInv'
    BY VaultIsDeleted
  <2>3. QED
    BY <1>3, <2>1, <2>2, WriteStep, ProcessStep DEF SecretNext
<1>4. QED
  BY <1>1, <1>2, <1>3

LEMMA RegistrySafe == ASSUME RegistryInv PROVE RegistriesAreSound
<1>1. TrustIsKept
  BY DEF RegistryInv, TrustInv, TrustIsKept, IsTrusted, AllNames
<1>2. NodesAreFound
  <2>1. ASSUME NEW gpu \in BOOLEAN, NEW need \in {{}} \union Abilities
        PROVE  Range(Schedule(gpu, need)) = {m \in members : Fits(m, gpu, need)}
    <3> DEFINE P == {i \in DOMAIN nodes : Fits(nodes[i], gpu, need)}
               x == Only(nodes, P)
    <3>1. nodes \in Seq(NodeRecords) /\ members = ToSet(nodes)
      BY DEF RegistryInv, ClusterInv
    <3> HIDE DEF P
    <3>2. PICK e \in [DOMAIN x -> P \intersect DOMAIN nodes] :
            /\ \A k \in DOMAIN x : x[k] = nodes[e[k]]
            /\ \A k, m \in DOMAIN x : k < m => e[k] < e[m]
            /\ \A i \in P \intersect DOMAIN nodes : \E k \in DOMAIN x : e[k] = i
      BY NodesChosen
    <3>3. Schedule(gpu, need) = x
      BY DEF Schedule, P
    <3> HIDE DEF x
    <3> USE DEF P
    <3>4. Range(x) = {nodes[i] : i \in P}
      BY <3>2 DEF Range
    <3>5. {nodes[i] : i \in P} = {m \in ToSet(nodes) : Fits(m, gpu, need)}
      BY DEF ToSet
    <3>6. QED
      BY <3>1, <3>3, <3>4, <3>5
  <2>2. QED
    BY <2>1 DEF NodesAreFound
<1>3. SecretsAreKept
  BY SecretsRead DEF SecretsAreKept
<1>4. QED
  BY <1>1, <1>2, <1>3 DEF RegistriesAreSound

-----------------------------------------------------------------------------
(* Memories in their tiers (MemoryTiers).                                  *)

-----------------------------------------------------------------------------
(* What an importance stays while it decays.                               *)
IsNumber(base, s, n, x) == x \in Nat

Decaying == INSTANCE FoldFacts WITH Op <- Halve, Holds <- IsNumber

(* The decay is a fold of Halve over the half-lives that passed.           *)
LEMMA DecayIsFold ==
  ASSUME NEW m
  PROVE  Decayed(m) = Decaying!Folded(importance[m], [k \in 1..(halfLife - lastAccessed[m]) |-> k])
  BY DEF Decayed, Decaying!Folded, Decaying!FoldLeft, FoldLeft, MapThenFoldSet, Decaying!MapThenFoldSet, Max, Decaying!Max

(* What decays is a number, and what was accessed just now has not decayed. *)
LEMMA DecayCounts ==
  ASSUME NEW m, importance[m] \in Nat, halfLife \in Nat, lastAccessed[m] \in Nat, lastAccessed[m] <= halfLife
  PROVE  Decayed(m) \in Nat /\ (lastAccessed[m] = halfLife => Decayed(m) = importance[m])
<1> DEFINE idle == halfLife - lastAccessed[m]
           s == [k \in 1..idle |-> k]
<1>1. idle \in Nat /\ (lastAccessed[m] = halfLife <=> idle = 0)
  OBVIOUS
<1>2. Decayed(m) = Decaying!Folded(importance[m], s)
  BY DecayIsFold
<1>3. s \in Seq(Nat) /\ Len(s) = idle
  BY <1>1
<1> HIDE DEF s
<1>4. Decayed(m) \in Nat
  <2>1. \A n \in 1..Len(s) : \A x : x \in Nat => Halve(x, s[n]) \in Nat
    BY DEF Halve
  <2>2. Decaying!Folded(importance[m], s) \in Nat
    BY <1>3, <2>1, Decaying!FoldKeeps DEF IsNumber
  <2>3. QED
    BY <1>2, <2>2
<1>5. ASSUME idle = 0 PROVE Decayed(m) = importance[m]
  <2>1. s = << >>
    BY <1>3, <1>5
  <2>2. QED
    BY <1>2, <2>1, Decaying!FoldEmpty
<1>6. QED
  BY <1>1, <1>4, <1>5

(* Types of the tiers.                                                     *)
TiersTyped ==
  /\ shortTerm \in Seq(Memories) /\ longTerm \subseteq Memories /\ episodic \subseteq Memories
  /\ importance \in [Memories -> Nat] /\ lastAccessed \in [Memories -> Nat] /\ halfLife \in Nat
  /\ \A m \in Memories : lastAccessed[m] <= halfLife

(* A memory is in one tier, once, and the first tier within its limit.     *)
Placed ==
  /\ Distinct(shortTerm) /\ Len(shortTerm) <= ShortLimit
  /\ Short \intersect (longTerm \union episodic) = {} /\ longTerm \intersect episodic = {}

(* What was accessed in this half-life, in short-term or long-term memory, *)
(* is not unimportant.                                                     *)
FreshMatters ==
  \A m \in Short \union longTerm : lastAccessed[m] = halfLife => ~Unimportant(importance[m])

TiersInv == TiersTyped /\ Placed /\ FreshMatters /\ AccessKeepsMemories

LEMMA TiersInitially == ASSUME TiersInit PROVE TiersInv
<1>1. shortTerm = << >> /\ << >> \in Seq(Memories) /\ DOMAIN << >> = {} /\ Len(<< >>) = 0
  BY DEF TiersInit
<1>2. Short = {}
  BY <1>1 DEF Short, ToSet
<1>3. QED
  BY <1>1, <1>2, TiersAssumption
     DEF TiersInit, TiersInv, TiersTyped, Placed, Distinct, FreshMatters, AccessKeepsMemories

LEMMA TiersRest == ASSUME TiersInv, UNCHANGED tierVars PROVE TiersInv'
  BY DEF TiersInv, tierVars, TiersTyped, Placed, Distinct, Short, Held, FreshMatters, AccessKeepsMemories

(* The first tier has memories only.                                       *)
LEMMA ShortIsOfMemories == ASSUME TiersTyped PROVE Short \subseteq Memories
  BY DEF TiersTyped, Short, ToSet

LEMMA StoreStep ==
  ASSUME TiersInv, NEW m \in Memories, NEW i \in Importances, NEW tier \in {"short", "long", "episodic"},
         StoreMemory(m, tier, i)
  PROVE  TiersInv'
<1> DEFINE list == IF tier = "short" THEN Append(shortTerm, m) ELSE shortTerm
           evicted == IF Len(list) > ShortLimit THEN {Head(list)} ELSE {}
           promoted == UNION {Promoted(o) : o \in evicted}
<1>1. /\ IsNew(m) /\ UNCHANGED halfLife
      /\ importance' = [importance EXCEPT ![m] = i]
      /\ lastAccessed' = [lastAccessed EXCEPT ![m] = halfLife]
      /\ shortTerm' = IF evicted = {} THEN list ELSE Tail(list)
      /\ longTerm' = longTerm \union promoted \union (IF tier = "long" THEN {m} ELSE {})
      /\ lost' = lost \union {Lost(o, "overflow") : o \in evicted \ promoted}
      /\ episodic' = episodic \union (IF tier = "episodic" THEN {m} ELSE {})
  BY DEF StoreMemory
<1>2. m \notin Short /\ m \notin longTerm /\ m \notin episodic /\ \A l \in lost : l.memory # m
  BY <1>1 DEF IsNew, Held
<1>3. i \in Nat /\ ~Unimportant(i) /\ ShortLimit \in Nat /\ ShortLimit >= 1
  BY TiersAssumption
<1>4. TiersTyped /\ Placed /\ FreshMatters /\ AccessKeepsMemories
  BY DEF TiersInv
<1>5. shortTerm \in Seq(Memories) /\ Len(shortTerm) \in Nat /\ Distinct(shortTerm) /\ Len(shortTerm) <= ShortLimit
  BY <1>4 DEF TiersTyped, Placed
<1>6. /\ list \in Seq(Memories) /\ Distinct(list) /\ Len(list) \in Nat /\ Len(list) <= ShortLimit + 1
      /\ ToSet(list) = Short \union (IF tier = "short" THEN {m} ELSE {})
      /\ Len(list) > ShortLimit => list # << >> /\ Head(list) \in Short
  <2>1. CASE tier = "short"
    <3>1. /\ list = Append(shortTerm, m) /\ list \in Seq(Memories) /\ Len(list) = Len(shortTerm) + 1
          /\ Distinct(list) /\ ToSet(list) = Short \union {m}
      BY <1>2, <1>5, <2>1, AppendDistinct DEF Short
    <3>2. Len(list) > ShortLimit => list # << >> /\ Head(list) \in Short
      <4>1. SUFFICES ASSUME Len(shortTerm) >= 1 PROVE Head(Append(shortTerm, m)) \in Short /\ Append(shortTerm, m) # << >>
        BY <1>3, <1>5, <3>1
      <4>2. Head(Append(shortTerm, m)) = shortTerm[1] /\ 1 \in DOMAIN shortTerm /\ Append(shortTerm, m) # << >>
        BY <1>5, <4>1
      <4>3. QED
        BY <4>2 DEF Short, ToSet
    <3>3. Len(list) \in Nat /\ Len(list) <= ShortLimit + 1
      BY <1>3, <1>5, <3>1
    <3>4. Len(list) > ShortLimit => list # << >> /\ Head(list) \in Short
      BY <3>1, <3>2
    <3> HIDE DEF list
    <3>5. QED
      BY <2>1, <3>1, <3>3, <3>4
  <2>2. CASE tier # "short"
    BY <1>3, <1>5, <2>2 DEF Short
  <2>3. QED
    BY <2>1, <2>2
<1>7. \A o \in evicted : o \in Short /\ o \in Memories /\ o # m
  BY <1>2, <1>4, <1>6, ShortIsOfMemories
<1>8. promoted \subseteq evicted /\ \A o \in evicted : o \in promoted <=> Worth(o)
  BY DEF Promoted
<1>9. /\ shortTerm' \in Seq(Memories) /\ Distinct(shortTerm') /\ Len(shortTerm') <= ShortLimit
      /\ ToSet(shortTerm') = ToSet(list) \ evicted
  <2>1. CASE evicted = {}
    BY <1>1, <1>3, <1>6, <2>1
  <2>2. CASE evicted # {}
    <3>1. Len(list) > ShortLimit /\ evicted = {Head(list)}
      BY <2>2
    <3>2. shortTerm' = Tail(list)
      BY <1>1, <2>2
    <3> HIDE DEF list, evicted
    <3>3. /\ Tail(list) \in Seq(Memories) /\ Len(Tail(list)) = Len(list) - 1 /\ Distinct(Tail(list))
          /\ ToSet(Tail(list)) = ToSet(list) \ {Head(list)}
      BY <1>6, <3>1, TailDistinct
    <3>4. QED
      BY <1>3, <1>6, <3>1, <3>2, <3>3
  <2>3. QED
    BY <2>1, <2>2
<1>10. Short' = (Short \union (IF tier = "short" THEN {m} ELSE {})) \ evicted
  BY <1>6, <1>9 DEF Short
<1> HIDE DEF list, evicted, promoted
<1>11. Held' \subseteq Held \union {m} /\ evicted \subseteq Short
       /\ \A o \in evicted \ promoted : o \notin Held'
  <2>1. evicted \subseteq Short
    BY <1>7
  <2>2. \A o \in evicted \ promoted : o \notin longTerm /\ o \notin episodic /\ o # m
    BY <1>4, <1>7, <2>1 DEF Placed
  <2>3. QED
    BY <1>1, <1>8, <1>10, <2>1, <2>2 DEF Held
<1>12. TiersTyped'
  <2>1. longTerm' \subseteq Memories /\ episodic' \subseteq Memories
    BY <1>1, <1>4, <1>7, <1>8 DEF TiersTyped
  <2>2. importance' \in [Memories -> Nat] /\ lastAccessed' \in [Memories -> Nat]
    BY <1>1, <1>3, <1>4 DEF TiersTyped
  <2>3. \A o \in Memories : lastAccessed'[o] <= halfLife'
    BY <1>1, <1>4 DEF TiersTyped
  <2>4. QED
    BY <1>1, <1>4, <1>9, <2>1, <2>2, <2>3 DEF TiersTyped
<1>13. Placed'
  <2>1. /\ Short' \intersect (longTerm' \union episodic') = {}
        /\ longTerm' \intersect episodic' = {}
    BY <1>1, <1>2, <1>4, <1>7, <1>8, <1>10 DEF Placed
  <2>2. QED
    BY <1>9, <2>1 DEF Placed, Distinct
<1>14. FreshMatters'
  <2>1. ASSUME NEW o \in (Short \union longTerm)', lastAccessed'[o] = halfLife' PROVE ~Unimportant(importance'[o])
    <3>1. CASE o = m
      BY <1>1, <1>3, <1>4, <3>1 DEF TiersTyped, Unimportant
    <3>2. CASE o # m
      <4>1. o \in Short \union longTerm /\ o \in Memories
        BY <1>1, <1>4, <1>7, <1>8, <1>10, <2>1, <3>2, ShortIsOfMemories DEF TiersTyped
      <4>2. importance'[o] = importance[o] /\ lastAccessed'[o] = lastAccessed[o]
        BY <1>1, <1>4, <3>2, <4>1 DEF TiersTyped
      <4>3. QED
        BY <1>1, <1>4, <2>1, <4>1, <4>2 DEF FreshMatters
    <3>3. QED
      BY <3>1, <3>2
  <2>2. QED
    BY <2>1 DEF FreshMatters, Unimportant
<1>15. AccessKeepsMemories'
  <2>1. ASSUME NEW l \in lost'
        PROVE  l.memory \notin Held' /\ (l.how = "decay" => l.idle > 0) /\ (l.how = "overflow" => l.importance < One)
    <3>1. CASE l \in lost
      BY <1>2, <1>4, <1>11, <3>1 DEF AccessKeepsMemories
    <3>2. CASE l \notin lost
      <4>1. PICK o \in evicted \ promoted : l = Lost(o, "overflow")
        BY <1>1, <2>1, <3>2
      <4>2. l.memory = o /\ l.how = "overflow" /\ l.importance = importance[o]
        BY <4>1 DEF Lost
      <4>3. importance[o] \in Nat /\ ~(importance[o] >= One)
        BY <1>4, <1>7, <1>8, <4>1 DEF TiersTyped, Worth
      <4>4. importance[o] < One
        BY <4>3 DEF One
      <4>5. QED
        BY <1>11, <4>1, <4>2, <4>4
    <3>3. QED
      BY <3>1, <3>2
  <2>2. QED
    BY <2>1 DEF AccessKeepsMemories
<1>16. QED
  BY <1>12, <1>13, <1>14, <1>15 DEF TiersInv

LEMMA RecallStep ==
  ASSUME TiersInv, NEW found \in SUBSET Held, Recall(found) PROVE TiersInv'
<1>1. /\ UNCHANGED <<shortTerm, longTerm, episodic, halfLife, lost>>
      /\ lastAccessed' = [m \in Memories |-> IF m \in found THEN halfLife ELSE lastAccessed[m]]
      /\ importance' = [m \in Memories |->
           IF m \notin found THEN importance[m]
           ELSE IF importance[m] + Boost > Most THEN Most ELSE importance[m] + Boost]
  BY DEF Recall, Accessed
<1>2. TiersTyped /\ Placed /\ FreshMatters /\ AccessKeepsMemories
  BY DEF TiersInv
<1>3. \A m \in Memories : importance'[m] \in Nat /\ (m \in found => ~Unimportant(importance'[m]))
  BY <1>1, <1>2 DEF TiersTyped, Unimportant, Boost, Most, One
<1>4. TiersTyped'
  <2>1. importance' \in [Memories -> Nat]
    BY <1>1, <1>3
  <2>2. \A m \in Memories : lastAccessed'[m] \in Nat /\ lastAccessed'[m] <= halfLife
    BY <1>1, <1>2 DEF TiersTyped
  <2>3. lastAccessed' \in [Memories -> Nat]
    BY <1>1, <2>2
  <2>4. QED
    BY <1>1, <1>2, <2>1, <2>2, <2>3 DEF TiersTyped
<1>5. Placed' /\ AccessKeepsMemories' /\ Short' = Short
  BY <1>1, <1>2 DEF Placed, Distinct, Short, AccessKeepsMemories, Held
<1>6. FreshMatters'
  <2>1. ASSUME NEW m \in Short \union longTerm, lastAccessed'[m] = halfLife' PROVE ~Unimportant(importance'[m])
    <3>1. m \in Memories
      BY <1>2, ShortIsOfMemories DEF TiersTyped
    <3>2. CASE m \in found
      BY <1>3, <3>1, <3>2
    <3>3. CASE m \notin found
      BY <1>1, <1>2, <2>1, <3>1, <3>3 DEF FreshMatters
    <3>4. QED
      BY <3>2, <3>3
  <2>2. QED
    BY <1>1, <1>5, <2>1 DEF FreshMatters, Unimportant
<1>7. QED
  BY <1>4, <1>5, <1>6 DEF TiersInv

LEMMA DecayStep == ASSUME TiersInv, RunDecay PROVE TiersInv'
<1> DEFINE decays == Short \union longTerm
           prunes == {m \in decays : Unimportant(Decayed(m))}
           places == {i \in DOMAIN shortTerm : shortTerm[i] \notin prunes}
<1>1. /\ importance' = [m \in Memories |-> IF m \in decays THEN Decayed(m) ELSE importance[m]]
      /\ longTerm' = longTerm \ prunes /\ shortTerm' = Only(shortTerm, places)
      /\ lost' = lost \union {Lost(m, "decay") : m \in prunes}
      /\ UNCHANGED <<episodic, lastAccessed, halfLife>>
  BY DEF RunDecay
<1>2. TiersTyped /\ Placed /\ FreshMatters /\ AccessKeepsMemories /\ Short \subseteq Memories
  BY ShortIsOfMemories DEF TiersInv
<1>3. decays \subseteq Memories
  BY <1>2 DEF TiersTyped
<1>4. \A m \in decays : Decayed(m) \in Nat /\ (lastAccessed[m] = halfLife => Decayed(m) = importance[m])
  BY <1>2, <1>3, DecayCounts DEF TiersTyped
<1>5. \A m \in prunes : m \in Memories /\ lastAccessed[m] # halfLife
  BY <1>2, <1>3, <1>4 DEF FreshMatters
<1>6. /\ shortTerm' \in Seq(Memories) /\ Len(shortTerm') <= Len(shortTerm) /\ Distinct(shortTerm')
      /\ ToSet(shortTerm') = {shortTerm[i] : i \in places}
  <2>1. shortTerm \in Seq(Memories) /\ Distinct(shortTerm) /\ places \in SUBSET DOMAIN shortTerm
    BY <1>2 DEF TiersTyped, Placed
  <2> HIDE DEF places
  <2>2. QED
    BY <1>1, <2>1, OnlyDistinct
<1>7. Short' = Short \ prunes
  BY <1>6 DEF Short, ToSet
<1>8. Held' = Held \ prunes
  BY <1>1, <1>2, <1>7 DEF Held, Placed
<1> HIDE DEF prunes, places
<1>9. TiersTyped'
  <2>1. \A m \in Memories : importance'[m] \in Nat
    BY <1>1, <1>2, <1>4 DEF TiersTyped
  <2>2. importance' \in [Memories -> Nat]
    BY <1>1, <2>1
  <2>3. QED
    BY <1>1, <1>2, <1>6, <2>2 DEF TiersTyped
<1>10. Placed'
  <2>1. Len(shortTerm') <= ShortLimit
    <3>1. Len(shortTerm) \in Nat /\ Len(shortTerm') \in Nat /\ Len(shortTerm) <= ShortLimit /\ ShortLimit \in Nat
      BY <1>2, <1>6, TiersAssumption DEF TiersTyped, Placed
    <3>2. QED
      BY <1>6, <3>1
  <2>2. /\ Short' \intersect (longTerm' \union episodic') = {} /\ longTerm' \intersect episodic' = {}
    BY <1>1, <1>2, <1>7 DEF Placed
  <2>3. QED
    BY <1>6, <2>1, <2>2 DEF Placed, Distinct
<1>11. FreshMatters'
  <2>1. ASSUME NEW m \in (Short \union longTerm)', lastAccessed'[m] = halfLife' PROVE ~Unimportant(importance'[m])
    <3>1. m \in decays /\ m \in Memories
      BY <1>1, <1>3, <1>7, <2>1
    <3>2. importance'[m] = importance[m] /\ lastAccessed[m] = halfLife
      BY <1>1, <1>4, <2>1, <3>1
    <3>3. QED
      BY <1>2, <3>1, <3>2 DEF FreshMatters
  <2>2. QED
    BY <2>1 DEF FreshMatters, Unimportant
<1>12. AccessKeepsMemories'
  <2>1. ASSUME NEW l \in lost'
        PROVE  l.memory \notin Held' /\ (l.how = "decay" => l.idle > 0) /\ (l.how = "overflow" => l.importance < One)
    <3>1. CASE l \in lost
      BY <1>2, <1>8, <3>1 DEF AccessKeepsMemories
    <3>2. CASE l \notin lost
      <4>1. PICK m \in prunes : l = Lost(m, "decay")
        BY <1>1, <2>1, <3>2
      <4>2. l.memory = m /\ l.how = "decay" /\ l.idle = halfLife - lastAccessed[m]
        BY <4>1 DEF Lost
      <4>3. halfLife - lastAccessed[m] > 0
        BY <1>2, <1>5, <4>1 DEF TiersTyped
      <4>4. QED
        BY <1>8, <4>1, <4>2, <4>3
    <3>3. QED
      BY <3>1, <3>2
  <2>2. QED
    BY <2>1 DEF AccessKeepsMemories
<1>13. QED
  BY <1>9, <1>10, <1>11, <1>12 DEF TiersInv

LEMMA TierTimeStep == ASSUME TiersInv, TimeGoesOn PROVE TiersInv'
<1>1. halfLife' = halfLife + 1
      /\ UNCHANGED <<shortTerm, longTerm, episodic, importance, lastAccessed, lost>>
  BY DEF TimeGoesOn
<1>2. TiersTyped' /\ Placed' /\ AccessKeepsMemories' /\ Short' = Short
  BY <1>1 DEF TiersInv, TiersTyped, Placed, Distinct, Short, AccessKeepsMemories, Held
<1>3. \A m \in Short \union longTerm : lastAccessed[m] # halfLife + 1
  BY ShortIsOfMemories DEF TiersInv, TiersTyped
<1>4. FreshMatters'
  BY <1>1, <1>2, <1>3 DEF FreshMatters
<1>5. QED
  BY <1>2, <1>4 DEF TiersInv

LEMMA TiersStep == ASSUME TiersInv, TiersNext PROVE TiersInv'
  BY StoreStep, RecallStep, DecayStep, TierTimeStep DEF TiersNext

LEMMA TiersSafe == ASSUME TiersInv PROVE TiersAreSound
<1>1. Cardinality(Short) = Len(shortTerm)
  BY DistinctCount DEF TiersInv, TiersTyped, Placed, Short
<1>2. QED
  BY <1>1 DEF TiersInv, Placed, OneTierEach, TiersAreSound

-----------------------------------------------------------------------------
(* What follows for each.                                                  *)

(* Whatever the requests, the model and the crashes, and however often a   *)
(* process is started again: a job that no process works at is closed, and *)
(* closed once; what the events and the answers tell of a job is what its  *)
(* log says; and a replay of the events is in order and counts no more     *)
(* than was done (engine/jobs, engine/events).                             *)
THEOREM EngineLedgerKept == EngineSpec => []EngineLedger
<1>1. EngineSpec => []LedgerInv
  BY LedgerInitially, LedgerKept, PTL DEF EngineSpec
<1>2. QED
  BY <1>1, LedgerSound, PTL

(* A node is online only after a handshake that was accepted, and a task   *)
(* stands as submitted only if a handler took it, for any handlers,        *)
(* workers and tasks and however handlers call the network again           *)
(* (core/network/network_core.py).                                         *)
THEOREM NetworkSound == NetSpec => []NetworkIsSound
<1>1. NetInit => NetInv
  BY NetInitially
<1>2. NetInv /\ [NetNext]_netVars => NetInv'
  BY NetStep, NetRests
<1>3. NetInv => NetworkIsSound
  BY DEF NetInv, NetworkIsSound
<1>4. QED
  BY <1>1, <1>2, <1>3, PTL DEF NetSpec

(* Commands, listeners and hooks are of installed plugins that were        *)
(* allowed them, within the limits, and both replays of the events show    *)
(* the plugins that are there, for any manifests, limits and calls         *)
(* (engine/plugins, engine/replay).                                        *)
THEOREM EnginePluginsContained == PluginSpec => []PluginsContained
<1>1. PluginInit => TablesTyped /\ TablesInv /\ LimitsHold /\ ShownInv
  BY PluginsInitially, ShownInitially
<1>2. TablesTyped /\ TablesInv /\ LimitsHold /\ ShownInv /\ [PluginNext]_pluginVars
        => (TablesTyped /\ TablesInv /\ LimitsHold /\ ShownInv)'
  BY TablesStep, ShownStep
<1>3. ShownInv => ReplayShowsPlugins
  BY DEF ShownInv, ReplayShowsPlugins, Present
<1>4. TablesTyped /\ TablesInv /\ LimitsHold /\ ShownInv => PluginsContained
  BY <1>3, TablesInvMeans DEF PluginsContained
<1>5. QED
  BY <1>1, <1>2, <1>4, PTL DEF PluginSpec

(* Calls are tried again no more often than their policy says, the circuit *)
(* of a key is bounded by the threshold and the callers, chains stop, the  *)
(* healer tells the truth and the last decision counts, for any callers,   *)
(* policies and graphs (openvs/resilience,                                 *)
(* openvs/security/permissions.py).                                        *)
THEOREM CallsTamed == ResilienceSpec => []CallsAreTamed
<1>1. ResilienceInit => RetryInv /\ CareInv
  BY RetryInitially, CareInitially
<1>2. (RetryInv /\ CareInv) /\ [RetryNext \/ CareNext]_resilienceVars => (RetryInv /\ CareInv)'
  BY ResilienceStep
<1>3. RetryInv /\ CareInv => CallsAreTamed
  BY RetrySafe, GateSafe DEF CareInv, ChainInv, CallsAreTamed
<1>4. QED
  BY <1>1, <1>2, <1>3, PTL DEF ResilienceSpec

(* A hit of a cache is the last answer or result put for its key, neither  *)
(* gone nor too old; a cache is within its limit; a run resumes after its  *)
(* last whole checkpoint: whatever is put, invalidated, evicted, killed    *)
(* and restarted, for any keys, limits and times (openvs/cache).           *)
THEOREM CachesKept == CacheSpec => []CachesAreSound
<1>1. CacheInit => CacheInv
  BY CacheInitially
<1>2. CacheInv /\ [AnswerNext \/ ResultNext \/ ResumeNext]_cacheVars => CacheInv'
  BY CacheStep, CacheRests
<1>3. CacheInv => CachesAreSound
  BY CachesSafe
<1>4. QED
  BY <1>1, <1>2, <1>3, PTL DEF CacheSpec

(* Publishers, nodes and secrets are what the calls made of them, in       *)
(* memory and in the next process, however saves are cut off               *)
(* (openvs/platform/publishers.py, api/cluster.py, security/vault.py), for *)
(* any names, nodes and plugins.                                           *)
THEOREM RegistriesKept == RegistrySpec => []RegistriesAreSound
<1>1. RegistryInit => RegistryInv
  BY RegistryInitially
<1>2. RegistryInv /\ [PublisherNext \/ NodeNext \/ SecretNext]_registryVars => RegistryInv'
  BY RegistryStep, RegistryRests
<1>3. RegistryInv => RegistriesAreSound
  BY RegistrySafe
<1>4. QED
  BY <1>1, <1>2, <1>3, PTL DEF RegistrySpec

(* A memory is in one tier, the first within its limit, and what was       *)
(* accessed is not forgotten in the same half-life, for any memories and   *)
(* any importance (openvs/intelligence/memory.py).                         *)
THEOREM MemoriesKept == TiersSpec => []TiersAreSound
<1>1. TiersInit => TiersInv
  BY TiersInitially
<1>2. TiersInv /\ [TiersNext]_tierVars => TiersInv'
  BY TiersStep, TiersRest
<1>3. TiersInv => TiersAreSound
  BY TiersSafe
<1>4. QED
  BY <1>1, <1>2, <1>3, PTL DEF TiersSpec
=============================================================================
