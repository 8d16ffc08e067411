------------------------------ MODULE FoldFacts ------------------------------
(***************************************************************************)
(* Induction over sequences, for any left fold.  FoldLeft of the community *)
(* modules is a CHOOSE of a recursive function on sets of places; here it  *)
(* is shown to take one entry after the other, and what its step keeps is  *)
(* shown to hold of its result.  The operator that is folded and what is   *)
(* to hold are parameters of the module: whoever needs the induction       *)
(* instantiates it with operators of its own.                              *)
(***************************************************************************)
EXTENDS Naturals, Sequences, SequencesExt, SequenceTheorems, WellFoundedInduction, TLAPS

CONSTANTS
  Op(_, _),           \* the step of the fold
  Holds(_, _, _, _)   \* what holds of the start, the sequence, the entries folded, the result

(* A set of numbers that has a member has a least one.                     *)
LEMMA LeastMember ==
  ASSUME NEW T \in SUBSET Nat, T # {}
  PROVE  \E n \in T : \A m \in T : n <= m
<1>1. PICK n \in T : \A m \in T : ~(<<m, n>> \in OpToRel(<, Nat))
  BY NatLessThanWellFounded, WFMin
<1>2. ASSUME NEW m \in T, m < n PROVE FALSE
  <2>1. <<m, n>> \in OpToRel(<, Nat)
    BY <1>2 DEF OpToRel
  <2>2. QED
    BY <1>1, <2>1
<1>3. QED
  BY <1>2

(* The fold.                                                               *)
Folded(base, s) == FoldLeft(Op, base, s)

(* What FoldLeft builds: the result for each set of places. *)
IsRun(g, base, s, n) ==
  g = [t \in SUBSET (1..n) |->
         IF t = {} THEN base ELSE Op(g[t \ {Max(t)}], s[Max(t)])]

(* The last place of a set of places that has it.                          *)
LEMMA MaxOf == \A n \in Nat : \A t \in SUBSET (1..n) : n \in t => Max(t) = n
<1> SUFFICES ASSUME NEW n \in Nat, NEW t \in SUBSET (1..n), n \in t PROVE Max(t) = n
  OBVIOUS
<1>1. \A y \in t : y \in Nat /\ n >= y
  OBVIOUS
<1>2. \A x \in t : (\A y \in t : x >= y) => x = n
  BY <1>1
<1>3. \E x \in t : \A y \in t : x >= y
  BY <1>1
<1>4. Max(t) \in t /\ \A y \in t : Max(t) >= y
  BY <1>3 DEF Max
<1>5. QED
  BY <1>2, <1>4

(* There is such a function for every length, so that the CHOOSE of the    *)
(* fold finds one.                                                         *)
LEMMA RunExists ==
  ASSUME NEW base, NEW s, NEW n \in Nat
  PROVE  \E g : IsRun(g, base, s, n)
<1> DEFINE Bad == {k \in Nat : ~\E g : IsRun(g, base, s, k)}
<1>1. SUFFICES ASSUME Bad # {} PROVE FALSE
  OBVIOUS
<1>2. PICK k \in Bad : \A m \in Bad : k <= m
  BY <1>1, LeastMember
<1>3. CASE k = 0
  <2>1. SUBSET (1..0) = {{}}
    OBVIOUS
  <2>2. IsRun([t \in {{}} |-> base], base, s, 0)
    BY <2>1 DEF IsRun
  <2>3. QED
    BY <1>2, <1>3, <2>2
<1>4. CASE k # 0
  <2>1. k - 1 \in Nat /\ k - 1 \notin Bad
    BY <1>2, <1>4
  <2>2. PICK g : IsRun(g, base, s, k - 1)
    BY <2>1
  <2> DEFINE h == [t \in SUBSET (1..k) |->
                     IF k \in t THEN Op(g[t \ {k}], s[k]) ELSE g[t]]
  <2>3. ASSUME NEW t \in SUBSET (1..k)
        PROVE  h[t] = IF t = {} THEN base ELSE Op(h[t \ {Max(t)}], s[Max(t)])
    <3>1. CASE k \in t
      <4>1. Max(t) = k /\ t # {} /\ t \ {k} \in SUBSET (1..k) /\ k \notin t \ {k}
        BY <1>2, <3>1, MaxOf
      <4>2. h[t \ {k}] = g[t \ {k}]
        BY <4>1
      <4>3. QED
        BY <3>1, <4>1, <4>2
    <3>2. CASE k \notin t
      <4>1. t \in SUBSET (1..(k - 1))
        BY <2>1, <3>2
      <4>2. h[t] = g[t]
        BY <3>2
      <4>3. g[t] = IF t = {} THEN base ELSE Op(g[t \ {Max(t)}], s[Max(t)])
        BY <2>2, <4>1 DEF IsRun
      <4>4. t \ {Max(t)} \in SUBSET (1..k) /\ k \notin t \ {Max(t)}
        BY <3>2
      <4>5. h[t \ {Max(t)}] = g[t \ {Max(t)}]
        BY <4>4
      <4>6. QED
        BY <4>2, <4>3, <4>5
    <3>3. QED
      BY <3>1, <3>2
  <2>4. IsRun(h, base, s, k)
    BY <2>3 DEF IsRun
  <2>5. QED
    BY <1>2, <2>4
<1>5. QED
  BY <1>3, <1>4

(* Two of them agree where their sequences do.                             *)
LEMMA RunsAgree ==
  ASSUME NEW base, NEW s, NEW r, NEW n \in Nat, NEW m \in Nat, n <= m,
         \A i \in 1..n : s[i] = r[i],
         NEW g, IsRun(g, base, s, n), NEW h, IsRun(h, base, r, m)
  PROVE  g[1..n] = h[1..n]
<1> DEFINE Bad == {k \in 0..n : g[1..k] # h[1..k]}
<1>0. n \in 0..n /\ Bad \in SUBSET Nat
  OBVIOUS
<1>1. SUFFICES ASSUME Bad # {} PROVE FALSE
  BY <1>0
<1>2. PICK k \in Bad : \A j \in Bad : k <= j
  <2> HIDE DEF Bad
  <2>1. QED
    BY <1>0, <1>1, LeastMember
<1>3. 1..k \in SUBSET (1..n) /\ 1..k \in SUBSET (1..m)
  BY <1>2
<1>4. /\ g[1..k] = IF 1..k = {} THEN base ELSE Op(g[(1..k) \ {Max(1..k)}], s[Max(1..k)])
      /\ h[1..k] = IF 1..k = {} THEN base ELSE Op(h[(1..k) \ {Max(1..k)}], r[Max(1..k)])
  BY <1>3 DEF IsRun
<1>5. k # 0
  <2>1. SUFFICES ASSUME k = 0 PROVE FALSE
    OBVIOUS
  <2>2. 1..k = {}
    BY <2>1
  <2>3. g[1..k] = h[1..k]
    BY <1>4, <2>2
  <2>4. QED
    BY <1>2, <2>3
<1>6. Max(1..k) = k /\ (1..k) \ {k} = 1..(k - 1) /\ k \in 1..n /\ 1..k # {}
  <2>1. k \in Nat /\ k \in 1..k /\ 1..k \in SUBSET (1..k)
    BY <1>5
  <2>3. Max(1..k) = k
    BY <2>1, MaxOf
  <2>4. (1..k) \ {k} = 1..(k - 1)
    BY <2>1
  <2>2. QED
    BY <1>2, <2>1, <2>3, <2>4
<1>7. k - 1 \in 0..n /\ k - 1 \notin Bad
  BY <1>2, <1>5
<1>8. QED
  BY <1>2, <1>4, <1>6, <1>7

(* The fold is the value of one of them.                                   *)
LEMMA FoldIsRun ==
  ASSUME NEW base, NEW s, NEW n \in Nat, DOMAIN s = 1..n
  PROVE  \E g : IsRun(g, base, s, n) /\ Folded(base, s) = g[1..n]
<1> DEFINE g == CHOOSE f : IsRun(f, base, s, n)
<1>1. IsRun(g, base, s, n)
  BY RunExists
<1>2. Folded(base, s) = g[1..n]
  BY DEF Folded, FoldLeft, MapThenFoldSet, IsRun
<1>3. QED
  BY <1>1, <1>2

(* A fold of nothing is where it began.                                    *)
LEMMA FoldEmpty == \A base : Folded(base, << >>) = base
<1>1. TAKE base
<1>2. DOMAIN << >> = 1..0 /\ 1..0 = {}
  OBVIOUS
<1>3. PICK g : IsRun(g, base, << >>, 0) /\ Folded(base, << >>) = g[1..0]
  BY <1>2, FoldIsRun
<1>4. QED
  BY <1>2, <1>3 DEF IsRun

(* A fold takes the last entry last.                                       *)
LEMMA FoldAppend ==
  ASSUME NEW base, NEW E, NEW s \in Seq(E), NEW e \in E
  PROVE  Folded(base, Append(s, e)) = Op(Folded(base, s), e)
<1> DEFINE r == Append(s, e)
           n == Len(s)
<1>1. /\ n \in Nat /\ DOMAIN s = 1..n /\ DOMAIN r = 1..(n + 1)
      /\ r[n + 1] = e /\ \A i \in 1..n : s[i] = r[i]
  OBVIOUS
<1> HIDE DEF r, n
<1>2. PICK g : IsRun(g, base, s, n) /\ Folded(base, s) = g[1..n]
  BY <1>1, FoldIsRun
<1>3. PICK h : IsRun(h, base, r, n + 1) /\ Folded(base, r) = h[1..(n + 1)]
  <2>1. n + 1 \in Nat
    BY <1>1
  <2>2. QED
    BY <1>1, <2>1, FoldIsRun
<1>4. g[1..n] = h[1..n]
  BY <1>1, <1>2, <1>3, RunsAgree
<1>5. Max(1..(n + 1)) = n + 1 /\ (1..(n + 1)) \ {n + 1} = 1..n /\ 1..(n + 1) # {}
  <2>1. n + 1 \in Nat /\ n + 1 \in 1..(n + 1) /\ 1..(n + 1) \in SUBSET (1..(n + 1))
    BY <1>1
  <2>3. Max(1..(n + 1)) = n + 1
    BY <2>1, MaxOf
  <2>4. (1..(n + 1)) \ {n + 1} = 1..n
    BY <1>1
  <2>2. QED
    BY <2>1, <2>3, <2>4
<1>6. h[1..(n + 1)] = Op(h[1..n], r[n + 1])
  BY <1>3, <1>5 DEF IsRun
<1>7. QED
  BY <1>1, <1>2, <1>3, <1>4, <1>6 DEF r

(* What holds at the start and is kept by a step of the fold holds of the  *)
(* result: Holds relates the start, the sequence, how much of it has been  *)
(* folded, and what it has become.                                         *)
LEMMA FoldKeeps ==
  ASSUME NEW base, NEW E, NEW s \in Seq(E),
         Holds(base, s, 0, base),
         \A n \in 1..Len(s) : \A x : Holds(base, s, n - 1, x) => Holds(base, s, n, Op(x, s[n]))
  PROVE  Holds(base, s, Len(s), Folded(base, s))
<1> DEFINE F(k) == Folded(base, SubSeq(s, 1, k))
           Bad == {k \in 0..Len(s) : ~Holds(base, s, k, F(k))}
<1>1. SUFFICES ASSUME Bad # {} PROVE FALSE
  <2>1. Len(s) \in 0..Len(s) /\ SubSeq(s, 1, Len(s)) = s
    BY SubSeqFull
  <2>2. QED
    BY <2>1
<1>2. PICK k \in Bad : \A m \in Bad : k <= m
  <2>1. Bad \in SUBSET Nat
    OBVIOUS
  <2> HIDE DEF Bad
  <2>2. QED
    BY <1>1, <2>1, LeastMember
<1>3. k # 0
  <2>1. SubSeq(s, 1, 0) = << >>
    OBVIOUS
  <2>2. Holds(base, s, 0, F(0))
    BY <2>1, FoldEmpty
  <2>3. QED
    BY <1>2, <2>2
<1>4. k \in 1..Len(s) /\ k - 1 \in 0..Len(s) /\ k - 1 \notin Bad
  BY <1>2, <1>3
<1>5. SubSeq(s, 1, k) = Append(SubSeq(s, 1, k - 1), s[k]) /\ SubSeq(s, 1, k - 1) \in Seq(E) /\ s[k] \in E
  BY <1>4
<1>6. F(k) = Op(F(k - 1), s[k])
  <2>1. Folded(base, Append(SubSeq(s, 1, k - 1), s[k])) = Op(Folded(base, SubSeq(s, 1, k - 1)), s[k])
    BY <1>5, FoldAppend
  <2>2. QED
    BY <1>5, <2>1
<1>7. Holds(base, s, k - 1, F(k - 1))
  BY <1>4
<1>8. Holds(base, s, k, F(k))
  BY <1>4, <1>6, <1>7
<1>9. QED
  BY <1>2, <1>8
=============================================================================
