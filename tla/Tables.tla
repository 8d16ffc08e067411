-------------------------------- MODULE Tables --------------------------------
(***************************************************************************)
(* What Python's comprehensions, sorted() and dictionaries do, for the     *)
(* modules that filter and sort lists and keep tables.  Folds and          *)
(* functions, that can be proved about.                                    *)
(***************************************************************************)
EXTENDS Naturals, Sequences, FiniteSets, SequencesExt

(* [x for x in s if ...]: what is at the places that are kept. *)
Filter(kept, x) == IF x.keep THEN Append(kept, x.item) ELSE kept
Only(s, places) ==
  FoldLeft(Filter, <<>>, [i \in DOMAIN s |-> [item |-> s[i], keep |-> i \in places]])

(* sorted(): the members of S, in the order that is a set of pairs. *)
Ranked(S, order) ==
  [p \in 1..Cardinality(S) |->
     CHOOSE x \in S : Cardinality({y \in S : <<y, x>> \in order}) = p - 1]

(* t[k] = v *)
With(t, k, v) == [x \in DOMAIN t \union {k} |-> IF x = k THEN v ELSE t[x]]

(* {**u, **t} *)
Over(t, u) == [x \in DOMAIN t \union DOMAIN u |-> IF x \in DOMAIN t THEN t[x] ELSE u[x]]

(* del t[k] *)
Drop(t, k) == [x \in DOMAIN t \ {k} |-> t[x]]
===============================================================================
