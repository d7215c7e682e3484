----------------------------- MODULE Arrangement -----------------------------
(***************************************************************************)
(* Selecting from a sequence, and sorting one.  Both are an arrangement of *)
(* positions: the one that comes k-th is the one with k - 1 others ahead.  *)
(***************************************************************************)
EXTENDS Integers, Sequences, FiniteSets

(* before: a strict total order of I, as a set of pairs.                   *)
Ahead(i, I, before) == {j \in I : <<j, i>> \in before}

Arranged(I, before) ==
  [k \in 1 .. Cardinality(I) |->
     CHOOSE i \in I : Cardinality(Ahead(i, I, before)) = k - 1]

Picked(s, positions) == [k \in DOMAIN positions |-> s[positions[k]]]

AsListed(s) == {p \in (DOMAIN s) \X (DOMAIN s) : p[1] < p[2]}

(* The elements of s that are in T, in their order.                        *)
Where(s, T) == {i \in DOMAIN s : s[i] \in T}

Only(s, T) == Picked(s, Arranged(Where(s, T), AsListed(s)))

(* sort.SliceStable: by ascending key of the position, equals as they come.*)
ByKey(s, key) ==
  {p \in (DOMAIN s) \X (DOMAIN s) :
     key[p[1]] < key[p[2]] \/ (key[p[1]] = key[p[2]] /\ p[1] < p[2])}

StableSort(s, key) == Picked(s, Arranged(DOMAIN s, ByKey(s, key)))
=============================================================================
