------------------------------- MODULE Lists -------------------------------
(***************************************************************************)
(* Lists in the order of their elements or of their parts.                 *)
(***************************************************************************)
EXTENDS Integers, Sequences, FiniteSets

(* The numbers of a finite set in ascending order, and s at the places K.   *)
Ascending(K) ==
  [k \in 1 .. Cardinality(K) |-> CHOOSE n \in K : Cardinality({m \in K : m <= n}) = k]
Picked(s, K) == [k \in 1 .. Cardinality(K) |-> s[Ascending(K)[k]]]

(* The elements of s that are in S.                                         *)
Among(s, S) == Picked(s, {i \in DOMAIN s : s[i] \in S})

(* Parts put one after the other.                                           *)
Chain(parts) ==
  LET chain[n \in 0 .. Len(parts)] == IF n = 0 THEN <<>> ELSE chain[n - 1] \o parts[n]
  IN  chain
Chained(parts) == Chain(parts)[Len(parts)]
=============================================================================
