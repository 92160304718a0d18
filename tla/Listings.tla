-------------------------------- MODULE Listings --------------------------------
(***************************************************************************)
(* Lists as the manifests and the walks make them: the members of a list    *)
(* that are wanted, and a set written out in an order. They are written     *)
(* over sets and positions, so that what they list can be reasoned about.   *)
(***************************************************************************)
EXTENDS Integers, Sequences, FiniteSets

(* The members of s that are in S, in the order of s.                       *)
Kept(s, S) ==
  LET kept[n \in 0..Len(s)] ==
        IF n = 0 THEN <<>>
        ELSE IF s[n] \in S THEN Append(kept[n - 1], s[n])
        ELSE kept[n - 1]
  IN  kept[Len(s)]

(* The members of S, each after those that R puts before it: R relates the  *)
(* earlier of two to the later.                                             *)
InOrder(S, R) ==
  [n \in 1..Cardinality(S) |->
     CHOOSE x \in S : Cardinality({y \in S : <<y, x>> \in R}) = n - 1]

=============================================================================
