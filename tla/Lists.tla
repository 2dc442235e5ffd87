------------------------------- MODULE Lists -------------------------------
(***************************************************************************)
(* A list comprehension with a condition, a sort by a total order, and a   *)
(* record or dictionary laid over another: what the services do to their   *)
(* data throughout.                                                        *)
(***************************************************************************)
EXTENDS Naturals, Sequences, FiniteSets

(* The elements of a list that are in a set, in the list's order. *)
Only(list, set) ==
  LET left[n \in 0..Len(list)] ==
        IF n = 0 THEN <<>>
        ELSE LET before == left[n - 1]
             IN IF list[n] \in set THEN Append(before, list[n]) ELSE before
  IN left[Len(list)]

(* A set as a list: each element has as many before it and at it as its place *)
(* says.  Upto is a total order.                                              *)
Listing(set, Upto(_, _)) ==
  [n \in 1..Cardinality(set) |->
     CHOOSE x \in set : Cardinality({y \in set : Upto(y, x)}) = n]

(* What f says, and of what it does not say, what g does. *)
Over(f, g) ==
  [x \in DOMAIN f \cup DOMAIN g |-> IF x \in DOMAIN f THEN f[x] ELSE g[x]]
=============================================================================
