---------------------------- MODULE MCTripAudit ----------------------------
(* A small instance of TripAudit: three requests, sends among them, or a     *)
(* route of two stops and what may meet it.                                  *)
EXTENDS TripAudit, TLC

CONSTANTS c1, c2, s1, s2, r1, r2, r3

Of(kind, x) == [type |-> kind, arg |-> x]

Three ==
  {Of("add_component", c1), Of("remove_component", c1), Of("apply_route", <<c2>>), Of("extra_night", c1), Of("send", None)}
    \cup {Of("remove_day", r) : r \in Requests}

Two == Three \cup {Of("free_day", None), Of("reorder", <<c1>>), Of("reorder", <<c2, c1>>), Of("apply_route", <<c2, c1>>)}

MCWorkload == Three \cup Two

Asking == {r \in Requests : op[r] # NoOp}

(* A behaviour is of three requests, or of two that may ask for more; a day  *)
(* that is removed is one that was asked for.                                *)
TwoOrThree ==
  /\ (\A r \in Asking : op[r] \in Three) \/ Cardinality(Asking) <= 2
  /\ \A r \in Asking : op[r].type = "remove_day" => op[op[r].arg].type \in {"none", "extra_night", "free_day"}

Symmetry == Permutations(Requests) \cup Permutations(Sessions)
=============================================================================
