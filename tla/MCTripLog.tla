----------------------------- MODULE MCTripLog -----------------------------
(* Small instances of TripLog, for one kind of question each. *)
EXTENDS TripLog, TLC

CONSTANTS c1, c2, s1, s2, r1, r2, r3

Of(kind, x) == [type |-> kind, arg |-> x]

(* Edits of two stops and sends: enough for two writers to overtake each other. *)
EditWorkload == {Of("add_component", c) : c \in Components} \cup {Of("send", None)}

(* One transaction, several transactions, one after a look in another, and    *)
(* one that holds both locks.                                                *)
LockingWorkload ==
  {Of("add_component", c2), Of("free_day", None), Of("apply_route", <<c2>>), Of("extra_night", c2), Of("send", None)}
    \cup {Of("remove_day", r) : r \in Requests}
=============================================================================
