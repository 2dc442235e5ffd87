--------------------------- MODULE MCRetention ---------------------------
(* Small instances of Retention: the payloads a tick and operators use. *)
EXTENDS Retention, TLC

CONSTANTS j1, j2, j3, w1, w2

Scheduled == [trigger |-> "schedule", live |-> FALSE, max |-> 0, age |-> "none"]
Manual(n) == [trigger |-> "manual", live |-> TRUE, max |-> n, age |-> "none"]
Override(age, n) == [trigger |-> "manual_override", live |-> TRUE, max |-> n, age |-> age]

Three(p, q, r) == [j \in Jobs |-> CASE j = j1 -> p [] j = j2 -> q [] OTHER -> r]

(* A dry run, a live run without its maximum, and payloads that are refused. *)
Odd == {[Manual(0) EXCEPT !.live = FALSE], Manual(0), Override("low", 1), [Manual(1) EXCEPT !.age = "ok"]}

(* The jobs start in any order, so one order of the payloads stands for all. *)
MCWorkloads ==
  {Three(Manual(1), Scheduled, Scheduled), Three(Manual(2), Override("ok", 1), Scheduled)}
    \cup {Three(odd, Scheduled, odd) : odd \in Odd}
==========================================================================
