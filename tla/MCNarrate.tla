----------------------------- MODULE MCNarrate -----------------------------
(* Small instances of Narrate: a chain of two models on two connections, and *)
(* what goes wrong in each scenario.                                         *)
EXTENDS Narrate

CONSTANTS c1, c2

On(m, k) == [model |-> m, connection |-> k]
Satellite == On("m1", "acc3")
Own == On("m1", "acc2")
Second == On("m2", "acc3")

MCDeployments == {Satellite, Own, Second}
MCTaskRole == {"acc2"}

(* An account-level refusal opens at once, throttling later. *)
MCThreshold == [cls \in Classes |-> IF cls \in ConnectionClasses THEN 1 ELSE 2]
MCOpenFor == [cls \in Classes |-> IF cls = "quota_exhausted" THEN 2 ELSE 1]
MCMaxOpen == [cls \in Classes |-> 2]

Scenario == [serving |-> {c1}, chain |-> <<<<Satellite, Own>>, <<Second>>>>, failures |-> {"request"},
             shut |-> {}, faulty |-> FALSE, switched |-> FALSE]

(* Models fail: for the account, for the moment, or model by model. *)
Failing == [Scenario EXCEPT !.failures = {"quota_exhausted", "throttled"}]
Refusing == [Scenario EXCEPT !.failures = {"access_denied", "request"}]

(* Two containers spend, replies are cut, rows are lost, containers recycled. *)
Spending == [Scenario EXCEPT !.serving = {c1, c2}, !.chain = <<<<Own>>, <<Second>>>>,
                              !.failures = {"truncated"}, !.faulty = TRUE]

(* The AI switch is used. *)
Switched == [Scenario EXCEPT !.chain = <<<<Own>>>>, !.faulty = TRUE, !.switched = TRUE, !.shut = {Own}]

(* Everything on one connection, refused model by model. *)
Denied == [Scenario EXCEPT !.chain = <<<<Satellite>>, <<Second>>>>, !.failures = {"access_denied"}]

MCSettings == {Scenario, Failing, Refusing, Spending, Switched}
MCDenied == {Denied}
MCSlow == {Scenario}
============================================================================
