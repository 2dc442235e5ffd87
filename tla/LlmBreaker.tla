---------------------------- MODULE LlmBreaker ----------------------------
(***************************************************************************)
(* The circuits one Lambda container keeps in memory, one per deployment   *)
(* (backend/shared/llm_breaker.py).  Operators on a table of circuits; the *)
(* module that calls models keeps one table per container.                 *)
(*                                                                         *)
(* Points in time are kept as distances: `left` is how long until          *)
(* open_until, `age` how long since last_error_at.  `fresh` says that      *)
(* last_error_at is after every last_ok_at of the connection.              *)
(***************************************************************************)
EXTENDS Integers, FiniteSets

CONSTANTS
  Deployments,  \* records with a model and a connection, the keys of the table
  Threshold,    \* RULES: consecutive failures that open a closed circuit, by class
  OpenFor,      \* the first open period
  MaxOpen,      \* cap of the doubling
  MaxFailures,  \* bound: from the largest threshold on, more failures say nothing
  MaxStreak,    \* bound: from here on every class opens for its cap
  MaxAge        \* bound: an error older than the longest open period is just old

SoloClasses == {"credential", "quota_exhausted"}

ConnectionClasses == SoloClasses \cup {"access_denied"}

(* The classes of RULES: any other failure is not counted. *)
Classes == ConnectionClasses \cup {"throttled", "other"}

ASSUME RulesAssumption ==
  /\ \A table \in {Threshold, OpenFor, MaxOpen} : table \in [Classes -> Nat \ {0}]
  /\ \A cls \in Classes : OpenFor[cls] <= MaxOpen[cls] /\ MaxOpen[cls] <= MaxAge
  /\ {MaxFailures, MaxStreak, MaxAge} \subseteq Nat \ {0}
  /\ \A cls \in Classes : Threshold[cls] <= MaxFailures
  /\ \A cls \in SoloClasses : Threshold[cls] = 1

Smaller(a, b) == IF a <= b THEN a ELSE b

NewHealth == [failures |-> 0, class |-> "none", age |-> MaxAge, fresh |-> FALSE,
              opened |-> FALSE, left |-> 0, streak |-> 0]

NewTable == [d \in Deployments |-> NewHealth]

StateOf(h) ==
  CASE ~h.opened               -> "closed"
    [] h.opened /\ h.left > 0  -> "open"
    [] OTHER                   -> "half_open"

OpenSeconds(cls, streak) == Smaller(OpenFor[cls] * 2 ^ (streak - 1), MaxOpen[cls])

(* after_failure: an open circuit only counts, a half-open one opens again    *)
(* for longer, a closed one opens at the threshold of this failure's class.   *)
AfterFailure(h, cls) ==
  LET counted == [h EXCEPT !.failures = Smaller(@ + 1, MaxFailures), !.class = cls, !.age = 0, !.fresh = TRUE]
      Opened(streak) ==
        [counted EXCEPT !.opened = TRUE, !.left = OpenSeconds(cls, streak), !.streak = streak]
  IN CASE StateOf(h) = "half_open" -> Opened(Smaller(h.streak + 1, MaxStreak))
       [] StateOf(h) = "closed" /\ counted.failures >= Threshold[cls] -> Opened(1)
       [] OTHER -> counted

Neighbours(d) == {e \in Deployments : e.connection = d.connection}

(* record_failure: an outcome outside RULES, a refusal of the request's own   *)
(* content among them, leaves the table alone.                                *)
RecordFailure(table, d, outcome) ==
  IF outcome \in Classes THEN [table EXCEPT ![d] = AfterFailure(@, outcome)] ELSE table

(* record_success: the row starts anew, and what failed on the connection     *)
(* before is no longer newer than its last answered call.                     *)
RecordSuccess(table, d) ==
  [e \in Deployments |->
     CASE e = d              -> NewHealth
       [] e \in Neighbours(d) \ {d} -> [table[e] EXCEPT !.fresh = FALSE]
       [] OTHER              -> table[e]]

(* connection_open: account-wide classes that no answer came after.           *)
Signals(table, d, classes) ==
  {e \in Neighbours(d) : table[e].class \in classes /\ StateOf(table[e]) # "closed" /\ table[e].fresh}

(* Mutant: only the deployment's own circuit counts. *)
Mut_OwnOnly(table, d) == FALSE

ConnectionOpen(table, d) ==
  LET denied == Signals(table, d, {"access_denied"})
      members == Signals(table, d, SoloClasses) \cup
                 (IF Cardinality({e.model : e \in denied}) >= 2 THEN denied ELSE {})
  IN \E e \in members : table[e].left > 0

(* open_class *)
Shut(table, d) == StateOf(table[d]) = "open" \/ ConnectionOpen(table, d)

(* A unit of time passes. *)
Elapsed(table) ==
  [d \in Deployments |-> [table[d] EXCEPT !.left = IF @ = 0 THEN 0 ELSE @ - 1, !.age = Smaller(@ + 1, MaxAge)]]

Healths ==
  [failures : 0..MaxFailures, class : Classes \cup {"none"}, age : 0..MaxAge, fresh : BOOLEAN,
   opened : BOOLEAN, left : 0..MaxAge, streak : 0..MaxStreak]
===========================================================================
