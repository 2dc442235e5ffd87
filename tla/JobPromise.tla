---------------------------- MODULE JobPromise ----------------------------
(***************************************************************************)
(* What the job table promises to the kinds that run through it            *)
(* (backend/jobs/queue.py, runner.py): a job is executed by one runner at  *)
(* a time and at most MaxAttempts[j] times in all; once it has an outcome  *)
(* it keeps it and is not executed again.                                  *)
(***************************************************************************)
EXTENDS Naturals

CONSTANTS Jobs, MaxAttempts

VARIABLES
  executing,  \* the jobs a live runner is executing
  starts,     \* how often each job was started
  outcome     \* "open" until the job is settled

Outcomes == {"succeeded", "failed", "cancelled"}

Init ==
  /\ executing = {}
  /\ starts = [j \in Jobs |-> 0]
  /\ outcome = [j \in Jobs |-> "open"]

Start(j) ==
  /\ j \notin executing /\ outcome[j] = "open" /\ starts[j] < MaxAttempts[j]
  /\ executing' = executing \cup {j}
  /\ starts' = [starts EXCEPT ![j] = @ + 1]
  /\ UNCHANGED outcome

(* A runner is done with j, or dead; the outcome may be known by then. *)
Stop(j) ==
  /\ j \in executing
  /\ executing' = executing \ {j}
  /\ \/ UNCHANGED outcome
     \/ \E o \in Outcomes : outcome[j] = "open" /\ outcome' = [outcome EXCEPT ![j] = o]
  /\ UNCHANGED starts

(* Jobs nobody executes are settled, as succeeded only if they were started. *)
Settle(S) ==
  /\ S \cap executing = {}
  /\ \A j \in S : outcome[j] = "open"
  /\ \E o \in [S -> Outcomes] :
       /\ \A j \in S : o[j] = "succeeded" => starts[j] > 0
       /\ outcome' = [j \in Jobs |-> IF j \in S THEN o[j] ELSE outcome[j]]
  /\ UNCHANGED <<executing, starts>>

Next ==
  \/ \E j \in Jobs : Start(j) \/ Stop(j)
  \/ \E S \in SUBSET Jobs : Settle(S)

Spec == Init /\ [][Next]_<<executing, starts, outcome>>
=============================================================================
