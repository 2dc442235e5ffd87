---------------------------- MODULE MCJobQueue ----------------------------
(* A small instance of JobQueue: a job with a retry, two invocations. *)
EXTENDS JobQueue

CONSTANTS i1, i2, j1

(* The kinds of the service have one attempt; the table's default is more. *)
Attempts == [j \in Jobs |-> 2]

(* A tick queues its jobs; a second one the same day finds them there. *)
DailyBatches == {{}, Jobs}
=============================================================================
