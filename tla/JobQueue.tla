----------------------------- MODULE JobQueue -----------------------------
(***************************************************************************)
(* The job table tripplanner.job and the Lambda invocations that serve it: *)
(* each queues some jobs, reaps, then claims and runs due jobs one after   *)
(* another.  A step is one committed statement, a look at the time left,   *)
(* or the end of a kind's handler.                                         *)
(*                                                                         *)
(* Time is counted down: every lease, every backoff and every invocation   *)
(* holds the time it has left.  An invocation is killed when its time is   *)
(* up, and may crash before; a statement it had sent may still reach the   *)
(* database, at any later time.                                            *)
(***************************************************************************)
EXTENDS Integers

CONSTANTS
  Jobs,         \* the rows of the table; a scheduled row stands for its idempotency key
  MaxAttempts,  \* the rows' max_attempts
  Batches,      \* the sets of rows one event may queue
  Invocations,  \* request ids of the jobs Lambda
  None,
  TimeLimit,    \* the Lambda's timeout
  MinTimeLeft,  \* MIN_TIME_LEFT_S
  LeaseMargin,  \* LEASE_MARGIN_S
  LeaseMax,     \* LEASE_MAX_S
  BackoffBase,  \* BACKOFF_BASE_SECONDS
  BackoffMax,   \* BACKOFF_MAX_SECONDS
  MaxJobs       \* MAX_JOBS_PER_RUN

ASSUME TimesAssumption ==
  /\ {TimeLimit, MinTimeLeft, LeaseMargin, LeaseMax, BackoffBase, BackoffMax, MaxJobs} \subseteq Nat
  /\ TimeLimit <= LeaseMax  \* no Lambda runs longer than LEASE_MAX_S = 900 s

ASSUME AttemptsAssumption == MaxAttempts \in [Jobs -> Nat \ {0}]

ASSUME JobsAssumption ==
  /\ None \notin Invocations
  /\ Batches \subseteq SUBSET Jobs

VARIABLES
  \* the table, by row
  status,    \* "absent" before the row is inserted
  attempt,
  wait,      \* the time until run_after, 0 when due
  owner,     \* locked_by
  lease,     \* the time until locked_until, -1 when past
  cancel,    \* cancel_requested
  \* the invocations
  pc,        \* where the invocation is
  left,      \* its time left
  todo,      \* the rows it has still to queue
  ran,       \* how many jobs it has run
  seen,      \* the time left it read at the head of the loop
  job,       \* the job it runs
  result,    \* how the job's handler ended
  late       \* a finishing statement it sent before it died, if any

table == <<status, attempt, wait, owner, lease, cancel>>
runner == <<pc, left, todo, ran, seen, job, result>>
vars == <<table, runner, late>>

Finished == {"succeeded", "failed", "cancelled"}

Minimum(a, b) == IF a <= b THEN a ELSE b
Maximum(a, b) == IF a <= b THEN b ELSE a

Backoff(n) == Minimum(BackoffBase * 2 ^ Maximum(n - 1, 0), BackoffMax)

(* Mutant: the lease does not follow the time the invocation has left. *)
Mut_FlatLease(time) == LeaseMargin

LeaseSeconds(time) == Maximum(LeaseMargin, Minimum(time + LeaseMargin, LeaseMax))

Init ==
  /\ status = [j \in Jobs |-> "absent"]
  /\ attempt = [j \in Jobs |-> 0]
  /\ wait = [j \in Jobs |-> 0]
  /\ owner = [j \in Jobs |-> None]
  /\ lease = [j \in Jobs |-> -1]
  /\ cancel = [j \in Jobs |-> FALSE]
  /\ pc = [i \in Invocations |-> "off"]
  /\ left = [i \in Invocations |-> 0]
  /\ todo = [i \in Invocations |-> {}]
  /\ ran = [i \in Invocations |-> 0]
  /\ seen = [i \in Invocations |-> 0]
  /\ job = [i \in Invocations |-> None]
  /\ result = [i \in Invocations |-> "none"]
  /\ late = [i \in Invocations |-> {}]

Live(i) == pc[i] # "off"

Goto(i, label) == pc' = [pc EXCEPT ![i] = label]

(* The invocation is over; what it knew is gone. *)
Over(i) ==
  /\ Goto(i, "off")
  /\ left' = [left EXCEPT ![i] = 0]
  /\ todo' = [todo EXCEPT ![i] = {}]
  /\ ran' = [ran EXCEPT ![i] = 0]
  /\ seen' = [seen EXCEPT ![i] = 0]
  /\ job' = [job EXCEPT ![i] = None]
  /\ result' = [result EXCEPT ![i] = "none"]

(* The scheduler or an operator invokes the Lambda.  Request ids are unique:  *)
(* one that a row or an undelivered statement still carries is not taken.     *)
Wake(i) ==
  /\ ~Live(i) /\ late[i] = {} /\ \A j \in Jobs : owner[j] # i
  /\ \E batch \in Batches : todo' = [todo EXCEPT ![i] = batch]
  /\ left' = [left EXCEPT ![i] = TimeLimit]
  /\ Goto(i, "queue")
  /\ UNCHANGED <<table, ran, seen, job, result, late>>

(* Each row is inserted by a statement of its own, ON CONFLICT DO NOTHING. *)
Enqueue(i, j) ==
  /\ pc[i] = "queue" /\ j \in todo[i]
  /\ status' = [status EXCEPT ![j] = IF @ = "absent" THEN "queued" ELSE @]
  /\ todo' = [todo EXCEPT ![i] = @ \ {j}]
  /\ UNCHANGED <<attempt, wait, owner, lease, cancel, pc, left, ran, seen, job, result, late>>

(* Queued rows with cancel_requested never start; a lease that ran out means  *)
(* the attempt is over.                                                       *)
Stopped(j) == status[j] = "queued" /\ cancel[j]

(* Mutant: only rows with attempts left are reaped. *)
Mut_ExpiredWithAttempts(j) == status[j] = "running" /\ lease[j] < 0 /\ attempt[j] < MaxAttempts[j]

Expired(j) == status[j] = "running" /\ lease[j] < 0

HasAttempts(j) == attempt[j] < MaxAttempts[j]

Reap(i) ==
  /\ pc[i] = "queue" /\ todo[i] = {}
  /\ status' = [j \in Jobs |->
       IF Stopped(j) THEN "cancelled"
       ELSE IF ~Expired(j) THEN status[j]
       ELSE IF cancel[j] THEN "cancelled"
       ELSE IF HasAttempts(j) THEN "queued" ELSE "failed"]
  /\ wait' = [j \in Jobs |-> IF Expired(j) THEN 0 ELSE wait[j]]
  /\ owner' = [j \in Jobs |-> IF Expired(j) THEN None ELSE owner[j]]
  /\ lease' = [j \in Jobs |-> IF Expired(j) THEN -1 ELSE lease[j]]
  /\ Goto(i, "check")
  /\ UNCHANGED <<attempt, cancel, left, todo, ran, seen, job, result, late>>

(* The loop looks at the time left; it looks again, a connection later, for   *)
(* the lease it claims with.                                                  *)
Check(i) ==
  /\ pc[i] = "check"
  /\ ran[i] < MaxJobs /\ left[i] >= MinTimeLeft
  /\ seen' = [seen EXCEPT ![i] = left[i]]
  /\ Goto(i, "claim")
  /\ UNCHANGED <<table, left, todo, ran, job, result, late>>

Enough(i) ==
  /\ pc[i] = "check"
  /\ ran[i] >= MaxJobs \/ left[i] < MinTimeLeft
  /\ Over(i)
  /\ UNCHANGED <<table, late>>

Due(j) == status[j] = "queued" /\ wait[j] = 0 /\ ~cancel[j]

(* FOR UPDATE SKIP LOCKED LIMIT 1; which of the due rows is left open. *)
Claim(i, j) ==
  /\ pc[i] = "claim" /\ Due(j)
  /\ status' = [status EXCEPT ![j] = "running"]
  /\ attempt' = [attempt EXCEPT ![j] = @ + 1]
  /\ owner' = [owner EXCEPT ![j] = i]
  /\ \E time \in left[i]..seen[i] : lease' = [lease EXCEPT ![j] = LeaseSeconds(time)]
  /\ job' = [job EXCEPT ![i] = j]
  /\ Goto(i, "run")
  /\ UNCHANGED <<wait, cancel, left, todo, ran, seen, result, late>>

NothingDue(i) ==
  /\ pc[i] = "claim" /\ \A j \in Jobs : ~Due(j)
  /\ Over(i)
  /\ UNCHANGED <<table, late>>

(* The kind's handler returns, raises PermanentError or JobFailed, or raises *)
(* anything else.                                                            *)
Results == {"ok", "permanent", "retryable"}

Handled(i) ==
  /\ pc[i] = "run"
  /\ \E r \in Results : result' = [result EXCEPT ![i] = r]
  /\ Goto(i, "finish")
  /\ UNCHANGED <<table, left, todo, ran, seen, job, late>>

Ended(j, r) ==
  IF r = "ok" THEN "succeeded"
  ELSE IF r = "retryable" /\ HasAttempts(j) THEN "queued" ELSE "failed"

(* Mutant: the finishing statement does not look at the owner. *)
Mut_AnyOwner(i, j, r) ==
  IF status[j] = "running"
  THEN /\ status' = [status EXCEPT ![j] = Ended(j, r)]
       /\ wait' = [wait EXCEPT ![j] = IF Ended(j, r) = "queued" THEN Backoff(attempt[j]) ELSE @]
       /\ owner' = [owner EXCEPT ![j] = None]
       /\ lease' = [lease EXCEPT ![j] = -1]
       /\ UNCHANGED <<attempt, cancel>>
  ELSE UNCHANGED table

(* complete or fail, by worker i: a no-op unless the row is still its own. *)
Recorded(i, j, r) ==
  IF status[j] = "running" /\ owner[j] = i
  THEN /\ status' = [status EXCEPT ![j] = Ended(j, r)]
       /\ wait' = [wait EXCEPT ![j] = IF Ended(j, r) = "queued" THEN Backoff(attempt[j]) ELSE @]
       /\ owner' = [owner EXCEPT ![j] = None]
       /\ lease' = [lease EXCEPT ![j] = -1]
       /\ UNCHANGED <<attempt, cancel>>
  ELSE UNCHANGED table

Finish(i) ==
  /\ pc[i] = "finish"
  /\ Recorded(i, job[i], result[i])
  /\ ran' = [ran EXCEPT ![i] = @ + 1]
  /\ job' = [job EXCEPT ![i] = None]
  /\ result' = [result EXCEPT ![i] = "none"]
  /\ Goto(i, "check")
  /\ UNCHANGED <<left, todo, seen, late>>

-----------------------------------------------------------------------------
(* The invocation dies: at the end of its time, or by a crash before.  What   *)
(* it sent last may be on its way.                                            *)
Die(i) ==
  /\ Live(i)
  /\ Over(i)
  /\ \/ UNCHANGED late
     \/ /\ pc[i] = "finish"
        /\ late' = [late EXCEPT ![i] = {[job |-> job[i], result |-> result[i]]}]
  /\ UNCHANGED table

Arrive(i) ==
  /\ \E m \in late[i] : Recorded(i, m.job, m.result)
  /\ late' = [late EXCEPT ![i] = {}]
  /\ UNCHANGED runner

Lose(i) ==
  /\ late[i] # {}
  /\ late' = [late EXCEPT ![i] = {}]
  /\ UNCHANGED <<table, runner>>

(* Nothing in the service sets cancel_requested: an operator does. *)
RequestCancel(j) ==
  /\ status[j] # "absent" /\ ~cancel[j]
  /\ cancel' = [cancel EXCEPT ![j] = TRUE]
  /\ UNCHANGED <<status, attempt, wait, owner, lease, runner, late>>

Tick ==
  /\ \A i \in Invocations : Live(i) => left[i] > 0
  /\ wait' = [j \in Jobs |-> Maximum(wait[j] - 1, 0)]
  /\ lease' = [j \in Jobs |-> Maximum(lease[j] - 1, -1)]
  /\ left' = [i \in Invocations |-> IF Live(i) THEN left[i] - 1 ELSE left[i]]
  /\ UNCHANGED <<status, attempt, owner, cancel, pc, todo, ran, seen, job, result, late>>

-----------------------------------------------------------------------------
Queueing(i) == \E j \in Jobs : Enqueue(i, j)

Claiming(i) == (\E j \in Jobs : Claim(i, j)) \/ NothingDue(i)

Step(i) == Queueing(i) \/ Reap(i) \/ Check(i) \/ Enough(i) \/ Claiming(i) \/ Handled(i) \/ Finish(i)

Next ==
  \/ \E i \in Invocations : Wake(i) \/ Step(i) \/ Die(i) \/ Arrive(i) \/ Lose(i)
  \/ \E j \in Jobs : RequestCancel(j)
  \/ Tick

Spec == Init /\ [][Next]_vars

Timeout(i) == left[i] = 0 /\ Die(i)

InTime(i) == left[i] >= MinTimeLeft

(* The daily rule goes on invoking; time passes; a killed invocation is gone; *)
(* and a statement takes milliseconds of an invocation's minutes: one that is *)
(* tried again and again gets through in time, not every invocation dies      *)
(* just before it.  Nothing is assumed of the handlers and of `finish`.       *)
FairSpec ==
  /\ Spec
  /\ WF_vars(\E i \in Invocations : Wake(i))
  /\ WF_vars(Tick)
  /\ \A i \in Invocations :
       /\ WF_vars(Timeout(i)) /\ WF_vars(Arrive(i) \/ Lose(i))
       /\ SF_vars(InTime(i) /\ Queueing(i)) /\ SF_vars(InTime(i) /\ Reap(i))
       /\ SF_vars(Check(i)) /\ SF_vars(Claiming(i))
-----------------------------------------------------------------------------
(* Every column and every local of the runner holds what it may hold. *)
TypeOK ==
  /\ status \in [Jobs -> Finished \cup {"absent", "queued", "running"}]
  /\ attempt \in [Jobs -> Nat]
  /\ wait \in [Jobs -> Nat]
  /\ owner \in [Jobs -> Invocations \cup {None}]
  /\ lease \in [Jobs -> Nat \cup {-1}]
  /\ cancel \in [Jobs -> BOOLEAN]
  /\ pc \in [Invocations -> {"off", "queue", "check", "claim", "run", "finish"}]
  /\ left \in [Invocations -> Nat]
  /\ todo \in [Invocations -> SUBSET Jobs]
  /\ ran \in [Invocations -> Nat]
  /\ seen \in [Invocations -> Nat]
  /\ job \in [Invocations -> Jobs \cup {None}]
  /\ result \in [Invocations -> Results \cup {"none"}]
  /\ late \in [Invocations -> SUBSET [job : Jobs, result : Results]]

(* The invocation is between its claim and the end of its finish. *)
Runs(i) == pc[i] \in {"run", "finish"}

(* "There is no heartbeat: the lease already covers the whole invocation": a  *)
(* live runner still owns its job when it finishes it, so no result of its    *)
(* is ever lost, and no other invocation can have reaped or claimed it.       *)
LiveRunnerOwnsItsJob ==
  \A i \in Invocations : Runs(i) =>
    /\ status[job[i]] = "running" /\ owner[job[i]] = i
    /\ lease[job[i]] >= left[i]

(* A job is executed by one runner at a time, at most max_attempts times, and *)
(* never again once it has an outcome, whatever dies and arrives late.        *)
Promise ==
  INSTANCE JobPromise WITH
    executing <- {job[i] : i \in {k \in Invocations : Runs(k)}},
    starts <- attempt,
    outcome <- [j \in Jobs |-> IF status[j] \in Finished THEN status[j] ELSE "open"]

KeepsPromise == Promise!Spec

(* A queued job comes to an end: it is not forgotten by a runner that died,   *)
(* nor put back for ever.                                                     *)
EveryJobEnds == \A j \in Jobs : status[j] # "absent" ~> status[j] \in Finished
=============================================================================
