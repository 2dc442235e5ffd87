-------------------------- MODULE JobQueueProofs --------------------------
(***************************************************************************)
(* Proofs about JobQueue, for any sets of jobs and invocations, any        *)
(* max_attempts and any times that satisfy TimesAssumption.                *)
(*                                                                         *)
(* That a live runner owns its job is not inductive: reap takes a row by   *)
(* its lease alone, so the lease must be as long as the invocation.  It is *)
(* because the time left was read before the claim (ClockOK), no Lambda    *)
(* runs longer than LEASE_MAX_S, and both count down together; and because *)
(* what a dead invocation sent cannot be taken for a live one's: request   *)
(* ids are not reused while such a statement is on its way (LateOK).       *)
(***************************************************************************)
EXTENDS JobQueue, FiniteSetTheorems, TLAPS

(* The time read before the claim covers the time left at the claim. *)
ClockOK ==
  \A i \in Invocations :
    /\ left[i] <= TimeLimit /\ seen[i] <= TimeLimit
    /\ pc[i] = "claim" => left[i] <= seen[i]

RunnerOK ==
  \A i \in Invocations :
    /\ Runs(i) => job[i] \in Jobs
    /\ pc[i] = "finish" => result[i] \in Results

LateOK == \A i \in Invocations : late[i] # {} => pc[i] = "off"

TableOK ==
  \A j \in Jobs :
    /\ owner[j] # None <=> status[j] = "running"
    /\ status[j] = "absent" => attempt[j] = 0
    /\ status[j] \in {"absent", "queued"} => attempt[j] < MaxAttempts[j]
    /\ status[j] = "running" => attempt[j] > 0 /\ attempt[j] <= MaxAttempts[j]

IndInv ==
  /\ TypeOK
  /\ ClockOK
  /\ RunnerOK
  /\ LateOK
  /\ TableOK
  /\ LiveRunnerOwnsItsJob

-----------------------------------------------------------------------------
(* A lease covers the time left it was computed from. *)
LEMMA LeaseCovers ==
  ASSUME NEW t \in Nat, t <= TimeLimit
  PROVE  LeaseSeconds(t) \in Nat /\ LeaseSeconds(t) >= t
BY TimesAssumption DEF LeaseSeconds, Minimum, Maximum

(* Powers of two are natural numbers: 2^n counts the subsets of 1..n.        *)
LEMMA PowerType ==
  ASSUME NEW n \in Nat
  PROVE  2 ^ n \in Nat
<1>1. IsFiniteSet(1..n) /\ Cardinality(1..n) = n
  BY FS_Interval
<1>2. IsFiniteSet(SUBSET (1..n)) /\ Cardinality(SUBSET (1..n)) = 2 ^ Cardinality(1..n)
  BY <1>1, FS_SUBSET
<1>3. Cardinality(SUBSET (1..n)) \in Nat
  BY <1>2, FS_CardinalityType
<1>4. QED
  BY <1>1, <1>2, <1>3

(* A backoff is a natural number of seconds.                                 *)
LEMMA BackoffType ==
  ASSUME NEW n \in Nat
  PROVE  Backoff(n) \in Nat
<1>1. Maximum(n - 1, 0) \in Nat
  BY DEF Maximum
<1>2. PICK p \in Nat : p = 2 ^ Maximum(n - 1, 0)
  BY <1>1, PowerType
<1>3. BackoffBase * p \in Nat
  BY TimesAssumption
<1>4. QED
  BY <1>2, <1>3, TimesAssumption DEF Backoff, Minimum

(* An empty table, and no invocation.                                        *)
LEMMA InitInv == Init => IndInv
BY TimesAssumption, AttemptsAssumption, JobsAssumption
   DEF Init, IndInv, TypeOK, ClockOK, RunnerOK, LateOK, TableOK, LiveRunnerOwnsItsJob, Runs, Results

-----------------------------------------------------------------------------
(* Each step keeps the invariant. *)

(* An invocation starts with all its time and without a job.                 *)
LEMMA WakeInv ==
  ASSUME IndInv, NEW i \in Invocations, Wake(i)
  PROVE  IndInv'
<1> USE DEF IndInv, Wake, Goto, Live
<1>1. TypeOK'
  BY TimesAssumption, JobsAssumption DEF TypeOK, table
<1>2. ClockOK'
  BY TimesAssumption DEF TypeOK, ClockOK
<1>3. RunnerOK' /\ LateOK' /\ TableOK'
  BY DEF TypeOK, RunnerOK, LateOK, TableOK, Runs, table
<1>4. LiveRunnerOwnsItsJob'
  BY DEF TypeOK, LiveRunnerOwnsItsJob, Runs, table
<1>5. QED
  BY <1>1, <1>2, <1>3, <1>4

(* A row inserted, or found by ON CONFLICT, is no live runner's.             *)
LEMMA EnqueueInv ==
  ASSUME IndInv, NEW i \in Invocations, NEW j \in Jobs, Enqueue(i, j)
  PROVE  IndInv'
<1> USE DEF IndInv, Enqueue
<1>1. TypeOK'
  BY DEF TypeOK
<1>2. ClockOK' /\ RunnerOK' /\ LateOK'
  BY DEF TypeOK, ClockOK, RunnerOK, LateOK, Runs
<1>3. TableOK'
  BY DEF TypeOK, TableOK
<1>4. LiveRunnerOwnsItsJob'
  BY DEF TypeOK, LiveRunnerOwnsItsJob, RunnerOK, Runs
<1>5. QED
  BY <1>1, <1>2, <1>3, <1>4

(* reap takes only rows whose lease ran out: no live runner's.               *)
LEMMA ReapInv ==
  ASSUME IndInv, NEW i \in Invocations, Reap(i)
  PROVE  IndInv'
<1> USE DEF IndInv, Reap, Goto
<1>1. TypeOK'
  <2>1. status' \in [Jobs -> Finished \cup {"absent", "queued", "running"}]
    BY DEF TypeOK, Finished
  <2>2. wait' \in [Jobs -> Nat] /\ owner' \in [Jobs -> Invocations \cup {None}]
        /\ lease' \in [Jobs -> Nat \cup {-1}]
    BY DEF TypeOK
  <2>3. pc' \in [Invocations -> {"off", "queue", "check", "claim", "run", "finish"}]
    BY DEF TypeOK
  <2>4. QED
    BY <2>1, <2>2, <2>3 DEF TypeOK
<1>2. ClockOK' /\ RunnerOK' /\ LateOK'
  BY DEF TypeOK, ClockOK, RunnerOK, LateOK, Runs
<1>3. TableOK'
  BY AttemptsAssumption DEF TypeOK, TableOK, Stopped, Expired, HasAttempts
<1>4. LiveRunnerOwnsItsJob'
  <2> SUFFICES ASSUME NEW k \in Invocations, Runs(k)'
               PROVE  (/\ status[job[k]] = "running" /\ owner[job[k]] = k
                       /\ lease[job[k]] >= left[k])'
    BY DEF LiveRunnerOwnsItsJob
  <2>1. Runs(k) /\ job[k] \in Jobs /\ job' = job /\ left' = left
    BY DEF TypeOK, Runs, RunnerOK
  <2>2. status[job[k]] = "running" /\ lease[job[k]] >= left[k] /\ left[k] \in Nat /\ owner[job[k]] = k
    BY <2>1 DEF LiveRunnerOwnsItsJob, TypeOK
  <2>3. ~Expired(job[k]) /\ ~Stopped(job[k])
    BY <2>1, <2>2 DEF Expired, Stopped, TypeOK
  <2>4. QED
    BY <2>1, <2>2, <2>3
<1>5. QED
  BY <1>1, <1>2, <1>3, <1>4

(* The time read at the head of the loop is the time left then.              *)
LEMMA CheckInv ==
  ASSUME IndInv, NEW i \in Invocations, Check(i)
  PROVE  IndInv'
<1> USE DEF IndInv, Check, Goto
<1>1. TypeOK'
  BY DEF TypeOK, table
<1>2. ClockOK' /\ RunnerOK' /\ LateOK'
  BY DEF TypeOK, ClockOK, RunnerOK, LateOK, Runs
<1>3. TableOK' /\ LiveRunnerOwnsItsJob'
  BY DEF TypeOK, TableOK, LiveRunnerOwnsItsJob, Runs, table
<1>4. QED
  BY <1>1, <1>2, <1>3

(* claim gives a due row, owned by nobody, a lease for the time left.        *)
LEMMA ClaimInv ==
  ASSUME IndInv, NEW i \in Invocations, NEW j \in Jobs, Claim(i, j)
  PROVE  IndInv'
<1> USE DEF IndInv, Claim, Goto
<1>1. PICK time \in left[i]..seen[i] : lease' = [lease EXCEPT ![j] = LeaseSeconds(time)]
  OBVIOUS
<1>2. left[i] \in Nat /\ time \in Nat /\ time >= left[i] /\ time <= TimeLimit
  BY <1>1, TimesAssumption DEF TypeOK, ClockOK
<1>3. LeaseSeconds(time) \in Nat /\ LeaseSeconds(time) >= left[i]
  BY <1>2, LeaseCovers, TimesAssumption
<1>4. TypeOK'
  BY <1>1, <1>3 DEF TypeOK
<1>5. ClockOK' /\ LateOK'
  BY DEF TypeOK, ClockOK, LateOK
<1>6. RunnerOK' /\ TableOK'
  <2>1. RunnerOK'
    BY DEF TypeOK, RunnerOK, Runs
  <2>2. attempt[j] \in Nat /\ attempt[j] < MaxAttempts[j] /\ i # None /\ MaxAttempts[j] \in Nat
    BY AttemptsAssumption, JobsAssumption DEF TypeOK, TableOK, Due
  <2>3. TableOK'
    BY <2>2 DEF TypeOK, TableOK
  <2>4. QED
    BY <2>1, <2>3
<1>7. LiveRunnerOwnsItsJob'
  <2> SUFFICES ASSUME NEW k \in Invocations, Runs(k)'
               PROVE  (/\ status[job[k]] = "running" /\ owner[job[k]] = k
                       /\ lease[job[k]] >= left[k])'
    BY DEF LiveRunnerOwnsItsJob
  <2>1. CASE k = i
    BY <1>1, <1>2, <1>3, <2>1 DEF TypeOK
  <2>2. CASE k # i
    <3>1. Runs(k) /\ job'[k] = job[k] /\ left' = left
      BY <2>2 DEF Runs, TypeOK
    <3>2. job[k] # j /\ job[k] \in Jobs
      BY <3>1 DEF LiveRunnerOwnsItsJob, Due, RunnerOK
    <3>3. QED
      BY <1>1, <3>1, <3>2 DEF LiveRunnerOwnsItsJob, TypeOK
  <2>3. QED
    BY <2>1, <2>2
<1>8. QED
  BY <1>4, <1>5, <1>6, <1>7

(* The end of a handler changes the runner alone.                            *)
LEMMA HandledInv ==
  ASSUME IndInv, NEW i \in Invocations, Handled(i)
  PROVE  IndInv'
<1> USE DEF IndInv, Handled, Goto
<1>1. TypeOK'
  BY DEF TypeOK, table
<1>2. ClockOK' /\ RunnerOK' /\ LateOK'
  BY DEF TypeOK, ClockOK, RunnerOK, LateOK, Runs
<1>3. TableOK' /\ LiveRunnerOwnsItsJob'
  BY DEF TypeOK, TableOK, LiveRunnerOwnsItsJob, Runs, table
<1>4. QED
  BY <1>1, <1>2, <1>3

(* The invocation is over, and the table as it was: what it knew is gone. *)
LEMMA OverInv ==
  ASSUME IndInv, NEW i \in Invocations, Over(i), UNCHANGED table,
         late' \in [Invocations -> SUBSET [job : Jobs, result : Results]],
         \A k \in Invocations : k # i => late'[k] = late[k]
  PROVE  IndInv'
<1> USE DEF IndInv, Over, Goto
<1>1. TypeOK'
  BY DEF TypeOK, table
<1>2. ClockOK' /\ RunnerOK' /\ LateOK'
  BY TimesAssumption DEF TypeOK, ClockOK, RunnerOK, LateOK, Runs
<1>3. TableOK' /\ LiveRunnerOwnsItsJob'
  BY DEF TypeOK, TableOK, LiveRunnerOwnsItsJob, Runs, table
<1>4. QED
  BY <1>1, <1>2, <1>3

(* A finishing statement of i, on its job j or too late. *)
LEMMA RecordedTable ==
  ASSUME IndInv, NEW i \in Invocations, NEW j \in Jobs, NEW r \in Results, Recorded(i, j, r)
  PROVE  /\ status' \in [Jobs -> Finished \cup {"absent", "queued", "running"}]
         /\ attempt' = attempt /\ cancel' = cancel
         /\ wait' \in [Jobs -> Nat]
         /\ owner' \in [Jobs -> Invocations \cup {None}]
         /\ lease' \in [Jobs -> Nat \cup {-1}]
         /\ TableOK'
         /\ \A k \in Jobs : owner[k] # i =>
              status'[k] = status[k] /\ owner'[k] = owner[k] /\ lease'[k] = lease[k]
<1> USE DEF IndInv
<1>1. CASE ~(status[j] = "running" /\ owner[j] = i)
  BY <1>1 DEF Recorded, table, TypeOK, TableOK
<1>2. CASE status[j] = "running" /\ owner[j] = i
  <2>1. Ended(j, r) \in Finished \cup {"queued"} /\ (Ended(j, r) = "queued" => HasAttempts(j))
    BY DEF Ended, Finished, Results
  <2>2. Backoff(attempt[j]) \in Nat
    BY BackoffType DEF TypeOK
  <2>3. wait' \in [Jobs -> Nat]
    BY <1>2, <2>2 DEF Recorded, TypeOK
  <2>4. TableOK'
    BY <1>2, <2>1 DEF Recorded, TypeOK, TableOK, HasAttempts, Finished
  <2>5. QED
    BY <1>2, <2>1, <2>3, <2>4 DEF Recorded, TypeOK
<1>3. QED
  BY <1>1, <1>2

(* A runner that records its result gives up its job.                        *)
LEMMA FinishInv ==
  ASSUME IndInv, NEW i \in Invocations, Finish(i)
  PROVE  IndInv'
<1> USE DEF IndInv, Finish, Goto
<1>1. job[i] \in Jobs /\ result[i] \in Results
  BY DEF RunnerOK, Runs
<1>2. /\ status' \in [Jobs -> Finished \cup {"absent", "queued", "running"}]
      /\ attempt' = attempt /\ cancel' = cancel
      /\ wait' \in [Jobs -> Nat]
      /\ owner' \in [Jobs -> Invocations \cup {None}]
      /\ lease' \in [Jobs -> Nat \cup {-1}]
      /\ TableOK'
      /\ \A k \in Jobs : owner[k] # i =>
           status'[k] = status[k] /\ owner'[k] = owner[k] /\ lease'[k] = lease[k]
  BY <1>1, RecordedTable
<1>3. TypeOK'
  BY <1>2 DEF TypeOK
<1>4. ClockOK' /\ RunnerOK' /\ LateOK'
  BY DEF TypeOK, ClockOK, RunnerOK, LateOK, Runs
<1>5. LiveRunnerOwnsItsJob'
  BY <1>2 DEF TypeOK, LiveRunnerOwnsItsJob, RunnerOK, Runs
<1>6. QED
  BY <1>2, <1>3, <1>4, <1>5

(* A dead invocation leaves its row, and may leave a statement on its way.   *)
LEMMA DieInv ==
  ASSUME IndInv, NEW i \in Invocations, Die(i)
  PROVE  IndInv'
<1>1. /\ late' \in [Invocations -> SUBSET [job : Jobs, result : Results]]
      /\ \A k \in Invocations : k # i => late'[k] = late[k]
  BY DEF IndInv, TypeOK, RunnerOK, Runs, Die
<1>2. QED
  BY <1>1, OverInv DEF Die

(* A dead invocation's late statement touches only a row it still owns.      *)
LEMMA ArriveInv ==
  ASSUME IndInv, NEW i \in Invocations, Arrive(i)
  PROVE  IndInv'
<1> USE DEF IndInv, Arrive, runner
<1>1. PICK m \in late[i] : Recorded(i, m.job, m.result)
  OBVIOUS
<1>2. m.job \in Jobs /\ m.result \in Results /\ pc[i] = "off"
  BY DEF TypeOK, LateOK
<1>3. /\ status' \in [Jobs -> Finished \cup {"absent", "queued", "running"}]
      /\ attempt' = attempt /\ cancel' = cancel
      /\ wait' \in [Jobs -> Nat]
      /\ owner' \in [Jobs -> Invocations \cup {None}]
      /\ lease' \in [Jobs -> Nat \cup {-1}]
      /\ TableOK'
      /\ \A k \in Jobs : owner[k] # i =>
           status'[k] = status[k] /\ owner'[k] = owner[k] /\ lease'[k] = lease[k]
  BY <1>1, <1>2, RecordedTable
<1>4. TypeOK'
  BY <1>3 DEF TypeOK
<1>5. ClockOK' /\ RunnerOK' /\ LateOK'
  BY DEF TypeOK, ClockOK, RunnerOK, LateOK, Runs
<1>6. LiveRunnerOwnsItsJob'
  BY <1>2, <1>3 DEF TypeOK, LiveRunnerOwnsItsJob, RunnerOK, Runs
<1>7. QED
  BY <1>3, <1>4, <1>5, <1>6

(* A late statement that is lost changes nothing else.                       *)
LEMMA LoseInv ==
  ASSUME IndInv, NEW i \in Invocations, Lose(i)
  PROVE  IndInv'
BY DEF IndInv, Lose, runner, table, TypeOK, ClockOK, RunnerOK, LateOK, TableOK,
       LiveRunnerOwnsItsJob, Runs

(* A cancel request does not touch a running job.                            *)
LEMMA RequestCancelInv ==
  ASSUME IndInv, NEW j \in Jobs, RequestCancel(j)
  PROVE  IndInv'
BY DEF IndInv, RequestCancel, runner, TypeOK, ClockOK, RunnerOK, LateOK, TableOK,
       LiveRunnerOwnsItsJob, Runs

(* Leases and invocations count down together.                               *)
LEMMA TickInv ==
  ASSUME IndInv, Tick
  PROVE  IndInv'
<1> USE DEF IndInv, Tick, Live
<1>1. TypeOK'
  <2>1. wait' \in [Jobs -> Nat] /\ lease' \in [Jobs -> Nat \cup {-1}]
    BY DEF TypeOK, Maximum
  <2>2. left' \in [Invocations -> Nat]
    BY DEF TypeOK
  <2>3. QED
    BY <2>1, <2>2 DEF TypeOK
<1>2. ClockOK'
  BY TimesAssumption DEF TypeOK, ClockOK
<1>3. RunnerOK' /\ LateOK' /\ TableOK'
  BY DEF RunnerOK, LateOK, TableOK, Runs
<1>4. LiveRunnerOwnsItsJob'
  BY DEF TypeOK, LiveRunnerOwnsItsJob, RunnerOK, Runs, Maximum
<1>5. QED
  BY <1>1, <1>2, <1>3, <1>4

(* Every step keeps the invariant.                                           *)
LEMMA NextInv == IndInv /\ [Next]_vars => IndInv'
<1> SUFFICES ASSUME IndInv, [Next]_vars PROVE IndInv'
  OBVIOUS
<1>1. ASSUME NEW i \in Invocations, Step(i)
      PROVE  IndInv'
  <2>1. CASE Queueing(i)
    BY <2>1, EnqueueInv DEF Queueing
  <2>2. CASE Reap(i)
    BY <2>2, ReapInv
  <2>3. CASE Check(i)
    BY <2>3, CheckInv
  <2>4. CASE Enough(i) \/ NothingDue(i)
    BY <2>4, OverInv DEF Enough, NothingDue, IndInv, TypeOK
  <2>5. CASE \E j \in Jobs : Claim(i, j)
    BY <2>5, ClaimInv
  <2>6. CASE Handled(i)
    BY <2>6, HandledInv
  <2>7. CASE Finish(i)
    BY <2>7, FinishInv
  <2>8. QED
    BY <1>1, <2>1, <2>2, <2>3, <2>4, <2>5, <2>6, <2>7 DEF Step, Claiming
<1>2. ASSUME NEW i \in Invocations, Wake(i) \/ Die(i) \/ Arrive(i) \/ Lose(i)
      PROVE  IndInv'
  BY <1>2, WakeInv, DieInv, ArriveInv, LoseInv
<1>3. ASSUME NEW j \in Jobs, RequestCancel(j)
      PROVE  IndInv'
  BY <1>3, RequestCancelInv
<1>4. CASE Tick
  BY <1>4, TickInv
<1>5. CASE UNCHANGED vars
  BY <1>5 DEF vars, table, runner, IndInv, TypeOK, ClockOK, RunnerOK, LateOK, TableOK,
             LiveRunnerOwnsItsJob, Runs
<1>6. QED
  BY <1>1, <1>2, <1>3, <1>4, <1>5 DEF Next

(* The inductive invariant holds of every behaviour of the job table and the *)
(* invocations that serve it.                                                *)
THEOREM Inductive == Spec => []IndInv
<1>1. QED
  BY InitInv, NextInv, PTL DEF Spec

(* The rows of the job table and the runner's locals keep their types. *)
THEOREM TypeCorrect == Spec => []TypeOK
<1>1. IndInv => TypeOK
  BY DEF IndInv
<1>2. QED
  BY <1>1, Inductive, PTL

(* run_due's docstring: the lease covers the whole invocation, so a runner    *)
(* that is alive still owns the job it runs; no heartbeat is needed.          *)
THEOREM LeaseCoversTheRun == Spec => []LiveRunnerOwnsItsJob
<1>1. IndInv => LiveRunnerOwnsItsJob
  BY DEF IndInv
<1>2. QED
  BY <1>1, Inductive, PTL
-----------------------------------------------------------------------------
(* The promise of JobPromise: one runner per job, at most max_attempts       *)
(* starts, one outcome.                                                      *)

Executing == {job[i] : i \in {k \in Invocations : Runs(k)}}

Outcome == [j \in Jobs |-> IF status[j] \in Finished THEN status[j] ELSE "open"]

promised == <<Executing, attempt, Outcome>>

(* Runners of different invocations run different jobs. *)
LEMMA OneRunner ==
  ASSUME IndInv
  PROVE  \A i, k \in Invocations : Runs(i) /\ Runs(k) /\ job[i] = job[k] => i = k
BY DEF IndInv, LiveRunnerOwnsItsJob

(* A job that is executed is open, and was started. *)
LEMMA ExecutingIsOpen ==
  ASSUME IndInv, NEW i \in Invocations, Runs(i)
  PROVE  /\ job[i] \in Jobs /\ job[i] \in Executing
         /\ status[job[i]] = "running" /\ Outcome[job[i]] = "open" /\ attempt[job[i]] > 0
BY DEF IndInv, LiveRunnerOwnsItsJob, RunnerOK, TableOK, Executing, Outcome, Finished

(* The invocation stops running; the others go on as they were. *)
LEMMA RunnerStops ==
  ASSUME IndInv, NEW i \in Invocations, Runs(i), ~Runs(i)',
         \A k \in Invocations : k # i => (Runs(k)' <=> Runs(k)) /\ job'[k] = job[k]
  PROVE  Executing' = Executing \ {job[i]}
BY OneRunner DEF Executing

(* Nobody starts or stops running. *)
LEMMA RunnersStay ==
  ASSUME \A k \in Invocations : (Runs(k)' <=> Runs(k)) /\ (Runs(k) => job'[k] = job[k])
  PROVE  Executing' = Executing
BY DEF Executing

(* Rows that come to an end while nobody executes them are settled. *)
LEMMA Settled ==
  ASSUME attempt' = attempt, Executing' = Executing,
         \A j \in Jobs : status[j] \in Finished => status'[j] = status[j],
         \A j \in Jobs : status[j] \notin Finished /\ status'[j] \in Finished =>
           j \notin Executing /\ (status'[j] = "succeeded" => attempt[j] > 0)
  PROVE  Promise!Next
<1>1. PICK S \in SUBSET Jobs : S = {j \in Jobs : status[j] \notin Finished /\ status'[j] \in Finished}
  OBVIOUS
<1>2. PICK o \in [S -> Finished] : o = [j \in S |-> status'[j]]
  BY <1>1
<1>3. \A j \in S : o[j] = "succeeded" => attempt[j] > 0
  BY <1>1, <1>2
<1>4. Outcome' = [j \in Jobs |-> IF j \in S THEN o[j] ELSE Outcome[j]]
  BY <1>1, <1>2 DEF Outcome
<1>5. S \cap Executing = {} /\ \A j \in S : Outcome[j] = "open"
  BY <1>1 DEF Outcome
<1>6. Promise!Settle(S)
  BY <1>2, <1>3, <1>4, <1>5 DEF Promise!Settle, Promise!Outcomes, Finished, Executing, Outcome
<1>7. QED
  BY <1>6 DEF Promise!Next

(* claim is the promise's start of a job.                                    *)
LEMMA ClaimStarts ==
  ASSUME IndInv, NEW i \in Invocations, NEW j \in Jobs, Claim(i, j)
  PROVE  Promise!Next
<1> USE DEF IndInv
<1>1. j \notin Executing /\ Outcome[j] = "open" /\ attempt[j] < MaxAttempts[j]
  BY DEF Claim, Due, Executing, Outcome, Finished, LiveRunnerOwnsItsJob, TableOK
<1>2. ~Runs(i) /\ Runs(i)' /\ job'[i] = j
  BY DEF Claim, Goto, Runs, TypeOK
<1>3. \A k \in Invocations : k # i => (Runs(k)' <=> Runs(k)) /\ job'[k] = job[k]
  BY DEF Claim, Goto, Runs, TypeOK
<1>4. Executing' = Executing \cup {j}
  BY <1>2, <1>3 DEF Executing
<1>5. Outcome' = Outcome
  BY DEF Claim, Due, Outcome, Finished, TypeOK
<1>6. attempt' = [attempt EXCEPT ![j] = @ + 1]
  BY DEF Claim
<1>7. Promise!Start(j)
  BY <1>1, <1>4, <1>5, <1>6 DEF Promise!Start, Executing, Outcome
<1>8. QED
  BY <1>7 DEF Promise!Next

(* What a finishing statement of i does to the outcome of its job. *)
LEMMA RecordedOutcome ==
  ASSUME IndInv, NEW i \in Invocations, NEW j \in Jobs, NEW r \in Results, Recorded(i, j, r)
  PROVE  /\ attempt' = attempt
         /\ \/ Outcome' = Outcome
            \/ /\ status[j] = "running" /\ owner[j] = i /\ Outcome[j] = "open" /\ attempt[j] > 0
               /\ status'[j] \in Finished
               /\ Outcome' = [Outcome EXCEPT ![j] = status'[j]]
<1> USE DEF IndInv
<1>1. CASE ~(status[j] = "running" /\ owner[j] = i)
  BY <1>1 DEF Recorded, table, Outcome
<1>2. CASE status[j] = "running" /\ owner[j] = i
  <2>1. Ended(j, r) \in Finished \cup {"queued"}
    BY DEF Ended, Finished, Results
  <2>2. status' = [status EXCEPT ![j] = Ended(j, r)] /\ attempt' = attempt
    BY <1>2 DEF Recorded
  <2>3. Outcome[j] = "open" /\ attempt[j] > 0
    BY <1>2 DEF Outcome, Finished, TableOK
  <2>4. CASE Ended(j, r) = "queued"
    BY <1>2, <2>2, <2>4 DEF Outcome, Finished, TypeOK
  <2>5. CASE Ended(j, r) \in Finished
    <3>1. status'[j] \in Finished /\ \A k \in Jobs : k # j => status'[k] = status[k]
      BY <2>2, <2>5 DEF TypeOK
    <3>2. Outcome' = [Outcome EXCEPT ![j] = status'[j]]
      BY <3>1 DEF Outcome
    <3>3. QED
      BY <1>2, <2>2, <2>3, <3>1, <3>2
  <2>6. QED
    BY <2>1, <2>4, <2>5
<1>3. QED
  BY <1>1, <1>2

(* A finished handler is the promise's stop, with or without an outcome.     *)
LEMMA FinishStops ==
  ASSUME IndInv, NEW i \in Invocations, Finish(i)
  PROVE  Promise!Next
<1>1. Runs(i) /\ result[i] \in Results /\ job[i] \in Jobs /\ Recorded(i, job[i], result[i])
  BY DEF Finish, Runs, IndInv, RunnerOK
<1>2. /\ attempt' = attempt
      /\ \/ Outcome' = Outcome
         \/ /\ Outcome[job[i]] = "open" /\ status'[job[i]] \in Finished
            /\ Outcome' = [Outcome EXCEPT ![job[i]] = status'[job[i]]]
  BY <1>1, RecordedOutcome
<1>3. ~Runs(i)' /\ \A k \in Invocations : k # i => (Runs(k)' <=> Runs(k)) /\ job'[k] = job[k]
  BY DEF Finish, Goto, Runs, IndInv, TypeOK
<1>4. Executing' = Executing \ {job[i]}
  BY <1>1, <1>3, RunnerStops
<1>5. job[i] \in Executing
  BY <1>1 DEF Executing
<1>6. PICK j \in Jobs : j = job[i]
  BY <1>1
<1>7. Promise!Stop(j)
  BY <1>2, <1>4, <1>5, <1>6 DEF Promise!Stop, Promise!Outcomes, Finished, Executing, Outcome
<1>8. QED
  BY <1>7 DEF Promise!Next

(* A runner that dies, or leaves its loop, decides no outcome. *)
LEMMA OverStops ==
  ASSUME IndInv, NEW i \in Invocations, Over(i), UNCHANGED table
  PROVE  Promise!Next \/ UNCHANGED promised
<1>1. attempt' = attempt /\ Outcome' = Outcome
  BY DEF table, Outcome
<1>2. ~Runs(i)' /\ \A k \in Invocations : k # i => (Runs(k)' <=> Runs(k)) /\ job'[k] = job[k]
  BY DEF Over, Goto, Runs, IndInv, TypeOK
<1>3. CASE Runs(i)
  <2>1. Executing' = Executing \ {job[i]} /\ job[i] \in Executing /\ job[i] \in Jobs
    BY <1>2, <1>3, RunnerStops, ExecutingIsOpen
  <2>2. PICK j \in Jobs : j = job[i]
    BY <2>1
  <2>3. Promise!Stop(j)
    BY <1>1, <2>1, <2>2 DEF Promise!Stop, Executing, Outcome
  <2>4. QED
    BY <2>3 DEF Promise!Next
<1>4. CASE ~Runs(i)
  BY <1>1, <1>2, <1>4, RunnersStay DEF promised
<1>5. QED
  BY <1>3, <1>4

(* A late statement settles a job nobody executes, or does nothing.          *)
LEMMA ArriveSettles ==
  ASSUME IndInv, NEW i \in Invocations, Arrive(i)
  PROVE  Promise!Next
<1>1. PICK m \in late[i] : Recorded(i, m.job, m.result)
  BY DEF Arrive
<1>2. m.job \in Jobs /\ m.result \in Results /\ pc[i] = "off"
  BY DEF IndInv, TypeOK, LateOK
<1>3. Executing' = Executing
  BY DEF Arrive, runner, Executing, Runs
<1>4. attempt' = attempt /\ \A k \in Jobs : owner[k] # i => status'[k] = status[k]
  BY <1>1, <1>2, RecordedTable
<1>5. \A k \in Jobs : owner[k] = i => status[k] = "running" /\ attempt[k] > 0 /\ k \notin Executing
  BY <1>2, JobsAssumption DEF IndInv, TableOK, LiveRunnerOwnsItsJob, Executing, Runs
<1>6. QED
  BY <1>3, <1>4, <1>5, Settled DEF Finished

(* reap settles jobs nobody executes.                                        *)
LEMMA ReapSettles ==
  ASSUME IndInv, NEW i \in Invocations, Reap(i)
  PROVE  Promise!Next
<1>1. attempt' = attempt
  BY DEF Reap
<1>2. Executing' = Executing
  <2>1. \A k \in Invocations : (Runs(k)' <=> Runs(k)) /\ job'[k] = job[k]
    BY DEF Reap, Goto, Runs, IndInv, TypeOK
  <2>2. QED
    BY <2>1, RunnersStay
<1>3. \A k \in Executing : status[k] = "running" /\ ~Expired(k) /\ ~Stopped(k)
  <2> SUFFICES ASSUME NEW k \in Invocations, Runs(k)
               PROVE  status[job[k]] = "running" /\ ~Expired(job[k])
    BY DEF Executing, Stopped
  <2>1. job[k] \in Jobs /\ status[job[k]] = "running" /\ lease[job[k]] >= left[k] /\ left[k] \in Nat
    BY DEF IndInv, LiveRunnerOwnsItsJob, TypeOK, RunnerOK
  <2>2. lease[job[k]] \in Nat \cup {-1}
    BY <2>1 DEF IndInv, TypeOK
  <2>3. QED
    BY <2>1, <2>2 DEF Expired
<1>4. \A j \in Jobs : status[j] \in Finished => status'[j] = status[j]
  BY DEF Reap, Stopped, Expired, Finished
<1>5. \A j \in Jobs : status[j] \notin Finished /\ status'[j] \in Finished =>
        (Stopped(j) \/ Expired(j)) /\ status'[j] # "succeeded"
  BY DEF Reap, Finished
<1>6. \A j \in Jobs : status[j] \notin Finished /\ status'[j] \in Finished =>
        j \notin Executing /\ (status'[j] = "succeeded" => attempt[j] > 0)
  BY <1>3, <1>5
<1>7. QED
  BY <1>1, <1>2, <1>4, <1>6, Settled

(* The statements of concurrent invocations, reaping, retries, deaths and     *)
(* late results keep the promise: a job has one runner at a time, at most     *)
(* max_attempts starts, and one outcome that nothing replaces.                *)
THEOREM KeepsThePromise == Spec => KeepsPromise
<1>1. Init => Promise!Init
  BY DEF Init, Promise!Init, Runs, Finished
<1>2. IndInv /\ [Next]_vars => [Promise!Next]_promised
  <2> SUFFICES ASSUME IndInv, [Next]_vars
               PROVE  Promise!Next \/ UNCHANGED promised
    OBVIOUS
  <2>1. ASSUME NEW i \in Invocations, Claiming(i) \/ Finish(i) \/ Reap(i) \/ Enough(i) \/ Die(i)
        PROVE  Promise!Next \/ UNCHANGED promised
    BY <2>1, ClaimStarts, FinishStops, ReapSettles, OverStops DEF Claiming, NothingDue, Enough, Die
  <2>2. ASSUME NEW i \in Invocations, Arrive(i)
        PROVE  Promise!Next \/ UNCHANGED promised
    BY <2>2, ArriveSettles
  <2>3. ASSUME NEW i \in Invocations, Wake(i) \/ Check(i) \/ Handled(i)
        PROVE  UNCHANGED promised
    <3>1. attempt' = attempt /\ Outcome' = Outcome
      BY <2>3 DEF Wake, Check, Handled, table, Outcome
    <3>2. \A k \in Invocations : (Runs(k)' <=> Runs(k)) /\ job'[k] = job[k]
      BY <2>3 DEF Wake, Check, Handled, Goto, Live, Runs, IndInv, TypeOK
    <3>3. QED
      BY <3>1, <3>2, RunnersStay DEF promised
  <2>4. ASSUME NEW i \in Invocations, Queueing(i)
        PROVE  UNCHANGED promised
    <3>1. PICK j \in Jobs : Enqueue(i, j)
      BY <2>4 DEF Queueing
    <3>2. Outcome' = Outcome
      BY <3>1 DEF Enqueue, Outcome, Finished, IndInv, TypeOK
    <3>3. Executing' = Executing /\ attempt' = attempt
      BY <3>1 DEF Enqueue, Executing, Runs
    <3>4. QED
      BY <3>2, <3>3 DEF promised
  <2>5. CASE Tick \/ (\E i \in Invocations : Lose(i)) \/ (\E j \in Jobs : RequestCancel(j))
    BY <2>5 DEF Tick, Lose, RequestCancel, table, runner, promised, Executing, Runs, Outcome
  <2>6. CASE UNCHANGED vars
    BY <2>6 DEF vars, table, runner, promised, Executing, Runs, Outcome
  <2>7. QED
    BY <2>1, <2>2, <2>3, <2>4, <2>5, <2>6 DEF Next, Step
<1>3. QED
  BY <1>1, <1>2, Inductive, PTL DEF Spec, KeepsPromise, Promise!Spec, promised, Executing, Outcome
=============================================================================
