----------------------------- MODULE Retention -----------------------------
(***************************************************************************)
(* The retention kind of the jobs Lambda (backend/jobs/outbox_redact.py):  *)
(* jobs that redact the personal data of tripplanner.outbox rows older     *)
(* than a window, a batch to a transaction, under a session-level advisory *)
(* lock.  What a scheduled run may do is decided from the results earlier  *)
(* runs left in the job table.                                             *)
(*                                                                         *)
(* Rows are numbered by created_at, and a cutoff is the number of rows     *)
(* before it: rows yet to be written are before none.  A job runs in a     *)
(* Lambda that may be killed, on a connection that may break: the database *)
(* ends the session, and its lock, only later.                             *)
(***************************************************************************)
EXTENDS Integers, FiniteSets

CONSTANTS
  Jobs,      \* the jobs of this kind that are ever queued
  Workloads, \* the payloads they may be queued with
  Windows,   \* the retention windows a window may have, in days
  None,
  MaxRows,   \* bound: rows of the outbox old enough for any run to look at
  RunMax,    \* RUN_MAX_ROWS
  BatchMax,  \* BATCH_SIZE_MAX
  Floor,     \* GROWTH_FLOOR_ROWS
  OverrideMax  \* OVERRIDE_MAX_ROWS

Triggers == {"schedule", "manual", "manual_override"}

(* `age` is older_than_days: absent, below OVERRIDE_MIN_AGE_DAYS, or above;   *)
(* max_rows absent is 0, which is refused all the same.                       *)
Payloads == [trigger : Triggers, live : BOOLEAN, max : Nat, age : {"none", "low", "ok"}]

ASSUME WorkloadsAssumption == Workloads \subseteq [Jobs -> Payloads]

ASSUME BoundsAssumption ==
  /\ {MaxRows, RunMax, Floor, OverrideMax} \subseteq Nat
  /\ BatchMax \in Nat \ {0}

ASSUME NoneAssumption == None \notin Jobs /\ None \notin Windows

VARIABLES
  expired,   \* how many rows are before the window's cutoff
  redacted,  \* the rows with redacted_at
  lock,      \* the job whose database session holds the kind's advisory lock
  flying,    \* the rows of a commit that a lost client had sent
  window,    \* the deployed WINDOW_DAYS
  last,      \* what LAST_LIVE_SQL finds: the last live run that succeeded
  pc,        \* where each job is
  attempt,
  payload,
  run,       \* what a run has read and decided
  result,    \* the job row's status and result
  touched    \* history: the rows a job redacted

store == <<expired, redacted>>
table == <<last, attempt, payload, result>>
vars == <<store, lock, flying, window, table, pc, run, touched>>

GROWTH_FACTOR == 2

(* Mutant: a retention job may be tried again. *)
Mut_Retried == 2

MAX_ATTEMPTS == 1

Least(a, b) == IF a <= b THEN a ELSE b
Most(a, b) == IF a <= b THEN b ELSE a

NoLive == [window |-> None, affected |-> 0]
NoRun == [window |-> None, cut |-> 0, candidates |-> 0, limit |-> 0, affected |-> 0,
          mode |-> "none", ends |-> "none"]
NoResult == [status |-> "open", mode |-> "none", affected |-> 0]

Init ==
  /\ expired = 0 /\ redacted = {}
  /\ lock = None /\ flying = {}
  /\ window \in Windows
  /\ last = NoLive
  /\ pc = [j \in Jobs |-> "queued"]
  /\ attempt = [j \in Jobs |-> 0]
  /\ payload \in Workloads
  /\ run = [j \in Jobs |-> NoRun]
  /\ result = [j \in Jobs |-> NoResult]
  /\ touched = [j \in Jobs |-> {}]

Goto(j, label) == pc' = [pc EXCEPT ![j] = label]

(* A run that is over is known by its window only. *)
Forgotten(j) == [run EXCEPT ![j] = [NoRun EXCEPT !.window = run[j].window]]

-----------------------------------------------------------------------------
(* The world around the jobs. *)

(* Days pass: the next row falls out of the window. *)
Expire ==
  /\ expired < MaxRows
  /\ expired' = expired + 1
  /\ UNCHANGED <<redacted, lock, flying, window, table, pc, run, touched>>

(* A deployment changes the window, and with it which rows are past it. *)
Redeploy ==
  /\ window' \in Windows \ {window}
  /\ expired' \in 0..MaxRows
  /\ UNCHANGED <<redacted, lock, flying, table, pc, run, touched>>

-----------------------------------------------------------------------------
(* A run.  Its invocation keeps the code, hence the window, it began with.   *)

(* older_than_days is for overrides only. *)
Valid(p) == p.age # "none" => p.trigger = "manual_override"

(* The ways out: `ends` is what the runner will record.  Every way out of the *)
(* part under the lock goes through the `finally` that releases it.           *)
Over(r, mode, ending) ==
  [NoRun EXCEPT !.window = r.window, !.affected = r.affected, !.mode = mode, !.ends = ending]

Leave(j, label, mode, ending) ==
  /\ run' = [run EXCEPT ![j] = Over(@, mode, ending)]
  /\ Goto(j, label)

Start(j) ==
  /\ pc[j] = "queued"
  /\ attempt' = [attempt EXCEPT ![j] = @ + 1]
  /\ IF Valid(payload[j])
     THEN /\ run' = [run EXCEPT ![j] = [NoRun EXCEPT !.window = window]]
          /\ Goto(j, "lock")
     ELSE Leave(j, "record", "none", "error")
  /\ UNCHANGED <<store, lock, flying, window, last, payload, result, touched>>

(* Mutant: the answer of pg_try_advisory_lock is not looked at. *)
Mut_AnyAnswer == TRUE

LockIsFree == lock = None

TryLock(j) ==
  /\ pc[j] = "lock"
  /\ \/ /\ LockIsFree
        /\ lock' = j
        /\ Goto(j, "count")
        /\ UNCHANGED run
     \/ /\ ~LockIsFree
        /\ Leave(j, "record", "none", "error")
        /\ UNCHANGED lock
  /\ UNCHANGED <<store, flying, window, table, touched>>

(* override_days: a live override needs the deployment's gate (ENVIRONMENT    *)
(* and RETENTION_OVERRIDE_ENABLED), a week's age and a maximum.               *)
OverrideRefused(p, gate) ==
  /\ p.trigger = "manual_override"
  /\ \/ p.age = "none"
     \/ p.live /\ (~gate \/ p.age = "low" \/ p.max \notin 1..OverrideMax)

Before(cut) == {r \in 1..cut : r \notin redacted}

(* The cutoff of an override is wherever its age puts it; so is that of a run *)
(* that began before the last deployment.                                     *)
Cuts(j) ==
  IF payload[j].trigger = "manual_override" \/ run[j].window # window THEN 0..MaxRows ELSE {expired}

Count(j) ==
  /\ pc[j] = "count"
  /\ \E gate \in BOOLEAN :
       \/ OverrideRefused(payload[j], gate) /\ Leave(j, "unlock", "none", "error")
       \/ /\ ~OverrideRefused(payload[j], gate)
          /\ \E cut \in Cuts(j) :
               run' = [run EXCEPT ![j].cut = cut, ![j].candidates = Cardinality(Before(cut))]
          /\ Goto(j, "decide")
  /\ UNCHANGED <<store, lock, flying, window, table, touched>>

(* decide_mode, from what LAST_LIVE_SQL returns at this moment. *)
DryRun(p, r) ==
  \/ p.trigger # "schedule" /\ ~p.live
  \/ p.trigger = "schedule" /\ last.window # r.window

Unapproved(p) == p.trigger = "manual" /\ p.live /\ p.max = 0

Allowed(affected) == Most(GROWTH_FACTOR * affected, Floor)

Held(p, r) ==
  p.trigger = "schedule" /\ last.window = r.window /\ r.candidates > Allowed(last.affected)

Limit(p, r) ==
  CASE p.trigger = "schedule" -> Least(r.candidates, RunMax)
    [] p.trigger = "manual" -> Least(p.max, RunMax)
    [] OTHER -> p.max

Decide(j) ==
  LET p == payload[j]
      r == run[j]
  IN /\ pc[j] = "decide"
     /\ \/ DryRun(p, r) /\ Leave(j, "unlock", "dry_run", "result")
        \/ Unapproved(p) /\ Leave(j, "unlock", "none", "error")
        \/ Held(p, r) /\ Leave(j, "unlock", "held", "result")
        \/ /\ ~DryRun(p, r) /\ ~Unapproved(p) /\ ~Held(p, r)
           /\ run' = [run EXCEPT ![j].limit = Limit(p, r)]
           /\ Goto(j, "batch")
     /\ UNCHANGED <<store, lock, flying, window, table, touched>>

Oldest(S, n) == {r \in S : Cardinality({q \in S : q < r}) < n}

(* The rows a batch locks; nobody else locks outbox rows, so SKIP LOCKED      *)
(* skips none and the keyset cursor passes none.                              *)
BatchRows(j, size) == Oldest(Before(run[j].cut), Least(size, run[j].limit - run[j].affected))

Redact(j, S) ==
  /\ redacted' = redacted \cup S
  /\ touched' = [touched EXCEPT ![j] = @ \cup S]

(* Mutant: the counter is kept by the batch, not by its rows. *)
Mut_BatchCounted(S) == 1

Counted(S) == Cardinality(S)

Batch(j, size) ==
  LET S == BatchRows(j, size)
  IN /\ pc[j] = "batch" /\ run[j].affected < run[j].limit /\ S # {}
     /\ Redact(j, S)
     /\ run' = [run EXCEPT ![j].affected = @ + Counted(S)]
     /\ UNCHANGED <<expired, lock, flying, window, table, pc>>

NoMoreBatches(j) ==
  /\ pc[j] = "batch"
  /\ run[j].affected >= run[j].limit \/ Before(run[j].cut) = {}
  /\ Goto(j, "remaining")
  /\ UNCHANGED <<store, lock, flying, window, table, run, touched>>

(* A batch rolls back on a live connection: CountMismatch, a timeout, a       *)
(* payload that cannot be rebuilt; or its COMMIT is answered later than the   *)
(* pool's command_timeout, and it has committed.  JobFailed carries what was  *)
(* counted by then.                                                           *)
BatchFails(j) ==
  /\ pc[j] = "batch" /\ run[j].affected < run[j].limit
  /\ \/ UNCHANGED <<redacted, touched>>
     \/ \E size \in 1..BatchMax : Redact(j, BatchRows(j, size))
  /\ Leave(j, "unlock", "failed", "partial")
  /\ UNCHANGED <<expired, lock, flying, window, table>>

Remaining(j) ==
  /\ pc[j] = "remaining"
  /\ Leave(j, "unlock", "live", "result")
  /\ UNCHANGED <<store, lock, flying, window, table, touched>>

(* Any other statement fails: the exception has no result. *)
ReadFails(j) ==
  /\ pc[j] \in {"count", "decide", "remaining"}
  /\ Leave(j, "unlock", "none", "error")
  /\ UNCHANGED <<store, lock, flying, window, table, touched>>

Unlock(j) ==
  /\ pc[j] = "unlock"
  /\ lock' = None
  /\ Goto(j, "record")
  /\ UNCHANGED <<store, flying, window, table, run, touched>>

-----------------------------------------------------------------------------
Failed == [NoResult EXCEPT !.status = "failed"]

(* complete or fail, in the job table.  With one attempt an error ends the    *)
(* job whether it may be retried or not.                                      *)
Recorded(j) ==
  LET r == run[j]
  IN CASE r.ends = "result"  -> [status |-> "succeeded", mode |-> r.mode, affected |-> r.affected]
       [] r.ends = "partial" -> [status |-> "failed", mode |-> "failed", affected |-> r.affected]
       [] OTHER              -> Failed

(* Mutant: an override counts as the last live run. *)
Mut_AnyTrigger(j) == Recorded(j).status = "succeeded" /\ Recorded(j).mode = "live"

CountsAsLive(j) ==
  /\ Recorded(j).status = "succeeded" /\ Recorded(j).mode = "live"
  /\ payload[j].trigger # "manual_override"

Record(j) ==
  /\ pc[j] = "record"
  /\ result' = [result EXCEPT ![j] = Recorded(j)]
  /\ last' = IF CountsAsLive(j) THEN [window |-> run[j].window, affected |-> run[j].affected] ELSE last
  /\ run' = Forgotten(j)
  /\ Goto(j, "done")
  /\ UNCHANGED <<store, lock, flying, window, attempt, payload, touched>>

(* The client is lost: with a batch under way its commit may have been sent,  *)
(* and with LOCK_SQL under way the lock may be granted.                       *)
LockHeld == {"count", "decide", "batch", "remaining", "unlock"}

Sent(j) ==
  CASE pc[j] = "batch"    -> {{}} \cup {BatchRows(j, size) : size \in 1..BatchMax}
    [] pc[j] \in LockHeld -> {{}}
    [] OTHER              -> {flying}

Granted(j) == IF pc[j] = "lock" /\ LockIsFree THEN {None, j} ELSE {lock}

(* The connection breaks: releasing the lock on it fails too, and that error  *)
(* hides JobFailed.                                                           *)
Disconnect(j) ==
  /\ pc[j] \in LockHeld \cup {"lock"}
  /\ flying' \in Sent(j) /\ lock' \in Granted(j)
  /\ Leave(j, "record", "none", "error")
  /\ UNCHANGED <<store, window, table, touched>>

(* The Lambda is killed; the row of its job stays `running`. *)
Kill(j) ==
  /\ pc[j] \in LockHeld \cup {"lock", "record"}
  /\ flying' \in Sent(j) /\ lock' \in Granted(j)
  /\ run' = Forgotten(j)
  /\ Goto(j, "dead")
  /\ UNCHANGED <<store, window, table, touched>>

(* A later invocation finds the lease expired. *)
Reap(j) ==
  /\ pc[j] = "dead"
  /\ IF attempt[j] < MAX_ATTEMPTS
     THEN Goto(j, "queued") /\ UNCHANGED result
     ELSE /\ Goto(j, "done")
          /\ result' = [result EXCEPT ![j] = Failed]
  /\ UNCHANGED <<store, lock, flying, window, last, attempt, payload, run, touched>>

(* The database session of a lost client. *)
Orphaned == lock # None /\ pc[lock] \notin LockHeld

Land ==
  /\ Orphaned /\ flying # {}
  /\ Redact(lock, flying)
  /\ flying' = {}
  /\ UNCHANGED <<expired, lock, window, table, pc, run>>

(* The server notices, rolls back what was not committed, drops the lock. *)
EndSession ==
  /\ Orphaned
  /\ lock' = None
  /\ flying' = {}
  /\ UNCHANGED <<store, window, table, pc, run, touched>>

-----------------------------------------------------------------------------
Batches(j) == (\E size \in 1..BatchMax : Batch(j, size)) \/ NoMoreBatches(j) \/ BatchFails(j)

Step(j) ==
  \/ Start(j) \/ TryLock(j) \/ Count(j) \/ Decide(j) \/ Batches(j) \/ Remaining(j)
  \/ ReadFails(j) \/ Unlock(j) \/ Record(j)

Next ==
  \/ Expire \/ Redeploy
  \/ \E j \in Jobs : Step(j) \/ Disconnect(j) \/ Kill(j) \/ Reap(j)
  \/ Land \/ EndSession

Spec == Init /\ [][Next]_vars

-----------------------------------------------------------------------------
(* What the tables and the locals of a run hold. *)
TypeOK ==
  /\ expired \in 0..MaxRows
  /\ redacted \subseteq 1..MaxRows /\ flying \subseteq 1..MaxRows
  /\ lock \in Jobs \cup {None}
  /\ window \in Windows
  /\ last \in [window : Windows \cup {None}, affected : Nat]
  /\ pc \in [Jobs -> LockHeld \cup {"queued", "lock", "record", "dead", "done"}]
  /\ attempt \in [Jobs -> Nat]
  /\ payload \in [Jobs -> Payloads]
  /\ run \in [Jobs -> [window : Windows \cup {None}, cut : Nat, candidates : Nat, limit : Nat,
                       affected : Nat, mode : {"none", "dry_run", "held", "live", "failed"},
                       ends : {"none", "result", "partial", "error"}]]
  /\ result \in [Jobs -> [status : {"open", "succeeded", "failed"}, affected : Nat,
                          mode : {"none", "dry_run", "held", "live", "failed"}]]
  /\ touched \in [Jobs -> SUBSET (1..MaxRows)]

(* k is a live run with j's window that succeeded and counts as one. *)
Precedent(k, j) ==
  /\ result[k].status = "succeeded" /\ result[k].mode = "live"
  /\ payload[k].trigger # "manual_override"
  /\ run[k].window = run[j].window

(* No job redacts more rows than its operator approved, however often its     *)
(* Lambda dies and whatever commits late; a scheduled one no more than twice  *)
(* what a run that succeeded did, or the floor.                               *)
WithinTheApproval ==
  \A j \in Jobs :
    /\ payload[j].trigger # "schedule" => Cardinality(touched[j]) <= payload[j].max
    /\ payload[j].trigger = "schedule" /\ touched[j] # {} =>
         \E k \in Jobs \ {j} : Precedent(k, j) /\ Cardinality(touched[j]) <= Allowed(result[k].affected)

(* Nothing is redacted on schedule before an operator's live run with the     *)
(* same window succeeded; an override run is never the approval.              *)
ApprovedFirst ==
  \A j \in Jobs : payload[j].trigger = "schedule" /\ touched[j] # {} =>
    \E k \in Jobs : payload[k].trigger = "manual" /\ Precedent(k, j)

(* A number of rows a run of that mode may name for the rows it redacted.     *)
Tells(n, mode, rows) ==
  IF mode = "failed" THEN n <= Cardinality(rows) /\ Cardinality(rows) <= n + BatchMax
  ELSE n = Cardinality(rows)

(* A recorded result tells how many rows the job redacted; the next limit is  *)
(* computed from it.  When the job failed half-way it may leave out the batch *)
(* that failed, and no more.                                                  *)
ResultIsExact ==
  \A j \in Jobs : result[j].mode # "none" => Tells(result[j].affected, result[j].mode, touched[j])

(* Two runs of the kind never overlap, even when the first one's Lambda is    *)
(* dead: between a run's count and its end nobody else redacts a row, so a    *)
(* live run that may take every candidate leaves none.                        *)
LiveRunIsComplete ==
  \A j \in Jobs : pc[j] = "remaining" /\ run[j].limit >= run[j].candidates
    => /\ Before(run[j].cut) = {}
       /\ Cardinality(touched[j]) = run[j].candidates

(* "A failed live run keeps the batches it committed; the job result says how *)
(* many": for a job that is over, its row says how many rows it redacted.     *)
ResultSaysHowMany ==
  \A j \in Jobs : pc[j] = "done" => result[j].affected = Cardinality(touched[j])

=============================================================================
