-------------------------- MODULE RetentionProofs --------------------------
(***************************************************************************)
(* Proofs about Retention, for any jobs, payloads, windows and limits.     *)
(*                                                                         *)
(* Whoever redacts rows holds the lock: a run between its count and its    *)
(* end, or the session of a lost one, whose rows in flight were counted    *)
(* against its limit before they were sent.  So every job's tally is its   *)
(* own, and the limit stands whatever commits late.                        *)
(***************************************************************************)
EXTENDS Retention, FiniteSetTheorems, TLAPS

(* The rows a job has redacted, and those a commit of it may yet redact. *)
Reached(j) == touched[j] \cup IF lock = j THEN flying ELSE {}

(* The numbers of rows j may redact by the approvals there are. *)
Approval(j) ==
  {n \in Nat :
     /\ payload[j].trigger # "schedule" => n <= payload[j].max
     /\ payload[j].trigger = "schedule" /\ n > 0 =>
          \E k \in Jobs \ {j} : Precedent(k, j) /\ n <= Allowed(result[k].affected)}

(* A live run that counts and had the window w. *)
Live(k, w) ==
  /\ result[k].status = "succeeded" /\ result[k].mode = "live"
  /\ payload[k].trigger # "manual_override"
  /\ run[k].window = w

HasManual(w) == \E m \in Jobs : Live(m, w) /\ payload[m].trigger = "manual"

(* Who holds the lock, and with what in flight. *)
LockOK(j) ==
  /\ pc[j] \in LockHeld => lock = j /\ flying = {}
  /\ lock = j => pc[j] \notin {"queued", "lock"}
  /\ pc[j] = "record" /\ run[j].ends \in {"result", "partial"} => lock # j
  /\ result[j].mode # "none" => lock # j

(* A job is over once: its result is there only then. *)
DoneOK(j) ==
  /\ result[j].status = "succeeded" \/ result[j].mode # "none" => pc[j] = "done"
  /\ pc[j] # "queued" => attempt[j] >= MAX_ATTEMPTS
  /\ pc[j] \in LockHeld \cup {"lock"} => run[j].window \in Windows

(* A run's counter and its result are what it redacted. *)
TallyOK(j) ==
  /\ touched[j] \subseteq redacted
  /\ pc[j] \in {"queued", "lock", "count", "decide"} => touched[j] = {}
  /\ \/ pc[j] \in LockHeld \cup {"lock"}
     \/ pc[j] = "record" /\ run[j].ends \in {"result", "partial"}
     => Tells(run[j].affected, run[j].mode, touched[j])
  /\ pc[j] \in {"lock", "count", "decide", "batch", "remaining"} => run[j].mode # "failed"
  /\ result[j].mode # "none" => Tells(result[j].affected, result[j].mode, touched[j])

(* While a run has the lock, the rows it counted are redacted by it or there. *)
CountOK(j) ==
  /\ run[j].cut <= MaxRows
  /\ pc[j] \in {"decide", "batch", "remaining"} =>
       run[j].candidates = Cardinality(Before(run[j].cut)) + Cardinality(touched[j])
  /\ pc[j] = "remaining" => Before(run[j].cut) = {} \/ run[j].limit <= run[j].affected

ApprovalOK(j) ==
  /\ Cardinality(Reached(j)) \in Approval(j)
  /\ pc[j] \in {"batch", "remaining"} =>
       run[j].affected <= run[j].limit /\ run[j].limit \in Approval(j)
  /\ payload[j].trigger = "schedule"
       /\ (pc[j] \in {"batch", "remaining"} \/ run[j].mode = "live" \/ Reached(j) # {})
     => HasManual(run[j].window)

JobOK(j) == LockOK(j) /\ DoneOK(j) /\ TallyOK(j) /\ CountOK(j) /\ ApprovalOK(j)

(* LAST_LIVE_SQL finds a run that succeeded, and before the first of a window *)
(* there was an operator's.                                                   *)
LastOK ==
  last.window # None =>
    /\ \E k \in Jobs : Live(k, last.window) /\ result[k].affected = last.affected
    /\ HasManual(last.window)

IndInv ==
  /\ TypeOK
  /\ \A j \in Jobs : JobOK(j)
  /\ flying # {} => lock # None
  /\ LastOK

-----------------------------------------------------------------------------
(* Sets of rows. *)

(* A batch takes at most as many rows as it asks for. *)
LEMMA OldestAreFew ==
  ASSUME NEW m \in Nat, NEW S \in SUBSET (1..m), NEW n \in Nat
  PROVE  /\ Oldest(S, n) \subseteq S
         /\ IsFiniteSet(Oldest(S, n))
         /\ Cardinality(Oldest(S, n)) <= n
<1> DEFINE O == Oldest(S, n)
           Older(r) == {q \in S : q < r}
           f == [r \in O |-> Cardinality(Older(r))]
<1>1. IsFiniteSet(S) /\ S \subseteq Int
  <2>1. IsFiniteSet(1..m)
    BY FS_Interval
  <2>2. IsFiniteSet(S)
    BY <2>1, FS_Subset
  <2>3. QED
    BY <2>2
<1>2. O \subseteq S /\ IsFiniteSet(O)
  <2>1. O \subseteq S
    BY DEF Oldest
  <2>2. QED
    BY <1>1, <2>1, FS_Subset
<1>3. \A r \in S : IsFiniteSet(Older(r)) /\ Cardinality(Older(r)) \in Nat
  BY <1>1, FS_Subset, FS_CardinalityType
<1>4. ASSUME NEW r \in O PROVE Cardinality(Older(r)) \in 0..(n - 1)
  <2>1. Cardinality(Older(r)) < n
    BY DEF Oldest
  <2>2. Cardinality(Older(r)) \in Nat
    BY <1>2, <1>3
  <2>3. QED
    BY <2>1, <2>2
<1>5. ASSUME NEW q \in S, NEW r \in S, q < r PROVE Cardinality(Older(q)) # Cardinality(Older(r))
  <2>1. ASSUME NEW x \in Older(q) PROVE x \in Older(r)
    <3>1. x \in S /\ x < q
      BY <2>1
    <3>2. x \in Int /\ q \in Int /\ r \in Int
      BY <1>1, <3>1
    <3>3. QED
      BY <1>5, <3>1, <3>2
  <2>2. q \in Older(r) /\ q \notin Older(q)
    BY <1>1, <1>5
  <2>3. IsFiniteSet(Older(r)) /\ Older(q) # Older(r)
    BY <1>3, <2>2
  <2> HIDE DEF Older
  <2>4. QED
    BY <2>1, <2>3, FS_Subset
<1>6. f \in [O -> 0..(n - 1)] /\ \A r \in O : f[r] = Cardinality(Older(r))
  BY <1>4
<1> HIDE DEF f, Older, O
<1>7. ASSUME NEW q \in O, NEW r \in O, q # r PROVE f[q] # f[r]
  <2>1. q < r \/ r < q
    BY <1>1, <1>2, <1>7
  <2>2. QED
    BY <1>2, <1>5, <1>6, <2>1
<1> DEFINE T == 0..(n - 1)
<1>8. IsFiniteSet(T) /\ Cardinality(T) = n
  <2>1. n - 1 \in Int
    OBVIOUS
  <2>2. QED
    BY <2>1, FS_Interval
<1>9. Cardinality(O) \in Nat
  BY <1>2, FS_CardinalityType
<1>10. Cardinality(O) <= n
  <2>1. SUFFICES ASSUME n < Cardinality(O) PROVE FALSE
    BY <1>9
  <2> HIDE DEF T
  <2>2. \E q, r \in O : q # r /\ f[q] = f[r]
    <3>1. f \in [O -> T]
      BY <1>6 DEF T
    <3>2. Cardinality(T) < Cardinality(O)
      BY <1>8, <2>1
    <3>3. QED
      BY <1>2, <1>8, <3>1, <3>2, FS_PigeonHole
  <2>3. QED
    BY <1>7, <2>2
<1>11. QED
  BY <1>2, <1>10 DEF O

(* Every set of rows is finite. *)
LEMMA RowsAreFinite ==
  ASSUME NEW S \in SUBSET (1..MaxRows)
  PROVE  IsFiniteSet(S) /\ Cardinality(S) \in Nat /\ (Cardinality(S) = 0 <=> S = {})
<1>1. IsFiniteSet(1..MaxRows)
  BY FS_Interval, BoundsAssumption
<1>2. IsFiniteSet(S)
  BY <1>1, FS_Subset
<1>3. QED
  BY <1>2, FS_CardinalityType, FS_EmptySet

(* Fewer rows than approved are approved. *)
LEMMA FewerAreApproved ==
  ASSUME NEW j \in Jobs, TypeOK, NEW n \in Approval(j), NEW m \in Nat, m <= n
  PROVE  m \in Approval(j)
<1>1. n \in Nat /\ payload[j].max \in Nat
  BY DEF Approval, TypeOK, Payloads
<1>2. ASSUME NEW k \in Jobs, n <= Allowed(result[k].affected) PROVE m <= Allowed(result[k].affected)
  <2>1. Allowed(result[k].affected) \in Nat
    BY BoundsAssumption DEF Allowed, Most, GROWTH_FACTOR, TypeOK
  <2>2. QED
    BY <1>1, <1>2, <2>1
<1>3. QED
  BY <1>1, <1>2 DEF Approval

-----------------------------------------------------------------------------
(* Types. *)

Modes == {"none", "dry_run", "held", "live", "failed"}
Endings == {"none", "result", "partial", "error"}

Runs == [window : Windows \cup {None}, cut : Nat, candidates : Nat, limit : Nat,
         affected : Nat, mode : Modes, ends : Endings]

(* What the ways out of a run leave of it. *)
LEMMA RunTypes ==
  ASSUME NEW r \in Runs
  PROVE  /\ r = [window |-> r.window, cut |-> r.cut, candidates |-> r.candidates, limit |-> r.limit,
                 affected |-> r.affected, mode |-> r.mode, ends |-> r.ends]
         /\ \A mode \in Modes : \A ending \in Endings :
              Over(r, mode, ending) =
                [window |-> r.window, cut |-> 0, candidates |-> 0, limit |-> 0,
                 affected |-> r.affected, mode |-> mode, ends |-> ending]
         /\ [NoRun EXCEPT !.window = r.window] =
              [window |-> r.window, cut |-> 0, candidates |-> 0, limit |-> 0, affected |-> 0,
               mode |-> "none", ends |-> "none"]
         /\ \A mode \in Modes : \A ending \in Endings : Over(r, mode, ending) \in Runs
         /\ [NoRun EXCEPT !.window = r.window] \in Runs
         /\ NoRun \in Runs
<1>1. r = [window |-> r.window, cut |-> r.cut, candidates |-> r.candidates, limit |-> r.limit,
           affected |-> r.affected, mode |-> r.mode, ends |-> r.ends]
  BY DEF Runs
<1>2. ASSUME NEW mode \in Modes, NEW ending \in Endings
      PROVE  Over(r, mode, ending) =
               [window |-> r.window, cut |-> 0, candidates |-> 0, limit |-> 0,
                affected |-> r.affected, mode |-> mode, ends |-> ending]
  <2>1. Over(r, mode, ending) =
          [[[[NoRun EXCEPT !.window = r.window] EXCEPT !.affected = r.affected]
              EXCEPT !.mode = mode] EXCEPT !.ends = ending]
    BY DEF Over
  <2>2. QED
    BY <2>1 DEF NoRun
<1>3. [NoRun EXCEPT !.window = r.window] =
        [window |-> r.window, cut |-> 0, candidates |-> 0, limit |-> 0, affected |-> 0,
         mode |-> "none", ends |-> "none"]
  BY DEF NoRun
<1>4. \A w \in Windows \cup {None} : \A n \in Nat : \A mode \in Modes : \A ending \in Endings :
        [window |-> w, cut |-> 0, candidates |-> 0, limit |-> 0, affected |-> n,
         mode |-> mode, ends |-> ending] \in Runs
  BY DEF Runs
<1>5. r.window \in Windows \cup {None} /\ r.affected \in Nat
  BY DEF Runs
<1>6. NoRun \in Runs
  BY <1>4 DEF NoRun, Modes, Endings
<1>7. \A mode \in Modes : \A ending \in Endings : Over(r, mode, ending) \in Runs
  BY <1>2, <1>4, <1>5
<1>8. [NoRun EXCEPT !.window = r.window] \in Runs
  <2>1. "none" \in Modes /\ "none" \in Endings /\ 0 \in Nat
    BY DEF Modes, Endings
  <2>2. QED
    BY <1>3, <1>4, <1>5, <2>1
<1>9. QED
  BY <1>1, <1>2, <1>3, <1>6, <1>7, <1>8

(* The start is as IndInv says. *)
LEMMA InitOK == Init => IndInv
<1> SUFFICES ASSUME Init PROVE IndInv
  OBVIOUS
<1> USE DEF Init
<1>0. MaxRows \in Nat
  BY BoundsAssumption
<1>1. TypeOK
  <2>1. run \in [Jobs -> Runs]
    <3>1. [window |-> None, cut |-> 0, candidates |-> 0, limit |-> 0, affected |-> 0,
           mode |-> "none", ends |-> "none"] \in Runs
      BY DEF Runs, Modes, Endings
    <3>2. QED
      BY <3>1 DEF NoRun
  <2>2. expired \in 0..MaxRows /\ last \in [window : Windows \cup {None}, affected : Nat]
    BY <1>0 DEF NoLive
  <2>3. payload \in [Jobs -> Payloads]
    BY WorkloadsAssumption
  <2>4. result \in [Jobs -> [status : {"open", "succeeded", "failed"}, affected : Nat, mode : Modes]]
    BY DEF NoResult, Modes
  <2>5. QED
    BY <2>1, <2>2, <2>3, <2>4 DEF TypeOK, Runs, Modes, Endings
<1>2. ASSUME NEW j \in Jobs PROVE JobOK(j)
  <2>1. /\ pc[j] = "queued" /\ run[j] = NoRun /\ result[j] = NoResult /\ touched[j] = {} /\ lock # j
        /\ run[j].cut = 0 /\ run[j].mode = "none" /\ result[j].mode = "none" /\ result[j].status = "open"
    BY NoneAssumption DEF NoRun, NoResult
  <2>2. Reached(j) = {} /\ Cardinality(Reached(j)) = 0
    BY <2>1, FS_EmptySet DEF Reached
  <2>3. 0 \in Approval(j)
    BY <1>1 DEF Approval, TypeOK, Payloads
  <2>4. ApprovalOK(j)
    BY <2>1, <2>2, <2>3 DEF ApprovalOK
  <2>5. QED
    BY <1>0, <2>1, <2>4 DEF JobOK, LockOK, DoneOK, TallyOK, CountOK, LockHeld
<1>3. LastOK
  BY DEF LastOK, NoLive
<1>4. QED
  BY <1>1, <1>2, <1>3 DEF IndInv

(* Every step keeps the types. *)
LEMMA TypeStep == IndInv /\ [Next]_vars => TypeOK'
<1> SUFFICES ASSUME IndInv, [Next]_vars PROVE TypeOK'
  OBVIOUS
<1>0. MaxRows \in Nat /\ BatchMax \in Nat /\ RunMax \in Nat /\ TypeOK
  BY BoundsAssumption DEF IndInv
<1>r. run \in [Jobs -> Runs]
  BY <1>0 DEF TypeOK, Runs, Modes, Endings
<1>w. \A cut \in 0..MaxRows : Before(cut) \subseteq 1..MaxRows
  BY <1>0 DEF Before
<1>b. \A j \in Jobs, size \in 1..BatchMax : BatchRows(j, size) \subseteq 1..MaxRows
  <2>1. ASSUME NEW j \in Jobs, NEW size \in 1..BatchMax PROVE BatchRows(j, size) \subseteq 1..MaxRows
    <3>1. run[j].cut \in 0..MaxRows
      BY <1>0, <1>r DEF IndInv, JobOK, CountOK, Runs
    <3>2. QED
      BY <1>w, <3>1 DEF BatchRows, Oldest
  <2>2. QED
    BY <2>1
<1> DEFINE Labels == LockHeld \cup {"queued", "lock", "record", "dead", "done"}
<1>1. expired' \in 0..MaxRows /\ window' \in Windows
  BY <1>0 DEF TypeOK, Next, Step, Expire, Redeploy, Start, TryLock, Count, Decide, Batches, Batch, NoMoreBatches,
     BatchFails, Remaining, ReadFails, Unlock, Record, Disconnect, Kill, Reap, Land, EndSession, Redact,
     vars, store, table
<1>2. redacted' \subseteq 1..MaxRows /\ touched' \in [Jobs -> SUBSET (1..MaxRows)]
  <2>0. /\ redacted \subseteq 1..MaxRows /\ flying \subseteq 1..MaxRows
        /\ touched \in [Jobs -> SUBSET (1..MaxRows)] /\ lock \in Jobs \cup {None}
    BY <1>0 DEF TypeOK
  <2>1. CASE UNCHANGED <<redacted, touched>>
    BY <2>0, <2>1
  <2>2. ASSUME NEW j \in Jobs, NEW S \in SUBSET (1..MaxRows), Redact(j, S)
        PROVE  redacted' \subseteq 1..MaxRows /\ touched' \in [Jobs -> SUBSET (1..MaxRows)]
    BY <2>0, <2>2 DEF Redact
  <2>3. CASE Land
    BY <2>0, <2>2, <2>3 DEF Land, Orphaned
  <2>4. ASSUME NEW j \in Jobs, NEW size \in 1..BatchMax, Batch(j, size)
        PROVE  redacted' \subseteq 1..MaxRows /\ touched' \in [Jobs -> SUBSET (1..MaxRows)]
    BY <1>b, <2>2, <2>4 DEF Batch
  <2>5. ASSUME NEW j \in Jobs, BatchFails(j)
        PROVE  redacted' \subseteq 1..MaxRows /\ touched' \in [Jobs -> SUBSET (1..MaxRows)]
    BY <1>b, <2>1, <2>2, <2>5 DEF BatchFails
  <2>6. QED
    BY <2>1, <2>3, <2>4, <2>5 DEF Next, Step, Expire, Redeploy, Start, TryLock, Count, Decide, Batches, NoMoreBatches,
       Remaining, ReadFails, Unlock, Record, Disconnect, Kill, Reap, EndSession, vars, store
<1>3. lock' \in Jobs \cup {None} /\ flying' \subseteq 1..MaxRows
  <2>0. lock \in Jobs \cup {None} /\ flying \subseteq 1..MaxRows
    BY <1>0 DEF TypeOK
  <2>1. CASE UNCHANGED <<lock, flying>>
    BY <2>0, <2>1
  <2>2. ASSUME NEW j \in Jobs, Disconnect(j) \/ Kill(j)
        PROVE  lock' \in Jobs \cup {None} /\ flying' \subseteq 1..MaxRows
    BY <1>b, <2>0, <2>2 DEF Disconnect, Kill, Sent, Granted
  <2>3. QED
    BY <2>0, <2>1, <2>2 DEF Next, Step, Expire, Redeploy, Start, TryLock, Count, Decide, Batches, Batch,
       NoMoreBatches, BatchFails, Remaining, ReadFails, Unlock, Record, Reap, Land, EndSession, vars
<1>4. pc' \in [Jobs -> Labels] /\ attempt' \in [Jobs -> Nat] /\ payload' \in [Jobs -> Payloads]
  <2>0. pc \in [Jobs -> Labels] /\ attempt \in [Jobs -> Nat] /\ payload \in [Jobs -> Payloads]
    BY <1>0 DEF TypeOK
  <2>1. payload' = payload
    BY DEF Next, Step, Expire, Redeploy, Start, TryLock, Count, Decide, Batches, Batch, NoMoreBatches, BatchFails,
       Remaining, ReadFails, Unlock, Record, Disconnect, Kill, Reap, Land, EndSession, vars, table
  <2>2. attempt' \in [Jobs -> Nat]
    BY <2>0 DEF Next, Step, Expire, Redeploy, Start, TryLock, Count, Decide, Batches, Batch, NoMoreBatches, BatchFails,
       Remaining, ReadFails, Unlock, Record, Disconnect, Kill, Reap, Land, EndSession, vars, table
  <2>3. pc' \in [Jobs -> Labels]
    BY <2>0 DEF Next, Step, Expire, Redeploy, Start, TryLock, Count, Decide, Batches, Batch, NoMoreBatches, BatchFails,
       Remaining, ReadFails, Unlock, Record, Disconnect, Kill, Reap, Land, EndSession, vars, Leave, Goto, LockHeld
  <2>4. QED
    BY <2>0, <2>1, <2>2, <2>3
<1>5. run' \in [Jobs -> Runs]
  <2>1. CASE run' = run
    BY <1>r, <2>1
  <2>2. ASSUME NEW j \in Jobs, NEW r \in Runs, run' = [run EXCEPT ![j] = r] PROVE run' \in [Jobs -> Runs]
    BY <1>r, <2>2
  <2>3. ASSUME NEW j \in Jobs, NEW label, NEW mode \in Modes, NEW ending \in Endings, Leave(j, label, mode, ending)
        PROVE  run' \in [Jobs -> Runs]
    BY <1>r, <2>2, <2>3, RunTypes DEF Leave
  <2>4. ASSUME NEW j \in Jobs, run' = Forgotten(j) PROVE run' \in [Jobs -> Runs]
    BY <1>r, <2>2, <2>4, RunTypes DEF Forgotten
  <2>5. ASSUME NEW j \in Jobs, Start(j) PROVE run' \in [Jobs -> Runs]
    <3>1. [NoRun EXCEPT !.window = window] \in Runs
      <4>1. window \in Windows
        BY <1>0 DEF TypeOK
      <4>2. [NoRun EXCEPT !.window = window] =
              [window |-> window, cut |-> 0, candidates |-> 0, limit |-> 0, affected |-> 0,
               mode |-> "none", ends |-> "none"]
        BY DEF NoRun
      <4>3. QED
        BY <4>1, <4>2 DEF Runs, Modes, Endings
    <3>2. QED
      BY <2>2, <2>3, <2>5, <3>1 DEF Start, Modes, Endings
  <2>6. ASSUME NEW j \in Jobs, Count(j) PROVE run' \in [Jobs -> Runs]
    <3>1. ASSUME NEW cut \in 0..MaxRows,
                 run' = [run EXCEPT ![j].cut = cut, ![j].candidates = Cardinality(Before(cut))]
          PROVE  run' \in [Jobs -> Runs]
      <4>1. Cardinality(Before(cut)) \in Nat
        BY <1>w, RowsAreFinite
      <4> DEFINE n == Cardinality(Before(cut))
      <4>2. [run[j] EXCEPT !.cut = cut, !.candidates = n] \in Runs
        <5> HIDE DEF n
        <5>1. [run[j] EXCEPT !.cut = cut, !.candidates = n] =
                [[run[j] EXCEPT !.cut = cut] EXCEPT !.candidates = n]
          OBVIOUS
        <5>2. cut \in Nat /\ n \in Nat
          BY <1>0, <4>1 DEF n
        <5>3. QED
          BY <1>r, <5>1, <5>2 DEF Runs
      <4>3. run' = [run EXCEPT ![j] = [run[j] EXCEPT !.cut = cut, !.candidates = n]]
        BY <1>r, <3>1
      <4>4. QED
        BY <2>2, <4>2, <4>3
    <3>2. Cuts(j) \subseteq 0..MaxRows
      BY <1>0 DEF Cuts, TypeOK
    <3>3. QED
      BY <2>3, <2>6, <3>1, <3>2 DEF Count, Modes, Endings
  <2>7. ASSUME NEW j \in Jobs, Decide(j) PROVE run' \in [Jobs -> Runs]
    <3>1. Limit(payload[j], run[j]) \in Nat
      BY <1>0, <1>r DEF Limit, Least, TypeOK, Payloads, Runs
    <3>2. CASE run' = [run EXCEPT ![j].limit = Limit(payload[j], run[j])]
      <4>1. [run[j] EXCEPT !.limit = Limit(payload[j], run[j])] \in Runs
        BY <1>r, <3>1 DEF Runs
      <4>2. run' = [run EXCEPT ![j] = [run[j] EXCEPT !.limit = Limit(payload[j], run[j])]]
        BY <1>r, <3>2
      <4>3. QED
        BY <2>2, <4>1, <4>2
    <3>3. QED
      BY <2>3, <2>7, <3>2 DEF Decide, Modes, Endings
  <2>8. ASSUME NEW j \in Jobs, NEW size \in 1..BatchMax, Batch(j, size) PROVE run' \in [Jobs -> Runs]
    <3>1. Cardinality(BatchRows(j, size)) \in Nat
      BY <1>b, RowsAreFinite
    <3>2. run[j].affected + Cardinality(BatchRows(j, size)) \in Nat
      BY <1>r, <3>1 DEF Runs
    <3> DEFINE n == run[j].affected + Cardinality(BatchRows(j, size))
    <3>3. [run[j] EXCEPT !.affected = n] \in Runs
      BY <1>r, <3>2 DEF Runs
    <3>4. run' = [run EXCEPT ![j] = [run[j] EXCEPT !.affected = n]]
      BY <1>r, <2>8 DEF Batch, Counted
    <3>5. QED
      BY <2>2, <3>3, <3>4
  <2>9. ASSUME NEW j \in Jobs, Step(j) \/ Disconnect(j) \/ Kill(j) \/ Reap(j) PROVE run' \in [Jobs -> Runs]
    <3>1. ASSUME TryLock(j) \/ BatchFails(j) \/ Remaining(j) \/ ReadFails(j) \/ Disconnect(j)
          PROVE  run' \in [Jobs -> Runs]
      BY <2>1, <2>3, <3>1 DEF TryLock, BatchFails, Remaining, ReadFails, Disconnect, Modes, Endings
    <3>2. ASSUME NoMoreBatches(j) \/ Unlock(j) \/ Record(j) \/ Kill(j) \/ Reap(j)
          PROVE  run' \in [Jobs -> Runs]
      BY <2>1, <2>4, <3>2 DEF NoMoreBatches, Unlock, Record, Kill, Reap
    <3>3. QED
      BY <2>5, <2>6, <2>7, <2>8, <2>9, <3>1, <3>2 DEF Step, Batches
  <2>10. QED
    BY <2>1, <2>9 DEF Next, Expire, Redeploy, Land, EndSession, vars
<1>6. result' \in [Jobs -> [status : {"open", "succeeded", "failed"}, affected : Nat, mode : Modes]]
      /\ last' \in [window : Windows \cup {None}, affected : Nat]
  <2> DEFINE Results == [status : {"open", "succeeded", "failed"}, affected : Nat, mode : Modes]
  <2>0. result \in [Jobs -> Results] /\ last \in [window : Windows \cup {None}, affected : Nat]
    BY <1>0 DEF TypeOK, Modes
  <2>1. Failed \in Results
    <3>1. Failed = [status |-> "failed", mode |-> "none", affected |-> 0]
      BY DEF Failed, NoResult
    <3>2. QED
      BY <3>1 DEF Modes
  <2>2. ASSUME NEW j \in Jobs PROVE Recorded(j) \in Results
    <3>1. run[j].affected \in Nat /\ run[j].mode \in Modes /\ run[j].ends \in Endings
      BY <1>r DEF Runs
    <3>2. QED
      BY <2>1, <3>1 DEF Recorded, Modes, Endings
  <2>3. ASSUME NEW j \in Jobs, Record(j)
        PROVE  /\ result' \in [Jobs -> Results]
               /\ last' \in [window : Windows \cup {None}, affected : Nat]
    <3>1. run[j].affected \in Nat /\ run[j].window \in Windows \cup {None}
      BY <1>r DEF Runs
    <3>2. QED
      BY <2>0, <2>2, <2>3, <3>1 DEF Record
  <2>4. QED
    BY <2>0, <2>1, <2>3 DEF Next, Step, Expire, Redeploy, Start, TryLock, Count, Decide, Batches, Batch,
       NoMoreBatches, BatchFails, Remaining, ReadFails, Unlock, Disconnect, Kill, Reap, Land, EndSession, vars, table
<1>7. QED
  BY <1>1, <1>2, <1>3, <1>4, <1>5, <1>6 DEF TypeOK, Runs, Modes, Endings

-----------------------------------------------------------------------------
(* What no step takes back. *)

Same(k) ==
  /\ pc'[k] = pc[k] /\ run'[k] = run[k] /\ result'[k] = result[k]
  /\ touched'[k] = touched[k] /\ attempt'[k] = attempt[k]

Act(j) == Step(j) \/ Disconnect(j) \/ Kill(j) \/ Reap(j)

(* A job's step is its own; only a commit that lands redacts for another.     *)
LEMMA OthersStay ==
  ASSUME TypeOK, NEW j \in Jobs, Act(j)
  PROVE  payload' = payload /\ \A k \in Jobs \ {j} : Same(k)
<1> USE DEF Act, Same, TypeOK
<1>1. ASSUME NEW label, NEW mode, NEW ending, Leave(j, label, mode, ending)
      PROVE  \A k \in Jobs \ {j} : pc'[k] = pc[k] /\ run'[k] = run[k]
  BY <1>1 DEF Leave, Goto
<1>2. CASE Start(j)
  BY <1>2 DEF Start, Leave, Goto
<1>3. CASE TryLock(j) \/ Count(j) \/ Decide(j)
  BY <1>3 DEF TryLock, Count, Decide, Leave, Goto, table
<1>4. CASE Batches(j)
  BY <1>4 DEF Batches, Batch, NoMoreBatches, BatchFails, Redact, Leave, Goto, table
<1>5. CASE Remaining(j) \/ ReadFails(j) \/ Unlock(j) \/ Disconnect(j)
  BY <1>5 DEF Remaining, ReadFails, Unlock, Disconnect, Leave, Goto, table
<1>6. CASE Record(j) \/ Kill(j) \/ Reap(j)
  BY <1>6 DEF Record, Kill, Reap, Forgotten, Goto, table
<1>7. QED
  BY <1>2, <1>3, <1>4, <1>5, <1>6 DEF Step

(* A run that succeeded stays as it is. *)
Kept == \A k \in Jobs : result[k].status = "succeeded" => result'[k] = result[k] /\ run'[k] = run[k]

(* Every step keeps what succeeded, and the payloads. *)
LEMMA SuccessStays == IndInv /\ [Next]_vars => Kept /\ payload' = payload
<1> SUFFICES ASSUME IndInv, [Next]_vars PROVE Kept /\ payload' = payload
  OBVIOUS
<1>1. CASE UNCHANGED <<run, result, payload>>
  BY <1>1 DEF Kept
<1>2. ASSUME NEW j \in Jobs, Act(j) PROVE Kept /\ payload' = payload
  <2>1. pc[j] # "done"
    BY <1>2 DEF Act, Step, Start, TryLock, Count, Decide, Batches, Batch, NoMoreBatches, BatchFails, Remaining,
       ReadFails, Unlock, Record, Disconnect, Kill, Reap, LockHeld
  <2>2. result[j].status # "succeeded"
    BY <2>1 DEF IndInv, JobOK, DoneOK
  <2>3. QED
    BY <1>2, <2>2, OthersStay DEF IndInv, Kept, Same
<1>3. QED
  BY <1>1, <1>2 DEF Next, Act, Expire, Redeploy, Land, EndSession, vars, table

(* Hence approvals stay, and more are added. *)
LEMMA ApprovalStays ==
  ASSUME TypeOK, TypeOK', Kept, payload' = payload, NEW j \in Jobs, run'[j].window = run[j].window
  PROVE  /\ Approval(j) \subseteq Approval(j)'
         /\ HasManual(run[j].window) => HasManual(run[j].window)'
<1>1. \A k \in Jobs : Precedent(k, j) => Precedent(k, j)' /\ result'[k] = result[k]
  BY DEF Precedent, Kept
<1>2. ASSUME NEW n \in Approval(j) PROVE n \in Approval(j)'
  <2>1. n \in Nat
    BY <1>2 DEF Approval
  <2>2. payload[j].trigger # "schedule" => n <= payload'[j].max
    BY <1>2 DEF Approval
  <2>3. ASSUME payload[j].trigger = "schedule", n > 0
        PROVE  \E k \in Jobs \ {j} : Precedent(k, j)' /\ n <= Allowed(result'[k].affected)
    BY <1>1, <1>2, <2>3 DEF Approval
  <2>4. QED
    BY <2>1, <2>2, <2>3 DEF Approval
<1>3. QED
  BY <1>2 DEF HasManual, Live, Kept

(* A job that another one's step, or the world's, leaves alone. *)
LEMMA LeftAlone ==
  ASSUME IndInv, TypeOK', Kept, payload' = payload, NEW k \in Jobs, Same(k),
         lock' = k => lock = k /\ flying' \subseteq flying,
         pc[k] \in LockHeld => lock' = lock /\ flying' = {} /\ redacted' = redacted,
         redacted \subseteq redacted'
  PROVE  JobOK(k)'
<1> USE DEF Same
<1>1. TypeOK /\ JobOK(k)
  BY DEF IndInv
<1>2. LockOK(k)' /\ DoneOK(k)'
  BY <1>1 DEF JobOK, LockOK, DoneOK
<1>3. TallyOK(k)'
  BY <1>1 DEF JobOK, TallyOK
<1>4. CountOK(k)'
  <2>1. pc[k] \in LockHeld => Before(run[k].cut)' = Before(run[k].cut)
    BY DEF Before
  <2>2. QED
    BY <1>1, <2>1 DEF JobOK, CountOK, LockHeld
<1>5. ApprovalOK(k)'
  <2>1. Reached(k)' \subseteq Reached(k) /\ Reached(k) \subseteq 1..MaxRows
    BY <1>1 DEF Reached, TypeOK
  <2>2. Cardinality(Reached(k)') <= Cardinality(Reached(k)) /\ Cardinality(Reached(k)') \in Nat
    <3>1. IsFiniteSet(Reached(k))
      BY <2>1, RowsAreFinite
    <3>2. Reached(k)' \subseteq 1..MaxRows
      BY <2>1
    <3>3. Cardinality(Reached(k)') \in Nat
      BY <3>2, RowsAreFinite
    <3>4. QED
      BY <2>1, <3>1, <3>3, FS_Subset
  <2>3. Cardinality(Reached(k)') \in Approval(k)
    BY <1>1, <2>2, FewerAreApproved DEF JobOK, ApprovalOK
  <2>4. /\ Approval(k) \subseteq Approval(k)'
        /\ HasManual(run[k].window) => HasManual(run[k].window)'
    BY <1>1, ApprovalStays
  <2>5. QED
    BY <1>1, <2>1, <2>3, <2>4 DEF JobOK, ApprovalOK
<1>6. QED
  BY <1>2, <1>3, <1>4, <1>5 DEF JobOK

-----------------------------------------------------------------------------
(* The step of a job, for the job itself. *)

(* What IndInv says of a job's record. *)
LEMMA RunIs ==
  ASSUME TypeOK, NEW j \in Jobs
  PROVE  /\ run[j] \in Runs
         /\ run[j].cut \in Nat /\ run[j].candidates \in Nat /\ run[j].limit \in Nat
         /\ run[j].affected \in Nat /\ run[j].mode \in Modes /\ run[j].ends \in Endings
         /\ run[j].window \in Windows \cup {None}
<1>1. run[j] \in Runs
  BY DEF TypeOK, Runs, Modes, Endings
<1>2. QED
  BY <1>1 DEF Runs

(* What a way out leaves of a run. *)
LEMMA LeaveIs ==
  ASSUME TypeOK, NEW j \in Jobs, NEW label, NEW mode \in Modes, NEW ending \in Endings,
         Leave(j, label, mode, ending)
  PROVE  /\ pc'[j] = label
         /\ run'[j].window = run[j].window /\ run'[j].cut = 0
         /\ run'[j].affected = run[j].affected /\ run'[j].mode = mode /\ run'[j].ends = ending
<1>1. run[j] \in Runs
  BY RunIs
<1>2. pc'[j] = label
  BY DEF Leave, Goto, TypeOK
<1>3. run'[j] = Over(run[j], mode, ending)
  BY DEF Leave, TypeOK
<1>4. run'[j] = [window |-> run[j].window, cut |-> 0, candidates |-> 0, limit |-> 0,
                 affected |-> run[j].affected, mode |-> mode, ends |-> ending]
  BY <1>1, <1>3, RunTypes
<1>5. QED
  BY <1>2, <1>4

(* What is left of a run that is over. *)
LEMMA ForgottenIs ==
  ASSUME TypeOK, NEW j \in Jobs, run' = Forgotten(j)
  PROVE  /\ run'[j].window = run[j].window /\ run'[j].cut = 0
         /\ run'[j].mode = "none" /\ run'[j].ends = "none"
<1>1. run[j] \in Runs
  BY RunIs
<1>2. run'[j] = [NoRun EXCEPT !.window = run[j].window]
  BY DEF Forgotten, TypeOK
<1>3. run'[j] = [window |-> run[j].window, cut |-> 0, candidates |-> 0, limit |-> 0, affected |-> 0,
                 mode |-> "none", ends |-> "none"]
  BY <1>1, <1>2, RunTypes
<1>4. QED
  BY <1>3

(* A run begins with nothing redacted. *)
LEMMA StartOK ==
  ASSUME IndInv, TypeOK', NEW j \in Jobs, Start(j)
  PROVE  JobOK(j)'
<1>1. TypeOK /\ JobOK(j) /\ pc[j] = "queued"
  BY DEF IndInv, Start
<1>2. /\ touched[j] = {} /\ lock # j /\ result[j].status # "succeeded" /\ result[j].mode = "none"
  BY <1>1 DEF JobOK, LockOK, DoneOK, TallyOK
<1>3. /\ UNCHANGED <<redacted, lock, flying, result, touched, payload>>
      /\ attempt'[j] >= MAX_ATTEMPTS
  BY <1>1 DEF Start, store, TypeOK, MAX_ATTEMPTS
<1>4. Cardinality({}) = 0
  BY FS_EmptySet
<1>5. /\ pc'[j] \in {"lock", "record"}
      /\ run'[j].cut = 0 /\ run'[j].mode = "none" /\ run'[j].ends \in {"none", "error"}
      /\ pc'[j] = "lock" => run'[j].affected = 0 /\ run'[j].window \in Windows
  <2>1. CASE Leave(j, "record", "none", "error")
    BY <1>1, <2>1, LeaveIs DEF Modes, Endings
  <2>2. CASE run' = [run EXCEPT ![j] = [NoRun EXCEPT !.window = window]] /\ Goto(j, "lock")
    <3>1. run'[j] = [window |-> window, cut |-> 0, candidates |-> 0, limit |-> 0, affected |-> 0,
                     mode |-> "none", ends |-> "none"]
      BY <1>1, <2>2 DEF TypeOK, NoRun
    <3>2. pc'[j] = "lock"
      BY <1>1, <2>2 DEF Goto, TypeOK
    <3>3. QED
      BY <1>1, <3>1, <3>2 DEF TypeOK
  <2>3. QED
    BY <2>1, <2>2 DEF Start
<1>6. LockOK(j)' /\ DoneOK(j)' /\ TallyOK(j)'
  BY <1>2, <1>3, <1>4, <1>5 DEF LockOK, DoneOK, TallyOK, Tells, LockHeld
<1>7. CountOK(j)'
  BY <1>5, BoundsAssumption DEF CountOK
<1>8. ApprovalOK(j)'
  <2>1. Reached(j)' = {}
    BY <1>2, <1>3 DEF Reached
  <2>2. (0 \in Approval(j))'
    BY DEF Approval, TypeOK, Payloads
  <2>3. QED
    BY <1>4, <1>5, <2>1, <2>2 DEF ApprovalOK
<1>9. QED
  BY <1>6, <1>7, <1>8 DEF JobOK

(* A way out under the lock keeps the tally, and may be live only at the end. *)
LEMMA UnlockingOK ==
  ASSUME IndInv, TypeOK', Kept, NEW j \in Jobs, pc[j] \in LockHeld \ {"unlock"},
         NEW mode \in Modes, NEW ending \in Endings, Leave(j, "unlock", mode, ending),
         mode = "live" => pc[j] = "remaining",
         UNCHANGED <<redacted, lock, flying, result, touched, attempt, payload>>
  PROVE  JobOK(j)'
<1>1. TypeOK /\ JobOK(j)
  BY DEF IndInv
<1>2. /\ pc'[j] = "unlock"
      /\ run'[j].window = run[j].window /\ run'[j].cut = 0
      /\ run'[j].affected = run[j].affected /\ run'[j].mode = mode /\ run'[j].ends = ending
  BY <1>1, LeaveIs
<1>3. LockOK(j)' /\ DoneOK(j)' /\ TallyOK(j)'
  <2>1. Tells(run[j].affected, mode, touched[j])
    <3>1. touched[j] \subseteq 1..MaxRows
      BY <1>1 DEF TypeOK
    <3>2. run[j].affected = Cardinality(touched[j]) /\ Cardinality(touched[j]) \in Nat
      BY <1>1, <3>1, RowsAreFinite DEF JobOK, TallyOK, Tells, LockHeld
    <3>3. QED
      BY <3>2, BoundsAssumption DEF Tells
  <2>2. QED
    BY <1>1, <1>2, <2>1 DEF JobOK, LockOK, DoneOK, TallyOK, LockHeld
<1>4. CountOK(j)'
  BY <1>2, BoundsAssumption DEF CountOK
<1>5. ApprovalOK(j)'
  <2>1. Reached(j)' = Reached(j)
    BY DEF Reached
  <2>2. /\ Approval(j) \subseteq Approval(j)'
        /\ HasManual(run[j].window) => HasManual(run[j].window)'
    BY <1>1, <1>2, ApprovalStays
  <2>3. QED
    BY <1>1, <1>2, <2>1, <2>2 DEF JobOK, ApprovalOK
<1>6. QED
  BY <1>3, <1>4, <1>5 DEF JobOK

(* A run gets the lock with nothing in flight, or ends. *)
LEMMA TryLockOK ==
  ASSUME IndInv, TypeOK', Kept, NEW j \in Jobs, TryLock(j)
  PROVE  JobOK(j)'
<1>1. TypeOK /\ JobOK(j) /\ pc[j] = "lock"
  BY DEF IndInv, TryLock
<1>2. /\ touched[j] = {} /\ lock # j
  BY <1>1 DEF JobOK, LockOK, TallyOK
<1>3. UNCHANGED <<redacted, flying, result, touched, attempt, payload>>
  BY DEF TryLock, store, table
<1>4. Cardinality({}) = 0
  BY FS_EmptySet
<1>5. \/ /\ lock = None /\ flying = {} /\ lock' = j /\ pc'[j] = "count" /\ run'[j] = run[j]
      \/ /\ lock' = lock /\ pc'[j] = "record"
         /\ run'[j].window = run[j].window /\ run'[j].cut = 0
         /\ run'[j].mode = "none" /\ run'[j].ends = "error"
  <2>1. CASE Leave(j, "record", "none", "error") /\ lock' = lock
    BY <1>1, <2>1, LeaveIs DEF Modes, Endings
  <2>2. CASE LockIsFree /\ lock' = j /\ Goto(j, "count") /\ run' = run
    <3>1. pc'[j] = "count"
      BY <1>1, <2>2 DEF Goto, TypeOK
    <3>2. lock = None /\ flying = {}
      BY <2>2 DEF LockIsFree, IndInv
    <3>3. QED
      BY <2>2, <3>1, <3>2
  <2>3. QED
    BY <2>1, <2>2 DEF TryLock
<1>6. LockOK(j)' /\ DoneOK(j)' /\ TallyOK(j)'
  BY <1>1, <1>2, <1>3, <1>5 DEF JobOK, LockOK, DoneOK, TallyOK, LockHeld
<1>7. CountOK(j)'
  BY <1>1, <1>5, BoundsAssumption DEF JobOK, CountOK
<1>8. ApprovalOK(j)'
  <2>1. Reached(j)' = {}
    BY <1>2, <1>3, <1>5 DEF Reached
  <2>2. (0 \in Approval(j))'
    BY DEF Approval, TypeOK, Payloads
  <2>3. payload[j].trigger = "schedule" /\ run'[j].mode = "live" => HasManual(run[j].window)'
    BY <1>1, <1>3, <1>5, ApprovalStays DEF JobOK, ApprovalOK
  <2>4. QED
    BY <1>3, <1>4, <1>5, <2>1, <2>2, <2>3 DEF ApprovalOK
<1>9. QED
  BY <1>6, <1>7, <1>8 DEF JobOK

(* Counting finds the rows to redact, none of them redacted by this run. *)
LEMMA CountingOK ==
  ASSUME IndInv, TypeOK', Kept, NEW j \in Jobs, Count(j)
  PROVE  JobOK(j)'
<1>1. TypeOK /\ JobOK(j) /\ pc[j] = "count" /\ MaxRows \in Nat
  BY BoundsAssumption DEF IndInv, Count
<1>2. UNCHANGED <<redacted, lock, flying, result, touched, attempt, payload>>
  BY DEF Count, store, table
<1>3. CASE Leave(j, "unlock", "none", "error")
  BY <1>1, <1>2, <1>3, UnlockingOK DEF LockHeld, Modes, Endings
<1>4. ASSUME NEW cut \in Cuts(j), Goto(j, "decide"),
             run' = [run EXCEPT ![j].cut = cut, ![j].candidates = Cardinality(Before(cut))]
      PROVE  JobOK(j)'
  <2>1. cut \in 0..MaxRows
    BY <1>1 DEF Cuts, TypeOK
  <2>2. /\ run'[j].cut = cut /\ run'[j].candidates = Cardinality(Before(cut))
        /\ run'[j].window = run[j].window /\ run'[j].affected = run[j].affected
        /\ run'[j].mode = run[j].mode /\ run'[j].ends = run[j].ends
    <3> DEFINE n == Cardinality(Before(cut))
    <3>1. run'[j] = [[run[j] EXCEPT !.cut = cut] EXCEPT !.candidates = n]
      BY <1>1, <1>4 DEF TypeOK
    <3> HIDE DEF n
    <3>2. run[j] \in Runs
      BY <1>1, RunIs
    <3>3. QED
      BY <3>1, <3>2 DEF Runs, n
  <2>3. pc'[j] = "decide"
    BY <1>1, <1>4 DEF Goto, TypeOK
  <2>4. touched[j] = {} /\ Cardinality(touched[j]) = 0
    BY <1>1, FS_EmptySet DEF JobOK, TallyOK
  <2>5. Before(run[j].cut)' = Before(cut)
    BY <1>2, <2>2 DEF Before
  <2>6. Cardinality(Before(cut)) \in Nat
    <3>1. Before(cut) \subseteq 1..MaxRows
      BY <1>1, <2>1 DEF Before
    <3>2. QED
      BY <3>1, RowsAreFinite
  <2>7. LockOK(j)' /\ DoneOK(j)' /\ TallyOK(j)'
    BY <1>1, <1>2, <2>2, <2>3 DEF JobOK, LockOK, DoneOK, TallyOK, LockHeld
  <2>8. CountOK(j)'
    BY <1>2, <2>1, <2>2, <2>3, <2>4, <2>5, <2>6 DEF CountOK
  <2>9. ApprovalOK(j)'
    <3>1. Reached(j)' = Reached(j)
      BY <1>2 DEF Reached
    <3>2. /\ Approval(j) \subseteq Approval(j)'
          /\ HasManual(run[j].window) => HasManual(run[j].window)'
      BY <1>1, <1>2, <2>2, ApprovalStays
    <3>3. QED
      BY <1>1, <1>2, <2>2, <2>3, <3>1, <3>2 DEF JobOK, ApprovalOK
  <2>10. QED
    BY <2>7, <2>8, <2>9 DEF JobOK
<1>5. QED
  BY <1>3, <1>4 DEF Count

(* What a run may do live is approved: by its payload, or on schedule by the  *)
(* last live run of the same window.                                          *)
LEMMA DecidedIsApproved ==
  ASSUME IndInv, NEW j \in Jobs, pc[j] = "decide",
         ~DryRun(payload[j], run[j]), ~Unapproved(payload[j]), ~Held(payload[j], run[j])
  PROVE  /\ Limit(payload[j], run[j]) \in Approval(j)
         /\ payload[j].trigger = "schedule" => HasManual(run[j].window)
<1>1. TypeOK /\ JobOK(j) /\ RunMax \in Nat
  BY BoundsAssumption DEF IndInv
<1>2. /\ payload[j].trigger \in Triggers /\ payload[j].max \in Nat
      /\ run[j].candidates \in Nat
      /\ Limit(payload[j], run[j]) \in Nat
  BY <1>1, RunIs DEF TypeOK, Payloads, Limit, Least
<1>3. CASE payload[j].trigger # "schedule"
  BY <1>1, <1>2, <1>3 DEF Limit, Least, Approval, Triggers
<1>4. CASE payload[j].trigger = "schedule"
  <2>1. last.window = run[j].window /\ run[j].candidates <= Allowed(last.affected)
    <3>1. last.window = run[j].window
      BY <1>4 DEF DryRun
    <3>2. Allowed(last.affected) \in Nat
      BY <1>1, BoundsAssumption DEF Allowed, Most, GROWTH_FACTOR, TypeOK
    <3>3. ~(run[j].candidates > Allowed(last.affected))
      BY <1>4, <3>1 DEF Held
    <3>4. QED
      BY <1>2, <3>1, <3>2, <3>3
  <2>2. last.window # None
    BY <1>1, <2>1, NoneAssumption DEF JobOK, DoneOK, LockHeld
  <2>3. PICK k \in Jobs : Live(k, last.window) /\ result[k].affected = last.affected
    BY <2>2 DEF IndInv, LastOK
  <2>4. k # j
    BY <1>1, <2>3 DEF Live, JobOK, DoneOK
  <2>5. Precedent(k, j)
    BY <2>1, <2>3 DEF Live, Precedent
  <2>6. Limit(payload[j], run[j]) <= run[j].candidates
    BY <1>1, <1>2, <1>4 DEF Limit, Least
  <2>7. Limit(payload[j], run[j]) <= Allowed(result[k].affected)
    <3>1. Allowed(last.affected) \in Nat
      BY <1>1, BoundsAssumption DEF Allowed, Most, GROWTH_FACTOR, TypeOK
    <3>2. QED
      BY <1>2, <2>1, <2>3, <2>6, <3>1
  <2>8. HasManual(run[j].window)
    BY <2>1, <2>2 DEF IndInv, LastOK
  <2>9. QED
    BY <1>2, <1>4, <2>4, <2>5, <2>7, <2>8 DEF Approval
<1>5. QED
  BY <1>3, <1>4

(* A run goes on live within its approval, or ends. *)
LEMMA DecidingOK ==
  ASSUME IndInv, TypeOK', Kept, NEW j \in Jobs, Decide(j)
  PROVE  JobOK(j)'
<1>1. TypeOK /\ JobOK(j) /\ pc[j] = "decide"
  BY DEF IndInv, Decide
<1>2. UNCHANGED <<redacted, lock, flying, result, touched, attempt, payload>>
  BY DEF Decide, store, table
<1>3. ASSUME NEW mode \in {"none", "dry_run", "held"}, NEW ending \in Endings, Leave(j, "unlock", mode, ending)
      PROVE  JobOK(j)'
  BY <1>1, <1>2, <1>3, UnlockingOK DEF LockHeld, Modes
<1>4. ASSUME ~DryRun(payload[j], run[j]), ~Unapproved(payload[j]), ~Held(payload[j], run[j]),
             run' = [run EXCEPT ![j].limit = Limit(payload[j], run[j])], Goto(j, "batch")
      PROVE  JobOK(j)'
  <2>1. /\ run'[j].limit = Limit(payload[j], run[j])
        /\ run'[j].cut = run[j].cut /\ run'[j].candidates = run[j].candidates
        /\ run'[j].window = run[j].window /\ run'[j].affected = run[j].affected
        /\ run'[j].mode = run[j].mode /\ run'[j].ends = run[j].ends
    <3>1. run'[j] = [run[j] EXCEPT !.limit = Limit(payload[j], run[j])]
      BY <1>1, <1>4 DEF TypeOK
    <3>2. run[j] \in Runs
      BY <1>1, RunIs
    <3>3. QED
      BY <3>1, <3>2 DEF Runs
  <2>2. pc'[j] = "batch"
    BY <1>1, <1>4 DEF Goto, TypeOK
  <2>3. LockOK(j)' /\ DoneOK(j)' /\ TallyOK(j)'
    BY <1>1, <1>2, <2>1, <2>2 DEF JobOK, LockOK, DoneOK, TallyOK, LockHeld
  <2>4. CountOK(j)'
    <3>1. Before(run[j].cut)' = Before(run[j].cut)
      BY <1>2, <2>1 DEF Before
    <3>2. QED
      BY <1>1, <1>2, <2>1, <2>2, <3>1 DEF JobOK, CountOK
  <2>5. ApprovalOK(j)'
    <3>1. Reached(j)' = Reached(j)
      BY <1>2 DEF Reached
    <3>2. /\ Approval(j) \subseteq Approval(j)'
          /\ HasManual(run[j].window) => HasManual(run[j].window)'
      BY <1>1, <1>2, <2>1, ApprovalStays
    <3>3. /\ Limit(payload[j], run[j]) \in Approval(j)
          /\ payload[j].trigger = "schedule" => HasManual(run[j].window)
      BY <1>1, <1>4, DecidedIsApproved
    <3>4. run[j].affected = 0 /\ Limit(payload[j], run[j]) \in Nat
      <4>1. Cardinality(touched[j]) = 0
        BY <1>1, FS_EmptySet DEF JobOK, TallyOK
      <4>2. QED
        BY <1>1, <3>3, <4>1 DEF JobOK, TallyOK, Tells, LockHeld, Approval
    <3>5. QED
      BY <1>1, <1>2, <2>1, <2>2, <3>1, <3>2, <3>3, <3>4 DEF JobOK, ApprovalOK
  <2>6. QED
    BY <2>3, <2>4, <2>5 DEF JobOK
<1>5. QED
  BY <1>3, <1>4 DEF Decide, Endings

(* The rows of a batch: not yet redacted, and within what is left to do.      *)
LEMMA BatchIsWithin ==
  ASSUME IndInv, NEW j \in Jobs, pc[j] = "batch", NEW size \in 1..BatchMax, NEW S,
         S = BatchRows(j, size)
  PROVE  /\ S \subseteq Before(run[j].cut) /\ S \subseteq 1..MaxRows
         /\ Cardinality(S) \in Nat /\ Cardinality(S) <= run[j].limit - run[j].affected
         /\ Cardinality(S) <= BatchMax
         /\ Cardinality(touched[j] \cup S) = run[j].affected + Cardinality(S)
         /\ Cardinality(Before(run[j].cut) \ S) = Cardinality(Before(run[j].cut)) - Cardinality(S)
<1> DEFINE B == Before(run[j].cut)
           n == Least(size, run[j].limit - run[j].affected)
<1>1. TypeOK /\ JobOK(j) /\ MaxRows \in Nat /\ BatchMax \in Nat
  BY BoundsAssumption DEF IndInv
<1>2. /\ run[j].cut \in Nat /\ run[j].cut <= MaxRows
      /\ run[j].limit \in Nat /\ run[j].affected \in Nat /\ run[j].affected <= run[j].limit
  BY <1>1, RunIs DEF JobOK, CountOK, ApprovalOK
<1>3. B \subseteq 1..MaxRows
  BY <1>1, <1>2 DEF Before
<1>4. n \in Nat /\ n <= run[j].limit - run[j].affected /\ n <= BatchMax
  BY <1>1, <1>2 DEF Least
<1>5. S = Oldest(B, n)
  BY DEF BatchRows
<1> HIDE DEF n
<1>6. S \subseteq B /\ IsFiniteSet(S) /\ Cardinality(S) <= n
  <2> HIDE DEF B
  <2>1. B \in SUBSET (1..MaxRows)
    BY <1>3
  <2>2. /\ Oldest(B, n) \subseteq B
        /\ IsFiniteSet(Oldest(B, n))
        /\ Cardinality(Oldest(B, n)) <= n
    BY <1>1, <1>4, <2>1, OldestAreFew
  <2>3. QED
    BY <1>5, <2>2
<1>7. Cardinality(S) \in Nat
  BY <1>6, FS_CardinalityType
<1>8. Cardinality(S) <= run[j].limit - run[j].affected /\ Cardinality(S) <= BatchMax
  BY <1>1, <1>2, <1>4, <1>6, <1>7
<1>9. touched[j] \cap S = {}
  BY <1>1, <1>6 DEF JobOK, TallyOK, Before
<1>10. touched[j] \subseteq 1..MaxRows /\ IsFiniteSet(touched[j]) /\ Cardinality(touched[j]) = run[j].affected
  BY <1>1, RowsAreFinite DEF JobOK, TallyOK, Tells, TypeOK, LockHeld
<1>11. Cardinality(touched[j] \cup S) = run[j].affected + Cardinality(S)
  <2>1. Cardinality(touched[j] \cup S) =
          Cardinality(touched[j]) + Cardinality(S) - Cardinality(touched[j] \cap S)
    BY <1>6, <1>10, FS_Union
  <2>2. Cardinality(touched[j] \cap S) = 0
    BY <1>9, FS_EmptySet
  <2>3. QED
    BY <1>2, <1>7, <1>10, <2>1, <2>2
<1>12. Cardinality(B \ S) = Cardinality(B) - Cardinality(S)
  <2>1. IsFiniteSet(B)
    BY <1>3, RowsAreFinite
  <2>2. B \cap S = S
    BY <1>6
  <2> HIDE DEF B
  <2>3. QED
    BY <2>1, <2>2, FS_Difference
<1>13. QED
  BY <1>3, <1>6, <1>7, <1>8, <1>11, <1>12

(* What a lost client had sent is within its approval, too. *)
LEMMA SentIsApproved ==
  ASSUME IndInv, NEW j \in Jobs, pc[j] \in LockHeld \cup {"lock", "record"},
         flying' \in Sent(j), lock' \in Granted(j), touched' = touched
  PROVE  /\ Cardinality(Reached(j)') \in Approval(j)
         /\ payload[j].trigger = "schedule" /\ Reached(j)' # {} =>
              HasManual(run[j].window)
<1>1. TypeOK /\ JobOK(j)
  BY DEF IndInv
<1>2. CASE Reached(j)' \subseteq Reached(j)
  <2>1. Reached(j) \subseteq 1..MaxRows /\ Reached(j)' \subseteq 1..MaxRows
    BY <1>1, <1>2 DEF Reached, TypeOK
  <2>2. Cardinality(Reached(j)') <= Cardinality(Reached(j)) /\ Cardinality(Reached(j)') \in Nat
    BY <1>2, <2>1, RowsAreFinite, FS_Subset
  <2>3. QED
    BY <1>1, <1>2, <2>2, FewerAreApproved DEF JobOK, ApprovalOK
<1>3. ASSUME pc[j] = "batch", NEW size \in 1..BatchMax, flying' = BatchRows(j, size)
      PROVE  /\ Cardinality(Reached(j)') \in Approval(j)
             /\ payload[j].trigger = "schedule" => HasManual(run[j].window)
  <2> DEFINE S == BatchRows(j, size)
  <2>1. lock' = j
    BY <1>1, <1>3 DEF Granted, JobOK, LockOK, LockHeld
  <2>2. Reached(j)' = touched[j] \cup S
    BY <1>3, <2>1 DEF Reached
  <2> HIDE DEF S
  <2>3. /\ Cardinality(S) \in Nat /\ Cardinality(S) <= run[j].limit - run[j].affected
        /\ Cardinality(touched[j] \cup S) = run[j].affected + Cardinality(S)
    BY <1>3, BatchIsWithin DEF S
  <2>4. run[j].limit \in Nat /\ run[j].affected \in Nat /\ run[j].limit \in Approval(j)
    BY <1>1, <1>3, RunIs DEF JobOK, ApprovalOK
  <2>5. Cardinality(Reached(j)') <= run[j].limit /\ Cardinality(Reached(j)') \in Nat
    BY <2>2, <2>3, <2>4
  <2>6. QED
    BY <1>1, <1>3, <2>4, <2>5, FewerAreApproved DEF JobOK, ApprovalOK
<1>4. CASE pc[j] = "batch"
  <2>1. CASE flying' = {}
    BY <1>2, <2>1 DEF Reached
  <2>2. QED
    BY <1>3, <1>4, <2>1 DEF Sent
<1>5. CASE pc[j] # "batch" /\ pc[j] \in LockHeld
  <2>1. flying' = {}
    BY <1>5 DEF Sent
  <2>2. QED
    BY <1>2, <2>1 DEF Reached
<1>6. CASE pc[j] \in {"lock", "record"}
  <2>1. flying' = flying
    BY <1>6 DEF Sent, LockHeld
  <2>2. lock' = lock \/ lock' = None \/ flying = {}
    BY <1>6 DEF Granted, LockIsFree, IndInv
  <2>3. QED
    BY <1>2, <2>1, <2>2, NoneAssumption DEF Reached
<1>7. QED
  BY <1>4, <1>5, <1>6

(* A batch moves rows from those counted to those redacted. *)
LEMMA BatchOK ==
  ASSUME IndInv, TypeOK', Kept, NEW j \in Jobs, NEW size \in 1..BatchMax, Batch(j, size)
  PROVE  JobOK(j)'
<1> DEFINE S == BatchRows(j, size)
<1>1. TypeOK /\ JobOK(j) /\ pc[j] = "batch"
  BY DEF IndInv, Batch
<1>2. /\ UNCHANGED <<lock, flying, result, attempt, payload, pc>>
      /\ redacted' = redacted \cup S /\ touched'[j] = touched[j] \cup S
  BY <1>1 DEF Batch, Redact, table, TypeOK
<1>3. /\ run'[j].affected = run[j].affected + Cardinality(S)
      /\ run'[j].limit = run[j].limit
      /\ run'[j].cut = run[j].cut /\ run'[j].candidates = run[j].candidates
      /\ run'[j].window = run[j].window /\ run'[j].mode = run[j].mode /\ run'[j].ends = run[j].ends
  <2>1. run[j] \in Runs
    BY <1>1, RunIs
  <2> DEFINE n == run[j].affected + Cardinality(S)
  <2>2. run'[j] = [run[j] EXCEPT !.affected = n]
    BY <1>1 DEF Batch, Counted, TypeOK
  <2> HIDE DEF n
  <2>3. QED
    BY <2>1, <2>2 DEF Runs, n
<1>4. Before(run[j].cut)' = Before(run[j].cut) \ S
  BY <1>2, <1>3 DEF Before
<1> HIDE DEF S
<1>5. /\ S \subseteq Before(run[j].cut) /\ S \subseteq 1..MaxRows
      /\ Cardinality(S) \in Nat /\ Cardinality(S) <= run[j].limit - run[j].affected
      /\ Cardinality(touched[j] \cup S) = run[j].affected + Cardinality(S)
      /\ Cardinality(Before(run[j].cut) \ S) = Cardinality(Before(run[j].cut)) - Cardinality(S)
  BY <1>1, BatchIsWithin DEF S
<1>6. run[j].limit \in Nat /\ run[j].affected \in Nat /\ lock = j /\ flying = {} /\ result[j].mode = "none"
      /\ run[j].candidates \in Nat /\ run[j].cut \in Nat /\ run[j].cut <= MaxRows
      /\ run[j].affected = Cardinality(touched[j])
  BY <1>1, RunIs DEF JobOK, LockOK, DoneOK, TallyOK, Tells, CountOK, LockHeld
<1>7. LockOK(j)' /\ DoneOK(j)'
  BY <1>1, <1>2, <1>3 DEF JobOK, LockOK, DoneOK
<1>8. TallyOK(j)'
  BY <1>1, <1>2, <1>3, <1>5, <1>6 DEF JobOK, TallyOK, Tells
<1>9. CountOK(j)'
  <2>1. Cardinality(Before(run[j].cut)) \in Nat
    <3>1. Before(run[j].cut) \subseteq 1..MaxRows
      BY <1>6, BoundsAssumption DEF Before
    <3>2. QED
      BY <3>1, RowsAreFinite
  <2>2. run[j].candidates = Cardinality(Before(run[j].cut)) + Cardinality(touched[j])
    BY <1>1 DEF JobOK, CountOK
  <2>3. run'[j].candidates = Cardinality(Before(run[j].cut)') + Cardinality(touched'[j])
    BY <1>2, <1>3, <1>4, <1>5, <1>6, <2>1, <2>2
  <2>4. QED
    BY <1>1, <1>2, <1>3, <1>6, <2>3 DEF CountOK
<1>10. ApprovalOK(j)'
  <2>1. /\ Approval(j) \subseteq Approval(j)'
        /\ HasManual(run[j].window) => HasManual(run[j].window)'
    BY <1>1, <1>2, <1>3, ApprovalStays
  <2>2. Reached(j)' = touched[j] \cup S
    BY <1>2, <1>6 DEF Reached
  <2>3. run'[j].affected <= run'[j].limit /\ run'[j].affected \in Nat
    BY <1>3, <1>5, <1>6
  <2>4. Cardinality(Reached(j)') \in Approval(j)
    BY <1>1, <1>3, <1>5, <1>6, <2>2, <2>3, FewerAreApproved DEF JobOK, ApprovalOK
  <2>5. QED
    BY <1>1, <1>2, <1>3, <2>1, <2>3, <2>4 DEF JobOK, ApprovalOK
<1>11. QED
  BY <1>7, <1>8, <1>9, <1>10 DEF JobOK

(* The loop ends at the limit, or with no row left. *)
LEMMA LoopEndOK ==
  ASSUME IndInv, TypeOK', Kept, NEW j \in Jobs, NoMoreBatches(j)
  PROVE  JobOK(j)'
<1>1. TypeOK /\ JobOK(j) /\ pc[j] = "batch"
  BY DEF IndInv, NoMoreBatches
<1>2. UNCHANGED <<redacted, lock, flying, result, touched, attempt, payload, run>>
  BY DEF NoMoreBatches, store, table
<1>3. pc'[j] = "remaining" /\ (run[j].affected >= run[j].limit \/ Before(run[j].cut) = {})
  BY <1>1 DEF NoMoreBatches, Goto, TypeOK
<1>4. LockOK(j)' /\ DoneOK(j)' /\ TallyOK(j)'
  BY <1>1, <1>2, <1>3 DEF JobOK, LockOK, DoneOK, TallyOK, LockHeld
<1>5. CountOK(j)'
  <2>1. Before(run[j].cut)' = Before(run[j].cut)
    BY <1>2 DEF Before
  <2>2. run[j].affected \in Nat /\ run[j].limit \in Nat
    BY <1>1, RunIs
  <2>3. QED
    BY <1>1, <1>2, <1>3, <2>1, <2>2 DEF JobOK, CountOK
<1>6. ApprovalOK(j)'
  <2>1. /\ Approval(j) \subseteq Approval(j)'
        /\ HasManual(run[j].window) => HasManual(run[j].window)'
    BY <1>1, <1>2, ApprovalStays
  <2>2. Reached(j)' = Reached(j)
    BY <1>2 DEF Reached
  <2>3. QED
    BY <1>1, <1>2, <1>3, <2>1, <2>2 DEF JobOK, ApprovalOK
<1>7. QED
  BY <1>4, <1>5, <1>6 DEF JobOK

(* A batch that failed has rolled back, or committed and is not counted. *)
LEMMA FailedBatchOK ==
  ASSUME IndInv, TypeOK', Kept, NEW j \in Jobs, BatchFails(j)
  PROVE  JobOK(j)'
<1>1. TypeOK /\ JobOK(j) /\ pc[j] = "batch" /\ Leave(j, "unlock", "failed", "partial")
  BY DEF IndInv, BatchFails
<1>2. UNCHANGED <<lock, flying, result, attempt, payload>>
  BY DEF BatchFails, table
<1>3. CASE UNCHANGED <<redacted, touched>>
  BY <1>1, <1>2, <1>3, UnlockingOK DEF LockHeld, Modes, Endings
<1>4. ASSUME NEW size \in 1..BatchMax, Redact(j, BatchRows(j, size))
      PROVE  JobOK(j)'
  <2> DEFINE S == BatchRows(j, size)
  <2>1. redacted' = redacted \cup S /\ touched'[j] = touched[j] \cup S
    BY <1>1, <1>4 DEF Redact, TypeOK
  <2>2. /\ pc'[j] = "unlock"
        /\ run'[j].window = run[j].window /\ run'[j].cut = 0
        /\ run'[j].affected = run[j].affected /\ run'[j].mode = "failed" /\ run'[j].ends = "partial"
    BY <1>1, LeaveIs DEF Modes, Endings
  <2> HIDE DEF S
  <2>3. /\ Cardinality(S) \in Nat /\ Cardinality(S) <= run[j].limit - run[j].affected
        /\ Cardinality(S) <= BatchMax
        /\ Cardinality(touched[j] \cup S) = run[j].affected + Cardinality(S)
    BY <1>1, <1>4, BatchIsWithin DEF S
  <2>4. /\ run[j].limit \in Nat /\ run[j].affected \in Nat /\ lock = j /\ flying = {}
        /\ result[j].mode = "none" /\ BatchMax \in Nat
    BY <1>1, RunIs, BoundsAssumption DEF JobOK, LockOK, DoneOK, LockHeld
  <2>5. LockOK(j)' /\ DoneOK(j)'
    BY <1>1, <1>2, <2>2 DEF JobOK, LockOK, DoneOK, LockHeld
  <2>6. TallyOK(j)'
    <3>1. Tells(run[j].affected, "failed", touched[j] \cup S)
      BY <2>3, <2>4 DEF Tells
    <3>2. QED
      BY <1>1, <1>2, <2>1, <2>2, <2>4, <3>1 DEF JobOK, TallyOK
  <2>7. CountOK(j)'
    BY <2>2, BoundsAssumption DEF CountOK
  <2>8. ApprovalOK(j)'
    <3>1. /\ Approval(j) \subseteq Approval(j)'
          /\ HasManual(run[j].window) => HasManual(run[j].window)'
      BY <1>1, <1>2, <2>2, ApprovalStays
    <3>2. Reached(j)' = touched[j] \cup S
      BY <1>2, <2>1, <2>4 DEF Reached
    <3>3. Cardinality(Reached(j)') <= run[j].limit /\ Cardinality(Reached(j)') \in Nat
      BY <2>3, <2>4, <3>2
    <3>4. Cardinality(Reached(j)') \in Approval(j)
      BY <1>1, <2>4, <3>3, FewerAreApproved DEF JobOK, ApprovalOK
    <3>5. QED
      BY <1>1, <1>2, <2>2, <3>1, <3>4 DEF JobOK, ApprovalOK
  <2>9. QED
    BY <2>5, <2>6, <2>7, <2>8 DEF JobOK
<1>5. QED
  BY <1>3, <1>4 DEF BatchFails

(* The ways out of the part under the lock. *)
LEMMA EndingOK ==
  ASSUME IndInv, TypeOK', Kept, NEW j \in Jobs, Remaining(j) \/ ReadFails(j)
  PROVE  JobOK(j)'
<1>1. UNCHANGED <<redacted, lock, flying, result, touched, attempt, payload>>
  BY DEF Remaining, ReadFails, store, table
<1>2. CASE Remaining(j)
  <2>1. pc[j] = "remaining" /\ Leave(j, "unlock", "live", "result")
    BY <1>2 DEF Remaining
  <2>2. QED
    BY <1>1, <2>1, UnlockingOK DEF LockHeld, Modes, Endings
<1>3. CASE ReadFails(j)
  <2>1. pc[j] \in LockHeld \ {"unlock"} /\ Leave(j, "unlock", "none", "error")
    BY <1>3 DEF ReadFails, LockHeld
  <2>2. QED
    BY <1>1, <2>1, UnlockingOK DEF LockHeld, Modes, Endings
<1>4. QED
  BY <1>2, <1>3

(* The lock is given back with nothing in flight. *)
LEMMA UnlockOK ==
  ASSUME IndInv, TypeOK', Kept, NEW j \in Jobs, Unlock(j)
  PROVE  JobOK(j)'
<1>1. TypeOK /\ JobOK(j) /\ pc[j] = "unlock"
  BY DEF IndInv, Unlock
<1>2. UNCHANGED <<redacted, flying, result, touched, attempt, payload, run>> /\ lock' = None
  BY DEF Unlock, store, table
<1>3. pc'[j] = "record" /\ lock' # j
  BY <1>1, <1>2, NoneAssumption DEF Unlock, Goto, TypeOK
<1>4. LockOK(j)' /\ DoneOK(j)' /\ TallyOK(j)'
  BY <1>1, <1>2, <1>3 DEF JobOK, LockOK, DoneOK, TallyOK, LockHeld
<1>5. CountOK(j)'
  BY <1>1, <1>2, <1>3 DEF JobOK, CountOK
<1>6. ApprovalOK(j)'
  <2>1. /\ Approval(j) \subseteq Approval(j)'
        /\ HasManual(run[j].window) => HasManual(run[j].window)'
    BY <1>1, <1>2, ApprovalStays
  <2>2. Reached(j)' = Reached(j)
    BY <1>1, <1>2, <1>3 DEF Reached, JobOK, LockOK, LockHeld
  <2>3. QED
    BY <1>1, <1>2, <1>3, <2>1, <2>2 DEF JobOK, ApprovalOK
<1>7. QED
  BY <1>4, <1>5, <1>6 DEF JobOK

(* What is recorded is the run's tally. *)
LEMMA RecordOK ==
  ASSUME IndInv, TypeOK', Kept, NEW j \in Jobs, Record(j)
  PROVE  JobOK(j)'
<1>1. TypeOK /\ JobOK(j) /\ pc[j] = "record"
  BY DEF IndInv, Record
<1>2. UNCHANGED <<redacted, lock, flying, touched, attempt, payload>>
  BY DEF Record, store
<1>3. /\ pc'[j] = "done" /\ result'[j] = Recorded(j)
      /\ run'[j].window = run[j].window /\ run'[j].cut = 0 /\ run'[j].mode = "none" /\ run'[j].ends = "none"
  BY <1>1, ForgottenIs DEF Record, Goto, TypeOK
<1>4. Recorded(j).mode # "none" =>
        run[j].ends \in {"result", "partial"} /\ Tells(Recorded(j).affected, Recorded(j).mode, touched[j])
  <2>1. run[j].ends \in Endings /\ run[j].affected \in Nat /\ BatchMax \in Nat
    BY <1>1, RunIs, BoundsAssumption
  <2>2. touched[j] \subseteq 1..MaxRows
    BY <1>1 DEF TypeOK
  <2>3. Cardinality(touched[j]) \in Nat
    BY <2>2, RowsAreFinite
  <2>4. ASSUME run[j].ends \in {"result", "partial"}
        PROVE  /\ Tells(run[j].affected, run[j].mode, touched[j])
               /\ Tells(run[j].affected, "failed", touched[j])
    <3>1. Tells(run[j].affected, run[j].mode, touched[j])
      BY <1>1, <2>4 DEF JobOK, TallyOK
    <3>2. QED
      BY <2>1, <2>3, <3>1 DEF Tells
  <2>5. QED
    BY <2>1, <2>4 DEF Recorded, Failed, NoResult, Endings
<1>5. LockOK(j)' /\ DoneOK(j)' /\ TallyOK(j)'
  BY <1>1, <1>2, <1>3, <1>4 DEF JobOK, LockOK, DoneOK, TallyOK, LockHeld
<1>6. CountOK(j)'
  BY <1>3, BoundsAssumption DEF CountOK
<1>7. ApprovalOK(j)'
  <2>1. /\ Approval(j) \subseteq Approval(j)'
        /\ HasManual(run[j].window) => HasManual(run[j].window)'
    BY <1>1, <1>2, <1>3, ApprovalStays
  <2>2. Reached(j)' = Reached(j)
    BY <1>2 DEF Reached
  <2>3. QED
    BY <1>1, <1>2, <1>3, <2>1, <2>2 DEF JobOK, ApprovalOK
<1>8. QED
  BY <1>5, <1>6, <1>7 DEF JobOK

(* The client is lost, its session or its Lambda, with what it had sent. *)
LEMMA LossOK ==
  ASSUME IndInv, TypeOK', Kept, NEW j \in Jobs, Disconnect(j) \/ Kill(j)
  PROVE  JobOK(j)'
<1>1. TypeOK /\ JobOK(j) /\ pc[j] \in LockHeld \cup {"lock", "record"}
  BY DEF IndInv, Disconnect, Kill
<1>2. /\ UNCHANGED <<redacted, result, touched, attempt, payload>>
      /\ flying' \in Sent(j) /\ lock' \in Granted(j)
  BY DEF Disconnect, Kill, store, table
<1>3. /\ pc'[j] \in {"record", "dead"}
      /\ run'[j].window = run[j].window /\ run'[j].cut = 0 /\ run'[j].mode = "none"
      /\ run'[j].ends \in {"none", "error"}
  <2>1. CASE Disconnect(j)
    <3>1. Leave(j, "record", "none", "error")
      BY <2>1 DEF Disconnect
    <3>2. QED
      BY <1>1, <3>1, LeaveIs DEF Modes, Endings
  <2>2. CASE Kill(j)
    <3>1. run' = Forgotten(j) /\ pc'[j] = "dead"
      BY <1>1, <2>2 DEF Kill, Goto, TypeOK
    <3>2. QED
      BY <1>1, <3>1, ForgottenIs
  <2>3. QED
    BY <2>1, <2>2
<1>4. pc[j] # "done" /\ result[j].mode = "none" /\ result[j].status # "succeeded"
  BY <1>1 DEF JobOK, DoneOK, LockHeld
<1>5. LockOK(j)' /\ DoneOK(j)' /\ TallyOK(j)'
  BY <1>1, <1>2, <1>3, <1>4 DEF JobOK, LockOK, DoneOK, TallyOK, LockHeld
<1>6. CountOK(j)'
  BY <1>3, BoundsAssumption DEF CountOK
<1>7. ApprovalOK(j)'
  <2>1. /\ Approval(j) \subseteq Approval(j)'
        /\ HasManual(run[j].window) => HasManual(run[j].window)'
    BY <1>1, <1>2, <1>3, ApprovalStays
  <2>2. /\ Cardinality(Reached(j)') \in Approval(j)
        /\ payload[j].trigger = "schedule" /\ Reached(j)' # {} =>
             HasManual(run[j].window)
    BY <1>1, <1>2, SentIsApproved
  <2>3. QED
    BY <1>2, <1>3, <2>1, <2>2 DEF ApprovalOK
<1>8. QED
  BY <1>5, <1>6, <1>7 DEF JobOK

(* A reaped job is over, for its one attempt is spent. *)
LEMMA ReapOK ==
  ASSUME IndInv, TypeOK', Kept, NEW j \in Jobs, Reap(j)
  PROVE  JobOK(j)'
<1>1. TypeOK /\ JobOK(j) /\ pc[j] = "dead"
  BY DEF IndInv, Reap
<1>2. UNCHANGED <<redacted, lock, flying, touched, attempt, payload, run>>
  BY DEF Reap, store
<1>3. pc'[j] = "done" /\ result'[j] = Failed
  <2>1. attempt[j] \in Nat /\ attempt[j] >= MAX_ATTEMPTS
    BY <1>1 DEF JobOK, DoneOK, TypeOK
  <2>2. ~(attempt[j] < MAX_ATTEMPTS)
    BY <2>1 DEF MAX_ATTEMPTS
  <2>3. QED
    BY <1>1, <2>2 DEF Reap, Goto, TypeOK
<1>4. result'[j].mode = "none" /\ result'[j].status = "failed"
  BY <1>3 DEF Failed, NoResult
<1>5. LockOK(j)' /\ DoneOK(j)' /\ TallyOK(j)'
  BY <1>1, <1>2, <1>3, <1>4 DEF JobOK, LockOK, DoneOK, TallyOK, LockHeld
<1>6. CountOK(j)'
  BY <1>1, <1>2, <1>3 DEF JobOK, CountOK
<1>7. ApprovalOK(j)'
  <2>1. /\ Approval(j) \subseteq Approval(j)'
        /\ HasManual(run[j].window) => HasManual(run[j].window)'
    BY <1>1, <1>2, ApprovalStays
  <2>2. Reached(j)' = Reached(j)
    BY <1>2 DEF Reached
  <2>3. QED
    BY <1>1, <1>2, <1>3, <2>1, <2>2 DEF JobOK, ApprovalOK
<1>8. QED
  BY <1>5, <1>6, <1>7 DEF JobOK

-----------------------------------------------------------------------------
(* A job's step leaves the others' as they are: only the holder of the lock   *)
(* redacts, and only the holder's loss sends rows.                            *)
LEMMA JobsStay ==
  ASSUME IndInv, TypeOK', Kept, payload' = payload, NEW j \in Jobs, Act(j)
  PROVE  \A k \in Jobs : JobOK(k)'
<1>1. TypeOK /\ JobOK(j) /\ lock \in Jobs \cup {None}
  BY DEF IndInv, TypeOK
<1>2. JobOK(j)'
  <2>1. CASE Start(j) \/ TryLock(j) \/ Count(j) \/ Decide(j)
    BY <2>1, StartOK, TryLockOK, CountingOK, DecidingOK
  <2>2. CASE Batches(j)
    BY <2>2, BatchOK, LoopEndOK, FailedBatchOK DEF Batches
  <2>3. CASE Remaining(j) \/ ReadFails(j) \/ Unlock(j) \/ Record(j)
    BY <2>3, EndingOK, UnlockOK, RecordOK
  <2>4. CASE Disconnect(j) \/ Kill(j) \/ Reap(j)
    BY <2>4, LossOK, ReapOK
  <2>5. QED
    BY <2>1, <2>2, <2>3, <2>4 DEF Act, Step
<1>3. redacted \subseteq redacted'
  BY DEF Act, Step, Start, TryLock, Count, Decide, Batches, Batch, NoMoreBatches, BatchFails, Remaining, ReadFails,
     Unlock, Record, Disconnect, Kill, Reap, Redact, store
<1>4. ASSUME NEW k \in Jobs \ {j}
      PROVE  /\ lock' = k => lock = k /\ flying' \subseteq flying
             /\ pc[k] \in LockHeld => lock' = lock /\ flying' = {} /\ redacted' = redacted
  <2>1. pc[k] \in LockHeld => lock = k /\ flying = {} /\ pc[j] \notin LockHeld
    BY <1>1, <1>4 DEF IndInv, JobOK, LockOK
  <2>2. pc[j] \in LockHeld => lock = j
    BY <1>1 DEF JobOK, LockOK
  <2>3. CASE UNCHANGED <<lock, flying, redacted>>
    BY <2>1, <2>3
  <2>4. CASE TryLock(j)
    BY <1>4, <2>1, <2>4, NoneAssumption DEF TryLock, LockIsFree, store
  <2>5. CASE Unlock(j)
    BY <1>4, <2>1, <2>5, NoneAssumption DEF Unlock, LockHeld
  <2>6. ASSUME NEW size \in 1..BatchMax, Batch(j, size)
        PROVE  UNCHANGED <<lock, flying>> /\ pc[j] \in LockHeld
    BY <2>6 DEF Batch, LockHeld
  <2>7. CASE BatchFails(j)
    <3>1. UNCHANGED <<lock, flying>> /\ pc[j] \in LockHeld
      BY <2>7 DEF BatchFails, LockHeld
    <3>2. QED
      BY <2>1, <2>2, <3>1
  <2>8. CASE Disconnect(j) \/ Kill(j)
    <3>1. redacted' = redacted /\ flying' \in Sent(j) /\ lock' \in Granted(j)
      BY <2>8 DEF Disconnect, Kill, store
    <3>2. CASE pc[j] \in LockHeld
      BY <1>4, <2>1, <2>2, <3>1, <3>2 DEF Granted, LockHeld
    <3>3. CASE pc[j] \notin LockHeld
      <4>1. flying' = flying
        BY <3>1, <3>3 DEF Sent, LockHeld
      <4>2. lock' = lock \/ (lock = None /\ lock' \in {None, j})
        BY <3>1 DEF Granted, LockIsFree
      <4>3. QED
        BY <1>4, <2>1, <3>1, <4>1, <4>2, NoneAssumption
    <3>4. QED
      BY <3>2, <3>3
  <2>9. QED
    BY <2>1, <2>3, <2>4, <2>5, <2>6, <2>7, <2>8 DEF Act, Step, Start, Count, Decide, Batches, NoMoreBatches,
       Remaining, ReadFails, Record, Reap, store
<1>5. ASSUME NEW k \in Jobs \ {j} PROVE JobOK(k)'
  BY <1>1, <1>3, <1>4, <1>5, OthersStay, LeftAlone
<1>6. QED
  BY <1>2, <1>5

(* A late commit redacts for the lost run that sent it. *)
LEMMA LandOK ==
  ASSUME IndInv, TypeOK', Kept, payload' = payload, Land
  PROVE  \A k \in Jobs : JobOK(k)'
<1> DEFINE j == lock
<1>1. TypeOK /\ j \in Jobs /\ JobOK(j) /\ pc[j] \notin LockHeld
  BY DEF IndInv, TypeOK, Land, Orphaned
<1>2. /\ UNCHANGED <<lock, pc, run, result, attempt>> /\ flying' = {}
      /\ redacted' = redacted \cup flying
      /\ touched' = [touched EXCEPT ![j] = touched[j] \cup flying]
  BY DEF Land, Redact, table
<1>3. \A k \in Jobs \ {j} : touched'[k] = touched[k]
  BY <1>1, <1>2 DEF TypeOK
<1>4. touched'[j] = touched[j] \cup flying
  BY <1>1, <1>2 DEF TypeOK
<1>5. ASSUME NEW k \in Jobs \ {j} PROVE JobOK(k)'
  <2>1. pc[k] \notin LockHeld
    BY <1>5 DEF IndInv, JobOK, LockOK
  <2>2. QED
    BY <1>2, <1>3, <1>5, <2>1, LeftAlone DEF Same
<1>6. LockOK(j)' /\ DoneOK(j)'
  BY <1>1, <1>2 DEF JobOK, LockOK, DoneOK
<1>7. TallyOK(j)'
  BY <1>1, <1>2, <1>4 DEF JobOK, LockOK, TallyOK, LockHeld
<1>8. CountOK(j)'
  BY <1>1, <1>2 DEF JobOK, CountOK, LockHeld
<1>9. ApprovalOK(j)'
  <2>1. Reached(j)' = Reached(j)
    BY <1>2, <1>4 DEF Reached
  <2>2. /\ Approval(j) \subseteq Approval(j)'
        /\ HasManual(run[j].window) => HasManual(run[j].window)'
    BY <1>1, <1>2, ApprovalStays
  <2>3. QED
    BY <1>1, <1>2, <2>1, <2>2 DEF JobOK, ApprovalOK
<1>10. QED
  BY <1>2, <1>5, <1>6, <1>7, <1>8, <1>9 DEF JobOK

(* The world's steps leave every job alone. *)
LEMMA WorldOK ==
  ASSUME IndInv, TypeOK', Kept, Expire \/ Redeploy \/ EndSession \/ UNCHANGED vars
  PROVE  \A k \in Jobs : JobOK(k)'
<1>1. /\ UNCHANGED <<redacted, payload, pc, run, result, touched, attempt>>
      /\ \/ lock' = lock /\ flying' = flying
         \/ Orphaned /\ lock' = None /\ flying' = {}
  BY DEF Expire, Redeploy, EndSession, vars, store, table
<1>2. ASSUME NEW k \in Jobs PROVE JobOK(k)'
  <2>1. pc[k] \in LockHeld => lock = k /\ flying = {} /\ ~Orphaned
    BY <1>2 DEF IndInv, JobOK, LockOK, Orphaned
  <2>2. QED
    BY <1>1, <1>2, <2>1, NoneAssumption, LeftAlone DEF Same
<1>3. QED
  BY <1>2

(* Rows in flight have a session they were sent by. *)
LEMMA FlyingOK == IndInv /\ [Next]_vars => (flying # {} => lock # None)'
<1> SUFFICES ASSUME IndInv, [Next]_vars PROVE (flying # {} => lock # None)'
  OBVIOUS
<1>0. flying # {} => lock # None
  BY DEF IndInv
<1>1. CASE UNCHANGED <<lock, flying>> \/ Land \/ EndSession
  BY <1>0, <1>1 DEF Land, EndSession
<1>2. ASSUME NEW j \in Jobs, Disconnect(j) \/ Kill(j) PROVE (flying # {} => lock # None)'
  <2>1. flying' \in Sent(j) /\ lock' \in Granted(j)
    BY <1>2 DEF Disconnect, Kill
  <2>2. CASE pc[j] \in LockHeld
    <3>1. lock' = j
      BY <2>1, <2>2 DEF Granted, LockHeld, IndInv, JobOK, LockOK
    <3>2. QED
      BY <3>1, NoneAssumption
  <2>3. CASE pc[j] \notin LockHeld
    <3>1. flying' = flying
      BY <2>1, <2>3 DEF Sent, LockHeld
    <3>2. lock' = lock \/ flying = {}
      BY <1>0, <2>1 DEF Granted, LockIsFree
    <3>3. QED
      BY <1>0, <3>1, <3>2
  <2>4. QED
    BY <2>2, <2>3
<1>3. ASSUME NEW j \in Jobs, TryLock(j) \/ Unlock(j) PROVE (flying # {} => lock # None)'
  <2>1. flying' = flying
    BY <1>3 DEF TryLock, Unlock
  <2>2. lock' = lock \/ flying = {}
    BY <1>0, <1>3 DEF TryLock, LockIsFree, Unlock, IndInv, JobOK, LockOK, LockHeld
  <2>3. QED
    BY <1>0, <2>1, <2>2
<1>4. QED
  BY <1>1, <1>2, <1>3 DEF Next, Step, Expire, Redeploy, Start, Count, Decide, Batches, Batch, NoMoreBatches,
     BatchFails, Remaining, ReadFails, Record, Reap, vars

(* What LAST_LIVE_SQL finds succeeded, under an approval of its window. *)
LEMMA LastStep == IndInv /\ [Next]_vars => LastOK'
<1> SUFFICES ASSUME IndInv, [Next]_vars, last'.window # None PROVE LastOK'
  BY DEF LastOK
<1>0. TypeOK /\ TypeOK' /\ Kept /\ payload' = payload
  BY TypeStep, SuccessStays DEF IndInv
<1>1. CASE last' = last
  <2>1. PICK k \in Jobs : Live(k, last.window) /\ result[k].affected = last.affected
    BY <1>1 DEF IndInv, LastOK
  <2>2. result'[k] = result[k] /\ run'[k] = run[k]
    BY <1>0, <2>1 DEF Live, Kept
  <2>3. (Live(k, last.window) /\ result[k].affected = last.affected)'
    BY <1>0, <1>1, <2>1, <2>2 DEF Live
  <2>4. PICK m \in Jobs : Live(m, last.window) /\ payload[m].trigger = "manual"
    BY <1>1 DEF IndInv, LastOK, HasManual
  <2>5. result'[m] = result[m] /\ run'[m] = run[m]
    BY <1>0, <2>4 DEF Live, Kept
  <2>6. (Live(m, last.window) /\ payload[m].trigger = "manual")'
    BY <1>0, <1>1, <2>4, <2>5 DEF Live
  <2>7. QED
    BY <2>3, <2>6 DEF LastOK, HasManual
<1>2. ASSUME NEW j \in Jobs, Record(j), CountsAsLive(j),
             last' = [window |-> run[j].window, affected |-> run[j].affected]
      PROVE  LastOK'
  <2>1. JobOK(j) /\ pc[j] = "record"
    BY <1>2 DEF IndInv, Record
  <2>2. /\ result'[j] = Recorded(j) /\ run'[j].window = run[j].window
    BY <1>0, <1>2, ForgottenIs DEF Record, TypeOK
  <2>3. run[j].ends \in Endings
    BY <1>0, RunIs
  <2>4. run[j].mode = "live" /\ Recorded(j).affected = run[j].affected
    BY <1>2, <2>3 DEF CountsAsLive, Recorded, Failed, NoResult, Endings
  <2>5. (Live(j, last.window) /\ result[j].affected = last.affected)'
    BY <1>0, <1>2, <2>2, <2>4 DEF Live, CountsAsLive
  <2>6. HasManual(last.window)'
    <3>1. CASE payload[j].trigger = "manual"
      BY <1>0, <2>5, <3>1 DEF HasManual
    <3>2. CASE payload[j].trigger = "schedule"
      <4>1. HasManual(run[j].window)
        BY <2>1, <2>4, <3>2 DEF JobOK, ApprovalOK
      <4>2. HasManual(run[j].window)'
        BY <1>0, <2>2, <4>1, ApprovalStays
      <4>3. QED
        BY <1>2, <2>2, <4>2
    <3>3. payload[j].trigger \in Triggers
      BY <1>0 DEF TypeOK, Payloads
    <3>4. QED
      BY <1>2, <3>1, <3>2, <3>3 DEF CountsAsLive, Triggers
  <2>7. QED
    BY <2>5, <2>6 DEF LastOK
<1>3. QED
  BY <1>1, <1>2 DEF Next, Step, Expire, Redeploy, Start, TryLock, Count, Decide, Batches, Batch, NoMoreBatches,
     BatchFails, Remaining, ReadFails, Unlock, Record, Disconnect, Kill, Reap, Land, EndSession, vars, table

(* Every state is as IndInv says. *)
THEOREM Inductive == Spec => []IndInv
<1>1. IndInv /\ [Next]_vars => IndInv'
  <2> SUFFICES ASSUME IndInv, [Next]_vars PROVE IndInv'
    OBVIOUS
  <2>1. TypeOK' /\ Kept /\ payload' = payload /\ LastOK' /\ (flying # {} => lock # None)'
    BY TypeStep, SuccessStays, LastStep, FlyingOK
  <2>2. \A j \in Jobs : JobOK(j)'
    <3>1. ASSUME NEW j \in Jobs, Act(j) PROVE \A k \in Jobs : JobOK(k)'
      BY <2>1, <3>1, JobsStay
    <3>2. QED
      BY <2>1, <3>1, LandOK, WorldOK DEF Next, Act
  <2>3. QED
    BY <2>1, <2>2 DEF IndInv
<1>2. QED
  BY InitOK, <1>1, PTL DEF Spec

(* What the tables and the locals of a run hold. *)
THEOREM TypeCorrect == Spec => []TypeOK
<1>1. IndInv => TypeOK
  BY DEF IndInv
<1>2. QED
  BY Inductive, <1>1, PTL

(* No job redacts more rows than were approved for it, whoever dies and       *)
(* whatever commits late.                                                     *)
THEOREM ApprovalHolds == Spec => []WithinTheApproval
<1>1. IndInv => WithinTheApproval
  <2> SUFFICES ASSUME IndInv, NEW j \in Jobs
               PROVE  /\ payload[j].trigger # "schedule" => Cardinality(touched[j]) <= payload[j].max
                      /\ payload[j].trigger = "schedule" /\ touched[j] # {} =>
                           \E k \in Jobs \ {j} : Precedent(k, j) /\ Cardinality(touched[j]) <= Allowed(result[k].affected)
    BY DEF WithinTheApproval
  <2>1. TypeOK /\ JobOK(j)
    BY DEF IndInv
  <2>2. Reached(j) \subseteq 1..MaxRows /\ touched[j] \subseteq Reached(j) /\ touched[j] \subseteq 1..MaxRows
    BY <2>1 DEF Reached, TypeOK
  <2>3. /\ Cardinality(touched[j]) \in Nat /\ Cardinality(touched[j]) <= Cardinality(Reached(j))
        /\ touched[j] # {} => Cardinality(touched[j]) > 0
    <3>1. IsFiniteSet(Reached(j)) /\ Cardinality(touched[j]) \in Nat
          /\ (Cardinality(touched[j]) = 0 <=> touched[j] = {})
      BY <2>2, RowsAreFinite
    <3>2. Cardinality(touched[j]) <= Cardinality(Reached(j))
      BY <2>2, <3>1, FS_Subset
    <3>3. QED
      BY <3>1, <3>2
  <2>4. Cardinality(touched[j]) \in Approval(j)
    BY <2>1, <2>3, FewerAreApproved DEF JobOK, ApprovalOK
  <2>5. QED
    BY <2>3, <2>4 DEF Approval
<1>2. QED
  BY Inductive, <1>1, PTL

(* Nothing is redacted on schedule before an operator's run of that window.   *)
THEOREM ApprovedFirstHolds == Spec => []ApprovedFirst
<1>1. IndInv => ApprovedFirst
  <2> SUFFICES ASSUME IndInv, NEW j \in Jobs, payload[j].trigger = "schedule", touched[j] # {}
               PROVE  \E k \in Jobs : payload[k].trigger = "manual" /\ Precedent(k, j)
    BY DEF ApprovedFirst
  <2>1. HasManual(run[j].window)
    BY DEF IndInv, JobOK, ApprovalOK, Reached
  <2>2. QED
    BY <2>1 DEF HasManual, Live, Precedent
<1>2. QED
  BY Inductive, <1>1, PTL

(* A result's count is the rows the job redacted. *)
THEOREM ResultsAreExact == Spec => []ResultIsExact
<1>1. IndInv => ResultIsExact
  BY DEF IndInv, JobOK, TallyOK, ResultIsExact
<1>2. QED
  BY Inductive, <1>1, PTL

(* A live run that may take every candidate leaves none: no other redacts     *)
(* between its count and its end.                                             *)
THEOREM LiveRunsComplete == Spec => []LiveRunIsComplete
<1>1. IndInv => LiveRunIsComplete
  <2> SUFFICES ASSUME IndInv, NEW j \in Jobs, pc[j] = "remaining", run[j].limit >= run[j].candidates
               PROVE  Before(run[j].cut) = {} /\ Cardinality(touched[j]) = run[j].candidates
    BY DEF LiveRunIsComplete
  <2> DEFINE B == Before(run[j].cut)
  <2>1. TypeOK /\ JobOK(j)
    BY DEF IndInv
  <2>2. /\ run[j].cut \in Nat /\ run[j].limit \in Nat /\ run[j].candidates \in Nat /\ run[j].affected \in Nat
    BY <2>1, RunIs
  <2>3. B \subseteq 1..MaxRows
    BY <2>1, <2>2, BoundsAssumption DEF JobOK, CountOK, Before
  <2>4. Cardinality(B) \in Nat /\ (Cardinality(B) = 0 <=> B = {})
    BY <2>3, RowsAreFinite
  <2>5. /\ run[j].candidates = Cardinality(B) + Cardinality(touched[j])
        /\ B = {} \/ run[j].limit <= run[j].affected
        /\ run[j].affected = Cardinality(touched[j])
    BY <2>1 DEF JobOK, CountOK, TallyOK, Tells, LockHeld
  <2> HIDE DEF B
  <2>6. Cardinality(B) = 0
    BY <2>2, <2>4, <2>5
  <2>7. B = {} /\ Cardinality(touched[j]) = run[j].candidates
    BY <2>2, <2>4, <2>5, <2>6
  <2>8. QED
    BY <2>7 DEF B
<1>2. QED
  BY Inductive, <1>1, PTL
=============================================================================
