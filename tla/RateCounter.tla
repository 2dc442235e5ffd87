---------------------------- MODULE RateCounter ----------------------------
(***************************************************************************)
(* One key of tripplanner.ai_rate_counter, shared by all containers        *)
(* (backend/shared/ratelimit.py): a row for each window, which the key's   *)
(* requests count themselves in.  A request's window is that of its        *)
(* statement's now(); the statement may wait for the row's lock and count  *)
(* in a window that is over.  It may also fail, or its container die, with *)
(* the count written or not; and old windows are purged                    *)
(* (jobs/rate_counter_purge.py).  Search has the counter in its place,     *)
(* before a search.                                                        *)
(***************************************************************************)
EXTENDS RateLimit, FiniteSets

CONSTANTS
  Requests,
  Life,     \* a Lambda function's timeout
  Keep,     \* WINDOW_DAYS: how old a window is when it may be purged
  MaxTime,  \* bound on the clock
  MaxFails  \* bound on the statements that fail and the containers that die

ASSUME CounterAssumption == {Life, Keep, MaxTime, MaxFails} \subseteq Nat /\ Keep >= Window + Life

VARIABLES
  now,
  rows,  \* the start of a window -> its row
  req    \* each request: when its statement began, and what it was told

vars == <<now, rows, req>>

Starts == {WindowStart(t) : t \in 0..MaxTime}

Init ==
  /\ now = 0
  /\ rows = [w \in Starts |-> NoRow]
  /\ req = [r \in Requests |-> [at |-> 0, signed |-> FALSE, state |-> "idle"]]

Told(r, state) == req' = [req EXCEPT ![r].state = state]

(* Mutant: a key has one row, its last window's. *)
Mut_Counted(at) == [w \in Starts |-> IF w = WindowStart(at) THEN Upsert(rows[w], at) ELSE NoRow]

Counted(at) == [rows EXCEPT ![WindowStart(at)] = Upsert(@, at)]

Ask(r) ==
  /\ req[r].state = "idle"
  /\ \E signed \in BOOLEAN :
       req' = [req EXCEPT ![r] = [at |-> now, signed |-> signed, state |-> "counting"]]
  /\ UNCHANGED <<now, rows>>

Count(r) ==
  LET at == req[r].at
  IN /\ req[r].state = "counting"
     /\ rows' = Counted(at)
     /\ Told(r, IF Allowed(rows'[WindowStart(at)], req[r].signed) THEN "passed" ELSE "refused")
     /\ UNCHANGED now

(* The statement fails, written or not, and the request goes on; or the     *)
(* container dies, and the request with it.                                   *)
Fail(r) ==
  /\ req[r].state = "counting"
  /\ Cardinality({q \in Requests : req[q].state \in {"open", "lost"}}) < MaxFails
  /\ rows' \in {rows, Counted(req[r].at)}
  /\ \E state \in {"open", "lost"} : Told(r, state)
  /\ UNCHANGED now

Old(w) == w + Keep <= now

(* A live run deletes old windows, as many as it was approved for. *)
Purge ==
  /\ \E ws \in SUBSET {w \in Starts : Old(w) /\ rows[w] # NoRow} \ {{}} :
       rows' = [w \in Starts |-> IF w \in ws THEN NoRow ELSE rows[w]]
  /\ UNCHANGED <<now, req>>

Tick ==
  /\ now < MaxTime
  /\ \A r \in Requests : req[r].state = "counting" => now < req[r].at + Life
  /\ now' = now + 1
  /\ UNCHANGED <<rows, req>>

Next ==
  \/ \E r \in Requests : Ask(r) \/ Count(r) \/ Fail(r)
  \/ Purge
  \/ Tick

Spec == Init /\ [][Next]_vars
-----------------------------------------------------------------------------
(* Those that began no earlier than t and less than a window after it. *)
From(t) == {r \in Requests : req[r].state # "idle" /\ req[r].at \in t..(t + Window - 1)}

InState(rs, states) == {r \in rs : req[r].state \in states}

(* A burst across the boundary of two windows counts twice, and a database    *)
(* error counts nothing (ratelimit.py:149): in any stretch as long as a       *)
(* window, whichever containers serve it, at most twice the limit of a guest's *)
(* requests and twice that of a signed-in traveller's go on, besides those    *)
(* whose statement failed.  And only who is over the limit is told so: within *)
(* the window of a refused request its limit of others have begun, though     *)
(* some were refused themselves or never heard of their count.                *)
ShareAcrossWindows ==
  /\ \A t \in 0..MaxTime :
       LET on == InState(From(t), {"passed"})
       IN /\ Cardinality({r \in on : ~req[r].signed}) <= 2 * Rule(FALSE)
          /\ Cardinality(on) <= 2 * Rule(TRUE)
  /\ \A r \in InState(Requests, {"refused"}) :
       Cardinality(From(WindowStart(req[r].at)) \ {r}) >= Rule(req[r].signed)
=============================================================================
