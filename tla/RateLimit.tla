----------------------------- MODULE RateLimit -----------------------------
(***************************************************************************)
(* The durable fixed-window counter of the AI routes                       *)
(* (backend/shared/ratelimit.py, table tripplanner.ai_rate_counter).  Time *)
(* is the database's clock.                                                *)
(***************************************************************************)
EXTENDS Naturals

CONSTANTS
  Window,  \* window_s of the scope
  Limit,   \* its limit for a guest
  Factor   \* TP_RATE_SIGNED_IN_FACTOR

ASSUME RuleAssumption == {Window, Limit, Factor} \subseteq Nat \ {0}

Rule(signed) == IF signed THEN Limit * Factor ELSE Limit

WindowStart(t) == (t \div Window) * Window

(* The counter of one key: a row of an earlier window is another row. *)
NoRow == [start |-> 0, count |-> 0]

(* Mutant: the window starts at the first request it counts. *)
Mut_Sliding(row, t) ==
  IF row.count > 0 /\ t - row.start <= Window THEN [row EXCEPT !.count = @ + 1]
  ELSE [start |-> t, count |-> 1]

Upsert(row, t) ==
  IF row.start = WindowStart(t) THEN [row EXCEPT !.count = @ + 1]
  ELSE [start |-> WindowStart(t), count |-> 1]

RetryAfter(row, t) == row.start + Window - t

(* Mutant: the limit is one request more. *)
Mut_OneMore(row, signed) == row.count <= Rule(signed) + 1

Allowed(row, signed) == row.count <= Rule(signed)
=============================================================================
