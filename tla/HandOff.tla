------------------------------ MODULE HandOff ------------------------------
(***************************************************************************)
(* What send-to-advisor promises about one trip, whatever the order in     *)
(* which its requests run (backend/assembly/handler.py, handoff.py).       *)
(*                                                                         *)
(* The trip is an append-only log of events.  A hand-off is ONE step: a    *)
(* `sent` event enters the log together with exactly one inquiry for       *)
(* AA-Booking, whose idempotency key no earlier inquiry can have.  Without *)
(* an edit since the last hand-off there is no new one.                    *)
(***************************************************************************)
EXTENDS Naturals

VARIABLES
  log,        \* the committed events, records with at least `id` and `type`
  inquiries   \* the outbox rows, records with at least `event` and `key`

IsSent(e) == e.type = "sent"

Init ==
  /\ log = {}
  /\ inquiries = {}

(* The event `e` enters the log under an id no other event has. *)
Appended(e) ==
  /\ \A f \in log : f.id # e.id
  /\ log' = log \cup {e}

(* Every earlier hand-off was followed by an edit that precedes event `e`. *)
EditedSince(e) ==
  \A g \in log : IsSent(g) =>
    \E f \in log : ~IsSent(f) /\ g.id < f.id /\ f.id < e.id

RecordEdit ==
  /\ \E e \in log' : ~IsSent(e) /\ Appended(e)
  /\ UNCHANGED inquiries

HandOver ==
  \E e \in log', q \in inquiries' :
    /\ IsSent(e)
    /\ EditedSince(e)
    /\ Appended(e)
    /\ q.event = e.id
    /\ q.key >= e.id
    /\ \A p \in inquiries : p.key < e.id
    /\ inquiries' = inquiries \cup {q}

Next == RecordEdit \/ HandOver

Spec == Init /\ [][Next]_<<log, inquiries>>
=============================================================================
