----------------------------- MODULE TripAudit -----------------------------
(***************************************************************************)
(* TripLog with two histories: what of the log each request had read when  *)
(* it decided what to append, and what it has committed since.  A request  *)
(* that changes the trip in several transactions, or in a later one than   *)
(* it checked the trip in, is judged by what the others did in between.    *)
(***************************************************************************)
EXTENDS TripLog

VARIABLES
  base,  \* the log a request decided on
  mine   \* the events it has committed since

auditVars == <<vars, base, mine>>

AuditInit == Init /\ base = [r \in Requests |-> {}] /\ mine = [r \in Requests |-> {}]

(* The requests whose answer is about more than their last transaction. *)
Audited(r) == op[r].type \in {"apply_route", "extra_night"}

Decides(r) == Audited(r) /\ pc[r] = "prepare" /\ pc'[r] = "insert"

AuditNext ==
  /\ Next
  /\ base' = [r \in Requests |-> IF Decides(r) THEN events ELSE base[r]]
  /\ mine' = [r \in Requests |-> IF Audited(r) THEN mine[r] \cup (own[r] \cap events') ELSE {}]

AuditSpec == AuditInit /\ [][AuditNext]_auditVars
-----------------------------------------------------------------------------
(* What the others have committed since request r decided. *)
Since(r) == events \ (base[r] \cup mine[r])

Removed(c, es) == \E e \in es : e.type = "remove_component" /\ e.arg = c

(* A route is pinned a transaction at a time, so it may stay half pinned, and *)
(* others may edit the trip meanwhile (handler.py:400).  What is pinned of it *)
(* is then what was missing, from the route's first stop on, and no order.    *)
(* Once its request is answered each of its stops is in the trip that another *)
(* request has not removed since the route was read; unless another changed   *)
(* the stops or their order, the route is what the trip begins with; and      *)
(* unless another changed anything, the draft says so too.                    *)
RouteIsTaken ==
  \A r \in Requests : op[r].type = "apply_route" /\ mine[r] # {} =>
    LET route == op[r].arg
        missing == Named(route) \ Present(base[r])
        pins == {e \in mine[r] : e.type = "add_component"}
    IN /\ \A e \in pins :
            /\ e.arg \in missing
            /\ \A c \in missing : Place(route, c) < Place(route, e.arg) =>
                 \E f \in pins : f.arg = c /\ f.id < e.id
       /\ answer[r].status # "ok" => pins = mine[r]
       /\ answer[r].status = "ok" =>
            /\ \A c \in Named(route) : c \in Present(events) \/ Removed(c, Since(r))
            /\ (\A e \in Since(r) : ~Shaping(e)) =>
                 \A c \in Named(route), d \in Present(events) :
                   d \notin Named(route) \/ Place(route, c) < Place(route, d) =>
                     <<c, d>> \in Itinerary(events).before
            /\ Since(r) = {} => draft.itinerary = Itinerary(events)

(* Whoever looks at the trip in an earlier transaction than it writes in is    *)
(* right by what the others did in between.  A night is added after a stop of *)
(* the trip (handler.py:419): where it is not one, another request has        *)
(* removed the stop since.  And a day whose removal was answered is gone for  *)
(* good (handler.py:437), though two requests may remove it: the fold goes by *)
(* ids, and ids are not in the order of the commits.                          *)
LookedUpIsStillSo ==
  \A r \in Requests :
    /\ op[r].type = "extra_night" /\ mine[r] # {} =>
         op[r].arg \in Present(events) \/ Removed(op[r].arg, Since(r))
    /\ op[r].type = "remove_day" /\ answer[r].status = "ok" => op[r].arg \notin CustomDays(events)
=============================================================================
