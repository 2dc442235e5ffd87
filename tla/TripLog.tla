------------------------------ MODULE TripLog ------------------------------
(***************************************************************************)
(* One trip of the planner's assembly service: the append-only event log   *)
(* (tripplanner.trip_events), its read-cache projection (trip_drafts) and  *)
(* the inquiry outbox, changed by requests that run concurrently, each in  *)
(* its own Lambda container on its own connection.                         *)
(*                                                                         *)
(* A step is one SQL statement, at PostgreSQL's READ COMMITTED isolation:  *)
(* a statement sees what is committed when it starts and what its own      *)
(* transaction wrote.  The upsert of the draft takes its row lock until    *)
(* the transaction ends; send-to-advisor also holds an advisory lock per   *)
(* trip.  A request may die at any step: its open transaction rolls back.  *)
(***************************************************************************)
EXTENDS Naturals, Sequences, FiniteSets

CONSTANTS
  Requests,    \* the HTTP calls of a behaviour, each served once
  Sessions,    \* guest sessions; the caller's session is already authorised
  Components,  \* catalog components, by their current id
  Workload,    \* the operations the calls may ask for (a subset of Ops)
  None

Orders == Seq(Components)

(* What a caller may ask.  `free_day` stands for free_day and extend_end. *)
Ops ==
  [type : {"add_component", "remove_component", "extra_night"}, arg : Components]
    \cup [type : {"reorder", "apply_route"}, arg : Orders]
    \cup [type : {"remove_day"}, arg : Requests]
    \cup [type : {"free_day", "send"}, arg : {None}]

(* The payload of an event that changes the trip. A day's id is a fresh     *)
(* uuid, here the request that added it.                                    *)
Edits ==
  [type : {"add_component", "remove_component"}, arg : Components]
    \cup [type : {"reorder"}, arg : Orders]
    \cup [type : {"add_day", "remove_day"}, arg : Requests]

ASSUME WorkloadAssumption == Workload \subseteq Ops

ASSUME NoneAssumption == None \notin Requests

VARIABLES
  nextId,    \* the next value of trip_events' BIGSERIAL
  events,    \* committed trip_events rows
  draft,     \* the committed trip_drafts row, or NoDraft
  outbox,    \* committed inquiry.submitted rows
  advisory,  \* the request holding pg_advisory_xact_lock of this trip, or None
  rowLock,   \* the request holding the draft's row lock across steps, or None
  pc,        \* where each request is
  op,        \* what it asks for
  session,   \* on behalf of which session
  plan,      \* the edits it still has to append, each in its own transaction
  own,       \* the event its open transaction inserted, if any
  view,      \* the itinerary it folded from the log
  inquiry,   \* the outbox row its open transaction inserted, if any
  answer,    \* its answer: a status, and for a send the hand-off id
  fresh      \* history: the requests whose fold began after the last commit

vars == <<nextId, events, draft, outbox, advisory, rowLock,
          pc, op, session, plan, own, view, inquiry, answer, fresh>>

-----------------------------------------------------------------------------
(* Folding the log into an itinerary. *)

(* The stops of the trip: added, and not removed since. *)
IsLiveAdd(L, e) ==
  /\ e.type = "add_component"
  /\ \A f \in L : f.type = "remove_component" /\ f.arg = e.arg => f.id < e.id

Present(L) == {e.arg : e \in {f \in L : IsLiveAdd(L, f)}}

(* An add of a stop that is already in the trip is ignored, so a stop keeps  *)
(* the place of its first live add.                                          *)
AddedBefore(L) ==
  {p \in Present(L) \X Present(L) :
     \E e \in L : /\ IsLiveAdd(L, e) /\ e.arg = p[1]
                  /\ \A f \in L : IsLiveAdd(L, f) /\ f.arg = p[2] => e.id < f.id}

(* The last reorder counts only while no stop was added or removed after it. *)
Shaping(e) == e.type \in {"reorder", "add_component", "remove_component"}

LatestExplicitOrder(L) ==
  IF \E e \in L : e.type = "reorder" /\ \A f \in L : Shaping(f) => f.id <= e.id
  THEN (CHOOSE e \in L : e.type = "reorder" /\ \A f \in L : Shaping(f) => f.id <= e.id).arg
  ELSE <<>>

Named(o) == {o[i] : i \in DOMAIN o}

Place(o, c) == CHOOSE i \in DOMAIN o : o[i] = c

(* Without an explicit order the stops are sequenced by geography, which is  *)
(* a function of the set of stops alone; with one, the stops it names come   *)
(* first, in its order, then the others in the order they were added.        *)
Arrange(stops, added, o) ==
  [stops  |-> stops,
   pinned |-> o # <<>>,
   before |-> IF o = <<>> THEN {}
              ELSE {p \in stops \X stops :
                      \/ p[1] \in Named(o) /\ p[2] \notin Named(o)
                      \/ {p[1], p[2]} \subseteq Named(o) /\ Place(o, p[1]) < Place(o, p[2])
                      \/ {p[1], p[2]} \cap Named(o) = {} /\ p \in added}]

Itinerary(L) == Arrange(Present(L), AddedBefore(L), LatestExplicitOrder(L))

CustomDays(L) ==
  {e.arg : e \in {f \in L : /\ f.type = "add_day"
                            /\ ~\E g \in L : g.type = "remove_day" /\ g.arg = f.arg /\ g.id > f.id}}

(* The row `ORDER BY id DESC LIMIT 1` returns. *)
IsLastEvent(L, e) == e \in L /\ \A f \in L : f.id <= e.id

LastIsSent(L) == \E e \in L : IsLastEvent(L, e) /\ e.type = "sent"

(* Mutant: the already-sent check is forgotten. *)
Mut_NoSentCheck(L) == TRUE

LastIsNotSent(L) == L = {} \/ \E e \in L : IsLastEvent(L, e) /\ e.type # "sent"

-----------------------------------------------------------------------------
NoView == [stops |-> {}, pinned |-> FALSE, before |-> {}]
NoDraft == [owner |-> None, status |-> "absent", itinerary |-> NoView]
NoOp == [type |-> "none", arg |-> None]
NoAnswer == [status |-> "none", handoff |-> 0]
Says(status) == [status |-> status, handoff |-> 0]

Init ==
  /\ nextId = 1
  /\ events = {}
  /\ draft = NoDraft
  /\ outbox = {}
  /\ advisory = None
  /\ rowLock = None
  /\ pc = [r \in Requests |-> "idle"]
  /\ op = [r \in Requests |-> NoOp]
  /\ session = [r \in Requests |-> None]
  /\ plan = [r \in Requests |-> <<>>]
  /\ own = [r \in Requests |-> {}]
  /\ view = [r \in Requests |-> NoView]
  /\ inquiry = [r \in Requests |-> {}]
  /\ answer = [r \in Requests |-> NoAnswer]
  /\ fresh = {}

(* Mutant: the reads run on another connection than the insert. *)
Mut_CommittedOnly(r) == events

(* What a statement of request r sees of the log. *)
Visible(r) == events \cup own[r]

Goto(r, label) == pc' = [pc EXCEPT ![r] = label]

Finish(r, a) == Goto(r, "done") /\ answer' = [answer EXCEPT ![r] = a]

(* What a request held in memory or uncommitted is gone when it ends. *)
Forgotten(r) ==
  /\ plan' = [plan EXCEPT ![r] = <<>>]
  /\ own' = [own EXCEPT ![r] = {}]
  /\ view' = [view EXCEPT ![r] = NoView]
  /\ inquiry' = [inquiry EXCEPT ![r] = {}]

database == <<nextId, events, draft, outbox, advisory, rowLock, fresh>>
asked == <<op, session>>
working == <<own, view, inquiry>>

Arrive(r) ==
  /\ pc[r] = "idle"
  /\ \E o \in Workload, s \in Sessions :
       /\ op' = [op EXCEPT ![r] = o]
       /\ session' = [session EXCEPT ![r] = s]
  /\ Goto(r, "guard")
  /\ UNCHANGED <<database, plan, working, answer>>

-----------------------------------------------------------------------------
(* The guard reads the owner in a transaction of its own: a trip with no     *)
(* draft yet has no owner, and nothing holds that answer afterwards.         *)
IsForeign(r) == draft.status # "absent" /\ draft.owner # session[r]

Forbidden(r) ==
  /\ pc[r] = "guard" /\ IsForeign(r)
  /\ Finish(r, Says("forbidden"))
  /\ UNCHANGED <<database, asked, plan, working>>

Pass(r, kinds, edits, label) ==
  /\ pc[r] = "guard" /\ op[r].type \in kinds /\ ~IsForeign(r)
  /\ plan' = [plan EXCEPT ![r] = edits]
  /\ Goto(r, label)
  /\ UNCHANGED <<database, asked, working, answer>>

NewDay(r) == [type |-> "add_day", arg |-> r]

GuardEdit(r) == Pass(r, {"add_component", "remove_component", "reorder"}, <<op[r]>>, "insert")

GuardFreeDay(r) == Pass(r, {"free_day"}, <<NewDay(r)>>, "insert")

GuardReader(r) == Pass(r, {"apply_route", "extra_night", "remove_day"}, <<>>, "prepare")

GuardSend(r) == Pass(r, {"send"}, <<>>, "lock")

Prepared(r, edits) ==
  /\ plan' = [plan EXCEPT ![r] = edits]
  /\ Goto(r, "insert")
  /\ UNCHANGED <<database, asked, working, answer>>

Rejected(r, status) ==
  /\ Finish(r, Says(status))
  /\ UNCHANGED <<database, asked, plan, working>>

(* The stops of the route that are not in the trip are added one by one, then *)
(* a reorder pins the route first.  The other stops come out of a Python set: *)
(* their order is arbitrary.                                                  *)
Listings(S) == {s \in UNION {[1..n -> S] : n \in 0..Cardinality(S)} :
                  Named(s) = S /\ \A i, j \in DOMAIN s : s[i] = s[j] => i = j}

InOrderOf(o, s) == \A i, j \in DOMAIN s : i < j => Place(o, s[i]) < Place(o, s[j])

(* Mutant: the order is pinned first, and the adds that follow undo it. *)
Mut_OrderFirst(r) ==
  /\ pc[r] = "prepare" /\ op[r].type = "apply_route"
  /\ \E added \in Listings(Named(op[r].arg) \ Present(events)),
        others \in Listings(Present(events) \ Named(op[r].arg)) :
       /\ InOrderOf(op[r].arg, added)
       /\ Prepared(r, <<[type |-> "reorder", arg |-> op[r].arg \o others]>>
                        \o [i \in DOMAIN added |-> [type |-> "add_component", arg |-> added[i]]])

PrepareRoute(r) ==
  /\ pc[r] = "prepare" /\ op[r].type = "apply_route"
  /\ \E added \in Listings(Named(op[r].arg) \ Present(events)),
        others \in Listings(Present(events) \ Named(op[r].arg)) :
       /\ InOrderOf(op[r].arg, added)
       /\ Prepared(r, [i \in DOMAIN added |-> [type |-> "add_component", arg |-> added[i]]]
                        \o <<[type |-> "reorder", arg |-> op[r].arg \o others]>>)

(* Mutant: any stop that was ever added will do. *)
Mut_NightAnywhere(r) ==
  /\ pc[r] = "prepare" /\ op[r].type = "extra_night"
  /\ \/ \E e \in events : e.type = "add_component" /\ e.arg = op[r].arg /\ Prepared(r, <<NewDay(r)>>)
     \/ op[r].arg \notin Present(events) /\ Rejected(r, "bad_request")

PrepareNight(r) ==
  /\ pc[r] = "prepare" /\ op[r].type = "extra_night"
  /\ \/ op[r].arg \in Present(events) /\ Prepared(r, <<NewDay(r)>>)
     \/ op[r].arg \notin Present(events) /\ Rejected(r, "bad_request")

PrepareRemoveDay(r) ==
  /\ pc[r] = "prepare" /\ op[r].type = "remove_day"
  /\ \/ op[r].arg \in CustomDays(events) /\ Prepared(r, <<op[r]>>)
     \/ op[r].arg \notin CustomDays(events) /\ Rejected(r, "not_found")

-----------------------------------------------------------------------------
(* append_event: one transaction, or a savepoint inside the send's.          *)

IsSend(r) == op[r].type = "send"

NewEvent(r) ==
  IF IsSend(r) THEN [id |-> nextId, type |-> "sent", arg |-> session[r]]
               ELSE [id |-> nextId, type |-> Head(plan[r]).type, arg |-> Head(plan[r]).arg]

Insert(r) ==
  /\ pc[r] = "insert"
  /\ own' = [own EXCEPT ![r] = {NewEvent(r)}]
  /\ nextId' = nextId + 1
  /\ Goto(r, "fold")
  /\ UNCHANGED <<events, draft, outbox, advisory, rowLock, asked, plan, view, inquiry, answer, fresh>>

(* _components_and_missing: the stops, in the order they were added. *)
FoldComponents(r) ==
  /\ pc[r] = "fold"
  /\ view' = [view EXCEPT ![r] = [stops |-> Present(Visible(r)), pinned |-> FALSE,
                                  before |-> AddedBefore(Visible(r))]]
  /\ fresh' = fresh \cup {r}
  /\ Goto(r, "order")
  /\ UNCHANGED <<nextId, events, draft, outbox, advisory, rowLock, asked, plan, own, inquiry, answer>>

(* _latest_explicit_order is a second statement, with a snapshot of its own. *)
FoldOrder(r) ==
  /\ pc[r] = "order"
  /\ view' = [view EXCEPT ![r] = Arrange(@.stops, @.before, LatestExplicitOrder(Visible(r)))]
  /\ Goto(r, "upsert")
  /\ UNCHANGED <<database, asked, plan, own, inquiry, answer>>

(* Mutant: the conflict branch of the upsert forgets the itinerary. *)
Mut_ItineraryKept(r, status) ==
  [owner     |-> IF draft.status = "absent" THEN session[r] ELSE draft.owner,
   status    |-> IF draft.status = "sent" THEN "sent" ELSE status,
   itinerary |-> IF draft.status = "absent" THEN view[r] ELSE draft.itinerary]

(* The first writer owns the trip for good, and a sent trip stays sent. *)
Upserted(r, status) ==
  [owner     |-> IF draft.status = "absent" THEN session[r] ELSE draft.owner,
   status    |-> IF draft.status = "sent" THEN "sent" ELSE status,
   itinerary |-> view[r]]

(* An edit's transaction ends with the upsert: one step takes the row lock,  *)
(* writes, commits and releases it.  A route goes on with its next edit.     *)
CommitEdit(r) ==
  /\ pc[r] = "upsert" /\ ~IsSend(r)
  /\ rowLock = None
  /\ events' = events \cup own[r]
  /\ draft' = Upserted(r, "draft")
  /\ fresh' = {}
  /\ own' = [own EXCEPT ![r] = {}]
  /\ plan' = [plan EXCEPT ![r] = Tail(@)]
  /\ view' = [view EXCEPT ![r] = NoView]
  /\ \/ Len(plan[r]) > 1 /\ Goto(r, "insert") /\ UNCHANGED answer
     \/ Len(plan[r]) = 1 /\ Finish(r, Says("ok"))
  /\ UNCHANGED <<nextId, outbox, advisory, rowLock, asked, inquiry>>

-----------------------------------------------------------------------------
(* send-to-advisor, inside one transaction under the trip's advisory lock.   *)

(* The trip's latest event is already `sent`: answer with that hand-off. *)
SendAgain(r) ==
  /\ pc[r] = "lock" /\ advisory = None
  /\ \E e \in events :
       /\ IsLastEvent(events, e) /\ e.type = "sent"
       /\ Finish(r, [status |-> "already_sent", handoff |-> e.id])
  /\ UNCHANGED <<database, asked, plan, working>>

(* No name or contact on record nor in the request. *)
SendUnregistered(r) ==
  /\ pc[r] = "lock" /\ advisory = None
  /\ LastIsNotSent(events)
  /\ Rejected(r, "registration_required")

(* Mutant: the send takes no advisory lock. *)
Mut_UnlockedSend(r) ==
  /\ pc[r] = "lock"
  /\ LastIsNotSent(events)
  /\ Goto(r, "insert")
  /\ UNCHANGED <<nextId, events, draft, outbox, advisory, rowLock, fresh, asked, plan, working, answer>>

SendBegin(r) ==
  /\ pc[r] = "lock" /\ advisory = None
  /\ LastIsNotSent(events)
  /\ advisory' = r
  /\ Goto(r, "insert")
  /\ UNCHANGED <<nextId, events, draft, outbox, rowLock, fresh, asked, plan, working, answer>>

SendUpsert(r) ==
  /\ pc[r] = "upsert" /\ IsSend(r)
  /\ rowLock = None
  /\ rowLock' = r
  /\ Goto(r, "handoff")
  /\ UNCHANGED <<nextId, events, draft, outbox, advisory, fresh, asked, plan, working, answer>>

(* The hand-off id is the trip's last event as re-read here; the key of an    *)
(* inquiry is trip and hand-off id.  `event` is the sender's own event, which *)
(* the payload does not carry.                                                *)
WriteInquiry(r) ==
  /\ pc[r] = "handoff"
  /\ \E last \in Visible(r) :
       /\ IsLastEvent(Visible(r), last)
       /\ inquiry' = [inquiry EXCEPT ![r] =
            {[event |-> e.id, key |-> last.id, itinerary |-> view[r],
              days |-> CustomDays(Visible(r))] : e \in own[r]}]
  /\ Goto(r, "notify")
  /\ UNCHANGED <<database, asked, plan, own, view, answer>>

(* Mutant: the idempotency key is the trip's alone. *)
Mut_KeyPerTrip(r) == {q \in inquiry[r] : outbox = {}}

(* ON CONFLICT (idempotency_key) DO NOTHING. *)
NotDuplicate(r) == {q \in inquiry[r] : \A p \in outbox : p.key # q.key}

CommitSend(r) ==
  /\ pc[r] = "notify"
  /\ events' = events \cup own[r]
  /\ draft' = Upserted(r, "sent")
  /\ fresh' = {}
  /\ outbox' = outbox \cup NotDuplicate(r)
  /\ advisory' = None
  /\ rowLock' = None
  /\ Forgotten(r)
  /\ \E q \in inquiry[r] : Finish(r, [status |-> "sent", handoff |-> q.key])
  /\ UNCHANGED <<nextId, asked>>

(* A failed statement, a failed notification or a killed container: the open  *)
(* transaction rolls back and its locks go; ids it drew are not drawn again.  *)
Running == {"guard", "prepare", "lock", "insert", "fold", "order", "upsert", "handoff", "notify"}

(* Mutant: the lock is the session's, not the transaction's. *)
Mut_LockSurvives(lock, r) == lock

Released(lock, r) == IF lock = r THEN None ELSE lock

Fail(r) ==
  /\ pc[r] \in Running
  /\ advisory' = Released(advisory, r)
  /\ rowLock' = Released(rowLock, r)
  /\ Forgotten(r)
  /\ fresh' = fresh \ {r}
  /\ Finish(r, Says("error"))
  /\ UNCHANGED <<nextId, events, draft, outbox, asked>>

-----------------------------------------------------------------------------
Guard(r) == Forbidden(r) \/ GuardEdit(r) \/ GuardFreeDay(r) \/ GuardSend(r) \/ GuardReader(r)

Prepare(r) == PrepareRoute(r) \/ PrepareNight(r) \/ PrepareRemoveDay(r)

AppendEvent(r) == Insert(r) \/ FoldComponents(r) \/ FoldOrder(r)

Send(r) ==
  \/ SendAgain(r) \/ SendUnregistered(r) \/ SendBegin(r)
  \/ SendUpsert(r) \/ WriteInquiry(r) \/ CommitSend(r)

Step(r) == Guard(r) \/ Prepare(r) \/ AppendEvent(r) \/ CommitEdit(r) \/ Send(r)

AllDone == (\A r \in Requests : pc[r] = "done") /\ UNCHANGED vars

Next == (\E r \in Requests : Arrive(r) \/ Step(r) \/ Fail(r)) \/ AllDone

Spec == Init /\ [][Next]_vars

(* A container that is not killed runs on, and PostgreSQL hands a lock to a  *)
(* waiting transaction when it is released.                                  *)
FairSpec == Spec /\ \A r \in Requests : WF_vars(Step(r))
-----------------------------------------------------------------------------
Event == [id : Nat, type : {"add_component", "remove_component"}, arg : Components]
           \cup [id : Nat, type : {"reorder"}, arg : Orders]
           \cup [id : Nat, type : {"add_day", "remove_day"}, arg : Requests]
           \cup [id : Nat, type : {"sent"}, arg : Sessions]

Ordering == SUBSET (Components \X Components)
View == [stops : SUBSET Components, pinned : BOOLEAN, before : Ordering]
Inquiry == [event : Nat, key : Nat, itinerary : View, days : SUBSET Requests]

Statuses == {"none", "ok", "sent", "already_sent", "forbidden", "bad_request", "not_found",
             "registration_required", "error"}

(* The variables hold what the tables' columns and the handler's locals hold. *)
TypeOK ==
  /\ nextId \in Nat \ {0}
  /\ events \subseteq Event
  /\ draft \in [owner : Sessions \cup {None}, status : {"absent", "draft", "sent"}, itinerary : View]
  /\ outbox \subseteq Inquiry
  /\ advisory \in Requests \cup {None}
  /\ rowLock \in Requests \cup {None}
  /\ pc \in [Requests -> Running \cup {"idle", "done"}]
  /\ op \in [Requests -> Ops \cup {NoOp}]
  /\ session \in [Requests -> Sessions \cup {None}]
  /\ plan \in [Requests -> Seq(Edits)]
  /\ own \in [Requests -> SUBSET Event]
  /\ view \in [Requests -> View]
  /\ inquiry \in [Requests -> SUBSET Inquiry]
  /\ answer \in [Requests -> [status : Statuses, handoff : Nat]]
  /\ fresh \subseteq Requests

SentEvents == {e \in events : e.type = "sent"}

(* A hand-off and its inquiry are one: every committed `sent` event has one   *)
(* outbox row and every outbox row one event, although the row is inserted    *)
(* with ON CONFLICT DO NOTHING under a key read back from the log.            *)
OneInquiryPerHandOff ==
  /\ {q.event : q \in outbox} = {e.id : e \in SentEvents}
  /\ \A p, q \in outbox : p # q => p.event # q.event /\ p.key # q.key

(* A double click or a retry after a lost answer is not a second hand-off:    *)
(* between two hand-offs of the log there is always an edit.                  *)
HandOffsSeparatedByEdits ==
  \A d, e \in SentEvents : d.id < e.id =>
    \E f \in events : f.type # "sent" /\ d.id < f.id /\ f.id < e.id

(* An already_sent answer names a hand-off AA-Booking can find: an inquiry    *)
(* with that id is committed, whoever wrote it.                               *)
AlreadySentIsOnFile ==
  \A r \in Requests : answer[r].status \in {"sent", "already_sent"} =>
    \E q \in outbox : q.key = answer[r].handoff

(* The projection exists once the log has an event, and says `sent` exactly   *)
(* when the log holds a hand-off, whatever edits commit after it.             *)
StatusFollowsLog ==
  /\ draft.status = "absent" <=> events = {}
  /\ draft.status = "sent" <=> SentEvents # {}

(* A projection is never wrong for long: a write whose fold no other commit   *)
(* of the trip overtook leaves the draft equal to the fold of the whole log.  *)
UnovertakenWriteIsExact ==
  [][\A r \in fresh : events' # events /\ own[r] # {} /\ own'[r] = {}
       => draft'.itinerary = Itinerary(events')]_vars

(* No transaction of the trip is open. *)
Quiet == \A r \in Requests : pc[r] \in {"idle", "done"}

(* The projection is a cache of the fold: with no transaction open, My Trips  *)
(* (which reads the draft) shows what GET /trip (which folds the log) shows.  *)
ProjectionIsFold == Quiet /\ events # {} => draft.itinerary = Itinerary(events)

(* When a send answers or would answer already_sent, the newest inquiry holds *)
(* the trip as it stands.                                                     *)
LatestHandOffIsCurrent ==
  Quiet /\ LastIsSent(events) =>
    \E q \in outbox : /\ \A p \in outbox : p.key <= q.key
                      /\ q.itinerary = Itinerary(events)
                      /\ q.days = CustomDays(events)

(* The hand-off id, which is the inquiry's idempotency key, is the id of a    *)
(* `sent` event.                                                              *)
HandOffIdIsSentEvent == \A q \in outbox : \E e \in SentEvents : e.id = q.key

(* Every request is answered: the advisory lock and the draft's row lock are  *)
(* never waited for in a circle, and no holder keeps one.                     *)
EveryRequestEnds == \A r \in Requests : pc[r] = "guard" ~> pc[r] = "done"

(* The trip as AA-Booking and the traveller may rely on it. *)
Promise == INSTANCE HandOff WITH log <- events, inquiries <- outbox

ImplementsHandOff == Promise!Spec
=============================================================================
