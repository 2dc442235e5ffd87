--------------------------- MODULE TripLogProofs ---------------------------
(***************************************************************************)
(* Proofs about TripLog, for any sets of requests, sessions and components *)
(* and any workload.                                                       *)
(*                                                                         *)
(* OneInquiryPerHandOff is not inductive: that a sender's key is new rests *)
(* on the advisory lock (no other send commits meanwhile), on ids being    *)
(* drawn in increasing order, and on the edit seen under the lock.         *)
(* IndInv says so of every request that is on its way.                     *)
(***************************************************************************)
EXTENDS TripLog, SequenceTheorems, TLAPS

(* The transaction has inserted its event. *)
HasEvent == {"fold", "order", "upsert", "handoff", "notify"}

(* A send is past the check made under the advisory lock. *)
PastCheck == HasEvent \cup {"insert"}

(* What was asked, and where a request of that kind can be. *)
AskedOK ==
  \A r \in Requests :
    /\ pc[r] # "idle" => op[r] \in Ops /\ session[r] \in Sessions
    /\ pc[r] \in {"lock", "handoff", "notify"} => IsSend(r)
    /\ pc[r] = "prepare" => ~IsSend(r)
    /\ pc[r] \in PastCheck /\ ~IsSend(r) => plan[r] # <<>>

(* A request has an uncommitted event exactly while its transaction is open. *)
OwnOK ==
  \A r \in Requests :
    /\ pc[r] \in HasEvent => \E e \in own[r] : own[r] = {e}
    /\ pc[r] \notin HasEvent => own[r] = {}
    /\ \A e \in own[r] : e.id < nextId /\ (e.type = "sent" <=> IsSend(r))

(* Ids are drawn once, committed or not. *)
IdsOK ==
  /\ \A e \in events : e.id < nextId
  /\ \A e, f \in events : e.id = f.id => e = f
  /\ \A r \in Requests : \A e \in own[r], f \in events : e.id # f.id
  /\ \A r, s \in Requests : r # s => \A e \in own[r], f \in own[s] : e.id # f.id

LockOK ==
  \A r \in Requests : IsSend(r) /\ pc[r] \in PastCheck => advisory = r

(* An event drawn with id n may become a hand-off: the log holds an edit     *)
(* after its last one, and every inquiry has a smaller key.                  *)
Ready(n) ==
  /\ \A g \in SentEvents : \E f \in events : f.type # "sent" /\ g.id < f.id /\ f.id < n
  /\ \A q \in outbox : q.key < n

SenderOK ==
  \A r \in Requests :
    /\ IsSend(r) /\ pc[r] = "insert" => Ready(nextId)
    /\ IsSend(r) => \A e \in own[r] : Ready(e.id)

InquiryOK ==
  \A r \in Requests :
    /\ pc[r] = "notify" => \E q \in inquiry[r] : inquiry[r] = {q}
    /\ pc[r] # "notify" => inquiry[r] = {}
    /\ \A q \in inquiry[r] :
         /\ \E e \in own[r] : q.event = e.id /\ e.id <= q.key
         /\ \E f \in Visible(r) : f.id = q.key

OutboxOK ==
  /\ \A q \in outbox : /\ q.event <= q.key
                       /\ \E e \in SentEvents : e.id = q.event
                       /\ \E f \in events : f.id = q.key
  /\ \A e \in SentEvents : \E q \in outbox : q.event = e.id
  /\ \A p, q \in outbox : p # q => p.event # q.event /\ p.key # q.key

IndInv ==
  /\ TypeOK
  /\ AskedOK
  /\ OwnOK
  /\ IdsOK
  /\ LockOK
  /\ SenderOK
  /\ InquiryOK
  /\ OutboxOK
  /\ HandOffsSeparatedByEdits
  /\ AlreadySentIsOnFile
  /\ StatusFollowsLog

-----------------------------------------------------------------------------
(* The fold of a well-formed log is a well-formed itinerary. *)
LEMMA FoldType ==
  ASSUME NEW L \in SUBSET Event
  PROVE  /\ Present(L) \in SUBSET Components
         /\ AddedBefore(L) \in Ordering
         /\ CustomDays(L) \in SUBSET Requests
<1>1. \A e \in L : e.type = "add_component" => e.arg \in Components
  BY DEF Event
<1>2. \A e \in L : e.type = "add_day" => e.arg \in Requests
  BY DEF Event
<1>3. Present(L) \in SUBSET Components
  BY <1>1 DEF Present, IsLiveAdd
<1>4. CustomDays(L) \in SUBSET Requests
  BY <1>2 DEF CustomDays
<1>5. QED
  BY <1>3, <1>4 DEF AddedBefore, Ordering

(* A listing of stops is an order.                                           *)
LEMMA ListingsType ==
  \A S \in SUBSET Components : \A s \in Listings(S) : s \in Orders
<1> SUFFICES ASSUME NEW S \in SUBSET Components, NEW s \in Listings(S)
             PROVE  s \in Orders
  OBVIOUS
<1>1. PICK n \in 0..Cardinality(S) : s \in [1..n -> S]
  BY DEF Listings
<1>2. QED
  BY <1>1 DEF Orders

(* What Arrange returns is a view.                                           *)
LEMMA ArrangeType ==
  ASSUME NEW S \in SUBSET Components, NEW added, NEW o
  PROVE  Arrange(S, added, o) \in View
  BY DEF Arrange, View, Ordering

(* The empty itinerary is a view.                                            *)
LEMMA NoViewType == NoView \in View
  BY DEF NoView, View, Ordering

(* Before the first request nothing is logged, held or answered.             *)
LEMMA InitInv == Init => IndInv
<1> SUFFICES ASSUME Init PROVE IndInv
  OBVIOUS
<1> USE DEF Init
<1>1. TypeOK
  <2>1. draft \in [owner : Sessions \cup {None}, status : {"absent", "draft", "sent"}, itinerary : View]
    BY NoViewType DEF NoDraft
  <2>2. view \in [Requests -> View]
    BY NoViewType
  <2>3. answer \in [Requests -> [status : Statuses, handoff : Nat]]
    BY DEF NoAnswer, Statuses
  <2>4. plan \in [Requests -> Seq(Edits)]
    OBVIOUS
  <2>5. pc \in [Requests -> Running \cup {"idle", "done"}]
    OBVIOUS
  <2>6. op \in [Requests -> Ops \cup {NoOp}] /\ session \in [Requests -> Sessions \cup {None}]
    OBVIOUS
  <2>7. /\ own \in [Requests -> SUBSET Event] /\ inquiry \in [Requests -> SUBSET Inquiry]
        /\ fresh \subseteq Requests /\ events \subseteq Event /\ outbox \subseteq Inquiry
        /\ nextId \in Nat \ {0} /\ advisory \in Requests \cup {None} /\ rowLock \in Requests \cup {None}
    OBVIOUS
  <2>8. QED
    BY <2>1, <2>2, <2>3, <2>4, <2>5, <2>6, <2>7 DEF TypeOK
<1>2. AskedOK /\ OwnOK /\ IdsOK /\ LockOK
  BY DEF AskedOK, OwnOK, IdsOK, LockOK, HasEvent, PastCheck
<1>3. SenderOK /\ InquiryOK /\ OutboxOK
  BY DEF SenderOK, InquiryOK, OutboxOK, SentEvents
<1>4. HandOffsSeparatedByEdits /\ AlreadySentIsOnFile /\ StatusFollowsLog
  BY DEF HandOffsSeparatedByEdits, AlreadySentIsOnFile, StatusFollowsLog, SentEvents,
         NoAnswer, NoDraft
<1>5. QED
  BY <1>1, <1>2, <1>3, <1>4 DEF IndInv

-----------------------------------------------------------------------------
(* What the types say of the numbers and functions the invariant is about. *)
LEMMA Typing ==
  ASSUME TypeOK
  PROVE  /\ nextId \in Nat /\ nextId > 0
         /\ \A e \in events : e.id \in Nat
         /\ \A r \in Requests : \A e \in own[r] : e.id \in Nat
         /\ \A q \in outbox : q.event \in Nat /\ q.key \in Nat
         /\ \A r \in Requests : \A q \in inquiry[r] : q.event \in Nat /\ q.key \in Nat
  <1>1. \A e \in Event : e.id \in Nat
    BY DEF Event
  <1>2. \A q \in Inquiry : q.event \in Nat /\ q.key \in Nat
    BY DEF Inquiry
  <1>3. QED
    BY <1>1, <1>2 DEF TypeOK

(* A step of r that neither touches the tables of the hand-off nor opens or  *)
(* ends a transaction with an event.                                         *)
LEMMA LocalStep ==
  ASSUME IndInv, TypeOK', AskedOK', NEW r \in Requests, NEW label,
         UNCHANGED <<nextId, events, draft, outbox, own, inquiry>>,
         pc' = [pc EXCEPT ![r] = label],
         \A s \in Requests : s # r => op'[s] = op[s] /\ answer'[s] = answer[s],
         op'[r] = op[r] \/ pc[r] = "idle",
         label \in HasEvent <=> pc[r] \in HasEvent,
         label # "notify" /\ pc[r] # "notify",
         \A s \in Requests : s # r => (advisory = s => advisory' = s),
         IsSend(r)' /\ label \in PastCheck => advisory' = r,
         IsSend(r)' /\ label = "insert" => Ready(nextId),
         answer'[r].status \in {"sent", "already_sent"} =>
           \E q \in outbox : q.key = answer'[r].handoff
  PROVE  IndInv'
<1> USE DEF IndInv
<1>1. \A s \in Requests : pc'[s] = IF s = r THEN label ELSE pc[s]
  BY DEF TypeOK
<1>2. \A s \in Requests : s # r => (IsSend(s)' <=> IsSend(s))
  BY DEF IsSend
<1>3. pc[r] # "idle" => (IsSend(r)' <=> IsSend(r))
  BY DEF IsSend
<1>4. pc[r] = "idle" => own[r] = {} /\ label \notin HasEvent
  BY DEF OwnOK, HasEvent
<1>5. \A n : Ready(n)' <=> Ready(n)
  BY DEF Ready, SentEvents
<1>6. OwnOK'
  BY <1>1, <1>2, <1>3, <1>4 DEF OwnOK
<1>7. IdsOK' /\ OutboxOK' /\ HandOffsSeparatedByEdits' /\ StatusFollowsLog'
  BY DEF IdsOK, OutboxOK, HandOffsSeparatedByEdits, StatusFollowsLog, SentEvents
<1>8. LockOK'
  BY <1>1, <1>2 DEF LockOK
<1>9. SenderOK'
  <2> SUFFICES ASSUME NEW s \in Requests, IsSend(s)'
               PROVE  (pc'[s] = "insert" => Ready(nextId)) /\ (\A e \in own[s] : Ready(e.id))
    BY <1>5 DEF SenderOK
  <2>1. QED
    BY <1>1, <1>2, <1>3, <1>4 DEF SenderOK
<1>10. InquiryOK'
  BY <1>1 DEF InquiryOK, Visible
<1>11. AlreadySentIsOnFile'
  BY DEF AlreadySentIsOnFile
<1>12. QED
  BY <1>6, <1>7, <1>8, <1>9, <1>10, <1>11

(* A request that arrives has inserted nothing and holds nothing.            *)
LEMMA ArriveInv ==
  ASSUME IndInv, NEW r \in Requests, Arrive(r)
  PROVE  IndInv'
<1> USE DEF IndInv, Arrive, Goto, database, working
<1>1. PICK o \in Workload, s \in Sessions :
        op' = [op EXCEPT ![r] = o] /\ session' = [session EXCEPT ![r] = s]
  OBVIOUS
<1>2. o \in Ops
  BY WorkloadAssumption
<1>3. TypeOK'
  BY <1>1, <1>2 DEF TypeOK, Running
<1>4. AskedOK'
  BY <1>1, <1>2 DEF AskedOK, IsSend, PastCheck, HasEvent, TypeOK
<1>5. QED
  <2>1. pc[r] = "idle"
    OBVIOUS
  <2>2. ~(answer[r].status \in {"sent", "already_sent"}) \/ \E q \in outbox : q.key = answer[r].handoff
    BY DEF AlreadySentIsOnFile
  <2>3. \A t \in Requests : t # r => op'[t] = op[t] /\ answer'[t] = answer[t]
    BY <1>1 DEF TypeOK
  <2>4. QED
    BY <1>3, <1>4, <2>1, <2>2, <2>3, LocalStep DEF HasEvent, PastCheck

(* A step of r that only changes where r is, what it plans, sees or answers. *)
LEMMA PrivateStep ==
  ASSUME IndInv, NEW r \in Requests, NEW label,
         UNCHANGED <<nextId, events, draft, outbox, own, inquiry, op, session>>,
         pc' = [pc EXCEPT ![r] = label],
         pc[r] \in Running \ {"notify", "handoff"},
         label \in (Running \ {"notify"}) \cup {"done"},
         label \in HasEvent <=> pc[r] \in HasEvent,
         label \in {"lock", "handoff"} => IsSend(r),
         label = "prepare" => ~IsSend(r),
         label \in PastCheck /\ ~IsSend(r) => plan'[r] # <<>>,
         label \in PastCheck /\ IsSend(r) => pc[r] \in PastCheck,
         UNCHANGED advisory,
         rowLock' \in Requests \cup {None},
         plan' \in [Requests -> Seq(Edits)],
         \A s \in Requests : s # r => plan'[s] = plan[s],
         view' \in [Requests -> View],
         fresh' \subseteq Requests,
         \/ UNCHANGED answer
         \/ /\ label = "done"
            /\ \E a \in [status : Statuses, handoff : Nat] :
                 /\ answer' = [answer EXCEPT ![r] = a]
                 /\ a.status \in {"sent", "already_sent"} => \E q \in outbox : q.key = a.handoff
  PROVE  IndInv'
<1> USE DEF IndInv
<1>1. \A s \in Requests : pc'[s] = IF s = r THEN label ELSE pc[s]
  BY DEF TypeOK
<1>2. pc' \in [Requests -> Running \cup {"idle", "done"}]
  BY DEF TypeOK
<1>3. /\ answer' \in [Requests -> [status : Statuses, handoff : Nat]]
      /\ \A s \in Requests : s # r => answer'[s] = answer[s]
      /\ answer'[r].status \in {"sent", "already_sent"} =>
           \E q \in outbox : q.key = answer'[r].handoff
  <2>1. CASE UNCHANGED answer
    BY <2>1 DEF TypeOK, AlreadySentIsOnFile
  <2>2. CASE ~UNCHANGED answer
    <3>1. PICK a \in [status : Statuses, handoff : Nat] :
            /\ answer' = [answer EXCEPT ![r] = a]
            /\ a.status \in {"sent", "already_sent"} => \E q \in outbox : q.key = a.handoff
      BY <2>2
    <3>2. QED
      BY <3>1 DEF TypeOK
  <2>3. QED
    BY <2>1, <2>2
<1>4. TypeOK'
  BY <1>2, <1>3 DEF TypeOK
<1>5. AskedOK'
  <2> SUFFICES ASSUME NEW s \in Requests
               PROVE  /\ pc'[s] # "idle" => op[s] \in Ops /\ session[s] \in Sessions
                      /\ pc'[s] \in {"lock", "handoff", "notify"} => IsSend(s)
                      /\ pc'[s] = "prepare" => ~IsSend(s)
                      /\ pc'[s] \in PastCheck /\ ~IsSend(s) => plan'[s] # <<>>
    BY DEF AskedOK, IsSend
  <2>1. pc[r] # "idle"
    BY DEF Running
  <2>2. CASE s = r
    BY <1>1, <2>1, <2>2 DEF AskedOK
  <2>3. CASE s # r
    BY <1>1, <2>3 DEF AskedOK
  <2>4. QED
    BY <2>2, <2>3
<1>6. IsSend(r)' <=> IsSend(r)
  BY DEF IsSend
<1>7. IsSend(r) /\ label \in PastCheck => advisory' = r
  BY DEF LockOK
<1>8. IsSend(r) /\ label = "insert" => Ready(nextId)
  BY DEF SenderOK, PastCheck, HasEvent
<1>9. QED
  BY <1>3, <1>4, <1>5, <1>6, <1>7, <1>8, LocalStep

(* An answer without a hand-off is an answer.                                *)
LEMMA SaysType == \A status \in Statuses : Says(status) \in [status : Statuses, handoff : Nat]
  BY DEF Says

(* A request refused before its transaction inserts anything leaves no trace. *)
LEMMA RejectedInv ==
  ASSUME IndInv, NEW r \in Requests, NEW status \in Statuses \ {"sent", "already_sent"},
         pc[r] \in {"guard", "prepare", "lock"}, Rejected(r, status)
  PROVE  IndInv'
<1>1. Says(status) \in [status : Statuses, handoff : Nat] /\ Says(status).status = status
  BY SaysType DEF Says
<1>2. /\ UNCHANGED <<nextId, events, draft, outbox, advisory, rowLock, fresh, op, session, plan, own, view, inquiry>>
      /\ pc' = [pc EXCEPT ![r] = "done"] /\ answer' = [answer EXCEPT ![r] = Says(status)]
  BY DEF Rejected, Finish, Goto, database, asked, working
<1>3. /\ rowLock' \in Requests \cup {None} /\ plan' \in [Requests -> Seq(Edits)]
      /\ view' \in [Requests -> View] /\ fresh' \subseteq Requests
  BY <1>2 DEF IndInv, TypeOK
<1>4. QED
  BY <1>1, <1>2, <1>3, PrivateStep DEF Running, HasEvent, PastCheck

(* A step of r that decides what r will append, before r has appended it. *)
LEMMA PlannedInv ==
  ASSUME IndInv, NEW r \in Requests, NEW edits \in Seq(Edits),
         NEW label \in {"insert", "prepare", "lock"},
         UNCHANGED <<database, asked, working, answer>>,
         plan' = [plan EXCEPT ![r] = edits], Goto(r, label),
         pc[r] \in {"guard", "prepare"},
         label = "insert" => ~IsSend(r) /\ edits # <<>>,
         label = "prepare" => ~IsSend(r),
         label = "lock" => IsSend(r)
  PROVE  IndInv'
<1>1. /\ UNCHANGED <<nextId, events, draft, outbox, advisory, rowLock, fresh, op, session, own, view, inquiry, answer>>
      /\ pc' = [pc EXCEPT ![r] = label]
  BY DEF Goto, database, asked, working
<1>2. /\ rowLock' \in Requests \cup {None} /\ plan' \in [Requests -> Seq(Edits)]
      /\ view' \in [Requests -> View] /\ fresh' \subseteq Requests
      /\ plan'[r] = edits /\ \A s \in Requests : s # r => plan'[s] = plan[s]
  BY <1>1 DEF IndInv, TypeOK
<1>3. QED
  BY <1>1, <1>2, PrivateStep DEF Running, HasEvent, PastCheck

(* The owner guard only chooses where the request goes on.                   *)
LEMMA GuardInv ==
  ASSUME IndInv, NEW r \in Requests, Guard(r)
  PROVE  IndInv'
<1>1. pc[r] = "guard" /\ op[r] \in Ops
  BY DEF Guard, Forbidden, GuardEdit, GuardFreeDay, GuardReader, GuardSend, Pass, IndInv, AskedOK
<1>2. CASE Forbidden(r)
  <2>1. Rejected(r, "forbidden")
    BY <1>2 DEF Forbidden, Rejected
  <2>2. QED
    BY <1>1, <2>1, RejectedInv DEF Statuses
<1>3. CASE GuardEdit(r)
  <2>1. op[r].type \in {"add_component", "remove_component", "reorder"} => op[r] \in Edits
    BY <1>1 DEF Ops, Edits
  <2>2. <<op[r]>> \in Seq(Edits) /\ <<op[r]>> # <<>> /\ ~IsSend(r)
    BY <2>1, <1>3 DEF GuardEdit, Pass, IsSend
  <2>3. QED
    BY <1>1, <1>3, <2>2, PlannedInv DEF GuardEdit, Pass
<1>4. CASE GuardFreeDay(r)
  <2>1. NewDay(r) \in Edits
    BY DEF NewDay, Edits
  <2>2. <<NewDay(r)>> \in Seq(Edits) /\ <<NewDay(r)>> # <<>> /\ ~IsSend(r)
    BY <2>1, <1>4 DEF GuardFreeDay, Pass, IsSend
  <2>3. QED
    BY <1>1, <1>4, <2>2, PlannedInv DEF GuardFreeDay, Pass
<1>5. CASE GuardReader(r)
  <2>1. <<>> \in Seq(Edits) /\ ~IsSend(r)
    BY <1>5 DEF GuardReader, Pass, IsSend
  <2>2. Pass(r, {op[r].type}, <<>>, "prepare")
    BY <1>5 DEF GuardReader, Pass
  <2>3. QED
    BY <1>1, <2>1, <2>2, PlannedInv DEF Pass
<1>6. CASE GuardSend(r)
  <2>1. <<>> \in Seq(Edits) /\ IsSend(r)
    BY <1>6 DEF GuardSend, Pass, IsSend
  <2>2. Pass(r, {op[r].type}, <<>>, "lock")
    BY <1>6 DEF GuardSend, Pass
  <2>3. QED
    BY <1>1, <2>1, <2>2, PlannedInv DEF Pass
<1>7. QED
  BY <1>2, <1>3, <1>4, <1>5, <1>6 DEF Guard

(* Preparing a route, a night or a removal only plans edits.                 *)
LEMMA PrepareInv ==
  ASSUME IndInv, NEW r \in Requests, Prepare(r)
  PROVE  IndInv'
<1>1. pc[r] = "prepare" /\ op[r] \in Ops /\ ~IsSend(r)
  BY DEF Prepare, PrepareRoute, PrepareNight, PrepareRemoveDay, IndInv, AskedOK
<1>2. ASSUME NEW edits \in Seq(Edits), edits # <<>>, Prepared(r, edits)
      PROVE  IndInv'
  BY <1>1, <1>2, PlannedInv DEF Prepared
<1>3. ASSUME NEW status \in {"bad_request", "not_found"}, Rejected(r, status)
      PROVE  IndInv'
  BY <1>1, <1>3, RejectedInv DEF Statuses
<1>4. CASE PrepareNight(r)
  <2>1. NewDay(r) \in Edits
    BY DEF NewDay, Edits
  <2>2. <<NewDay(r)>> \in Seq(Edits) /\ <<NewDay(r)>> # <<>>
    BY <2>1
  <2>3. QED
    BY <1>2, <1>3, <1>4, <2>2 DEF PrepareNight
<1>5. CASE PrepareRemoveDay(r)
  <2>1. op[r] \in Edits
    BY <1>1, <1>5 DEF PrepareRemoveDay, Ops, Edits
  <2>2. <<op[r]>> \in Seq(Edits) /\ <<op[r]>> # <<>>
    BY <2>1
  <2>3. QED
    BY <1>2, <1>3, <1>5, <2>2 DEF PrepareRemoveDay
<1>6. CASE PrepareRoute(r)
  <2>1. op[r].arg \in Orders
    BY <1>1, <1>6 DEF PrepareRoute, Ops
  <2>2. Present(events) \in SUBSET Components /\ Named(op[r].arg) \in SUBSET Components
    <3>1. Present(events) \in SUBSET Components
      BY FoldType DEF IndInv, TypeOK
    <3>2. Named(op[r].arg) \in SUBSET Components
      BY <2>1 DEF Orders, Named
    <3>3. QED
      BY <3>1, <3>2
  <2>3. \A S \in SUBSET Components : \A s \in Listings(S) : s \in Orders
    BY ListingsType
  <2>4. PICK added \in Orders, others \in Orders :
          Prepared(r, [i \in DOMAIN added |-> [type |-> "add_component", arg |-> added[i]]]
                        \o <<[type |-> "reorder", arg |-> op[r].arg \o others]>>)
    BY <1>6, <2>2, <2>3 DEF PrepareRoute
  <2>5. op[r].arg \o others \in Orders
    BY <2>1 DEF Orders
  <2>6. [type |-> "reorder", arg |-> op[r].arg \o others] \in Edits
    BY <2>5 DEF Edits
  <2>7. [i \in DOMAIN added |-> [type |-> "add_component", arg |-> added[i]]] \in Seq(Edits)
    <3>1. DOMAIN added = 1..Len(added) /\ Len(added) \in Nat
      BY DEF Orders
    <3>2. \A i \in 1..Len(added) : [type |-> "add_component", arg |-> added[i]] \in Edits
      BY <3>1 DEF Orders, Edits
    <3>3. QED
      BY <3>1, <3>2, SeqDef
  <2> DEFINE adds == [i \in DOMAIN added |-> [type |-> "add_component", arg |-> added[i]]]
             pin == [type |-> "reorder", arg |-> op[r].arg \o others]
  <2>8. adds \o <<pin>> \in Seq(Edits) /\ adds \o <<pin>> # <<>>
    <3> HIDE DEF adds, pin
    <3>1. adds \in Seq(Edits) /\ <<pin>> \in Seq(Edits) /\ Len(<<pin>>) = 1
      BY <2>6, <2>7 DEF adds, pin
    <3>2. adds \o <<pin>> \in Seq(Edits) /\ Len(adds \o <<pin>>) = Len(adds) + 1 /\ Len(adds) \in Nat
      BY <3>1
    <3>3. QED
      BY <3>2
  <2>9. QED
    BY <1>2, <2>4, <2>8
<1>7. QED
  BY <1>4, <1>5, <1>6 DEF Prepare

(* The two folds of append_event only read.                                  *)
LEMMA FoldInv ==
  ASSUME IndInv, NEW r \in Requests, FoldComponents(r) \/ FoldOrder(r)
  PROVE  IndInv'
<1> USE DEF Goto, database, asked
<1>1. TypeOK /\ AskedOK
  BY DEF IndInv
<1>2. Visible(r) \in SUBSET Event
  BY <1>1 DEF TypeOK, Visible
<1>3. CASE FoldComponents(r)
  <2>1. [stops |-> Present(Visible(r)), pinned |-> FALSE, before |-> AddedBefore(Visible(r))] \in View
    BY <1>2, FoldType DEF View
  <2>2. view' \in [Requests -> View]
    BY <1>1, <1>3, <2>1 DEF FoldComponents, TypeOK
  <2>3. pc[r] = "fold" /\ pc' = [pc EXCEPT ![r] = "order"] /\ fresh' \subseteq Requests
    BY <1>1, <1>3 DEF FoldComponents, TypeOK
  <2>4. ~IsSend(r) => plan'[r] # <<>>
    BY <1>1, <1>3, <2>3 DEF FoldComponents, AskedOK, PastCheck, HasEvent
  <2>5. QED
    BY <1>1, <1>3, <2>2, <2>3, <2>4, PrivateStep
    DEF FoldComponents, TypeOK, Running, HasEvent, PastCheck
<1>4. CASE FoldOrder(r)
  <2>1. view[r].stops \in SUBSET Components
    BY <1>1 DEF TypeOK, View
  <2>2. view' \in [Requests -> View]
    BY <1>1, <1>4, <2>1, ArrangeType DEF FoldOrder, TypeOK
  <2>3. pc[r] = "order" /\ pc' = [pc EXCEPT ![r] = "upsert"]
    BY <1>4 DEF FoldOrder
  <2>4. ~IsSend(r) => plan'[r] # <<>>
    BY <1>1, <1>4, <2>3 DEF FoldOrder, AskedOK, PastCheck, HasEvent
  <2>5. QED
    BY <1>1, <1>4, <2>2, <2>3, <2>4, PrivateStep
    DEF FoldOrder, TypeOK, Running, HasEvent, PastCheck
<1>5. QED
  BY <1>3, <1>4

(* The event a request appends is well formed, has the next id, and is a     *)
(* `sent` event just when the request is a send.                             *)
LEMMA NewEventType ==
  ASSUME TypeOK, AskedOK, NEW r \in Requests, pc[r] = "insert"
  PROVE  /\ NewEvent(r) \in Event
         /\ NewEvent(r).id = nextId
         /\ NewEvent(r).type = "sent" <=> IsSend(r)
<1>1. session[r] \in Sessions
  BY DEF AskedOK
<1>2. CASE IsSend(r)
  BY <1>1, <1>2 DEF NewEvent, Event, TypeOK
<1>3. CASE ~IsSend(r)
  <2>1. Head(plan[r]) \in Edits
    BY <1>3 DEF AskedOK, PastCheck, TypeOK
  <2>2. Head(plan[r]).type # "sent"
    BY <2>1 DEF Edits
  <2>3. nextId \in Nat
    BY DEF TypeOK
  <2>4. \A edit \in Edits : [id |-> nextId, type |-> edit.type, arg |-> edit.arg] \in Event
    BY <2>3 DEF Edits, Event
  <2>5. QED
    BY <1>3, <2>1, <2>2, <2>4 DEF NewEvent
<1>4. QED
  BY <1>2, <1>3

(* Inserting an event draws an id no row and no open transaction has.        *)
LEMMA InsertInv ==
  ASSUME IndInv, NEW r \in Requests, Insert(r)
  PROVE  IndInv'
<1> USE DEF IndInv
<1> DEFINE e == NewEvent(r)
<1>1. /\ e \in Event
      /\ e.id = nextId
      /\ e.type = "sent" <=> IsSend(r)
  BY NewEventType DEF Insert
<1>2. /\ pc[r] = "insert"
      /\ nextId' = nextId + 1
      /\ UNCHANGED <<events, draft, outbox, advisory, rowLock, op, session, plan, view, inquiry, answer, fresh>>
      /\ own' = [own EXCEPT ![r] = {e}]
      /\ pc' = [pc EXCEPT ![r] = "fold"]
  BY DEF Insert, Goto, asked
<1> HIDE DEF e
<1>3. \A s \in Requests : /\ pc'[s] = IF s = r THEN "fold" ELSE pc[s]
                          /\ own'[s] = IF s = r THEN {e} ELSE own[s]
                          /\ IsSend(s)' <=> IsSend(s)
  BY <1>2 DEF TypeOK, IsSend
<1>4. TypeOK'
  BY <1>1, <1>2 DEF TypeOK, Running
<1>5. AskedOK'
  BY <1>2, <1>3 DEF AskedOK, PastCheck, HasEvent
<1>6. OwnOK'
  <2> SUFFICES ASSUME NEW s \in Requests
               PROVE  /\ pc'[s] \in HasEvent => \E d \in own'[s] : own'[s] = {d}
                      /\ pc'[s] \notin HasEvent => own'[s] = {}
                      /\ \A d \in own'[s] : d.id < nextId' /\ (d.type = "sent" <=> IsSend(s))
    BY <1>3 DEF OwnOK
  <2>1. CASE s = r
    <3>1. own'[s] = {e} /\ pc'[s] = "fold"
      BY <1>3, <2>1
    <3>2. e.id < nextId'
      BY <1>1, <1>2, Typing
    <3>3. QED
      BY <1>1, <2>1, <3>1, <3>2 DEF HasEvent
  <2>2. CASE s # r
    <3>1. \A d \in own[s] : d.id < nextId'
      BY <1>2, Typing DEF OwnOK
    <3>2. QED
      BY <1>3, <2>2, <3>1 DEF OwnOK
  <2>3. QED
    BY <2>1, <2>2
<1>7. IdsOK'
  <2>1. \A s \in Requests : \A d \in own[s] : d.id < nextId
    BY DEF OwnOK
  <2>2. \A d \in events : d.id < nextId
    BY DEF IdsOK
  <2>3. \A d \in events : d.id < nextId'
    BY <1>2, <2>2, Typing
  <2>4. \A s \in Requests : \A d \in own'[s], f \in events : d.id # f.id
    BY <1>1, <1>3, <2>2, Typing DEF IdsOK
  <2>5. \A s, t \in Requests : s # t => \A d \in own'[s], f \in own'[t] : d.id # f.id
    BY <1>1, <1>3, <2>1, Typing DEF IdsOK
  <2>6. QED
    BY <1>2, <2>3, <2>4, <2>5 DEF IdsOK
<1>8. LockOK'
  BY <1>2, <1>3 DEF LockOK, PastCheck, HasEvent
<1>9. SenderOK'
  <2>1. \A n : Ready(n)' <=> Ready(n)
    BY <1>2 DEF Ready, SentEvents
  <2>2. \A s \in Requests : IsSend(s) => \A d \in own'[s] : Ready(d.id)
    BY <1>1, <1>2, <1>3 DEF SenderOK
  <2>3. Ready(nextId) => Ready(nextId')
    BY <1>1, <1>2, Typing DEF Ready, SentEvents
  <2>4. \A s \in Requests : IsSend(s) /\ pc'[s] = "insert" => Ready(nextId')
    BY <1>3, <2>3 DEF SenderOK
  <2>5. QED
    BY <1>3, <2>1, <2>2, <2>4 DEF SenderOK
<1>10. InquiryOK'
  <2> SUFFICES ASSUME NEW s \in Requests
               PROVE  /\ pc'[s] = "notify" => \E q \in inquiry[s] : inquiry[s] = {q}
                      /\ pc'[s] # "notify" => inquiry[s] = {}
                      /\ \A q \in inquiry[s] :
                           /\ \E d \in own'[s] : q.event = d.id /\ d.id <= q.key
                           /\ \E f \in events \cup own'[s] : f.id = q.key
    BY <1>2 DEF InquiryOK, Visible
  <2>1. CASE s = r
    BY <1>2, <1>3, <2>1 DEF InquiryOK
  <2>2. CASE s # r
    BY <1>3, <2>2 DEF InquiryOK, Visible
  <2>3. QED
    BY <2>1, <2>2
<1>11. OutboxOK' /\ HandOffsSeparatedByEdits' /\ AlreadySentIsOnFile' /\ StatusFollowsLog'
  BY <1>2 DEF OutboxOK, HandOffsSeparatedByEdits, AlreadySentIsOnFile, StatusFollowsLog, SentEvents
<1>12. QED
  BY <1>4, <1>5, <1>6, <1>7, <1>8, <1>9, <1>10, <1>11

(* The already_sent answer names the key of a committed inquiry.             *)
LEMMA SendAgainInv ==
  ASSUME IndInv, NEW r \in Requests, SendAgain(r)
  PROVE  IndInv'
<1> USE DEF IndInv
<1>1. PICK e \in events : /\ IsLastEvent(events, e) /\ e.type = "sent"
                          /\ Finish(r, [status |-> "already_sent", handoff |-> e.id])
  BY DEF SendAgain
<1>2. PICK q \in outbox : q.event = e.id
  BY <1>1 DEF OutboxOK, SentEvents
<1>3. q.key = e.id
  <2>1. q.event <= q.key /\ \E f \in events : f.id = q.key
    BY DEF OutboxOK
  <2>2. q.key <= e.id
    BY <1>1, <2>1 DEF IsLastEvent
  <2>3. QED
    BY <1>2, <2>1, <2>2, Typing
<1> DEFINE a == [status |-> "already_sent", handoff |-> e.id]
<1>4. a \in [status : Statuses, handoff : Nat] /\ \E p \in outbox : p.key = a.handoff
  BY <1>3, Typing DEF Statuses
<1> HIDE DEF a
<1>5. /\ UNCHANGED <<nextId, events, draft, outbox, advisory, rowLock, fresh, op, session, plan, own, view, inquiry>>
      /\ pc[r] = "lock" /\ pc' = [pc EXCEPT ![r] = "done"] /\ answer' = [answer EXCEPT ![r] = a]
  BY <1>1 DEF SendAgain, Finish, Goto, database, asked, working, a
<1>6. /\ rowLock' \in Requests \cup {None} /\ plan' \in [Requests -> Seq(Edits)]
      /\ view' \in [Requests -> View] /\ fresh' \subseteq Requests
  BY <1>5 DEF TypeOK
<1>7. QED
  BY <1>4, <1>5, <1>6, PrivateStep DEF Running, HasEvent, PastCheck

(* Under the advisory lock, when the last event is an edit, whatever id the  *)
(* send draws is above every hand-off and every key.                         *)
LEMMA EditedIsReady ==
  ASSUME IndInv, LastIsNotSent(events)
  PROVE  Ready(nextId)
<1> USE DEF IndInv
<1>1. \A q \in outbox : q.key < nextId
  BY DEF OutboxOK, IdsOK
<1>2. CASE events = {}
  BY <1>1, <1>2 DEF Ready, SentEvents
<1>3. CASE events # {}
  <2>1. PICK e \in events : IsLastEvent(events, e) /\ e.type # "sent"
    BY <1>3 DEF LastIsNotSent
  <2>2. \A g \in SentEvents : g.id < e.id
    <3> SUFFICES ASSUME NEW g \in SentEvents PROVE g.id < e.id
      OBVIOUS
    <3>1. g \in events /\ g # e
      BY <2>1 DEF SentEvents
    <3>2. g.id <= e.id /\ g.id # e.id
      BY <2>1, <3>1 DEF IsLastEvent, IdsOK
    <3>3. QED
      BY <3>1, <3>2, Typing
  <2>3. e.id < nextId
    BY DEF IdsOK
  <2>4. QED
    BY <1>1, <2>1, <2>2, <2>3 DEF Ready
<1>4. QED
  BY <1>2, <1>3

(* A send that takes the lock finds an edit after the last hand-off.         *)
LEMMA SendBeginInv ==
  ASSUME IndInv, NEW r \in Requests, SendBegin(r)
  PROVE  IndInv'
<1>1. /\ pc[r] = "lock" /\ advisory = None /\ LastIsNotSent(events) /\ advisory' = r
      /\ pc' = [pc EXCEPT ![r] = "insert"]
      /\ UNCHANGED <<nextId, events, draft, outbox, rowLock, fresh, op, session, plan, own, view, inquiry, answer>>
  BY DEF SendBegin, Goto, asked, working
<1>2. Ready(nextId)
  BY <1>1, EditedIsReady
<1>3. IsSend(r) /\ (IsSend(r)' <=> IsSend(r))
  BY <1>1 DEF IndInv, AskedOK, IsSend
<1>4. TypeOK'
  BY <1>1 DEF IndInv, TypeOK, Running
<1>5. \A s \in Requests : pc'[s] = IF s = r THEN "insert" ELSE pc[s]
  BY <1>1 DEF IndInv, TypeOK
<1>6. AskedOK'
  <2>1. \A s \in Requests : IsSend(s)' <=> IsSend(s)
    BY <1>1 DEF IsSend
  <2>2. QED
    BY <1>1, <1>3, <1>5, <2>1 DEF IndInv, AskedOK, PastCheck, HasEvent
<1>7. answer'[r].status \in {"sent", "already_sent"} => \E q \in outbox : q.key = answer'[r].handoff
  BY <1>1 DEF IndInv, AlreadySentIsOnFile
<1>8. \A s \in Requests : s # r => (advisory = s => advisory' = s)
  BY <1>1, NoneAssumption
<1>9. QED
  BY <1>1, <1>2, <1>4, <1>6, <1>7, <1>8, LocalStep DEF HasEvent

(* The upsert of a send takes the row lock and commits nothing.              *)
LEMMA SendUpsertInv ==
  ASSUME IndInv, NEW r \in Requests, SendUpsert(r)
  PROVE  IndInv'
<1>1. /\ pc[r] = "upsert" /\ IsSend(r) /\ rowLock' = r
      /\ pc' = [pc EXCEPT ![r] = "handoff"]
      /\ UNCHANGED <<nextId, events, draft, outbox, advisory, fresh, op, session, plan, own, view, inquiry, answer>>
  BY DEF SendUpsert, Goto, asked, working
<1>2. /\ plan' \in [Requests -> Seq(Edits)] /\ view' \in [Requests -> View] /\ fresh' \subseteq Requests
  BY <1>1 DEF IndInv, TypeOK
<1>3. QED
  BY <1>1, <1>2, PrivateStep DEF Running, HasEvent, PastCheck

(* The inquiry's key is at least the sender's own event id, and in its view. *)
LEMMA WriteInquiryInv ==
  ASSUME IndInv, NEW r \in Requests, WriteInquiry(r)
  PROVE  IndInv'
<1> USE DEF IndInv
<1>1. PICK last \in Visible(r) :
        /\ IsLastEvent(Visible(r), last)
        /\ inquiry' = [inquiry EXCEPT ![r] =
             {[event |-> e.id, key |-> last.id, itinerary |-> view[r],
               days |-> CustomDays(Visible(r))] : e \in own[r]}]
  BY DEF WriteInquiry
<1>2. /\ pc[r] = "handoff" /\ pc' = [pc EXCEPT ![r] = "notify"]
      /\ UNCHANGED <<nextId, events, draft, outbox, advisory, rowLock, fresh, op, session, plan, own, view, answer>>
  BY DEF WriteInquiry, Goto, database, asked
<1>3. PICK e \in own[r] : own[r] = {e}
  BY <1>2 DEF OwnOK, HasEvent
<1> DEFINE q == [event |-> e.id, key |-> last.id, itinerary |-> view[r], days |-> CustomDays(Visible(r))]
<1>4. q.event = e.id /\ q.key = last.id /\ e.id <= last.id
  BY <1>1, <1>3 DEF IsLastEvent, Visible
<1>5. q \in Inquiry
  <2>1. Visible(r) \in SUBSET Event
    BY DEF TypeOK, Visible
  <2>2. e.id \in Nat /\ last.id \in Nat
    BY <2>1, Typing DEF Visible
  <2>3. view[r] \in View /\ CustomDays(Visible(r)) \in SUBSET Requests
    BY <2>1, FoldType DEF TypeOK
  <2>4. QED
    BY <2>2, <2>3 DEF Inquiry
<1>6. inquiry' = [inquiry EXCEPT ![r] = {q}]
  BY <1>1, <1>3
<1> HIDE DEF q
<1>7. \A s \in Requests : /\ pc'[s] = IF s = r THEN "notify" ELSE pc[s]
                          /\ inquiry'[s] = IF s = r THEN {q} ELSE inquiry[s]
                          /\ IsSend(s)' <=> IsSend(s)
  BY <1>2, <1>6 DEF TypeOK, IsSend
<1>8. TypeOK'
  BY <1>2, <1>5, <1>6 DEF TypeOK, Running
<1>9. IsSend(r)
  BY <1>2 DEF AskedOK
<1>10. AskedOK'
  BY <1>2, <1>7, <1>9 DEF AskedOK, PastCheck, HasEvent
<1>11. OwnOK' /\ IdsOK' /\ LockOK'
  BY <1>2, <1>7 DEF OwnOK, IdsOK, LockOK, PastCheck, HasEvent
<1>12. SenderOK'
  <2>1. \A n : Ready(n)' <=> Ready(n)
    BY <1>2 DEF Ready, SentEvents
  <2>2. QED
    BY <1>2, <1>7, <2>1 DEF SenderOK
<1>13. InquiryOK'
  <2> SUFFICES ASSUME NEW s \in Requests
               PROVE  /\ pc'[s] = "notify" => \E p \in inquiry'[s] : inquiry'[s] = {p}
                      /\ pc'[s] # "notify" => inquiry'[s] = {}
                      /\ \A p \in inquiry'[s] :
                           /\ \E d \in own[s] : p.event = d.id /\ d.id <= p.key
                           /\ \E f \in Visible(s) : f.id = p.key
    BY <1>2 DEF InquiryOK, Visible
  <2>1. CASE s = r
    BY <1>3, <1>4, <1>7, <2>1
  <2>2. CASE s # r
    BY <1>7, <2>2 DEF InquiryOK
  <2>3. QED
    BY <2>1, <2>2
<1>14. OutboxOK' /\ HandOffsSeparatedByEdits' /\ AlreadySentIsOnFile' /\ StatusFollowsLog'
  BY <1>2 DEF OutboxOK, HandOffsSeparatedByEdits, AlreadySentIsOnFile, StatusFollowsLog, SentEvents
<1>15. QED
  BY <1>8, <1>10, <1>11, <1>12, <1>13, <1>14

(* Committing an edit adds no hand-off and keeps a sent trip sent.           *)
LEMMA CommitEditInv ==
  ASSUME IndInv, NEW r \in Requests, CommitEdit(r)
  PROVE  IndInv'
<1> USE DEF IndInv
<1>1. /\ pc[r] = "upsert" /\ ~IsSend(r)
      /\ events' = events \cup own[r] /\ draft' = Upserted(r, "draft") /\ fresh' = {}
      /\ own' = [own EXCEPT ![r] = {}] /\ view' = [view EXCEPT ![r] = NoView]
      /\ plan' = [plan EXCEPT ![r] = Tail(plan[r])]
      /\ UNCHANGED <<nextId, outbox, advisory, rowLock, op, session, inquiry>>
  BY DEF CommitEdit, asked
<1>2. \/ Len(plan[r]) > 1 /\ pc' = [pc EXCEPT ![r] = "insert"] /\ answer' = answer
      \/ /\ Len(plan[r]) = 1 /\ pc' = [pc EXCEPT ![r] = "done"]
         /\ answer' = [answer EXCEPT ![r] = Says("ok")]
  BY DEF CommitEdit, Goto, Finish
<1>3. PICK e \in own[r] : own[r] = {e}
  BY <1>1 DEF OwnOK, HasEvent
<1>4. /\ e \in Event /\ e.type # "sent" /\ e.id < nextId /\ \A f \in events : f.id # e.id
      /\ events' = events \cup {e} /\ SentEvents' = SentEvents
  BY <1>1, <1>3 DEF OwnOK, IdsOK, TypeOK, SentEvents
<1>5. plan[r] \in Seq(Edits) /\ plan[r] # <<>>
  BY <1>1 DEF AskedOK, PastCheck, HasEvent, TypeOK
<1>6. Tail(plan[r]) \in Seq(Edits) /\ (Len(plan[r]) > 1 => Tail(plan[r]) # <<>>)
  <2>1. Tail(plan[r]) \in Seq(Edits) /\ Len(Tail(plan[r])) = Len(plan[r]) - 1 /\ Len(plan[r]) \in Nat
    BY <1>5, HeadTailProperties, LenProperties
  <2>2. Len(<<>>) = 0
    OBVIOUS
  <2>3. Len(plan[r]) > 1 => Len(Tail(plan[r])) # 0
    <3>1. \A m \in Nat : \A n : n = m - 1 /\ m > 1 => n # 0
      OBVIOUS
    <3>2. QED
      BY <2>1, <3>1, Zenon
  <2>4. QED
    BY <2>1, <2>2, <2>3, Zenon
<1>7. PICK label \in {"insert", "done"} :
        pc' = [pc EXCEPT ![r] = label] /\ (label = "insert" => Tail(plan[r]) # <<>>)
  BY <1>2, <1>6
<1>8. \A s \in Requests : /\ pc'[s] = IF s = r THEN label ELSE pc[s]
                          /\ own'[s] = IF s = r THEN {} ELSE own[s]
                          /\ plan'[s] = IF s = r THEN Tail(plan[r]) ELSE plan[s]
                          /\ IsSend(s)' <=> IsSend(s)
  BY <1>1, <1>7 DEF TypeOK, IsSend
<1>9. TypeOK'
  <2>1. draft' \in [owner : Sessions \cup {None}, status : {"absent", "draft", "sent"}, itinerary : View]
    BY <1>1 DEF Upserted, TypeOK
  <2>2. answer' \in [Requests -> [status : Statuses, handoff : Nat]]
    <3>1. Says("ok") \in [status : Statuses, handoff : Nat]
      BY SaysType DEF Statuses
    <3>2. QED
      BY <1>2, <3>1 DEF TypeOK
  <2>3. pc' \in [Requests -> Running \cup {"idle", "done"}]
    BY <1>7 DEF TypeOK, Running
  <2>4. /\ own' \in [Requests -> SUBSET Event] /\ view' \in [Requests -> View]
        /\ plan' \in [Requests -> Seq(Edits)] /\ events' \subseteq Event
    BY <1>1, <1>4, <1>6, NoViewType DEF TypeOK
  <2>5. QED
    BY <1>1, <2>1, <2>2, <2>3, <2>4 DEF TypeOK
<1>10. AskedOK'
  <2> SUFFICES ASSUME NEW s \in Requests
               PROVE  /\ pc'[s] # "idle" => op[s] \in Ops /\ session[s] \in Sessions
                      /\ pc'[s] \in {"lock", "handoff", "notify"} => IsSend(s)
                      /\ pc'[s] = "prepare" => ~IsSend(s)
                      /\ pc'[s] \in PastCheck /\ ~IsSend(s) => plan'[s] # <<>>
    BY <1>1, <1>8 DEF AskedOK
  <2>1. CASE s = r
    BY <1>1, <1>7, <1>8, <2>1 DEF AskedOK, PastCheck, HasEvent
  <2>2. CASE s # r
    BY <1>8, <2>2 DEF AskedOK
  <2>3. QED
    BY <2>1, <2>2
<1>11. OwnOK'
  BY <1>1, <1>8 DEF OwnOK, HasEvent
<1>12. IdsOK'
  <2>1. \A d \in events' : d.id < nextId
    BY <1>4 DEF IdsOK
  <2>2. \A d, f \in events' : d.id = f.id => d = f
    BY <1>4 DEF IdsOK
  <2>3. \A s \in Requests : \A d \in own'[s], f \in events' : d.id # f.id
    BY <1>3, <1>4, <1>8 DEF IdsOK
  <2>4. \A s, t \in Requests : s # t => \A d \in own'[s], f \in own'[t] : d.id # f.id
    BY <1>8 DEF IdsOK
  <2>5. QED
    BY <1>1, <2>1, <2>2, <2>3, <2>4 DEF IdsOK
<1>13. LockOK'
  BY <1>1, <1>8 DEF LockOK, PastCheck, HasEvent
<1>14. SenderOK'
  <2>1. \A n : Ready(n) => Ready(n)'
    BY <1>1, <1>4 DEF Ready
  <2>2. \A s \in Requests : IsSend(s) /\ pc'[s] = "insert" => pc[s] = "insert"
    BY <1>1, <1>8
  <2>3. QED
    BY <1>1, <1>8, <2>1, <2>2 DEF SenderOK
<1>15. InquiryOK'
  <2>1. \A s \in Requests : pc'[s] = "notify" <=> pc[s] = "notify"
    BY <1>1, <1>8
  <2>2. inquiry[r] = {}
    BY <1>1 DEF InquiryOK
  <2>3. \A s \in Requests : s # r => own'[s] = own[s] /\ Visible(s) \subseteq Visible(s)'
    BY <1>4, <1>8 DEF Visible
  <2>4. QED
    BY <1>1, <2>1, <2>2, <2>3 DEF InquiryOK
<1>16. OutboxOK' /\ HandOffsSeparatedByEdits'
  BY <1>1, <1>4 DEF OutboxOK, HandOffsSeparatedByEdits
<1>17. AlreadySentIsOnFile'
  <2> SUFFICES ASSUME NEW s \in Requests, answer'[s].status \in {"sent", "already_sent"}
               PROVE  \E p \in outbox : p.key = answer'[s].handoff
    BY <1>1 DEF AlreadySentIsOnFile
  <2>1. answer'[s] = answer[s] \/ answer'[s] = Says("ok")
    BY <1>2 DEF TypeOK
  <2>2. Says("ok").status = "ok"
    BY DEF Says
  <2>3. QED
    BY <2>1, <2>2 DEF AlreadySentIsOnFile
<1>18. StatusFollowsLog'
  <2>1. draft'.status = IF draft.status = "sent" THEN "sent" ELSE "draft"
    BY <1>1 DEF Upserted
  <2>2. QED
    BY <1>4, <2>1 DEF StatusFollowsLog
<1>19. QED
  BY <1>9, <1>10, <1>11, <1>12, <1>13, <1>14, <1>15, <1>16, <1>17, <1>18

(* What a send that commits adds to the log and to the outbox. *)
LEMMA SendAdds ==
  ASSUME IndInv, NEW r \in Requests, CommitSend(r)
  PROVE  \E e \in own[r], q \in inquiry[r] :
           /\ e \in Event /\ e.type = "sent" /\ e.id < nextId /\ Ready(e.id)
           /\ \A f \in events : f.id # e.id
           /\ q \in Inquiry /\ q.event = e.id /\ e.id <= q.key
           /\ own[r] = {e} /\ inquiry[r] = {q}
           /\ events' = events \cup {e} /\ outbox' = outbox \cup {q}
           /\ \A p \in outbox : p.key < e.id
           /\ \E f \in events' : f.id = q.key
           /\ answer' = [answer EXCEPT ![r] = [status |-> "sent", handoff |-> q.key]]
<1> USE DEF IndInv
<1>1. pc[r] = "notify" /\ IsSend(r)
  BY DEF CommitSend, AskedOK
<1>2. PICK e \in own[r] : own[r] = {e}
  BY <1>1 DEF OwnOK, HasEvent
<1>3. PICK q \in inquiry[r] : inquiry[r] = {q}
  BY <1>1 DEF InquiryOK
<1>4. /\ e \in Event /\ e.type = "sent" /\ e.id < nextId /\ Ready(e.id)
      /\ \A f \in events : f.id # e.id
  BY <1>1, <1>2 DEF OwnOK, SenderOK, IdsOK, TypeOK
<1>5. q \in Inquiry /\ q.event = e.id /\ e.id <= q.key /\ \E f \in Visible(r) : f.id = q.key
  <2>1. q \in Inquiry
    BY DEF TypeOK
  <2>2. /\ \E d \in own[r] : q.event = d.id /\ d.id <= q.key
        /\ \E f \in Visible(r) : f.id = q.key
    BY DEF InquiryOK
  <2>3. QED
    BY <1>2, <2>1, <2>2
<1>6. \A p \in outbox : p.key < e.id
  BY <1>4 DEF Ready
<1>7. NotDuplicate(r) = {q}
  BY <1>2, <1>3, <1>5, <1>6, Typing DEF NotDuplicate
<1>8. QED
  BY <1>2, <1>3, <1>4, <1>5, <1>6, <1>7 DEF CommitSend, Finish, Visible

(* Committing a send adds one hand-off and one inquiry, with a key no other has. *)
LEMMA CommitSendInv ==
  ASSUME IndInv, NEW r \in Requests, CommitSend(r)
  PROVE  IndInv'
<1> USE DEF IndInv
<1>1. PICK e \in own[r], q \in inquiry[r] :
        /\ e \in Event /\ e.type = "sent" /\ e.id < nextId /\ Ready(e.id)
        /\ \A f \in events : f.id # e.id
        /\ q \in Inquiry /\ q.event = e.id /\ e.id <= q.key
        /\ own[r] = {e} /\ inquiry[r] = {q}
        /\ events' = events \cup {e} /\ outbox' = outbox \cup {q}
        /\ \A p \in outbox : p.key < e.id
        /\ \E f \in events' : f.id = q.key
        /\ answer' = [answer EXCEPT ![r] = [status |-> "sent", handoff |-> q.key]]
  BY SendAdds
<1>2. /\ pc[r] = "notify" /\ pc' = [pc EXCEPT ![r] = "done"]
      /\ draft' = Upserted(r, "sent") /\ fresh' = {} /\ advisory' = None /\ rowLock' = None
      /\ plan' = [plan EXCEPT ![r] = <<>>] /\ own' = [own EXCEPT ![r] = {}]
      /\ view' = [view EXCEPT ![r] = NoView] /\ inquiry' = [inquiry EXCEPT ![r] = {}]
      /\ UNCHANGED <<nextId, op, session>>
  BY DEF CommitSend, Forgotten, Finish, Goto, asked
<1>3. \A s \in Requests : /\ pc'[s] = IF s = r THEN "done" ELSE pc[s]
                          /\ own'[s] = IF s = r THEN {} ELSE own[s]
                          /\ inquiry'[s] = IF s = r THEN {} ELSE inquiry[s]
                          /\ plan'[s] = IF s = r THEN <<>> ELSE plan[s]
                          /\ IsSend(s)' <=> IsSend(s)
  BY <1>2 DEF TypeOK, IsSend
<1>4. SentEvents' = SentEvents \cup {e}
  BY <1>1 DEF SentEvents
<1>5. \A s \in Requests : s # r /\ IsSend(s) => pc[s] \notin PastCheck /\ own[s] = {}
  <2>1. advisory = r
    BY <1>2 DEF LockOK, AskedOK, PastCheck, HasEvent
  <2>2. QED
    BY <2>1 DEF LockOK, OwnOK, PastCheck
<1>6. e.id \in Nat /\ q.key \in Nat /\ \A f \in events : f.id \in Nat
  BY <1>1, Typing
<1>7. TypeOK'
  <2>1. draft' \in [owner : Sessions \cup {None}, status : {"absent", "draft", "sent"}, itinerary : View]
    BY <1>2 DEF Upserted, TypeOK
  <2>2. [status |-> "sent", handoff |-> q.key] \in [status : Statuses, handoff : Nat]
    BY <1>6 DEF Statuses
  <2>3. answer' \in [Requests -> [status : Statuses, handoff : Nat]]
    BY <1>1, <2>2 DEF TypeOK
  <2>4. <<>> \in Seq(Edits)
    OBVIOUS
  <2>5. /\ own' \in [Requests -> SUBSET Event] /\ view' \in [Requests -> View]
        /\ plan' \in [Requests -> Seq(Edits)] /\ inquiry' \in [Requests -> SUBSET Inquiry]
    BY <1>2, <2>4, NoViewType DEF TypeOK
  <2>6. events' \subseteq Event /\ outbox' \subseteq Inquiry
    BY <1>1 DEF TypeOK
  <2>7. pc' \in [Requests -> Running \cup {"idle", "done"}]
    BY <1>2 DEF TypeOK
  <2>8. QED
    BY <1>2, <2>1, <2>3, <2>5, <2>6, <2>7 DEF TypeOK
<1>8. AskedOK'
  BY <1>2, <1>3 DEF AskedOK, PastCheck, HasEvent
<1>9. OwnOK'
  BY <1>2, <1>3 DEF OwnOK, HasEvent
<1>10. IdsOK'
  <2>1. \A d \in events' : d.id < nextId
    BY <1>1 DEF IdsOK
  <2>2. \A d, f \in events' : d.id = f.id => d = f
    BY <1>1 DEF IdsOK
  <2>3. \A s \in Requests : \A d \in own'[s], f \in events' : d.id # f.id
    BY <1>1, <1>3 DEF IdsOK
  <2>4. \A s, t \in Requests : s # t => \A d \in own'[s], f \in own'[t] : d.id # f.id
    BY <1>3 DEF IdsOK
  <2>5. QED
    BY <1>2, <2>1, <2>2, <2>3, <2>4 DEF IdsOK
<1>11. LockOK' /\ SenderOK'
  BY <1>3, <1>5 DEF LockOK, SenderOK, PastCheck, HasEvent
<1>12. InquiryOK'
  BY <1>1, <1>3 DEF InquiryOK, Visible
<1>13. OutboxOK'
  <2>1. \A p \in outbox' : /\ p.event <= p.key
                           /\ \E d \in SentEvents' : d.id = p.event
                           /\ \E f \in events' : f.id = p.key
    BY <1>1, <1>4 DEF OutboxOK
  <2>2. \A d \in SentEvents' : \E p \in outbox' : p.event = d.id
    BY <1>1, <1>4 DEF OutboxOK
  <2>3. \A p \in outbox : p.event # q.event /\ p.key # q.key
    BY <1>1, <1>6, Typing DEF OutboxOK, SentEvents
  <2>4. \A p, o \in outbox' : p # o => p.event # o.event /\ p.key # o.key
    BY <1>1, <2>3 DEF OutboxOK
  <2>5. QED
    BY <2>1, <2>2, <2>4 DEF OutboxOK
<1>14. HandOffsSeparatedByEdits'
  <2> SUFFICES ASSUME NEW c \in SentEvents', NEW d \in SentEvents', c.id < d.id
               PROVE  \E f \in events' : f.type # "sent" /\ c.id < f.id /\ f.id < d.id
    BY DEF HandOffsSeparatedByEdits
  <2>1. \A g \in SentEvents : \E f \in events : f.type # "sent" /\ g.id < f.id /\ f.id < e.id
    BY <1>1 DEF Ready
  <2>2. \A g \in SentEvents : g.id < e.id /\ g.id \in Nat
    BY <1>6, <2>1 DEF SentEvents
  <2>3. c # e
    BY <1>4, <1>6, <2>2
  <2>4. CASE d = e
    BY <1>1, <1>4, <2>1, <2>3, <2>4
  <2>5. CASE d # e
    BY <1>1, <1>4, <2>3, <2>5 DEF HandOffsSeparatedByEdits
  <2>6. QED
    BY <2>4, <2>5
<1>15. AlreadySentIsOnFile'
  <2> SUFFICES ASSUME NEW s \in Requests, answer'[s].status \in {"sent", "already_sent"}
               PROVE  \E p \in outbox' : p.key = answer'[s].handoff
    BY DEF AlreadySentIsOnFile
  <2>1. CASE s = r
    BY <1>1, <2>1 DEF TypeOK
  <2>2. CASE s # r
    BY <1>1, <2>2 DEF AlreadySentIsOnFile, TypeOK
  <2>3. QED
    BY <2>1, <2>2
<1>16. StatusFollowsLog'
  <2>1. draft'.status = "sent"
    BY <1>2 DEF Upserted
  <2>2. QED
    BY <1>1, <1>4, <2>1 DEF StatusFollowsLog
<1>17. QED
  BY <1>7, <1>8, <1>9, <1>10, <1>11, <1>12, <1>13, <1>14, <1>15, <1>16

(* A request that dies takes its open transaction and its locks with it.     *)
LEMMA FailInv ==
  ASSUME IndInv, NEW r \in Requests, Fail(r)
  PROVE  IndInv'
<1> USE DEF IndInv
<1>1. /\ pc[r] \in Running /\ pc' = [pc EXCEPT ![r] = "done"]
      /\ advisory' = Released(advisory, r) /\ rowLock' = Released(rowLock, r)
      /\ plan' = [plan EXCEPT ![r] = <<>>] /\ own' = [own EXCEPT ![r] = {}]
      /\ view' = [view EXCEPT ![r] = NoView] /\ inquiry' = [inquiry EXCEPT ![r] = {}]
      /\ fresh' = fresh \ {r} /\ answer' = [answer EXCEPT ![r] = Says("error")]
      /\ UNCHANGED <<nextId, events, draft, outbox, op, session>>
  BY DEF Fail, Forgotten, Finish, Goto, asked
<1>2. \A s \in Requests : /\ pc'[s] = IF s = r THEN "done" ELSE pc[s]
                          /\ own'[s] = IF s = r THEN {} ELSE own[s]
                          /\ inquiry'[s] = IF s = r THEN {} ELSE inquiry[s]
                          /\ plan'[s] = IF s = r THEN <<>> ELSE plan[s]
                          /\ answer'[s] = IF s = r THEN Says("error") ELSE answer[s]
                          /\ IsSend(s)' <=> IsSend(s)
  BY <1>1 DEF TypeOK, IsSend
<1>3. TypeOK'
  <2>1. Says("error") \in [status : Statuses, handoff : Nat]
    BY SaysType DEF Statuses
  <2>2. <<>> \in Seq(Edits)
    OBVIOUS
  <2>3. /\ own' \in [Requests -> SUBSET Event] /\ view' \in [Requests -> View]
        /\ plan' \in [Requests -> Seq(Edits)] /\ inquiry' \in [Requests -> SUBSET Inquiry]
        /\ answer' \in [Requests -> [status : Statuses, handoff : Nat]]
    BY <1>1, <2>1, <2>2, NoViewType DEF TypeOK
  <2>4. /\ pc' \in [Requests -> Running \cup {"idle", "done"}] /\ fresh' \subseteq Requests
        /\ advisory' \in Requests \cup {None} /\ rowLock' \in Requests \cup {None}
    BY <1>1 DEF TypeOK, Released
  <2>5. QED
    BY <1>1, <2>3, <2>4 DEF TypeOK
<1>4. AskedOK'
  <2>1. pc[r] # "idle"
    BY <1>1 DEF Running
  <2>2. QED
    BY <1>1, <1>2, <2>1 DEF AskedOK, PastCheck, HasEvent
<1>5. OwnOK' /\ IdsOK'
  BY <1>1, <1>2 DEF OwnOK, IdsOK, HasEvent
<1>6. LockOK'
  BY <1>1, <1>2 DEF LockOK, PastCheck, HasEvent, Released
<1>7. SenderOK'
  <2>1. \A n : Ready(n)' <=> Ready(n)
    BY <1>1 DEF Ready, SentEvents
  <2>2. QED
    BY <1>1, <1>2, <2>1 DEF SenderOK
<1>8. InquiryOK'
  BY <1>1, <1>2 DEF InquiryOK, Visible
<1>9. OutboxOK' /\ HandOffsSeparatedByEdits' /\ StatusFollowsLog'
  BY <1>1 DEF OutboxOK, HandOffsSeparatedByEdits, StatusFollowsLog, SentEvents
<1>10. AlreadySentIsOnFile'
  <2>1. Says("error").status = "error"
    BY DEF Says
  <2>2. QED
    BY <1>1, <1>2, <2>1 DEF AlreadySentIsOnFile
<1>11. QED
  BY <1>3, <1>4, <1>5, <1>6, <1>7, <1>8, <1>9, <1>10

(* A step that changes nothing keeps the invariant.                          *)
LEMMA StutterInv ==
  ASSUME IndInv, UNCHANGED vars
  PROVE  IndInv'
<1> USE DEF IndInv, vars
<1>1. TypeOK' /\ AskedOK' /\ OwnOK'
  BY DEF TypeOK, AskedOK, OwnOK, IsSend
<1>2. IdsOK' /\ LockOK' /\ InquiryOK'
  BY DEF IdsOK, LockOK, InquiryOK, Visible, IsSend
<1>3. SenderOK'
  BY DEF SenderOK, Ready, SentEvents, IsSend
<1>4. OutboxOK' /\ HandOffsSeparatedByEdits' /\ AlreadySentIsOnFile' /\ StatusFollowsLog'
  BY DEF OutboxOK, HandOffsSeparatedByEdits, AlreadySentIsOnFile, StatusFollowsLog, SentEvents
<1>5. QED
  BY <1>1, <1>2, <1>3, <1>4

(* Every step of a request keeps the invariant.                              *)
LEMMA StepInv ==
  ASSUME IndInv, NEW r \in Requests, Step(r)
  PROVE  IndInv'
<1>1. CASE Guard(r)
  BY <1>1, GuardInv
<1>2. CASE Prepare(r)
  BY <1>2, PrepareInv
<1>3. CASE Insert(r)
  BY <1>3, InsertInv
<1>4. CASE FoldComponents(r) \/ FoldOrder(r)
  BY <1>4, FoldInv
<1>5. CASE CommitEdit(r)
  BY <1>5, CommitEditInv
<1>6. CASE SendAgain(r)
  BY <1>6, SendAgainInv
<1>7. CASE SendUnregistered(r)
  BY <1>7, RejectedInv DEF SendUnregistered, Statuses
<1>8. CASE SendBegin(r)
  BY <1>8, SendBeginInv
<1>9. CASE SendUpsert(r)
  BY <1>9, SendUpsertInv
<1>10. CASE WriteInquiry(r)
  BY <1>10, WriteInquiryInv
<1>11. CASE CommitSend(r)
  BY <1>11, CommitSendInv
<1>12. QED
  BY <1>1, <1>2, <1>3, <1>4, <1>5, <1>6, <1>7, <1>8, <1>9, <1>10, <1>11
  DEF Step, AppendEvent, Send

(* The strengthened invariant holds of every reachable state. *)
THEOREM Inductive == Spec => []IndInv
<1>1. IndInv /\ [Next]_vars => IndInv'
  <2> SUFFICES ASSUME IndInv, [Next]_vars PROVE IndInv'
    OBVIOUS
  <2>1. ASSUME NEW r \in Requests, Arrive(r) PROVE IndInv'
    BY <2>1, ArriveInv
  <2>2. ASSUME NEW r \in Requests, Step(r) PROVE IndInv'
    BY <2>2, StepInv
  <2>3. ASSUME NEW r \in Requests, Fail(r) PROVE IndInv'
    BY <2>3, FailInv
  <2>4. CASE UNCHANGED vars
    BY <2>4, StutterInv
  <2>5. QED
    BY <2>1, <2>2, <2>3, <2>4 DEF Next, AllDone
<1>2. QED
  BY InitInv, <1>1, PTL DEF Spec

(* Every table column and handler local keeps its type. *)
THEOREM TypeCorrect == Spec => []TypeOK
<1>1. IndInv => TypeOK
  BY DEF IndInv
<1>2. QED
  BY <1>1, Inductive, PTL

(* A hand-off and its outbox row are one, however many requests interleave   *)
(* and fail: ON CONFLICT DO NOTHING never drops an inquiry (handoff.py).     *)
THEOREM InquiryPerHandOff == Spec => []OneInquiryPerHandOff
<1>1. IndInv => OneInquiryPerHandOff
  BY DEF IndInv, OutboxOK, OneInquiryPerHandOff
<1>2. QED
  BY <1>1, Inductive, PTL

(* Retries and double clicks of send never make a second hand-off of the     *)
(* same trip state (handler.py, already_sent under the advisory lock).       *)
THEOREM NoRepeatedHandOff == Spec => []HandOffsSeparatedByEdits
<1>1. IndInv => HandOffsSeparatedByEdits
  BY DEF IndInv
<1>2. QED
  BY <1>1, Inductive, PTL

(* The hand-off id a sent or already_sent answer carries is that of a        *)
(* committed inquiry.                                                        *)
THEOREM AnswersAreOnFile == Spec => []AlreadySentIsOnFile
<1>1. IndInv => AlreadySentIsOnFile
  BY DEF IndInv
<1>2. QED
  BY <1>1, Inductive, PTL

(* The projected status agrees with the log: the upsert's sticky `sent` is   *)
(* enough although concurrent upserts fold different logs.                   *)
THEOREM StatusIsSticky == Spec => []StatusFollowsLog
<1>1. IndInv => StatusFollowsLog
  BY DEF IndInv
<1>2. QED
  BY <1>1, Inductive, PTL

-----------------------------------------------------------------------------
(* Committing an edit is the promise's step that records one.                *)
LEMMA EditIsRecorded ==
  ASSUME IndInv, NEW r \in Requests, CommitEdit(r)
  PROVE  Promise!RecordEdit
<1>1. /\ pc[r] = "upsert" /\ ~IsSend(r) /\ events' = events \cup own[r] /\ outbox' = outbox
  BY DEF CommitEdit
<1>2. PICK e \in own[r] : own[r] = {e}
  BY <1>1 DEF IndInv, OwnOK, HasEvent
<1>3. e.type # "sent" /\ \A f \in events : f.id # e.id
  BY <1>1, <1>2 DEF IndInv, OwnOK, IdsOK
<1>4. QED
  BY <1>1, <1>2, <1>3 DEF Promise!RecordEdit, Promise!Appended, Promise!IsSent

(* Committing a send is the promise's one step of event and inquiry.         *)
LEMMA SendIsHandedOver ==
  ASSUME IndInv, NEW r \in Requests, CommitSend(r)
  PROVE  Promise!HandOver
<1>1. PICK e \in own[r], q \in inquiry[r] :
        /\ e.type = "sent" /\ Ready(e.id)
        /\ \A f \in events : f.id # e.id
        /\ q.event = e.id /\ e.id <= q.key
        /\ events' = events \cup {e} /\ outbox' = outbox \cup {q}
        /\ \A p \in outbox : p.key < e.id
  BY SendAdds
<1>2. Promise!EditedSince(e)
  BY <1>1 DEF Ready, SentEvents, Promise!EditedSince, Promise!IsSent
<1>3. e.id \in Nat /\ q.key \in Nat
  BY Typing DEF IndInv
<1>4. e \in events' /\ q \in outbox' /\ q.key >= e.id /\ Promise!IsSent(e) /\ Promise!Appended(e)
  BY <1>1, <1>3 DEF Promise!IsSent, Promise!Appended
<1>5. QED
  BY <1>1, <1>2, <1>4 DEF Promise!HandOver

(* Whatever else a request does, nothing of it is committed: no other request *)
(* and no reader of the outbox sees it.                                       *)
LEMMA OnlyCommitsShow ==
  ASSUME NEW r \in Requests, Arrive(r) \/ Fail(r) \/ Step(r), ~CommitEdit(r), ~CommitSend(r)
  PROVE  events' = events /\ outbox' = outbox
<1>1. CASE Arrive(r) \/ Fail(r)
  BY <1>1 DEF Arrive, Fail, database
<1>2. CASE Guard(r) \/ Prepare(r)
  BY <1>2 DEF Guard, Forbidden, GuardEdit, GuardFreeDay, GuardSend, GuardReader, Pass, Rejected,
              Prepare, PrepareRoute, PrepareNight, PrepareRemoveDay, Prepared, database
<1>3. CASE AppendEvent(r)
  BY <1>3 DEF AppendEvent, Insert, FoldComponents, FoldOrder, database
<1>4. CASE Send(r)
  BY <1>4 DEF Send, SendAgain, SendUnregistered, SendBegin, SendUpsert, WriteInquiry, Rejected, database
<1>5. QED
  BY <1>1, <1>2, <1>3, <1>4 DEF Step

(* The service's statements, interleaved and failing anywhere, keep the      *)
(* promise that a hand-off is one atomic step.                               *)
THEOREM KeepsThePromise == Spec => ImplementsHandOff
<1>1. Init => Promise!Init
  BY DEF Init, Promise!Init
<1>2. IndInv /\ [Next]_vars => [Promise!Next]_<<events, outbox>>
  <2> SUFFICES ASSUME IndInv, [Next]_vars, ~ (events' = events /\ outbox' = outbox)
               PROVE  Promise!Next
    OBVIOUS
  <2>1. PICK r \in Requests : CommitEdit(r) \/ CommitSend(r)
    BY OnlyCommitsShow DEF Next, AllDone, vars, database
  <2>2. QED
    BY <2>1, EditIsRecorded, SendIsHandedOver DEF Promise!Next
<1>3. QED
  BY <1>1, <1>2, Inductive, PTL DEF Spec, ImplementsHandOff, Promise!Spec

-----------------------------------------------------------------------------
(***************************************************************************)
(* When the projection can be trusted: an upsert of trip_drafts no other   *)
(* commit overtook leaves the draft equal to the fold of the whole log.    *)
(* The draft is not always that fold (ProjectionIsFold fails); this is how  *)
(* wrong it can be.                                                        *)
(***************************************************************************)

(* What a request that nothing overtook has folded is still what it sees. *)
FreshOK ==
  \A r \in fresh :
    /\ pc[r] \in HasEvent \ {"fold"}
    /\ pc[r] = "order" => view[r] = [stops |-> Present(Visible(r)), pinned |-> FALSE,
                                     before |-> AddedBefore(Visible(r))]
    /\ pc[r] # "order" => view[r] = Itinerary(Visible(r))

(* At the start nobody has folded.                                           *)
LEMMA InitFresh == Init => FreshOK
  BY DEF Init, FreshOK

(* A step of r before it folds, or one that ends r's transaction. *)
LEMMA OutsideFold ==
  ASSUME TypeOK, FreshOK, NEW r \in Requests,
         events' = events, fresh' = fresh \ {r} \/ (fresh' = fresh /\ r \notin fresh),
         \A s \in Requests : s # r => pc'[s] = pc[s] /\ own'[s] = own[s] /\ view'[s] = view[s]
  PROVE  FreshOK'
<1>1. \A s \in fresh' : s \in fresh /\ s # r /\ s \in Requests
  BY DEF TypeOK
<1>2. \A s \in fresh' : Visible(s)' = Visible(s)
  BY <1>1 DEF Visible
<1>3. QED
  BY <1>1, <1>2 DEF FreshOK

(* A request that folds now has folded what is committed now.                *)
LEMMA FoldFresh ==
  ASSUME TypeOK, FreshOK, NEW r \in Requests, FoldComponents(r)
  PROVE  FreshOK'
<1>1. /\ view' = [view EXCEPT ![r] = [stops |-> Present(Visible(r)), pinned |-> FALSE,
                                     before |-> AddedBefore(Visible(r))]]
      /\ pc' = [pc EXCEPT ![r] = "order"] /\ fresh' = fresh \cup {r}
      /\ events' = events /\ own' = own
  BY DEF FoldComponents, Goto
<1>2. \A s \in Requests : Visible(s)' = Visible(s)
  BY <1>1 DEF Visible
<1> SUFFICES ASSUME NEW s \in fresh'
             PROVE  /\ pc'[s] \in HasEvent \ {"fold"}
                    /\ pc'[s] = "order" => view'[s] = [stops |-> Present(Visible(s)), pinned |-> FALSE,
                                                       before |-> AddedBefore(Visible(s))]
                    /\ pc'[s] # "order" => view'[s] = Itinerary(Visible(s))
  <2>1. \A s \in fresh' : s \in Requests
    BY <1>1 DEF TypeOK
  <2>2. \A s \in fresh' : Visible(s)' = Visible(s)
    BY <1>2, <2>1
  <2>3. QED
    BY <2>2 DEF FreshOK, Itinerary
<1>3. s \in Requests
  BY <1>1 DEF TypeOK
<1>4. CASE s = r
  BY <1>1, <1>4 DEF TypeOK, HasEvent
<1>5. CASE s # r
  BY <1>1, <1>3, <1>5 DEF TypeOK, FreshOK
<1>6. QED
  BY <1>4, <1>5

(* The second fold of a request nobody overtook sees the log of the first.   *)
LEMMA OrderFresh ==
  ASSUME TypeOK, FreshOK, NEW r \in Requests, FoldOrder(r)
  PROVE  FreshOK'
<1>1. /\ pc[r] = "order" /\ pc' = [pc EXCEPT ![r] = "upsert"]
      /\ view' = [view EXCEPT ![r] =
                    Arrange(view[r].stops, view[r].before, LatestExplicitOrder(Visible(r)))]
      /\ fresh' = fresh /\ events' = events /\ own' = own
  BY DEF FoldOrder, Goto, database
<1>2. \A s \in fresh : s \in Requests /\ Visible(s)' = Visible(s)
  BY <1>1 DEF Visible, TypeOK
<1>3. r \in fresh => view'[r] = Itinerary(Visible(r))
  <2>1. r \in fresh => /\ view[r].stops = Present(Visible(r))
                       /\ view[r].before = AddedBefore(Visible(r))
    <3>1. r \in fresh => view[r] = [stops |-> Present(Visible(r)), pinned |-> FALSE,
                                    before |-> AddedBefore(Visible(r))]
      BY <1>1, Zenon DEF FreshOK
    <3>2. QED
      BY <3>1
  <2>2. view'[r] = Arrange(view[r].stops, view[r].before, LatestExplicitOrder(Visible(r)))
    BY <1>1 DEF TypeOK
  <2>3. QED
    BY <2>1, <2>2 DEF Itinerary
<1>4. pc'[r] = "upsert" /\ \A s \in Requests : s # r => pc'[s] = pc[s] /\ view'[s] = view[s]
  BY <1>1 DEF TypeOK
<1>5. QED
  BY <1>1, <1>2, <1>3, <1>4 DEF FreshOK, HasEvent, Itinerary

(* A send between its fold and its commit keeps what it folded. *)
LEMMA HoldingFresh ==
  ASSUME TypeOK, FreshOK, NEW r \in Requests, SendUpsert(r) \/ WriteInquiry(r)
  PROVE  FreshOK'
<1>1. /\ pc[r] \in {"upsert", "handoff"}
      /\ pc' = [pc EXCEPT ![r] = "handoff"] \/ pc' = [pc EXCEPT ![r] = "notify"]
      /\ view' = view /\ fresh' = fresh /\ events' = events /\ own' = own
  BY DEF SendUpsert, WriteInquiry, Goto, database, working
<1>2. \A s \in fresh : s \in Requests /\ Visible(s)' = Visible(s)
  BY <1>1 DEF Visible, TypeOK
<1>3. pc'[r] \in {"handoff", "notify"} /\ \A s \in Requests : s # r => pc'[s] = pc[s]
  BY <1>1 DEF TypeOK
<1>4. QED
  BY <1>1, <1>2, <1>3 DEF FreshOK, HasEvent, Itinerary

(* Every step keeps the folds of the requests nobody overtook exact.         *)
LEMMA StepFresh ==
  ASSUME TypeOK, FreshOK, [Next]_vars
  PROVE  FreshOK'
<1>1. ASSUME NEW r \in Requests, Arrive(r) \/ Guard(r) \/ Prepare(r) \/ Insert(r) \/ SendAgain(r)
                                   \/ SendUnregistered(r) \/ SendBegin(r)
      PROVE  FreshOK'
  <2>1. pc[r] \in {"idle", "guard", "prepare", "insert", "lock"}
    BY <1>1 DEF Arrive, Guard, Forbidden, GuardEdit, GuardFreeDay, GuardSend, GuardReader, Pass,
                Prepare, PrepareRoute, PrepareNight, PrepareRemoveDay, Insert, SendAgain,
                SendUnregistered, SendBegin
  <2>2. r \notin fresh
    BY <2>1 DEF FreshOK, HasEvent
  <2>3. events' = events /\ fresh' = fresh /\ view' = view
    BY <1>1 DEF Arrive, Guard, Forbidden, GuardEdit, GuardFreeDay, GuardSend, GuardReader, Pass,
                Prepare, PrepareRoute, PrepareNight, PrepareRemoveDay, Prepared, Rejected, Insert,
                SendAgain, SendUnregistered, SendBegin, database, working
  <2>4. (\E label : pc' = [pc EXCEPT ![r] = label]) /\ (own' = own \/ \E x : own' = [own EXCEPT ![r] = x])
    BY <1>1 DEF Arrive, Guard, Forbidden, GuardEdit, GuardFreeDay, GuardSend, GuardReader, Pass,
                Prepare, PrepareRoute, PrepareNight, PrepareRemoveDay, Prepared, Rejected, Insert,
                SendAgain, SendUnregistered, SendBegin, working, Finish, Goto
  <2>5. \A s \in Requests : s # r => pc'[s] = pc[s] /\ own'[s] = own[s] /\ view'[s] = view[s]
    BY <2>3, <2>4 DEF TypeOK
  <2>6. QED
    BY <2>2, <2>3, <2>5, OutsideFold
<1>2. ASSUME NEW r \in Requests, CommitEdit(r) \/ CommitSend(r)
      PROVE  FreshOK'
  BY <1>2 DEF CommitEdit, CommitSend, FreshOK
<1>3. ASSUME NEW r \in Requests, Fail(r)
      PROVE  FreshOK'
  <2>1. \A s \in Requests : s # r => pc'[s] = pc[s] /\ own'[s] = own[s] /\ view'[s] = view[s]
    BY <1>3 DEF Fail, Forgotten, Finish, Goto, TypeOK
  <2>2. QED
    BY <1>3, <2>1, OutsideFold DEF Fail
<1>4. ASSUME NEW r \in Requests, FoldComponents(r) \/ FoldOrder(r) \/ SendUpsert(r) \/ WriteInquiry(r)
      PROVE  FreshOK'
  BY <1>4, FoldFresh, OrderFresh, HoldingFresh
<1>5. CASE UNCHANGED vars
  <2>1. \A s : Visible(s)' = Visible(s)
    BY <1>5 DEF vars, Visible
  <2>2. QED
    BY <1>5, <2>1 DEF vars, FreshOK, Itinerary
<1>6. QED
  BY <1>1, <1>2, <1>3, <1>4, <1>5 DEF Next, AllDone, Step, AppendEvent, Send

(* What the write of the draft leaves, for the request r that commits. *)
LEMMA CommitIsExact ==
  ASSUME IndInv, FreshOK, NEW r \in fresh, CommitEdit(r) \/ CommitSend(r)
  PROVE  draft'.itinerary = Itinerary(events')
<1>1. pc[r] \in {"upsert", "notify"} /\ events' = Visible(r)
  BY DEF CommitEdit, CommitSend, Visible
<1>2. view[r] = Itinerary(Visible(r))
  BY <1>1 DEF FreshOK
<1>3. draft'.itinerary = view[r]
  BY DEF CommitEdit, CommitSend, Upserted
<1>4. QED
  BY <1>1, <1>2, <1>3

(* The draft an upsert writes is the fold of the whole log, unless another   *)
(* request committed after the writer folded (events.py, append_event).      *)
THEOREM ExactUnlessOvertaken == Spec => UnovertakenWriteIsExact
<1> DEFINE Exact == \A r \in fresh : events' # events /\ own[r] # {} /\ own'[r] = {}
                                       => draft'.itinerary = Itinerary(events')
<1>1. IndInv /\ FreshOK /\ [Next]_vars => FreshOK'
  BY StepFresh DEF IndInv
<1>2. IndInv /\ FreshOK /\ [Next]_vars => [Exact]_vars
  <2> SUFFICES ASSUME IndInv, FreshOK, [Next]_vars, NEW r \in fresh,
                      events' # events, own[r] # {}, own'[r] = {}
               PROVE  draft'.itinerary = Itinerary(events')
    OBVIOUS
  <2>1. PICK s \in Requests : CommitEdit(s) \/ CommitSend(s)
    BY DEF Next, AllDone, vars, Step, Guard, Forbidden, GuardEdit, GuardFreeDay, GuardSend, GuardReader,
           Pass, Prepare, PrepareRoute, PrepareNight, PrepareRemoveDay, Prepared, Rejected, AppendEvent,
           Insert, FoldComponents, FoldOrder, Send, SendAgain, SendUnregistered, SendBegin, SendUpsert,
           WriteInquiry, Arrive, Fail, database
  <2>2. s = r
    <3>1. own' = [own EXCEPT ![s] = {}]
      BY <2>1 DEF CommitEdit, CommitSend, Forgotten
    <3>2. r \in Requests /\ own \in [Requests -> SUBSET Event]
      BY DEF IndInv, TypeOK
    <3>3. QED
      BY <3>1, <3>2
  <2>3. QED
    BY <2>1, <2>2, CommitIsExact
<1>3. QED
  BY InitFresh, Inductive, <1>1, <1>2, PTL DEF Spec, UnovertakenWriteIsExact
=============================================================================
