----------------------------- MODULE Sessions -----------------------------
(***************************************************************************)
(* Who may change or read a trip: the guest sessions of the assembly       *)
(* service (tripplanner.sessions), the token each is bound to, the account *)
(* and the customer it is linked to, and the session that owns a trip.     *)
(*                                                                         *)
(* Requests run concurrently, one Lambda container each; a step is one SQL *)
(* statement at READ COMMITTED, or a short transaction that reads nothing  *)
(* another step could change.  A send is one long transaction: it holds    *)
(* the advisory lock of its trip, the row locks of the session and the     *)
(* draft it writes, and a customer row nobody else sees before it commits. *)
(* A request may fail at any step; its open transaction rolls back.        *)
(***************************************************************************)
EXTENDS FiniteSets

CONSTANTS
  Requests,    \* the HTTP calls of a behaviour, each served once
  SessionIds,  \* the session ids a browser may send
  Tokens,      \* well-formed guest tokens; a stored hash is named by its token
  Malformed,   \* a header value that is not a token
  Principals,  \* verified (iss, sub) identities, each the account of its own
  Trips,
  Contacts,    \* [phone, email] records, of which one may be None
  Legacy,      \* the sessions that exist from before the tokens, with no hash
  Workload,    \* the calls that may be made (a subset of Calls)
  None

Calls ==
  [kind : {"edit", "send", "read", "trips", "claim"}, session : SessionIds,
   token : Tokens \cup {Malformed, None}, caller : Principals \cup {None},
   trip : Trips, contact : Contacts \cup {None}]

ASSUME WorkloadAssumption == Workload \subseteq Calls

ASSUME LegacyAssumption == Legacy \subseteq SessionIds

ASSUME NoneAssumption ==
  None \notin UNION {Requests, SessionIds, Tokens, Principals, Contacts, Workload, {Malformed}}

ASSUME MalformedAssumption == Malformed \notin Tokens

VARIABLES
  sessions,   \* tripplanner.sessions: the committed rows, by id
  owner,      \* the session_id of a trip's draft, or None before its first event
  customers,  \* the contacts of the committed tripplanner.customers rows
  events,     \* committed trip_events: which request changed which trip
  inquiries,  \* committed outbox rows: the contact a send handed off
  locks,      \* the request that holds a lock across steps, or None
  grace,      \* whether GUEST_LEGACY_GRACE_UNTIL is still ahead
  pc,         \* where each request is
  op,         \* what it asks for
  way,        \* what let it through the guard
  pending,    \* the customer its open transaction inserted
  handed,     \* the contact of its open transaction's inquiry
  answer,
  shown       \* the trips a read shows

vars == <<sessions, owner, customers, events, inquiries, locks, grace,
          pc, op, way, pending, handed, answer, shown>>

tables == <<sessions, owner, customers, events, inquiries>>
local == <<way, pending, handed>>

-----------------------------------------------------------------------------
Row == [hash : Tokens \cup {None}, account : Principals \cup {None},
        customer : Contacts \cup {None}]

NewRow(t) == [hash |-> t, account |-> None, customer |-> None]

Known(s) == s \in DOMAIN sessions
Hash(s) == IF Known(s) THEN sessions[s].hash ELSE None
Account(s) == IF Known(s) THEN sessions[s].account ELSE None

(* A session from before the tokens. *)
Unbound(s) == Known(s) /\ sessions[s].hash = None

Signed(r) == op[r].caller # None

(* owns_session; owns_trip and list_trips ask the same of the trip's owner.  *)
OwnsSession(p, s) == p # None /\ Account(s) = p

OwnsTrip(p, t) == owner[t] # None /\ OwnsSession(p, owner[t])

(* An existing customer has the phone or the email. *)
SameContact(c, d) ==
  \/ c.phone # None /\ c.phone = d.phone
  \/ c.email # None /\ c.email = d.email

(* A transaction holds the send lock of a trip, the row of a draft, the row  *)
(* of a session.                                                             *)
Lockables == ({"send", "draft"} \X Trips) \cup ({"session"} \X SessionIds)

Free(k, r) == locks[k] \in {None, r}
Take(k, r) == Free(k, r) /\ locks' = [locks EXCEPT ![k] = r]

Drop(r) == locks' = [k \in Lockables |-> IF locks[k] = r THEN None ELSE locks[k]]

Init ==
  /\ sessions = [s \in Legacy |-> NewRow(None)]
  /\ owner = [t \in Trips |-> None]
  /\ customers = {} /\ events = {} /\ inquiries = {}
  /\ locks = [k \in Lockables |-> None]
  /\ grace \in BOOLEAN
  /\ pc = [r \in Requests |-> "idle"]
  /\ op = [r \in Requests |-> None]
  /\ way = [r \in Requests |-> "none"]
  /\ pending = [r \in Requests |-> None]
  /\ handed = [r \in Requests |-> None]
  /\ answer = [r \in Requests |-> None]
  /\ shown = [r \in Requests |-> {}]

Goto(r, to) == pc' = [pc EXCEPT ![r] = to]
Stay == UNCHANGED <<op, answer, shown, grace>>

Answer(r, code, trips) ==
  /\ Goto(r, "done")
  /\ answer' = [answer EXCEPT ![r] = code]
  /\ shown' = [shown EXCEPT ![r] = trips]
  /\ UNCHANGED <<op, grace>>

First(c) ==
  CASE c.kind = "read" -> "show"
    [] c.kind \in {"trips", "claim"} -> "me"
    [] OTHER -> "authorize"

Arrive(r) ==
  /\ pc[r] = "idle"
  /\ \E c \in Workload : Goto(r, First(c)) /\ op' = [op EXCEPT ![r] = c]
  /\ UNCHANGED <<tables, locks, local, answer, shown, grace>>

CloseGrace ==
  /\ grace
  /\ grace' = FALSE
  /\ UNCHANGED <<tables, locks, local, pc, op, answer, shown>>

-----------------------------------------------------------------------------
(* The guard of a mutation: prove the session, then the trip.               *)

(* What the first read of the session decides. *)
Checked(r) ==
  LET s == op[r].session
      t == op[r].token
  IN CASE t = Malformed                             -> "denied"
       [] t \in Tokens /\ ~Known(s)                 -> "insert"
       [] t \in Tokens /\ Hash(s) = t               -> "owner"
       [] t \in Tokens /\ Unbound(s) /\ grace       -> "bind"
       [] t = None /\ ~Known(s) /\ grace            -> "insert"
       [] t = None /\ Unbound(s) /\ grace           -> "owner"
       [] OTHER                                     -> "denied"

Authorize(r) ==
  /\ pc[r] = "authorize"
  /\ Goto(r, Checked(r))
  /\ way' = [way EXCEPT ![r] = IF Checked(r) = "denied" THEN "none"
                               ELSE IF op[r].token = None THEN "tokenless"
                               ELSE IF Checked(r) = "bind" THEN "bound" ELSE "token"]
  /\ Stay
  /\ UNCHANGED <<tables, locks, pending, handed>>

(* ON CONFLICT DO NOTHING: a concurrent first request may have won. *)
Insert(r) ==
  /\ pc[r] = "insert"
  /\ sessions' = [s \in DOMAIN sessions \cup {op[r].session} |->
                    IF Known(s) THEN sessions[s] ELSE NewRow(op[r].token)]
  /\ Goto(r, IF op[r].token = None THEN "owner" ELSE "reread")
  /\ Stay
  /\ UNCHANGED <<owner, customers, events, inquiries, locks, local>>

Bind(r) ==
  /\ pc[r] = "bind"
  /\ Hash(op[r].session) = None => Free(<<"session", op[r].session>>, r)
  /\ sessions' = [sessions EXCEPT ![op[r].session].hash = IF @ = None THEN op[r].token ELSE @]
  /\ Goto(r, "reread")
  /\ Stay
  /\ UNCHANGED <<owner, customers, events, inquiries, locks, local>>

(* Mutant: the insert is taken to have stored this request's token. *)
Mut_TrustInsert(r) ==
  /\ pc[r] = "reread"
  /\ Goto(r, "owner")
  /\ Stay
  /\ UNCHANGED <<tables, locks, local>>

Reread(r) ==
  /\ pc[r] = "reread"
  /\ \/ Hash(op[r].session) = op[r].token /\ Goto(r, "owner") /\ way' = way
     \/ /\ Hash(op[r].session) # op[r].token
        /\ Goto(r, "denied")
        /\ way' = [way EXCEPT ![r] = "none"]
  /\ Stay
  /\ UNCHANGED <<tables, locks, pending, handed>>

(* A signed-in caller passes when the account owns the session. *)
Vouch(r) ==
  /\ pc[r] = "denied"
  /\ \/ /\ OwnsSession(op[r].caller, op[r].session)
        /\ Goto(r, "owner")
        /\ way' = [way EXCEPT ![r] = "account"]
        /\ Stay
     \/ ~OwnsSession(op[r].caller, op[r].session) /\ Answer(r, "401", {}) /\ way' = way
  /\ UNCHANGED <<tables, locks, pending, handed>>

IsForeign(r) == owner[op[r].trip] \notin {None, op[r].session}

(* Mutant: whatever let the caller through, the account takes the session. *)
Mut_LinkAnyWay(r) ==
  /\ pc[r] = "owner"
  /\ \/ IsForeign(r) /\ Answer(r, "403", {})
     \/ /\ ~IsForeign(r)
        /\ Goto(r, IF Signed(r) THEN "link" ELSE op[r].kind)
        /\ Stay
  /\ UNCHANGED <<tables, locks, local>>

(* The trip must be the session's; a trip with no draft has no owner yet. *)
Owner(r) ==
  /\ pc[r] = "owner"
  /\ \/ IsForeign(r) /\ Answer(r, "403", {})
     \/ /\ ~IsForeign(r)
        /\ Goto(r, IF Signed(r) /\ way[r] = "token" THEN "link" ELSE op[r].kind)
        /\ Stay
  /\ UNCHANGED <<tables, locks, local>>

(* Mutant: the last account to use a session takes it. *)
Mut_Taken(row, p) == [row EXCEPT !.account = p]

Linked(row, p) == IF row.account = None THEN [row EXCEPT !.account = p] ELSE row

LinkSession(r) ==
  /\ pc[r] = "link"
  /\ Account(op[r].session) = None => Free(<<"session", op[r].session>>, r)
  /\ sessions' = [sessions EXCEPT ![op[r].session] = Linked(@, op[r].caller)]
  /\ Goto(r, op[r].kind)
  /\ Stay
  /\ UNCHANGED <<owner, customers, events, inquiries, locks, local>>

Event(r) == [by |-> r, trip |-> op[r].trip, session |-> op[r].session]

(* append_event: the upsert keeps the session of an existing draft. *)
Append(r) ==
  /\ owner' = [owner EXCEPT ![op[r].trip] = IF @ = None THEN op[r].session ELSE @]
  /\ events' = events \cup {Event(r)}

Edit(r) ==
  /\ pc[r] = "edit"
  /\ Free(<<"draft", op[r].trip>>, r)
  /\ Append(r)
  /\ Answer(r, "ok", {})
  /\ UNCHANGED <<sessions, customers, inquiries, locks, local>>

-----------------------------------------------------------------------------
(* Send-to-advisor: who the inquiry is from.                                 *)

SendLock(r) ==
  /\ pc[r] = "send"
  /\ Take(<<"send", op[r].trip>>, r)
  /\ Goto(r, "registered")
  /\ Stay
  /\ UNCHANGED <<tables, local>>

Registered(s) == sessions[s].customer # None

(* A signed-in caller needs a name, a guest a contact; a session that is     *)
(* registered already has both.                                              *)
CheckRegistered(r) ==
  /\ pc[r] = "registered"
  /\ \/ /\ Registered(op[r].session) \/ (Signed(r) /\ op[r].contact # None)
        /\ Goto(r, "append") /\ Stay /\ UNCHANGED locks
     \/ /\ ~Registered(op[r].session) /\ ~Signed(r) /\ op[r].contact # None
        /\ Goto(r, "find") /\ Stay /\ UNCHANGED locks
     \/ /\ ~Registered(op[r].session) /\ op[r].contact = None
        /\ Answer(r, "422", {}) /\ Drop(r)
  /\ UNCHANGED <<tables, local>>

(* Mutant: the session is linked to the customer its contact matches. *)
Mut_LinkExisting(r) ==
  LET found == {c \in customers : SameContact(c, op[r].contact)}
  IN /\ pc[r] = "find"
     /\ Goto(r, IF found # {} THEN "append" ELSE "register")
     /\ sessions' = [sessions EXCEPT ![op[r].session].customer =
                       IF found # {} THEN CHOOSE c \in found : TRUE ELSE @]
     /\ Stay
     /\ UNCHANGED <<owner, customers, events, inquiries, locks, local>>

(* A contact somebody has already is not linked: handed off as submitted.    *)
FindExisting(r) ==
  /\ pc[r] = "find"
  /\ Goto(r, IF \E c \in customers : SameContact(c, op[r].contact) THEN "submitted" ELSE "register")
  /\ Stay
  /\ UNCHANGED <<tables, locks, local>>

(* The unique indexes: wait for a transaction that has inserted the phone or *)
(* the email, fail when it committed.                                        *)
Register(r) ==
  /\ pc[r] = "register"
  /\ ~\E q \in Requests \ {r} : pending[q] # None /\ SameContact(pending[q], op[r].contact)
  /\ \/ /\ \E c \in customers : SameContact(c, op[r].contact)
        /\ Answer(r, "500", {}) /\ Drop(r) /\ pending' = pending
     \/ /\ ~\E c \in customers : SameContact(c, op[r].contact)
        /\ pending' = [pending EXCEPT ![r] = op[r].contact]
        /\ Goto(r, "attach") /\ Stay /\ UNCHANGED locks
  /\ UNCHANGED <<tables, way, handed>>

Attach(r) ==
  /\ pc[r] = "attach"
  /\ Take(<<"session", op[r].session>>, r)
  /\ Goto(r, "append")
  /\ Stay
  /\ UNCHANGED <<tables, local>>

(* load_customer sees what the transaction attached, or what is committed.   *)
Customer(r) == IF pending[r] # None THEN pending[r] ELSE sessions[op[r].session].customer

Handed(r) ==
  IF Signed(r) THEN op[r].caller
  ELSE IF Customer(r) # None THEN Customer(r) ELSE op[r].contact

AppendSent(r) ==
  /\ pc[r] \in {"append", "submitted"}
  /\ Take(<<"draft", op[r].trip>>, r)
  /\ handed' = [handed EXCEPT ![r] = Handed(r)]
  /\ Goto(r, "commit")
  /\ Stay
  /\ UNCHANGED <<tables, way, pending>>

Commit(r) ==
  /\ pc[r] = "commit"
  /\ Append(r)
  /\ inquiries' = inquiries \cup {[by |-> r, session |-> op[r].session, contact |-> handed[r]]}
  /\ customers' = customers \cup ({pending[r]} \ {None})
  /\ sessions' = IF pending[r] = None THEN sessions
                 ELSE [sessions EXCEPT ![op[r].session].customer = pending[r]]
  /\ Drop(r)
  /\ pending' = [pending EXCEPT ![r] = None]
  /\ Answer(r, "ok", {})
  /\ UNCHANGED <<way, handed>>

-----------------------------------------------------------------------------
(* Reads and the signed-in traveller's own routes.                           *)

(* The owner's token reads a trip, or its account; all else is a 404. *)
MayRead(r) ==
  LET t == op[r].trip
  IN \/ op[r].token \in Tokens /\ owner[t] # None /\ Hash(owner[t]) = op[r].token
     \/ OwnsTrip(op[r].caller, t)

Show(r) ==
  /\ pc[r] = "show"
  /\ \/ MayRead(r) /\ Answer(r, "ok", {op[r].trip})
     \/ ~MayRead(r) /\ Answer(r, "404", {})
  /\ UNCHANGED <<tables, locks, local>>

MeRefused(r) ==
  /\ pc[r] = "me" /\ ~Signed(r)
  /\ Answer(r, "401", {})
  /\ UNCHANGED <<tables, locks, local>>

MyTrips(r) ==
  /\ pc[r] = "me" /\ Signed(r) /\ op[r].kind = "trips"
  /\ Answer(r, "ok", {t \in Trips : OwnsTrip(op[r].caller, t)})
  /\ UNCHANGED <<tables, locks, local>>

(* The sessions a guest token proves; a malformed or absent one proves none. *)
Claimable(t) == {s \in DOMAIN sessions : t \in Tokens /\ sessions[s].hash = t}

Claim(r) ==
  /\ pc[r] = "me" /\ Signed(r) /\ op[r].kind = "claim"
  /\ \A s \in Claimable(op[r].token) : sessions[s].account = None => Free(<<"session", s>>, r)
  /\ sessions' = [s \in DOMAIN sessions |-> IF s \in Claimable(op[r].token)
                                            THEN Linked(sessions[s], op[r].caller) ELSE sessions[s]]
  /\ Answer(r, "ok", {})
  /\ UNCHANGED <<owner, customers, events, inquiries, locks, local>>

(* A statement fails, the connection breaks or the container dies. *)
Fail(r) ==
  /\ pc[r] \notin {"idle", "done"}
  /\ Answer(r, "500", {})
  /\ Drop(r)
  /\ pending' = [pending EXCEPT ![r] = None]
  /\ UNCHANGED <<tables, way, handed>>

Over == \A r \in Requests : pc[r] = "done"

Next ==
  \/ \E r \in Requests :
       \/ Arrive(r) \/ Authorize(r) \/ Insert(r) \/ Bind(r) \/ Reread(r) \/ Vouch(r)
       \/ Owner(r) \/ LinkSession(r) \/ Edit(r)
       \/ SendLock(r) \/ CheckRegistered(r) \/ FindExisting(r) \/ Register(r) \/ Attach(r)
       \/ AppendSent(r) \/ Commit(r)
       \/ Show(r) \/ MeRefused(r) \/ MyTrips(r) \/ Claim(r)
       \/ Fail(r)
  \/ CloseGrace
  \/ Over /\ UNCHANGED vars

Spec == Init /\ [][Next]_vars

-----------------------------------------------------------------------------
Codes == {"ok", "401", "403", "404", "422", "500"}

Places ==
  {"idle", "authorize", "insert", "bind", "reread", "denied", "owner", "link", "edit", "send",
   "registered", "find", "register", "attach", "append", "submitted", "commit", "show", "me", "done"}

(* The type of every variable; only a request under way holds a lock or an   *)
(* uncommitted customer.                                                     *)
TypeOK ==
  /\ DOMAIN sessions \subseteq SessionIds
  /\ \A s \in DOMAIN sessions : sessions[s] \in Row
  /\ owner \in [Trips -> SessionIds \cup {None}]
  /\ customers \subseteq Contacts
  /\ events \subseteq [by : Requests, trip : Trips, session : SessionIds]
  /\ inquiries \subseteq [by : Requests, session : SessionIds, contact : Contacts \cup Principals]
  /\ locks \in [Lockables -> Requests \cup {None}]
  /\ grace \in BOOLEAN
  /\ pc \in [Requests -> Places]
  /\ op \in [Requests -> Workload \cup {None}]
  /\ way \in [Requests -> {"none", "token", "bound", "tokenless", "account"}]
  /\ pending \in [Requests -> Contacts \cup {None}]
  /\ handed \in [Requests -> Contacts \cup Principals \cup {None}]
  /\ answer \in [Requests -> Codes \cup {None}]
  /\ shown \in [Requests -> SUBSET Trips]
  /\ \A k \in Lockables : locks[k] # None => pc[locks[k]] \notin {"idle", "done"}
  /\ \A r \in Requests : pending[r] # None => pc[r] \in {"attach", "append", "commit"}

(* What a token or an account proves of a session. *)
Proves(r, s) ==
  \/ op[r].token \in Tokens /\ op[r].token = Hash(s)
  \/ OwnsSession(op[r].caller, s)

(* A trip changes only on behalf of a session whose token, or whose account, *)
(* came with the request: whatever other requests made of the session while  *)
(* the guard ran, and since.  A request with no token passes in the grace    *)
(* window only; and what a read answered with are trips of sessions the      *)
(* caller proves (guest_session.authorize, handler._guard, account.py).      *)
OnlyByTheOwner ==
  /\ \A e \in events : Proves(e.by, e.session) \/ (op[e.by].token = None /\ way[e.by] = "tokenless")
  /\ \A r \in Requests : \A t \in shown[r] : owner[t] # None /\ Proves(r, owner[t])

(* An account holds a session only after one of its requests brought the     *)
(* token the session is bound to: an account cannot take a session by its    *)
(* id, by another account's use of it, or by a claim with no token.          *)
LinkIsProven ==
  \A s \in DOMAIN sessions :
    sessions[s].account # None =>
      \E r \in Requests : /\ op[r] # None
                          /\ op[r].caller = sessions[s].account
                          /\ op[r].token = sessions[s].hash

(* Typing a contact proves nothing (registration.py): what a session hands   *)
(* off, and the customer it is attached to, was submitted in that session,   *)
(* or is the identity of the signed-in sender.                               *)
SubmittedIn(s, c) ==
  \E r \in Requests : /\ op[r] # None /\ op[r].session = s /\ op[r].contact = c
                      /\ way[r] # "none"

ContactsStay ==
  /\ \A s \in DOMAIN sessions :
       sessions[s].customer # None => SubmittedIn(s, sessions[s].customer)
  /\ \A i \in inquiries : \/ SubmittedIn(i.session, i.contact)
                          \/ i.contact \in Principals /\ i.contact = op[i.by].caller

(* A session's token, its account and a trip's owner are settled once.       *)
NeverMoved ==
  [][/\ \A s \in DOMAIN sessions :
          /\ s \in DOMAIN sessions'
          /\ sessions[s].hash # None => sessions'[s].hash = sessions[s].hash
          /\ sessions[s].account # None => sessions'[s].account = sessions[s].account
     /\ \A t \in Trips : owner[t] # None => owner'[t] = owner[t]]_vars

(* "Hand off exactly what this request submitted instead" (handler.py:256):  *)
(* not when another send of the session registers a contact meanwhile.       *)
SubmittedIsHandedOff ==
  [][\A r \in Requests :
       pc[r] = "submitted" /\ pc'[r] = "commit" => handed'[r] = op[r].contact]_vars
=============================================================================
