-------------------------- MODULE SessionsProofs --------------------------
(***************************************************************************)
(* Proofs about Sessions, for any sets of requests, sessions, tokens,      *)
(* accounts, trips and contacts, and any calls.                            *)
(*                                                                         *)
(* What let a request through is read before the statements it is for, and *)
(* is still true of them: a session's token, its account and a trip's      *)
(* owner are settled once (Monotone).                                      *)
(***************************************************************************)
EXTENDS Sessions, TLAPS

(* Where a mutation is before and after its guard. *)
Guarding == {"authorize", "insert", "bind", "reread", "denied"}

Sending == {"registered", "find", "register", "attach", "append", "submitted", "commit"}

Past == {"owner", "link", "edit", "send"} \cup Sending

(* The guard's reason, of the session as it is now. *)
Cleared(r) ==
  /\ Known(op[r].session)
  /\ \/ /\ way[r] \in {"token", "bound"}
        /\ op[r].token \in Tokens
        /\ Hash(op[r].session) = op[r].token
     \/ way[r] = "tokenless" /\ op[r].token = None
     \/ way[r] = "account" /\ OwnsSession(op[r].caller, op[r].session)

GuardOK ==
  \A r \in Requests :
    /\ pc[r] = "insert" => \/ way[r] = "token" /\ op[r].token \in Tokens
                           \/ way[r] = "tokenless" /\ op[r].token = None
    /\ pc[r] \in {"bind", "reread"} =>
         way[r] \in {"token", "bound"} /\ op[r].token \in Tokens /\ Known(op[r].session)
    /\ pc[r] \in Past => Cleared(r)
    /\ pc[r] = "link" => way[r] = "token" /\ Signed(r)

CallOK ==
  \A r \in Requests :
    /\ pc[r] = "idle" => op[r] = None
    /\ pc[r] # "idle" => op[r] \in Workload
    /\ pc[r] \in Guarding \cup Past => op[r].kind \in {"edit", "send"}

(* A lock is held by a send between two of its steps. *)
LockOK == \A k \in Lockables : locks[k] # None => pc[locks[k]] \in Sending

(* Who a send is from, while it is under way. *)
SenderOK ==
  \A r \in Requests :
    /\ pending[r] # None => pending[r] = op[r].contact
    /\ pc[r] = "attach" => pending[r] # None
    /\ pc[r] \in {"find", "register", "attach", "submitted"} => op[r].contact # None
    /\ pc[r] = "append" =>
         Signed(r) \/ pending[r] # None \/ Registered(op[r].session)

(* What was submitted by a request that is past the guard. *)
Submitted(s, c) ==
  \E r \in Requests : /\ pc[r] \in Past \cup {"done"} /\ way[r] # "none"
                      /\ op[r].session = s /\ op[r].contact = c

HandedOK ==
  \A r \in Requests : pc[r] = "commit" =>
    /\ handed[r] # None
    /\ \/ Submitted(op[r].session, handed[r])
       \/ Signed(r) /\ handed[r] = op[r].caller

(* What the tables say of requests that are done, and of their contacts. *)
EventOK == \A e \in events : pc[e.by] = "done" /\ e.session = op[e.by].session /\ Cleared(e.by)

ShownOK ==
  \A r \in Requests : \A t \in shown[r] :
    pc[r] = "done" /\ owner[t] # None /\ Proves(r, owner[t])

LinkOK ==
  \A s \in DOMAIN sessions : sessions[s].account # None =>
    \E r \in Requests : /\ op[r] # None /\ op[r].token \in Tokens
                        /\ op[r].caller = sessions[s].account
                        /\ op[r].token = sessions[s].hash

ContactOK ==
  /\ \A s \in DOMAIN sessions :
       sessions[s].customer # None => Submitted(s, sessions[s].customer)
  /\ \A i \in inquiries :
       /\ pc[i.by] = "done"
       /\ \/ Submitted(i.session, i.contact)
          \/ i.contact \in Principals /\ i.contact = op[i.by].caller

IndInv ==
  /\ TypeOK
  /\ CallOK
  /\ GuardOK
  /\ LockOK
  /\ SenderOK
  /\ HandedOK
  /\ EventOK
  /\ ShownOK
  /\ LinkOK
  /\ ContactOK

Step(r) ==
  \/ Arrive(r) \/ Authorize(r) \/ Insert(r) \/ Bind(r) \/ Reread(r) \/ Vouch(r)
  \/ Owner(r) \/ LinkSession(r) \/ Edit(r)
  \/ SendLock(r) \/ CheckRegistered(r) \/ FindExisting(r) \/ Register(r) \/ Attach(r)
  \/ AppendSent(r) \/ Commit(r)
  \/ Show(r) \/ MeRefused(r) \/ MyTrips(r) \/ Claim(r)
  \/ Fail(r)

-----------------------------------------------------------------------------

(* No request, no row but those from before the tokens. *)
LEMMA InitInv == Init => IndInv
BY LegacyAssumption, NoneAssumption
   DEF Init, IndInv, TypeOK, Places, Codes, Row, NewRow, CallOK, GuardOK, Guarding, Past, Sending, LockOK, SenderOK,
       HandedOK, EventOK, ShownOK, LinkOK, ContactOK, Lockables

-----------------------------------------------------------------------------
(* What no step takes back. *)
Kept ==
  /\ \A s \in DOMAIN sessions :
       /\ s \in DOMAIN sessions'
       /\ sessions[s].hash # None => sessions'[s].hash = sessions[s].hash
       /\ sessions[s].account # None => sessions'[s].account = sessions[s].account
       /\ sessions[s].customer # None => sessions'[s].customer # None
  /\ \A t \in Trips : owner[t] # None => owner'[t] = owner[t]

(* The statements that write sessions and drafts fill what is NULL only. *)
LEMMA KeptByStep ==
  ASSUME IndInv, NEW r \in Requests, Step(r)
  PROVE  Kept
<1>1. UNCHANGED <<sessions, owner>> => Kept
  BY DEF Kept
<1>2. ASSUME Arrive(r) \/ Authorize(r) \/ Reread(r) \/ Vouch(r) \/ Owner(r)
           \/ SendLock(r) \/ CheckRegistered(r) \/ FindExisting(r) \/ Register(r) \/ Attach(r) \/ AppendSent(r)
           \/ Show(r) \/ MeRefused(r) \/ MyTrips(r) \/ Fail(r)
      PROVE  Kept
  BY <1>1, <1>2 DEF Arrive, Authorize, Reread, Vouch, Owner, SendLock, CheckRegistered, FindExisting, Register,
                    Attach, AppendSent, Show, MeRefused, MyTrips, Fail, tables
<1>3. CASE Insert(r)
  BY <1>3 DEF Insert, Kept, Known
<1>4. CASE Bind(r)
  BY <1>4 DEF Bind, Kept, IndInv, TypeOK, Row
<1>5. CASE LinkSession(r)
  BY <1>5 DEF LinkSession, Linked, Kept, IndInv, TypeOK, Row
<1>6. CASE Edit(r)
  BY <1>6 DEF Edit, Append, Kept, IndInv, TypeOK
<1>7. CASE Commit(r)
  BY <1>7 DEF Commit, Append, Kept, IndInv, TypeOK, Row
<1>8. CASE Claim(r)
  BY <1>8 DEF Claim, Linked, Kept, IndInv, TypeOK, Row
<1>9. QED
  BY <1>2, <1>3, <1>4, <1>5, <1>6, <1>7, <1>8 DEF Step

(* What a request asks for stays, and so does what let it through. *)
Going ==
  \A q \in Requests :
    /\ pc[q] # "idle" => op'[q] = op[q] /\ pc'[q] # "idle"
    /\ pc[q] \in Past \cup {"done"} => pc'[q] \in Past \cup {"done"} /\ way'[q] = way[q]
    /\ pc[q] = "done" => pc'[q] = "done"

(* No step changes a call under way, or leaves the guard behind twice. *)
LEMMA GoingByStep ==
  ASSUME IndInv, NEW r \in Requests, Step(r)
  PROVE  Going
<1> USE DEF Goto, Stay, Answer, Past, Sending
<1>0. pc \in [Requests -> Places] /\ op \in [Requests -> Workload \cup {None}]
      /\ way \in [Requests -> {"none", "token", "bound", "tokenless", "account"}]
  BY DEF IndInv, TypeOK
<1>1. SUFFICES ASSUME NEW q \in Requests
               PROVE  /\ pc[q] # "idle" => op'[q] = op[q] /\ pc'[q] # "idle"
                      /\ pc[q] \in Past \cup {"done"} =>
                           pc'[q] \in Past \cup {"done"} /\ way'[q] = way[q]
                      /\ pc[q] = "done" => pc'[q] = "done"
  BY DEF Going
<1>2. CASE Arrive(r)
  BY <1>0, <1>2 DEF Arrive, First, local
<1>3. CASE Authorize(r)
  BY <1>0, <1>3 DEF Authorize, Checked
<1>4. CASE Insert(r) \/ Bind(r)
  BY <1>0, <1>4 DEF Insert, Bind, local
<1>5. CASE Reread(r) \/ Vouch(r)
  BY <1>0, <1>5 DEF Reread, Vouch
<1>6. ASSUME Owner(r) \/ LinkSession(r) PROVE op[r].kind \in {"edit", "send"}
  BY <1>6 DEF IndInv, CallOK, Owner, LinkSession
<1>7. CASE Owner(r) \/ LinkSession(r)
  BY <1>0, <1>6, <1>7 DEF Owner, LinkSession, local
<1>8. CASE Edit(r) \/ SendLock(r) \/ CheckRegistered(r) \/ FindExisting(r)
  BY <1>0, <1>8 DEF Edit, SendLock, CheckRegistered, FindExisting, local
<1>9. CASE Register(r) \/ Attach(r) \/ AppendSent(r) \/ Commit(r)
  BY <1>0, <1>9 DEF Register, Attach, AppendSent, Commit, local
<1>10. CASE Show(r) \/ MeRefused(r) \/ MyTrips(r) \/ Claim(r)
  BY <1>0, <1>10 DEF Show, MeRefused, MyTrips, Claim, local
<1>11. CASE Fail(r)
  BY <1>0, <1>11 DEF Fail
<1>12. QED
  BY <1>2, <1>3, <1>4, <1>5, <1>7, <1>8, <1>9, <1>10, <1>11 DEF Step

-----------------------------------------------------------------------------
(* What was proven, and what was submitted, stays so. *)

(* A proof holds once it held. *)
LEMMA ProvesStays ==
  ASSUME IndInv, Kept, Going, NEW q \in Requests, NEW s, pc[q] # "idle", Proves(q, s)
  PROVE  Proves(q, s)'
<1>1. op'[q] = op[q] /\ op[q] \in Workload
  BY DEF Going, IndInv, CallOK
<1>2. CASE op[q].token \in Tokens /\ op[q].token = Hash(s)
  BY <1>1, <1>2, NoneAssumption DEF Proves, Hash, Known, Kept
<1>3. CASE OwnsSession(op[q].caller, s)
  BY <1>1, <1>3 DEF Proves, OwnsSession, Account, Known, Kept
<1>4. QED
  BY <1>2, <1>3 DEF Proves

(* So does what let a request through. *)
LEMMA ClearedStays ==
  ASSUME IndInv, Kept, Going, NEW q \in Requests, pc[q] \in Past \cup {"done"}, Cleared(q)
  PROVE  Cleared(q)'
<1>1. op'[q] = op[q] /\ way'[q] = way[q]
  BY DEF Going, Past, Sending
<1>2. Known(op[q].session)'
  BY <1>1 DEF Cleared, Known, Kept
<1>3. CASE way[q] \in {"token", "bound"} /\ op[q].token \in Tokens /\ Hash(op[q].session) = op[q].token
  BY <1>1, <1>2, <1>3, NoneAssumption DEF Cleared, Hash, Known, Kept
<1>4. CASE way[q] = "tokenless" /\ op[q].token = None
  BY <1>1, <1>2, <1>4 DEF Cleared
<1>5. CASE way[q] = "account" /\ OwnsSession(op[q].caller, op[q].session)
  BY <1>1, <1>2, <1>5 DEF Cleared, OwnsSession, Account, Known, Kept
<1>6. QED
  BY <1>3, <1>4, <1>5 DEF Cleared

(* A submitted contact stays submitted. *)
LEMMA SubmittedStays ==
  ASSUME Going, NEW s, NEW c, Submitted(s, c)
  PROVE  Submitted(s, c)'
<1>1. PICK q \in Requests : /\ pc[q] \in Past \cup {"done"} /\ way[q] # "none"
                            /\ op[q].session = s /\ op[q].contact = c
  BY DEF Submitted
<1>2. pc'[q] \in Past \cup {"done"} /\ way'[q] = way[q] /\ op'[q] = op[q]
  BY <1>1 DEF Going, Past, Sending
<1>3. QED
  BY <1>1, <1>2 DEF Submitted

-----------------------------------------------------------------------------
(* Types: a call is one of the workload's. *)
LEMMA CallType ==
  ASSUME IndInv, NEW r \in Requests, pc[r] # "idle"
  PROVE  /\ op[r] \in Workload
         /\ op[r].session \in SessionIds
         /\ op[r].token \in Tokens \cup {Malformed, None}
         /\ op[r].caller \in Principals \cup {None}
         /\ op[r].trip \in Trips
         /\ op[r].contact \in Contacts \cup {None}
<1>1. op[r] \in Calls
  BY WorkloadAssumption DEF IndInv, CallOK
<1>2. QED
  BY <1>1 DEF IndInv, CallOK, Calls

(* Nobody's inquiry is without a contact. *)
LEMMA HandedType ==
  ASSUME IndInv, NEW r \in Requests, AppendSent(r)
  PROVE  Handed(r) \in Contacts \cup Principals
<1>1. /\ op[r].caller \in Principals \cup {None} /\ op[r].contact \in Contacts \cup {None}
      /\ op[r].session \in SessionIds
  BY CallType DEF AppendSent
<1>2. pending[r] \in Contacts \cup {None}
  BY DEF IndInv, TypeOK
<1>3. Known(op[r].session)
  BY DEF AppendSent, IndInv, GuardOK, Past, Sending, Cleared
<1>4. sessions[op[r].session].customer \in Contacts \cup {None}
  BY <1>3 DEF IndInv, TypeOK, Row, Known
<1>5. CASE pc[r] = "submitted"
  BY <1>1, <1>2, <1>4, <1>5, NoneAssumption DEF IndInv, SenderOK, Handed, Customer, Signed
<1>6. CASE pc[r] = "append"
  BY <1>1, <1>2, <1>4, <1>6, NoneAssumption DEF IndInv, SenderOK, Handed, Customer, Signed, Registered
<1>7. QED
  BY <1>5, <1>6 DEF AppendSent

TableTypes ==
  /\ DOMAIN sessions \subseteq SessionIds
  /\ \A s \in DOMAIN sessions : sessions[s] \in Row
  /\ owner \in [Trips -> SessionIds \cup {None}]
  /\ customers \subseteq Contacts
  /\ events \subseteq [by : Requests, trip : Trips, session : SessionIds]
  /\ inquiries \subseteq [by : Requests, session : SessionIds, contact : Contacts \cup Principals]

(* The rows keep their types. *)
LEMMA TableTypesByStep ==
  ASSUME IndInv, NEW r \in Requests, Step(r)
  PROVE  TableTypes'
<1>0. TableTypes
  BY DEF IndInv, TypeOK, TableTypes
<1>1. UNCHANGED tables => TableTypes'
  BY <1>0 DEF TableTypes, tables
<1>2. ASSUME pc[r] # "idle"
      PROVE  /\ op[r].session \in SessionIds /\ op[r].trip \in Trips
             /\ op[r].token \in Tokens \cup {Malformed, None}
             /\ op[r].caller \in Principals \cup {None}
             /\ op[r].contact \in Contacts \cup {None}
  BY <1>2, CallType
<1>3. ASSUME Arrive(r) \/ Authorize(r) \/ Reread(r) \/ Vouch(r) \/ Owner(r)
           \/ SendLock(r) \/ CheckRegistered(r) \/ FindExisting(r) \/ Register(r) \/ Attach(r) \/ AppendSent(r)
           \/ Show(r) \/ MeRefused(r) \/ MyTrips(r) \/ Fail(r)
      PROVE  UNCHANGED tables
  BY <1>3 DEF Arrive, Authorize, Reread, Vouch, Owner, SendLock, CheckRegistered, FindExisting, Register,
              Attach, AppendSent, Show, MeRefused, MyTrips, Fail
<1>4. CASE Insert(r)
  <2>1. op[r].token \in Tokens \cup {None}
    BY <1>4 DEF Insert, IndInv, GuardOK
  <2>2. QED
    BY <1>0, <1>2, <1>4, <2>1 DEF Insert, TableTypes, Known, NewRow, Row
<1>5. CASE Bind(r)
  <2>1. op[r].token \in Tokens
    BY <1>5 DEF Bind, IndInv, GuardOK
  <2>2. QED
    BY <1>0, <1>2, <1>5, <2>1 DEF Bind, TableTypes, Row
<1>6. CASE LinkSession(r)
  BY <1>0, <1>2, <1>6 DEF LinkSession, Linked, TableTypes, Row
<1>7. CASE Edit(r)
  BY <1>0, <1>2, <1>7 DEF Edit, Append, Event, TableTypes
<1>8. CASE Commit(r)
  <2>1. pending[r] \in Contacts \cup {None} /\ handed[r] \in Contacts \cup Principals
    BY <1>8 DEF Commit, IndInv, TypeOK, HandedOK
  <2>2. /\ op[r].session \in SessionIds /\ op[r].trip \in Trips
    BY <1>2, <1>8 DEF Commit
  <2>3. DOMAIN sessions' \subseteq SessionIds /\ \A s \in DOMAIN sessions' : sessions'[s] \in Row
    BY <1>0, <1>8, <2>1 DEF Commit, TableTypes, Row
  <2>4. owner' \in [Trips -> SessionIds \cup {None}]
        /\ events' \subseteq [by : Requests, trip : Trips, session : SessionIds]
    BY <1>0, <1>8, <2>2 DEF Commit, Append, Event, TableTypes
  <2>5. customers' \subseteq Contacts
        /\ inquiries' \subseteq [by : Requests, session : SessionIds, contact : Contacts \cup Principals]
    BY <1>0, <1>8, <2>1, <2>2 DEF Commit, TableTypes
  <2>6. QED
    BY <2>3, <2>4, <2>5 DEF TableTypes
<1>9. CASE Claim(r)
  BY <1>0, <1>2, <1>9 DEF Claim, Linked, TableTypes, Row
<1>10. QED
  BY <1>1, <1>3, <1>4, <1>5, <1>6, <1>7, <1>8, <1>9 DEF Step

LocalTypes ==
  /\ pc \in [Requests -> Places]
  /\ op \in [Requests -> Workload \cup {None}]
  /\ way \in [Requests -> {"none", "token", "bound", "tokenless", "account"}]
  /\ pending \in [Requests -> Contacts \cup {None}]
  /\ handed \in [Requests -> Contacts \cup Principals \cup {None}]
  /\ answer \in [Requests -> Codes \cup {None}]
  /\ shown \in [Requests -> SUBSET Trips]
  /\ grace \in BOOLEAN

(* So does what a request keeps. *)
LEMMA LocalTypesByStep ==
  ASSUME IndInv, NEW r \in Requests, Step(r)
  PROVE  LocalTypes'
<1> USE DEF Goto, Stay, Answer, local, LocalTypes, Places, Codes
<1>0. LocalTypes
  BY DEF IndInv, TypeOK
<1>1. CASE Arrive(r)
  BY <1>0, <1>1 DEF Arrive, First
<1>2. CASE Authorize(r)
  BY <1>0, <1>2 DEF Authorize, Checked
<1>3. CASE Insert(r)
  BY <1>0, <1>3 DEF Insert
<1>4. CASE Bind(r)
  BY <1>0, <1>4 DEF Bind
<1>5. CASE Reread(r)
  BY <1>0, <1>5 DEF Reread
<1>6. CASE Vouch(r)
  BY <1>0, <1>6 DEF Vouch
<1>7. CASE Owner(r)
  <2>1. op[r].kind \in {"edit", "send"}
    BY <1>7 DEF Owner, IndInv, CallOK, Guarding, Past, Sending
  <2>2. QED
    BY <1>0, <1>7, <2>1 DEF Owner
<1>8. CASE LinkSession(r)
  <2>1. op[r].kind \in {"edit", "send"}
    BY <1>8 DEF LinkSession, IndInv, CallOK, Guarding, Past, Sending
  <2>2. QED
    BY <1>0, <1>8, <2>1 DEF LinkSession
<1>9. CASE Edit(r)
  BY <1>0, <1>9 DEF Edit
<1>10. CASE SendLock(r)
  BY <1>0, <1>10 DEF SendLock
<1>11. CASE CheckRegistered(r)
  BY <1>0, <1>11 DEF CheckRegistered
<1>12. CASE FindExisting(r)
  BY <1>0, <1>12 DEF FindExisting
<1>13. CASE Register(r)
  <2>1. op[r].contact \in Contacts
    BY <1>13, CallType DEF Register, IndInv, SenderOK
  <2>2. QED
    BY <1>0, <1>13, <2>1 DEF Register
<1>14. CASE Attach(r)
  BY <1>0, <1>14 DEF Attach
<1>15. CASE AppendSent(r)
  <2>1. Handed(r) \in Contacts \cup Principals
    BY <1>15, HandedType
  <2>2. QED
    BY <1>0, <1>15, <2>1 DEF AppendSent
<1>16. CASE Commit(r)
  BY <1>0, <1>16 DEF Commit
<1>17. CASE Show(r)
  <2>1. op[r].trip \in Trips
    BY <1>17, CallType DEF Show
  <2>2. QED
    BY <1>0, <1>17, <2>1 DEF Show
<1>18. CASE MeRefused(r)
  BY <1>0, <1>18 DEF MeRefused
<1>19. CASE MyTrips(r)
  BY <1>0, <1>19 DEF MyTrips
<1>20. CASE Claim(r)
  BY <1>0, <1>20 DEF Claim
<1>21. CASE Fail(r)
  BY <1>0, <1>21 DEF Fail
<1>22. QED
  BY <1>1, <1>2, <1>3, <1>4, <1>5, <1>6, <1>7, <1>8, <1>9, <1>10, <1>11, <1>12, <1>13, <1>14, <1>15, <1>16, <1>17, <1>18, <1>19, <1>20, <1>21 DEF Step

-----------------------------------------------------------------------------
(* Only a send under way holds a lock or an uncommitted customer. *)
LEMMA LocksByStep ==
  ASSUME IndInv, NEW r \in Requests, Step(r)
  PROVE  /\ locks' \in [Lockables -> Requests \cup {None}]
         /\ LockOK'
         /\ \A q \in Requests : pending'[q] # None => pc'[q] \in {"attach", "append", "commit"}
<1> USE DEF Goto, Stay, Answer, local, Sending
<1>0. /\ locks \in [Lockables -> Requests \cup {None}]
      /\ pc \in [Requests -> Places]
      /\ pending \in [Requests -> Contacts \cup {None}]
      /\ \A k \in Lockables : locks[k] # None => pc[locks[k]] \in Sending
      /\ \A q \in Requests : pending[q] # None => pc[q] \in {"attach", "append", "commit"}
  BY DEF IndInv, TypeOK, LockOK
<1>1. SUFFICES /\ locks' \in [Lockables -> Requests \cup {None}]
               /\ \A k \in Lockables : locks'[k] # None => pc'[locks'[k]] \in Sending
               /\ \A q \in Requests : pending'[q] # None => pc'[q] \in {"attach", "append", "commit"}
  BY DEF LockOK
<1>2. r # None
  BY NoneAssumption
<1>3. ASSUME UNCHANGED <<locks, pending>>, pc[r] \notin Sending
      PROVE  /\ locks' \in [Lockables -> Requests \cup {None}]
             /\ \A k \in Lockables : locks[k] # None => locks[k] # r /\ locks[k] \in Requests
             /\ pending[r] = None
  BY <1>0, <1>3
<1>4. CASE Arrive(r) \/ Authorize(r) \/ Insert(r) \/ Bind(r) \/ Reread(r)
  BY <1>0, <1>3, <1>4 DEF Arrive, Authorize, Insert, Bind, Reread
<1>5. CASE Vouch(r) \/ Owner(r) \/ LinkSession(r) \/ Edit(r)
  BY <1>0, <1>3, <1>5 DEF Vouch, Owner, LinkSession, Edit
<1>6. CASE Show(r) \/ MeRefused(r) \/ MyTrips(r) \/ Claim(r)
  BY <1>0, <1>3, <1>6 DEF Show, MeRefused, MyTrips, Claim
<1>7. CASE SendLock(r) \/ Attach(r) \/ AppendSent(r)
  BY <1>0, <1>2, <1>7 DEF SendLock, Attach, AppendSent, Take, Lockables
<1>8. CASE CheckRegistered(r) \/ FindExisting(r)
  BY <1>0, <1>2, <1>8 DEF CheckRegistered, FindExisting, Drop
<1>9. CASE Register(r)
  BY <1>0, <1>2, <1>9 DEF Register, Drop
<1>10. CASE Commit(r) \/ Fail(r)
  BY <1>0, <1>2, <1>10 DEF Commit, Fail, Drop
<1>11. QED
  BY <1>4, <1>5, <1>6, <1>7, <1>8, <1>9, <1>10 DEF Step

(* Every variable keeps its type. *)
LEMMA TypeByStep ==
  ASSUME IndInv, NEW r \in Requests, Step(r)
  PROVE  TypeOK'
<1>1. TableTypes' /\ LocalTypes'
  BY TableTypesByStep, LocalTypesByStep
<1>2. /\ locks' \in [Lockables -> Requests \cup {None}]
      /\ LockOK'
      /\ \A q \in Requests : pending'[q] # None => pc'[q] \in {"attach", "append", "commit"}
  BY LocksByStep
<1>3. QED
  BY <1>1, <1>2 DEF TypeOK, TableTypes, LocalTypes, LockOK, Sending

(* A request is where its kind of call may be. *)
LEMMA CallByStep ==
  ASSUME IndInv, NEW r \in Requests, Step(r)
  PROVE  CallOK'
<1> USE DEF Goto, Stay, Answer, local, Guarding, Past, Sending
<1>0. pc \in [Requests -> Places] /\ op \in [Requests -> Workload \cup {None}] /\ CallOK
  BY DEF IndInv, TypeOK
<1>1. CASE Arrive(r)
  <2>1. PICK c \in Workload : pc' = [pc EXCEPT ![r] = First(c)] /\ op' = [op EXCEPT ![r] = c]
    BY <1>1 DEF Arrive
  <2>2. c.kind \in {"edit", "send", "read", "trips", "claim"}
    BY WorkloadAssumption DEF Calls
  <2>3. QED
    BY <1>0, <2>1, <2>2 DEF CallOK, First
<1>2. CASE Authorize(r)
  BY <1>0, <1>2 DEF Authorize, Checked, CallOK
<1>3. CASE Insert(r) \/ Bind(r) \/ Reread(r) \/ Vouch(r)
  BY <1>0, <1>3 DEF Insert, Bind, Reread, Vouch, CallOK
<1>4. CASE Owner(r) \/ LinkSession(r) \/ Edit(r)
  BY <1>0, <1>4 DEF Owner, LinkSession, Edit, CallOK
<1>5. CASE SendLock(r) \/ CheckRegistered(r) \/ FindExisting(r) \/ Register(r)
  BY <1>0, <1>5 DEF SendLock, CheckRegistered, FindExisting, Register, CallOK
<1>6. CASE Attach(r) \/ AppendSent(r) \/ Commit(r) \/ Fail(r)
  BY <1>0, <1>6 DEF Attach, AppendSent, Commit, Fail, CallOK
<1>7. CASE Show(r) \/ MeRefused(r) \/ MyTrips(r) \/ Claim(r)
  BY <1>0, <1>7 DEF Show, MeRefused, MyTrips, Claim, CallOK
<1>8. QED
  BY <1>1, <1>2, <1>3, <1>4, <1>5, <1>6, <1>7 DEF Step

-----------------------------------------------------------------------------
(* The guard: what it found is so when the request acts on it. *)

GuardOf(r) ==
  /\ pc[r] = "insert" => \/ way[r] = "token" /\ op[r].token \in Tokens
                         \/ way[r] = "tokenless" /\ op[r].token = None
  /\ pc[r] \in {"bind", "reread"} =>
       way[r] \in {"token", "bound"} /\ op[r].token \in Tokens /\ Known(op[r].session)
  /\ pc[r] \in Past => Cleared(r)
  /\ pc[r] = "link" => way[r] = "token" /\ Signed(r)

(* Another request's step leaves a request where it is. *)
LEMMA Elsewhere ==
  ASSUME IndInv, NEW r \in Requests, NEW q \in Requests \ {r}, Step(r)
  PROVE  pc'[q] = pc[q] /\ way'[q] = way[q] /\ op'[q] = op[q]
         /\ pending'[q] = pending[q] /\ handed'[q] = handed[q] /\ shown'[q] = shown[q]
<1> USE DEF Goto, Stay, Answer, local
<1>0. /\ pc \in [Requests -> Places] /\ op \in [Requests -> Workload \cup {None}]
      /\ way \in [Requests -> {"none", "token", "bound", "tokenless", "account"}]
      /\ pending \in [Requests -> Contacts \cup {None}]
      /\ handed \in [Requests -> Contacts \cup Principals \cup {None}]
      /\ shown \in [Requests -> SUBSET Trips]
  BY DEF IndInv, TypeOK
<1>1. CASE Arrive(r) \/ Authorize(r) \/ Insert(r) \/ Bind(r) \/ Reread(r) \/ Vouch(r) \/ Owner(r)
  BY <1>0, <1>1 DEF Arrive, Authorize, Insert, Bind, Reread, Vouch, Owner
<1>2. CASE LinkSession(r) \/ Edit(r) \/ SendLock(r) \/ CheckRegistered(r) \/ FindExisting(r)
  BY <1>0, <1>2 DEF LinkSession, Edit, SendLock, CheckRegistered, FindExisting
<1>3. CASE Register(r) \/ Attach(r) \/ AppendSent(r) \/ Commit(r)
  BY <1>0, <1>3 DEF Register, Attach, AppendSent, Commit
<1>4. CASE Show(r) \/ MeRefused(r) \/ MyTrips(r) \/ Claim(r) \/ Fail(r)
  BY <1>0, <1>4 DEF Show, MeRefused, MyTrips, Claim, Fail
<1>5. QED
  BY <1>1, <1>2, <1>3, <1>4 DEF Step

(* The guard is not passed by anything it did not find. *)
LEMMA GuardByStep ==
  ASSUME IndInv, NEW r \in Requests, Step(r), Kept, Going
  PROVE  GuardOK'
<1>0. /\ pc \in [Requests -> Places] /\ op \in [Requests -> Workload \cup {None}]
      /\ way \in [Requests -> {"none", "token", "bound", "tokenless", "account"}]
      /\ \A q \in Requests : GuardOf(q)
  BY DEF IndInv, TypeOK, GuardOK, GuardOf
<1>1. ASSUME NEW q \in Requests \ {r} PROVE GuardOf(q)'
  <2>1. pc'[q] = pc[q] /\ way'[q] = way[q] /\ op'[q] = op[q]
    BY Elsewhere
  <2>2. Known(op[q].session) => Known(op[q].session)'
    BY <2>1 DEF Known, Kept
  <2>3. pc[q] \in Past => Cleared(q)'
    BY <1>0, ClearedStays DEF GuardOf
  <2>4. QED
    BY <1>0, <2>1, <2>2, <2>3 DEF GuardOf, Known, Signed
<1>2. pc[r] \in Past => Cleared(r)'
  BY <1>0, ClearedStays DEF GuardOf
<1>3. GuardOf(r)'
  <2> USE DEF Goto, Stay, Answer, local
  <2>1. CASE Arrive(r)
    BY <1>0, <2>1 DEF Arrive, First, GuardOf, Past, Sending
  <2>2. CASE Authorize(r)
    <3>1. /\ op' = op /\ sessions' = sessions
          /\ pc'[r] = Checked(r)
          /\ Checked(r) # "denied" =>
               way'[r] = IF op[r].token = None THEN "tokenless"
                         ELSE IF Checked(r) = "bind" THEN "bound" ELSE "token"
      BY <1>0, <2>2 DEF Authorize, tables
    <3>2. CASE Checked(r) = "denied"
      BY <3>1, <3>2 DEF GuardOf, Past, Sending
    <3>3. CASE Checked(r) = "insert"
      BY <3>1, <3>3, NoneAssumption, MalformedAssumption DEF Checked, GuardOf, Past, Sending
    <3>4. CASE Checked(r) = "bind"
      BY <3>1, <3>4, NoneAssumption, MalformedAssumption DEF Checked, Unbound, GuardOf, Past, Sending, Known
    <3>5. CASE Checked(r) = "owner"
      <4>1. \/ op[r].token \in Tokens /\ Known(op[r].session) /\ Hash(op[r].session) = op[r].token
            \/ op[r].token = None /\ Known(op[r].session)
        BY <3>5, NoneAssumption, MalformedAssumption DEF Checked, Unbound, Hash
      <4>2. Cleared(r)'
        BY <3>1, <3>5, <4>1, NoneAssumption DEF Cleared, Known, Hash
      <4>3. QED
        BY <3>1, <3>5, <4>2 DEF GuardOf
    <3>6. QED
      BY <3>2, <3>3, <3>4, <3>5 DEF Checked
  <2>3. CASE Insert(r)
    <3>1. op' = op /\ way' = way /\ Known(op[r].session)'
      BY <2>3 DEF Insert, Known
    <3>2. pc'[r] = IF op[r].token = None THEN "owner" ELSE "reread"
      BY <1>0, <2>3 DEF Insert
    <3>3. CASE op[r].token = None
      BY <1>0, <2>3, <3>1, <3>2, <3>3, NoneAssumption DEF Insert, GuardOf, Cleared
    <3>4. CASE op[r].token # None
      BY <1>0, <2>3, <3>1, <3>2, <3>4 DEF Insert, GuardOf, Past, Sending
    <3>5. QED
      BY <3>3, <3>4
  <2>4. CASE Bind(r)
    <3>1. op' = op /\ way' = way /\ pc'[r] = "reread" /\ Known(op[r].session)'
      BY <1>0, <2>4 DEF Bind, GuardOf, Known
    <3>2. QED
      BY <1>0, <2>4, <3>1 DEF Bind, GuardOf, Past, Sending
  <2>5. CASE Reread(r)
    <3>1. op' = op /\ sessions' = sessions
      BY <2>5 DEF Reread, tables
    <3>2. CASE Hash(op[r].session) = op[r].token
      <4>1. way' = way /\ pc'[r] = "owner"
        BY <1>0, <2>5, <3>2 DEF Reread
      <4>2. Cleared(r)'
        BY <1>0, <2>5, <3>1, <3>2, <4>1 DEF Reread, GuardOf, Cleared, Known, Hash
      <4>3. QED
        BY <4>1, <4>2 DEF GuardOf
    <3>3. CASE Hash(op[r].session) # op[r].token
      BY <1>0, <2>5, <3>3 DEF Reread, GuardOf, Past, Sending
    <3>4. QED
      BY <3>2, <3>3
  <2>6. CASE Vouch(r)
    <3>1. op' = op /\ sessions' = sessions
      BY <2>6 DEF Vouch, tables
    <3>2. CASE OwnsSession(op[r].caller, op[r].session)
      <4>1. way'[r] = "account" /\ pc'[r] = "owner"
        BY <1>0, <2>6, <3>2 DEF Vouch
      <4>2. Cleared(r)'
        BY <3>1, <3>2, <4>1, NoneAssumption DEF Cleared, OwnsSession, Account, Known
      <4>3. QED
        BY <4>1, <4>2 DEF GuardOf
    <3>3. CASE ~OwnsSession(op[r].caller, op[r].session)
      BY <1>0, <2>6, <3>3 DEF Vouch, GuardOf, Past, Sending
    <3>4. QED
      BY <3>2, <3>3
  <2>7. CASE Owner(r)
    <3>1. op[r].kind \in {"edit", "send"}
      BY <2>7 DEF Owner, IndInv, CallOK, Past
    <3>2. op' = op /\ way' = way
      BY <2>7 DEF Owner
    <3>3. pc'[r] \in {"done", "edit", "send"} \/ (pc'[r] = "link" /\ Signed(r) /\ way[r] = "token")
      BY <1>0, <2>7, <3>1 DEF Owner
    <3>4. Cleared(r)'
      BY <1>2, <2>7 DEF Owner, Past
    <3>5. QED
      BY <3>2, <3>3, <3>4 DEF GuardOf, Signed
  <2>8. CASE LinkSession(r)
    <3>1. op[r].kind \in {"edit", "send"}
      BY <2>8 DEF LinkSession, IndInv, CallOK, Past
    <3>2. Cleared(r)'
      BY <1>2, <2>8 DEF LinkSession, Past
    <3>3. QED
      BY <1>0, <2>8, <3>1, <3>2 DEF LinkSession, GuardOf
  <2>9. CASE SendLock(r) \/ CheckRegistered(r) \/ FindExisting(r) \/ Register(r) \/ Attach(r) \/ AppendSent(r)
    <3>1. pc[r] \in Past /\ pc'[r] \in Sending \cup {"done"}
      BY <1>0, <2>9 DEF SendLock, CheckRegistered, FindExisting, Register, Attach, AppendSent, Past, Sending
    <3>2. QED
      BY <1>2, <3>1 DEF GuardOf, Sending
  <2>10. CASE Edit(r) \/ Commit(r) \/ Show(r) \/ MeRefused(r) \/ MyTrips(r) \/ Claim(r) \/ Fail(r)
    <3>1. pc'[r] = "done"
      BY <1>0, <2>10 DEF Edit, Commit, Show, MeRefused, MyTrips, Claim, Fail
    <3>2. QED
      BY <3>1 DEF GuardOf, Past, Sending
  <2>11. QED
    BY <2>1, <2>2, <2>3, <2>4, <2>5, <2>6, <2>7, <2>8, <2>9, <2>10 DEF Step
<1>4. QED
  BY <1>1, <1>3 DEF GuardOK, GuardOf

-----------------------------------------------------------------------------
(* Whom an inquiry is from. *)

SenderOf(r) ==
  /\ pending[r] # None => pending[r] = op[r].contact
  /\ pc[r] = "attach" => pending[r] # None
  /\ pc[r] \in {"find", "register", "attach", "submitted"} => op[r].contact # None
  /\ pc[r] = "append" =>
       Signed(r) \/ pending[r] # None \/ Registered(op[r].session)

(* A customer under way is the contact that was typed. *)
LEMMA SenderByStep ==
  ASSUME IndInv, NEW r \in Requests, Step(r), Kept, Going
  PROVE  SenderOK'
<1>0. /\ pc \in [Requests -> Places] /\ op \in [Requests -> Workload \cup {None}]
      /\ pending \in [Requests -> Contacts \cup {None}]
      /\ \A q \in Requests : SenderOf(q)
      /\ \A q \in Requests : pending[q] # None => pc[q] \in {"attach", "append", "commit"}
  BY DEF IndInv, TypeOK, SenderOK, SenderOf
<1>1. ASSUME NEW q \in Requests \ {r} PROVE SenderOf(q)'
  <2>1. pc'[q] = pc[q] /\ op'[q] = op[q] /\ pending'[q] = pending[q]
    BY Elsewhere
  <2>2. pc[q] = "append" => op[q].session \in DOMAIN sessions
    BY DEF IndInv, GuardOK, Past, Sending, Cleared, Known
  <2>3. pc[q] = "append" /\ Registered(op[q].session) => Registered(op[q].session)'
    BY <2>1, <2>2 DEF Registered, Kept
  <2>4. QED
    BY <1>0, <2>1, <2>3 DEF SenderOf, Signed
<1>2. SenderOf(r)'
  <2> USE DEF Goto, Stay, Answer, local
  <2>1. CASE Arrive(r) \/ Authorize(r) \/ Insert(r) \/ Bind(r) \/ Reread(r)
    <3>1. pc'[r] \notin {"find", "register", "attach", "submitted", "append"}
      BY <1>0, <2>1 DEF Arrive, First, Authorize, Checked, Insert, Bind, Reread
    <3>2. pending'[r] = None
      BY <1>0, <2>1 DEF Arrive, Authorize, Insert, Bind, Reread
    <3>3. QED
      BY <3>1, <3>2 DEF SenderOf
  <2>2. CASE Vouch(r) \/ Owner(r) \/ LinkSession(r) \/ Edit(r) \/ SendLock(r)
    <3>1. op[r].kind \in {"edit", "send"}
      BY <2>2 DEF IndInv, CallOK, Guarding, Past, Vouch, Owner, LinkSession, Edit, SendLock
    <3>2. pc'[r] \notin {"find", "register", "attach", "submitted", "append"}
      BY <1>0, <2>2, <3>1 DEF Vouch, Owner, LinkSession, Edit, SendLock
    <3>3. pending'[r] = None
      BY <1>0, <2>2 DEF Vouch, Owner, LinkSession, Edit, SendLock
    <3>4. QED
      BY <3>2, <3>3 DEF SenderOf
  <2>3. CASE Show(r) \/ MeRefused(r) \/ MyTrips(r) \/ Claim(r)
    BY <1>0, <2>3 DEF Show, MeRefused, MyTrips, Claim, SenderOf
  <2>4. CASE CheckRegistered(r)
    <3>1. op' = op /\ pending' = pending /\ sessions' = sessions
      BY <2>4 DEF CheckRegistered, tables
    <3>2. QED
      BY <1>0, <2>4, <3>1 DEF CheckRegistered, SenderOf, Signed, Registered
  <2>5. CASE FindExisting(r)
    BY <1>0, <2>5 DEF FindExisting, SenderOf
  <2>6. CASE Register(r)
    BY <1>0, <2>6 DEF Register, SenderOf
  <2>7. CASE Attach(r)
    BY <1>0, <2>7 DEF Attach, SenderOf
  <2>8. CASE AppendSent(r)
    BY <1>0, <2>8 DEF AppendSent, SenderOf
  <2>9. CASE Commit(r) \/ Fail(r)
    BY <1>0, <2>9 DEF Commit, Fail, SenderOf
  <2>10. QED
    BY <2>1, <2>2, <2>3, <2>4, <2>5, <2>6, <2>7, <2>8, <2>9 DEF Step
<1>3. QED
  BY <1>1, <1>2 DEF SenderOK, SenderOf

(* A request past the guard submits its own contact. *)
LEMMA OwnContact ==
  ASSUME IndInv, NEW r \in Requests, pc[r] \in Past
  PROVE  Submitted(op[r].session, op[r].contact)
BY DEF IndInv, GuardOK, Cleared, Submitted

HandedOf(q) ==
  pc[q] = "commit" =>
    /\ handed[q] # None
    /\ \/ Submitted(op[q].session, handed[q])
       \/ Signed(q) /\ handed[q] = op[q].caller

(* What is handed off was submitted in the session, or is the sender. *)
LEMMA HandedByStep ==
  ASSUME IndInv, NEW r \in Requests, Step(r), Kept, Going
  PROVE  HandedOK'
<1>0. /\ pc \in [Requests -> Places]
      /\ handed \in [Requests -> Contacts \cup Principals \cup {None}]
      /\ \A q \in Requests : HandedOf(q)
  BY DEF IndInv, TypeOK, HandedOK, HandedOf
<1>1. ASSUME NEW q \in Requests \ {r} PROVE HandedOf(q)'
  <2>1. SUFFICES ASSUME pc'[q] = "commit" PROVE HandedOf(q)'
    BY DEF HandedOf
  <2>2. pc[q] = "commit" /\ op'[q] = op[q] /\ handed'[q] = handed[q]
    BY <2>1, Elsewhere
  <2>3. PICK s, c : s = op[q].session /\ c = handed[q]
    OBVIOUS
  <2>4. c # None /\ (Submitted(s, c) \/ (Signed(q) /\ c = op[q].caller))
    BY <1>0, <2>2, <2>3 DEF HandedOf
  <2>5. Submitted(s, c) => Submitted(s, c)'
    BY SubmittedStays
  <2>6. QED
    BY <2>2, <2>3, <2>4, <2>5 DEF HandedOf, Signed, Submitted
<1>2. HandedOf(r)'
  <2> USE DEF Goto, Stay, Answer, local
  <2>1. CASE AppendSent(r)
    <3>1. handed'[r] = Handed(r) /\ op' = op /\ pc[r] \in Past /\ Handed(r) # None
      BY <1>0, <2>1, HandedType, NoneAssumption DEF AppendSent, Past, Sending
    <3>2. CASE Signed(r)
      BY <3>1, <3>2 DEF Handed, Signed, HandedOf
    <3>3. CASE ~Signed(r)
      <4>1. PICK s, c : s = op[r].session /\ c = Handed(r)
        OBVIOUS
      <4>2. Submitted(op[r].session, op[r].contact)
        BY <3>1, OwnContact
      <4>3. s \in DOMAIN sessions
        BY <3>1, <4>1 DEF IndInv, GuardOK, Cleared, Known
      <4>4. Submitted(s, c)
        BY <3>3, <4>1, <4>2, <4>3 DEF Handed, Customer, IndInv, SenderOK, ContactOK
      <4>5. Submitted(s, c)'
        BY <4>4, SubmittedStays
      <4>6. QED
        BY <3>1, <4>1, <4>5 DEF HandedOf, Submitted
    <3>4. QED
      BY <3>2, <3>3
  <2>2. CASE Arrive(r) \/ Authorize(r) \/ Insert(r) \/ Bind(r) \/ Reread(r) \/ Vouch(r)
    BY <1>0, <2>2 DEF Arrive, First, Authorize, Checked, Insert, Bind, Reread, Vouch, HandedOf
  <2>3. CASE Owner(r) \/ LinkSession(r)
    <3>1. op[r].kind \in {"edit", "send"}
      BY <2>3 DEF Owner, LinkSession, IndInv, CallOK, Past
    <3>2. QED
      BY <1>0, <2>3, <3>1 DEF Owner, LinkSession, HandedOf
  <2>4. CASE Edit(r) \/ SendLock(r) \/ CheckRegistered(r) \/ FindExisting(r) \/ Register(r) \/ Attach(r)
    BY <1>0, <2>4 DEF Edit, SendLock, CheckRegistered, FindExisting, Register, Attach, HandedOf
  <2>5. CASE Commit(r) \/ Show(r) \/ MeRefused(r) \/ MyTrips(r) \/ Claim(r) \/ Fail(r)
    BY <1>0, <2>5 DEF Commit, Show, MeRefused, MyTrips, Claim, Fail, HandedOf
  <2>6. QED
    BY <2>1, <2>2, <2>3, <2>4, <2>5 DEF Step
<1>3. QED
  BY <1>1, <1>2 DEF HandedOK, HandedOf

-----------------------------------------------------------------------------
(* What the tables say of requests that are done. *)

(* What a step adds to the log. *)
LEMMA NewEvents ==
  ASSUME IndInv, NEW r \in Requests, Step(r)
  PROVE  \/ events' = events
         \/ events' = events \cup {Event(r)} /\ pc[r] \in Past /\ pc'[r] = "done" /\ op' = op
<1>0. pc \in [Requests -> Places]
  BY DEF IndInv, TypeOK
<1>1. CASE Edit(r) \/ Commit(r)
  BY <1>0, <1>1 DEF Edit, Commit, Append, Answer, Goto, Past, Sending
<1>2. CASE ~(Edit(r) \/ Commit(r))
  BY <1>2 DEF Step, Arrive, Authorize, Insert, Bind, Reread, Vouch, Owner, LinkSession, SendLock, CheckRegistered,
              FindExisting, Register, Attach, AppendSent, Show, MeRefused, MyTrips, Claim, Fail, tables
<1>3. QED
  BY <1>1, <1>2

(* An event is of a request that was let through. *)
LEMMA EventByStep ==
  ASSUME IndInv, NEW r \in Requests, Step(r), Kept, Going
  PROVE  EventOK'
<1>1. SUFFICES ASSUME NEW e \in events'
               PROVE  pc'[e.by] = "done" /\ e.session = op'[e.by].session /\ Cleared(e.by)'
  BY DEF EventOK
<1>2. CASE e \in events
  <2>1. e.by \in Requests /\ pc[e.by] = "done" /\ e.session = op[e.by].session /\ Cleared(e.by)
    BY <1>2 DEF IndInv, EventOK, TypeOK
  <2>2. Cleared(e.by)'
    BY <2>1, ClearedStays
  <2>3. QED
    BY <2>1, <2>2 DEF Going
<1>3. CASE e \notin events
  <2>1. e = Event(r) /\ pc[r] \in Past /\ pc'[r] = "done" /\ op' = op
    BY <1>1, <1>3, NewEvents
  <2>2. Cleared(r)'
    BY <2>1, ClearedStays DEF IndInv, GuardOK
  <2>3. QED
    BY <2>1, <2>2 DEF Event
<1>4. QED
  BY <1>2, <1>3

(* A trip is shown to whom its session is proven by. *)
LEMMA ShownByStep ==
  ASSUME IndInv, NEW r \in Requests, Step(r), Kept, Going
  PROVE  ShownOK'
<1>0. /\ pc \in [Requests -> Places] /\ shown \in [Requests -> SUBSET Trips]
      /\ owner \in [Trips -> SessionIds \cup {None}]
  BY DEF IndInv, TypeOK
<1>1. SUFFICES ASSUME NEW q \in Requests, NEW t \in shown'[q]
               PROVE  pc'[q] = "done" /\ owner'[t] # None /\ Proves(q, owner[t])'
  BY DEF ShownOK
<1>2. ASSUME t \in Trips, owner[t] # None, pc[q] # "idle", Proves(q, owner[t])
      PROVE  owner'[t] # None /\ Proves(q, owner[t])'
  <2>1. PICK s : s = owner[t]
    OBVIOUS
  <2>2. Proves(q, s)'
    BY <1>2, <2>1, ProvesStays
  <2>3. owner'[t] = s
    BY <1>2, <2>1 DEF Kept
  <2>4. QED
    BY <1>2, <2>1, <2>2, <2>3 DEF Proves
<1>3. CASE t \in shown[q]
  <2>1. pc[q] = "done" /\ owner[t] # None /\ Proves(q, owner[t]) /\ t \in Trips
    BY <1>0, <1>3 DEF IndInv, ShownOK
  <2>2. QED
    BY <1>2, <2>1 DEF Going
<1>4. CASE t \notin shown[q]
  <2>1. q = r
    BY <1>1, <1>4, Elsewhere
  <2>2. Show(r) \/ MyTrips(r)
    <3> USE DEF Goto, Stay, Answer
    <3>1. ~(Arrive(r) \/ Authorize(r) \/ Insert(r) \/ Bind(r) \/ Reread(r) \/ Vouch(r) \/ Owner(r))
      BY <1>0, <1>1, <1>4, <2>1 DEF Arrive, Authorize, Insert, Bind, Reread, Vouch, Owner
    <3>2. ~(LinkSession(r) \/ Edit(r) \/ SendLock(r) \/ CheckRegistered(r) \/ FindExisting(r))
      BY <1>0, <1>1, <1>4, <2>1 DEF LinkSession, Edit, SendLock, CheckRegistered, FindExisting
    <3>3. ~(Register(r) \/ Attach(r) \/ AppendSent(r) \/ Commit(r))
      BY <1>0, <1>1, <1>4, <2>1 DEF Register, Attach, AppendSent, Commit
    <3>4. ~(MeRefused(r) \/ Claim(r) \/ Fail(r))
      BY <1>0, <1>1, <1>4, <2>1 DEF MeRefused, Claim, Fail
    <3>5. QED
      BY <3>1, <3>2, <3>3, <3>4 DEF Step
  <2>3. pc[r] # "idle" /\ pc'[r] = "done" /\ t \in Trips /\ owner[t] # None /\ Proves(r, owner[t])
    <3>1. CASE Show(r)
      <4>1. op[r].trip \in Trips
        BY <3>1, CallType DEF Show
      <4>2. MayRead(r) /\ t = op[r].trip /\ pc[r] # "idle" /\ pc'[r] = "done"
        BY <1>0, <1>1, <1>4, <2>1, <3>1 DEF Show, Answer, Goto
      <4>3. QED
        BY <4>1, <4>2 DEF MayRead, OwnsTrip, Proves
    <3>2. CASE MyTrips(r)
      <4>1. t \in Trips /\ OwnsTrip(op[r].caller, t) /\ pc[r] # "idle" /\ pc'[r] = "done"
        BY <1>0, <1>1, <1>4, <2>1, <3>2 DEF MyTrips, Answer, Goto
      <4>2. QED
        BY <4>1 DEF OwnsTrip, Proves
    <3>3. QED
      BY <2>2, <3>1, <3>2
  <2>4. QED
    BY <1>2, <2>1, <2>3
<1>5. QED
  BY <1>3, <1>4

(* What a step makes of the rows of sessions. *)
LEMMA NewAccounts ==
  ASSUME IndInv, NEW r \in Requests, Step(r),
         NEW s \in DOMAIN sessions', sessions'[s].account # None
  PROVE  /\ s \in DOMAIN sessions
         /\ \/ sessions'[s].account = sessions[s].account
            \/ /\ pc[r] # "idle"
               /\ op[r].token \in Tokens
               /\ sessions[s].hash = op[r].token
               /\ sessions'[s].account = op[r].caller
<1>0. \A u \in DOMAIN sessions : sessions[u] \in Row
  BY DEF IndInv, TypeOK
<1>1. CASE Insert(r)
  BY <1>1 DEF Insert, NewRow, Known
<1>2. CASE Bind(r)
  BY <1>0, <1>2 DEF Bind, Row
<1>3. CASE LinkSession(r)
  <2>1. Cleared(r) /\ way[r] = "token"
    BY <1>3 DEF LinkSession, IndInv, GuardOK, Past
  <2>2. op[r].token \in Tokens /\ sessions[op[r].session].hash = op[r].token
    BY <2>1 DEF Cleared, Hash
  <2>3. QED
    BY <1>0, <1>3, <2>2 DEF LinkSession, Linked, Row
<1>4. CASE Commit(r)
  BY <1>0, <1>4 DEF Commit, Row
<1>5. CASE Claim(r)
  BY <1>0, <1>5 DEF Claim, Claimable, Linked, Row
<1>6. CASE UNCHANGED sessions
  BY <1>6
<1>7. QED
  BY <1>1, <1>2, <1>3, <1>4, <1>5, <1>6
     DEF Step, Arrive, Authorize, Reread, Vouch, Owner, Edit, SendLock, CheckRegistered,
         FindExisting, Register, Attach, AppendSent, Show, MeRefused, MyTrips, Fail, tables

(* An account is linked by a request that brought the token. *)
LEMMA LinkByStep ==
  ASSUME IndInv, NEW r \in Requests, Step(r), Kept, Going
  PROVE  LinkOK'
<1>1. SUFFICES ASSUME NEW s \in DOMAIN sessions', sessions'[s].account # None
               PROVE  \E q \in Requests : /\ op'[q] # None /\ op'[q].token \in Tokens
                                          /\ op'[q].caller = sessions'[s].account
                                          /\ op'[q].token = sessions'[s].hash
  BY DEF LinkOK
<1>2. s \in DOMAIN sessions
  BY <1>1, NewAccounts
<1>3. CASE sessions'[s].account = sessions[s].account
  <2>1. PICK q \in Requests : /\ op[q] # None /\ op[q].token \in Tokens
                              /\ op[q].caller = sessions[s].account
                              /\ op[q].token = sessions[s].hash
    BY <1>1, <1>2, <1>3 DEF IndInv, LinkOK
  <2>2. op'[q] = op[q]
    BY <2>1 DEF IndInv, CallOK, Going
  <2>3. sessions'[s].hash = sessions[s].hash
    BY <1>2, <2>1, NoneAssumption DEF Kept
  <2>4. QED
    BY <1>3, <2>1, <2>2, <2>3
<1>4. CASE sessions'[s].account # sessions[s].account
  <2>1. /\ pc[r] # "idle" /\ op[r].token \in Tokens
        /\ sessions[s].hash = op[r].token /\ sessions'[s].account = op[r].caller
    BY <1>1, <1>4, NewAccounts
  <2>2. op'[r] = op[r] /\ op[r] # None
    BY <2>1, NoneAssumption DEF IndInv, CallOK, Going
  <2>3. sessions'[s].hash = sessions[s].hash
    BY <1>2, <2>1, NoneAssumption DEF Kept
  <2>4. QED
    BY <2>1, <2>2, <2>3
<1>5. QED
  BY <1>3, <1>4

(* A session is attached to the contact typed in it. *)
LEMMA NewCustomers ==
  ASSUME IndInv, NEW r \in Requests, Step(r),
         NEW s \in DOMAIN sessions', sessions'[s].customer # None
  PROVE  \/ s \in DOMAIN sessions /\ sessions'[s].customer = sessions[s].customer
         \/ pc[r] \in Past /\ s = op[r].session /\ sessions'[s].customer = op[r].contact
<1>0. \A u \in DOMAIN sessions : sessions[u] \in Row
  BY DEF IndInv, TypeOK
<1>1. CASE Insert(r)
  BY <1>1 DEF Insert, NewRow, Known
<1>2. CASE Bind(r) \/ LinkSession(r)
  BY <1>0, <1>2 DEF Bind, LinkSession, Linked, Row
<1>3. CASE Commit(r)
  <2>1. pending[r] # None => pending[r] = op[r].contact
    BY DEF IndInv, SenderOK
  <2>2. pc[r] \in Past
    BY <1>3 DEF Commit, Past, Sending
  <2>3. QED
    BY <1>0, <1>3, <2>1, <2>2 DEF Commit, Row
<1>4. CASE Claim(r)
  BY <1>0, <1>4 DEF Claim, Linked, Row
<1>5. CASE UNCHANGED sessions
  BY <1>5
<1>6. QED
  BY <1>1, <1>2, <1>3, <1>4, <1>5
     DEF Step, Arrive, Authorize, Reread, Vouch, Owner, Edit, SendLock, CheckRegistered,
         FindExisting, Register, Attach, AppendSent, Show, MeRefused, MyTrips, Fail, tables

(* An inquiry is added by a commit. *)
LEMMA NewInquiries ==
  ASSUME IndInv, NEW r \in Requests, Step(r), NEW i \in inquiries', i \notin inquiries
  PROVE  /\ i = [by |-> r, session |-> op[r].session, contact |-> handed[r]]
         /\ pc[r] = "commit" /\ pc'[r] = "done" /\ op' = op
<1>0. pc \in [Requests -> Places]
  BY DEF IndInv, TypeOK
<1>1. CASE Commit(r)
  BY <1>0, <1>1 DEF Commit, Answer, Goto
<1>2. CASE ~Commit(r)
  BY <1>2 DEF Step, Arrive, Authorize, Insert, Bind, Reread, Vouch, Owner, LinkSession, Edit, SendLock,
              CheckRegistered, FindExisting, Register, Attach, AppendSent, Show, MeRefused, MyTrips, Claim, Fail, tables
<1>3. QED
  BY <1>1, <1>2

(* Contacts stay in the sessions they were typed in. *)
LEMMA ContactByStep ==
  ASSUME IndInv, NEW r \in Requests, Step(r), Kept, Going
  PROVE  ContactOK'
<1>1. ASSUME NEW s \in DOMAIN sessions', sessions'[s].customer # None
      PROVE  Submitted(s, sessions[s].customer)'
  <2>1. PICK c : c = sessions'[s].customer
    OBVIOUS
  <2>2. Submitted(s, c)
    BY <1>1, <2>1, NewCustomers, OwnContact DEF IndInv, ContactOK
  <2>3. Submitted(s, c)'
    BY <2>2, SubmittedStays
  <2>4. QED
    BY <2>1, <2>3 DEF Submitted
<1>2. ASSUME NEW i \in inquiries'
      PROVE  /\ pc'[i.by] = "done"
             /\ \/ Submitted(i.session, i.contact)'
                \/ i.contact \in Principals /\ i.contact = op'[i.by].caller
  <2>1. CASE i \in inquiries
    <3>1. /\ i.by \in Requests /\ pc[i.by] = "done"
          /\ Submitted(i.session, i.contact) \/ (i.contact \in Principals /\ i.contact = op[i.by].caller)
      BY <2>1 DEF IndInv, ContactOK, TypeOK
    <3>2. Submitted(i.session, i.contact) => Submitted(i.session, i.contact)'
      BY SubmittedStays
    <3>3. QED
      BY <3>1, <3>2 DEF Going
  <2>2. CASE i \notin inquiries
    <3>1. /\ i = [by |-> r, session |-> op[r].session, contact |-> handed[r]]
          /\ pc[r] = "commit" /\ pc'[r] = "done" /\ op' = op
      BY <1>2, <2>2, NewInquiries
    <3>2. Submitted(i.session, i.contact) \/ (Signed(r) /\ i.contact = op[r].caller)
      BY <3>1 DEF IndInv, HandedOK
    <3>3. Submitted(i.session, i.contact) => Submitted(i.session, i.contact)'
      BY SubmittedStays
    <3>4. op[r].caller \in Principals \cup {None}
      BY <3>1, CallType
    <3>5. QED
      BY <3>1, <3>2, <3>3, <3>4 DEF Signed
  <2>3. QED
    BY <2>1, <2>2
<1>3. QED
  BY <1>1, <1>2 DEF ContactOK

-----------------------------------------------------------------------------
(* The theorems. *)

(* Every step keeps the inductive invariant. *)
LEMMA Invariance == IndInv /\ [Next]_vars => IndInv'
<1> SUFFICES ASSUME IndInv, [Next]_vars
             PROVE  IndInv'
  OBVIOUS
<1>1. ASSUME NEW r \in Requests, Step(r) PROVE IndInv'
  <2>1. Kept /\ Going
    BY <1>1, KeptByStep, GoingByStep
  <2>2. TypeOK' /\ CallOK' /\ LockOK'
    BY <1>1, TypeByStep, CallByStep, LocksByStep
  <2>3. GuardOK' /\ SenderOK' /\ HandedOK'
    BY <1>1, <2>1, GuardByStep, SenderByStep, HandedByStep
  <2>4. EventOK' /\ ShownOK' /\ LinkOK' /\ ContactOK'
    BY <1>1, <2>1, EventByStep, ShownByStep, LinkByStep, ContactByStep
  <2>5. QED
    BY <2>2, <2>3, <2>4 DEF IndInv
<1>2. ASSUME UNCHANGED <<tables, locks, local, pc, op, answer, shown>>, grace' \in BOOLEAN
      PROVE  IndInv'
  BY <1>2 DEF tables, local, IndInv, TypeOK, CallOK, GuardOK, Cleared, LockOK, SenderOK, HandedOK, Submitted, EventOK,
              ShownOK, Proves, LinkOK, ContactOK, Known, Hash, Account, Signed, OwnsSession, Registered
<1>3. CASE CloseGrace
  BY <1>2, <1>3 DEF CloseGrace, tables
<1>4. CASE UNCHANGED vars
  BY <1>2, <1>4 DEF vars, tables, local, IndInv, TypeOK
<1>5. QED
  BY <1>1, <1>3, <1>4 DEF Next, Step

(* The inductive invariant holds in every reachable state. *)
THEOREM Inductive == Spec => []IndInv
BY InitInv, Invariance, PTL DEF Spec

(* Every variable keeps its type, and no finished request keeps a lock.      *)
THEOREM TypeCorrect == Spec => []TypeOK
<1>1. IndInv => TypeOK
  BY DEF IndInv
<1>2. QED
  BY Inductive, <1>1, PTL

(* Trips change, and are shown, on proof only (guest_session.authorize).     *)
THEOREM ChangedByTheOwner == Spec => []OnlyByTheOwner
<1>1. IndInv => OnlyByTheOwner
  <2> SUFFICES ASSUME IndInv
               PROVE  OnlyByTheOwner
    OBVIOUS
  <2>1. ASSUME NEW e \in events
        PROVE  Proves(e.by, e.session) \/ (op[e.by].token = None /\ way[e.by] = "tokenless")
    BY <2>1 DEF IndInv, EventOK, Cleared, Proves
  <2>2. QED
    BY <2>1 DEF OnlyByTheOwner, IndInv, ShownOK
<1>2. QED
  BY Inductive, <1>1, PTL

(* An account takes no session without its token (account.link_session).     *)
THEOREM LinkedOnProof == Spec => []LinkIsProven
<1>1. IndInv => LinkIsProven
  BY DEF IndInv, LinkOK, LinkIsProven
<1>2. QED
  BY Inductive, <1>1, PTL

(* A contact is of the session it was typed in (registration.py).            *)
THEOREM ContactsAreTheirs == Spec => []ContactsStay
<1>1. IndInv => ContactsStay
  <2> SUFFICES ASSUME IndInv
               PROVE  ContactsStay
    OBVIOUS
  <2>1. ASSUME NEW s, NEW c, Submitted(s, c) PROVE SubmittedIn(s, c)
    <3>1. PICK r \in Requests : /\ pc[r] \in Past \cup {"done"} /\ way[r] # "none"
                                /\ op[r].session = s /\ op[r].contact = c
      BY <2>1 DEF Submitted
    <3>2. op[r] # None
      BY <3>1, NoneAssumption DEF IndInv, CallOK, Past, Sending
    <3>3. QED
      BY <3>1, <3>2 DEF SubmittedIn
  <2>2. QED
    BY <2>1 DEF IndInv, ContactOK, ContactsStay
<1>2. QED
  BY Inductive, <1>1, PTL

(* What is settled stays settled: a token, an account, an owner.             *)
THEOREM Settled == Spec => NeverMoved
<1> DEFINE Stays ==
      /\ \A s \in DOMAIN sessions :
           /\ s \in DOMAIN sessions'
           /\ sessions[s].hash # None => sessions'[s].hash = sessions[s].hash
           /\ sessions[s].account # None => sessions'[s].account = sessions[s].account
      /\ \A t \in Trips : owner[t] # None => owner'[t] = owner[t]
<1>1. IndInv /\ [Next]_vars => [Stays]_vars
  <2> SUFFICES ASSUME IndInv, [Next]_vars
               PROVE  Stays
    OBVIOUS
  <2>1. ASSUME NEW r \in Requests, Step(r) PROVE Stays
    BY <2>1, KeptByStep DEF Kept
  <2>2. CASE UNCHANGED <<sessions, owner>>
    BY <2>2
  <2>3. QED
    BY <2>1, <2>2 DEF Next, Step, CloseGrace, tables, vars
<1>2. QED
  BY Inductive, <1>1, PTL DEF Spec, NeverMoved
=============================================================================
