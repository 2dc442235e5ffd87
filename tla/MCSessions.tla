---------------------------- MODULE MCSessions ----------------------------
(* A browser with its token, a second device, two accounts, and a session   *)
(* from before the tokens.                                                   *)
EXTENDS Sessions, TLC

CONSTANTS r1, r2, r3, s1, s2, k1, k2, bad, p, q, t1, t2

Call(kind, session, token, caller, trip, contact) ==
  [kind |-> kind, session |-> session, token |-> token, caller |-> caller,
   trip |-> trip, contact |-> contact]

(* One phone twice: the second matches the customer made of the first. *)
Ann == [phone |-> "1", email |-> "ann"]
Bob == [phone |-> "1", email |-> "bob"]
Cas == [phone |-> None, email |-> "cas"]

MCContacts == {Ann, Bob, Cas}
MCRequests == {r1, r2, r3}
MCSessionIds == {s1, s2}
MCTokens == {k1, k2}
MCPrincipals == {p, q}
MCTrips == {t1, t2}
MCLegacy == {s2}

(* Who may touch a session: first requests, both tokens, none, two accounts. *)
Owning ==
  {Call("edit", s1, k1, None, t1, None), Call("edit", s1, k2, p, t1, None),
   Call("edit", s1, bad, q, t1, None), Call("edit", s2, k2, q, t2, None),
   Call("edit", s2, None, None, t1, None), Call("edit", s2, None, p, t2, None),
   Call("read", s1, k1, p, t1, None), Call("trips", s1, None, p, t1, None),
   Call("trips", s1, None, None, t1, None),
   Call("claim", s1, k1, p, t1, None), Call("claim", s1, k1, q, t1, None)}

(* Sends of two trips of a session, and of another session. *)
Sending ==
  {Call("send", s1, k1, None, t1, Ann), Call("send", s1, k1, None, t2, Cas),
   Call("send", s2, k2, None, t2, Bob), Call("send", s1, k1, p, t2, None),
   Call("send", s2, k2, q, t2, Cas)}

MCWorkload == Owning \cup Sending

Symmetry == Permutations(MCRequests)
=============================================================================
