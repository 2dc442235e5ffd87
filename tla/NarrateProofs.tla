--------------------------- MODULE NarrateProofs ---------------------------
(***************************************************************************)
(* Proofs about Narrate, for any containers, routes and times: what a      *)
(* container remembers of a lost ledger row and of the AI switch, how far  *)
(* a request may outlast its deadline, that no billed unit is forgotten    *)
(* and how far the cap may be overrun, and what the circuits keep a        *)
(* request from.                                                           *)
(***************************************************************************)
EXTENDS Narrate, FiniteSetTheorems, TLAPS

-----------------------------------------------------------------------------
(* Counting. *)

(* A set of numbers has a least one: a finite 0..x has no endless descent. *)
LEMMA LeastInNat ==
  ASSUME NEW T \in SUBSET Nat, T # {}
  PROVE  \E x \in T : \A y \in T : x <= y
<1> DEFINE Below == {0..x : x \in T}
<1>1. Below \subseteq FiniteSubsetsOf(Nat) /\ Below # {}
  <2>1. ASSUME NEW B \in Below PROVE B \in FiniteSubsetsOf(Nat)
    <3>1. PICK x \in T : B = 0..x
      OBVIOUS
    <3>2. IsFiniteSet(B) /\ B \in SUBSET Nat
      BY <3>1, FS_Interval
    <3>3. QED
      BY <3>2 DEF FiniteSubsetsOf
  <2>2. QED
    BY <2>1
<1>3. PICK B \in Below : \A C \in Below : ~ (<<C, B>> \in StrictSubsetOrdering(Nat))
  BY ONLY <1>1, FS_StrictSubsetOrderingWellFounded, WFMin
<1>4. PICK x \in T : B = 0..x
  OBVIOUS
<1>5. ASSUME NEW y \in T, y < x PROVE FALSE
  <2>1. 0..y \in Below
    OBVIOUS
  <2>2. <<0..y, B>> \in StrictSubsetOrdering(Nat)
    BY <1>4, <1>5 DEF StrictSubsetOrdering
  <2>3. QED BY <2>1, <2>2, <1>3
<1>6. QED
  BY <1>5

(* Min, a CHOOSE, finds it. *)
LEMMA MinIsMember ==
  ASSUME NEW S \in SUBSET Nat, S # {}
  PROVE  Min(S) \in S
BY LeastInNat DEF Min

Tagged(C, F) == UNION {{c} \X F[c] : c \in C}

(* A fiber *)
LEMMA FiberSize ==
  ASSUME NEW c, NEW S, IsFiniteSet(S)
  PROVE  IsFiniteSet({c} \X S) /\ Cardinality({c} \X S) = Cardinality(S) /\ Cardinality(S) \in Nat
<1>1. IsFiniteSet({c}) /\ Cardinality({c}) = 1 /\ Cardinality(S) \in Nat
  BY FS_Singleton, FS_CardinalityType
<1>2. IsFiniteSet({c} \X S) /\ Cardinality({c} \X S) = Cardinality({c}) * Cardinality(S)
  BY <1>1, FS_Product
<1>3. QED
  BY <1>1, <1>2

(* The same way back. *)
LEMMA FiberFinite ==
  ASSUME NEW C, NEW c \in C, NEW F, IsFiniteSet(Tagged(C, F))
  PROVE  IsFiniteSet(F[c])
<1> DEFINE tag == [x \in F[c] |-> <<c, x>>]
<1>1. tag \in Injection(F[c], Tagged(C, F))
  BY DEF Injection, IsInjective, Tagged
<1>2. QED
  BY <1>1, FS_Injection

(* What one of the tagged sets changes by, all of them change by. *)
LEMMA FiberReplaced ==
  ASSUME NEW C, NEW c \in C, NEW F, NEW G, \A d \in C \ {c} : F[d] = G[d],
         IsFiniteSet(Tagged(C, F)), IsFiniteSet(G[c])
  PROVE  /\ IsFiniteSet(F[c]) /\ IsFiniteSet(Tagged(C, G))
         /\ Cardinality(Tagged(C, G)) + Cardinality(F[c]) = Cardinality(Tagged(C, F)) + Cardinality(G[c])
<1> DEFINE rest == Tagged(C, F) \ ({c} \X F[c])
<1>1. IsFiniteSet(F[c])
  BY FiberFinite
<1>2. /\ IsFiniteSet({c} \X F[c]) /\ Cardinality({c} \X F[c]) = Cardinality(F[c]) /\ Cardinality(F[c]) \in Nat
      /\ IsFiniteSet({c} \X G[c]) /\ Cardinality({c} \X G[c]) = Cardinality(G[c]) /\ Cardinality(G[c]) \in Nat
  BY <1>1, FiberSize
<1>3. IsFiniteSet(rest) /\ Cardinality(rest) \in Nat
  BY FS_Difference, FS_CardinalityType
<1>4. /\ Tagged(C, F) = rest \cup ({c} \X F[c]) /\ rest \cap ({c} \X F[c]) = {}
      /\ Tagged(C, G) = rest \cup ({c} \X G[c]) /\ rest \cap ({c} \X G[c]) = {}
  <2>1. {c} \X F[c] \subseteq Tagged(C, F)
    BY DEF Tagged
  <2>2. \A x : x \in rest <=> \E d \in C \ {c} : x \in {d} \X F[d]
    BY DEF Tagged
  <2>3. \A x : x \in Tagged(C, G) <=> x \in {c} \X G[c] \/ \E d \in C \ {c} : x \in {d} \X G[d]
    BY DEF Tagged
  <2> HIDE DEF rest
  <2>4. \A x : x \in Tagged(C, G) <=> x \in {c} \X G[c] \/ x \in rest
    BY <2>2, <2>3
  <2>5. rest \cap ({c} \X G[c]) = {}
    BY <2>2
  <2>6. QED
    BY <2>1, <2>4, <2>5 DEF rest
<1> HIDE DEF rest
<1>5. Cardinality({}) = 0
  BY FS_EmptySet
<1>6. /\ IsFiniteSet(Tagged(C, G))
      /\ Cardinality(Tagged(C, F)) = Cardinality(rest) + Cardinality({c} \X F[c]) - Cardinality({})
      /\ Cardinality(Tagged(C, G)) = Cardinality(rest) + Cardinality({c} \X G[c]) - Cardinality({})
  BY <1>2, <1>3, <1>4, FS_Union
<1>7. QED
  BY <1>1, <1>2, <1>3, <1>5, <1>6

(* Sets of at most k, one for each member of C, hold at most |C| * k together. *)
LEMMA FibersBound ==
  ASSUME NEW C, IsFiniteSet(C), NEW k \in Nat, NEW F, NEW T, T \subseteq Tagged(C, F),
         \A c \in C : IsFiniteSet(F[c]) /\ Cardinality(F[c]) <= k
  PROVE  IsFiniteSet(T) /\ Cardinality(T) <= Cardinality(C) * k
<1> DEFINE number == [c \in C |-> CHOOSE f : f \in Injection(F[c], 1..k)]
           place == [x \in T |-> <<x[1], number[x[1]][x[2]]>>]
<1>1. ASSUME NEW c \in C PROVE number[c] \in Injection(F[c], 1..k)
  <2>1. Cardinality(F[c]) \in Nat /\ ExistsBijection(1..Cardinality(F[c]), F[c])
    BY FS_CardinalityType
  <2>2. IsFiniteSet(1..Cardinality(F[c])) /\ Cardinality(1..Cardinality(F[c])) = Cardinality(F[c])
    BY <2>1, FS_Interval
  <2>3. ExistsBijection(F[c], 1..Cardinality(F[c]))
    BY <2>2, FS_SameCardinalityBij
  <2>4. PICK f : f \in Bijection(F[c], 1..Cardinality(F[c]))
    BY <2>3 DEF ExistsBijection
  <2>5. f \in Injection(F[c], 1..k)
    BY <2>1, <2>4 DEF Bijection, Injection, IsInjective
  <2>6. QED
    BY <2>5
<1>2. IsFiniteSet(C \X (1..k)) /\ Cardinality(C \X (1..k)) = Cardinality(C) * k
  <2>1. IsFiniteSet(1..k) /\ Cardinality(1..k) = k
    BY FS_Interval
  <2>2. QED
    BY <2>1, FS_Product
<1>3. ASSUME NEW x \in T PROVE x[1] \in C /\ x[2] \in F[x[1]] /\ x = <<x[1], x[2]>>
  BY DEF Tagged
<1> HIDE DEF number
<1>4. place \in Injection(T, C \X (1..k))
  <2>1. place \in [T -> C \X (1..k)]
    BY <1>1, <1>3 DEF Injection
  <2>2. ASSUME NEW x \in T, NEW y \in T, place[x] = place[y] PROVE x = y
    BY <1>1, <1>3, <2>2 DEF Injection, IsInjective
  <2>3. QED
    BY <2>1, <2>2 DEF Injection, IsInjective
<1>5. QED
  BY <1>2, <1>4, FS_Injection

Ones(rows) == {i \in DOMAIN rows : rows[i] = 1}

(* The units of a request's rows can be counted. *)
LEMMA OnesFinite ==
  ASSUME NEW rows \in Seq({0, 1})
  PROVE  IsFiniteSet(Ones(rows)) /\ Cardinality(Ones(rows)) \in Nat /\ Ones(rows) \in SUBSET (1..Len(rows))
<1>1. Ones(rows) \in SUBSET (1..Len(rows))
  BY DEF Ones
<1>2. IsFiniteSet(1..Len(rows))
  BY FS_Interval
<1>3. QED
  BY <1>1, <1>2, FS_Subset, FS_CardinalityType

(* No rows, no units. *)
LEMMA OnesEmpty == Ones(<<>>) = {} /\ Cardinality(Ones(<<>>)) = 0
BY FS_EmptySet DEF Ones

(* A row adds its cost. *)
LEMMA OnesAppend ==
  ASSUME NEW rows \in Seq({0, 1}), NEW cost \in {0, 1}
  PROVE  /\ Append(rows, cost) \in Seq({0, 1})
         /\ Cardinality(Ones(Append(rows, cost))) = Cardinality(Ones(rows)) + cost
<1>1. IsFiniteSet(Ones(rows)) /\ Ones(rows) \in SUBSET (1..Len(rows)) /\ Cardinality(Ones(rows)) \in Nat
  BY OnesFinite
<1>2. Len(rows) + 1 \notin Ones(rows)
  BY <1>1
<1>3. CASE cost = 1
  <2>1. Ones(Append(rows, cost)) = Ones(rows) \cup {Len(rows) + 1}
    BY <1>3 DEF Ones
  <2>2. QED
    BY <1>1, <1>2, <1>3, <2>1, FS_AddElement
<1>4. CASE cost = 0
  <2>1. Ones(Append(rows, cost)) = Ones(rows)
    BY <1>4 DEF Ones
  <2>2. QED
    BY <1>1, <1>4, <2>1
<1>5. QED
  BY <1>3, <1>4

(* The first row's cost is what writing it takes away. *)
LEMMA OnesTail ==
  ASSUME NEW rows \in Seq({0, 1}), rows # <<>>
  PROVE  /\ Head(rows) \in {0, 1} /\ Tail(rows) \in Seq({0, 1})
         /\ Cardinality(Ones(rows)) = Cardinality(Ones(Tail(rows))) + Head(rows)
<1> DEFINE later == Ones(rows) \ {1}
           shift == [i \in Ones(Tail(rows)) |-> i + 1]
<1>1. Head(rows) = rows[1] /\ Head(rows) \in {0, 1} /\ Tail(rows) \in Seq({0, 1}) /\ Len(rows) \in Nat /\ Len(rows) >= 1
  OBVIOUS
<1>2. /\ IsFiniteSet(Ones(rows)) /\ Cardinality(Ones(rows)) \in Nat
      /\ IsFiniteSet(Ones(Tail(rows))) /\ Cardinality(Ones(Tail(rows))) \in Nat
  BY <1>1, OnesFinite
<1>3. shift \in Bijection(Ones(Tail(rows)), later)
  <2>1. \A i : i \in Ones(Tail(rows)) <=> i \in 1..(Len(rows) - 1) /\ rows[i + 1] = 1
    BY <1>1 DEF Ones
  <2>2. \A i : i \in later <=> i \in 2..Len(rows) /\ rows[i] = 1
    BY <1>1 DEF Ones
  <2> HIDE DEF later
  <2>3. shift \in [Ones(Tail(rows)) -> later]
    BY <1>1, <2>1, <2>2
  <2>4. \A i, j \in Ones(Tail(rows)) : shift[i] = shift[j] => i = j
    BY <1>1, <2>1
  <2>5. ASSUME NEW j \in later PROVE \E i \in Ones(Tail(rows)) : shift[i] = j
    <3>1. j - 1 \in Ones(Tail(rows)) /\ shift[j - 1] = j
      BY <1>1, <2>1, <2>2
    <3>2. QED
      BY <3>1
  <2>6. QED
    BY <2>3, <2>4, <2>5 DEF Bijection, Injection, Surjection, IsInjective
<1>4. Cardinality(later) = Cardinality(Ones(Tail(rows)))
  BY <1>2, <1>3, FS_Bijection DEF ExistsBijection
<1>5. Cardinality(later) = IF Head(rows) = 1 THEN Cardinality(Ones(rows)) - 1 ELSE Cardinality(Ones(rows))
  <2>1. 1 \in Ones(rows) <=> Head(rows) = 1
    BY <1>1 DEF Ones
  <2>2. QED
    BY <1>2, <2>1, FS_RemoveElement
<1>6. QED
  BY <1>1, <1>2, <1>4, <1>5

(* A bound on the sets of the members of S bounds all, when the others are empty. *)
LEMMA ServingBound ==
  ASSUME NEW C, NEW S, S \subseteq C, IsFiniteSet(S), NEW k \in Nat, NEW F,
         \A c \in C \ S : F[c] = {}, \A c \in S : IsFiniteSet(F[c]) /\ Cardinality(F[c]) <= k
  PROVE  IsFiniteSet(Tagged(C, F)) /\ Cardinality(Tagged(C, F)) <= Cardinality(S) * k
<1>1. Tagged(C, F) \subseteq Tagged(S, F)
  BY DEF Tagged
<1>2. QED
  BY <1>1, FibersBound

-----------------------------------------------------------------------------
(* A request that passed the budget and has not reached its rows. *)
Working == {"resolve", "limit", "model", "attempt", "assume", "invoke"}

(* The records keep their fields. *)
IsRequest(r) == r = [field \in DOMAIN Idle |-> r[field]]
IsMemory(m) == m = [field \in {"table", "hold", "profile", "sinceLoss"} |-> m[field]]
ShapeOK(c) == IsRequest(at[c]) /\ IsMemory(memory[c])

(* A hold lasts until Hold has passed since the row was lost. *)
HoldOK(c) ==
  /\ memory[c].hold \in 0..Hold /\ memory[c].sinceLoss \in 0..Hold
  /\ memory[c].hold + memory[c].sinceLoss >= Hold
  /\ at[c].pc \in Working => memory[c].hold = 0

Profiles == [known : {"none", "on", "off"}, age : 0..ProfileTTL - 1, retry : 0..ProfileRetry]

(* A profile that says AI is on is at least as old as the switch. *)
ProfileOK(c) ==
  /\ memory[c].profile \in Profiles
  /\ memory[c].profile.known = "on" => ai \/ offFor <= memory[c].profile.age

Satellite(c) == Deployment(c).connection \notin TaskRole

Lefts == -Deadline..Deadline
Times == 0..Deadline

(* What is left of the deadline is on the client's timer, but for the time    *)
(* the role's client took before.                                             *)
TimingOK(c) ==
  /\ at[c].left \in Lefts /\ at[c].timeout \in Times /\ at[c].timer \in Times
  /\ at[c].pc = "assume" =>
       Satellite(c) /\ 0 <= at[c].timer /\ at[c].timer <= at[c].timeout /\ at[c].left = at[c].timer
  /\ at[c].pc = "invoke" =>
       /\ 0 <= at[c].timer /\ at[c].timer <= at[c].timeout
       /\ \/ at[c].left = at[c].timer
          \/ Satellite(c) /\ at[c].timer - at[c].timeout <= at[c].left

IndInv ==
  /\ at = [c \in Containers |-> at[c]] /\ memory = [c \in Containers |-> memory[c]]
  /\ offFor \in 0..ProfileTTL /\ ai \in BOOLEAN
  /\ \A c \in Containers : ShapeOK(c) /\ HoldOK(c) /\ ProfileOK(c) /\ TimingOK(c)

USE TimesAssumption

(* What is known of the times a request may be given. *)
LEMMA Ranges ==
  /\ 0 \in Lefts /\ 0 \in Times /\ Deadline \in Lefts /\ Deadline \in Nat
  /\ \A n \in Lefts : n \in Int /\ n <= Deadline /\ (n >= 0 => n \in Times)
  /\ \A n \in Times : n \in Nat /\ n <= Deadline /\ n \in Lefts
BY DEF Lefts, Times

(* The start is as IndInv says. *)
LEMMA InitOK == Init => IndInv
<1> SUFFICES ASSUME Init, NEW c \in Containers
             PROVE  /\ at = [d \in Containers |-> at[d]] /\ memory = [d \in Containers |-> memory[d]]
                    /\ offFor \in 0..ProfileTTL /\ ai \in BOOLEAN
                    /\ ShapeOK(c) /\ HoldOK(c) /\ ProfileOK(c) /\ TimingOK(c)
  BY DEF IndInv, Init
<1>1. at[c] = Idle /\ memory[c] = Fresh /\ offFor = 0 /\ ai = TRUE
  BY DEF Init
<1>2. at = [d \in Containers |-> at[d]] /\ memory = [d \in Containers |-> memory[d]]
  BY DEF Init
<1>3. ShapeOK(c)
  BY <1>1 DEF ShapeOK, IsRequest, IsMemory, Idle, Fresh
<1>4. HoldOK(c)
  BY <1>1 DEF HoldOK, Idle, Fresh, Working
<1>5. ProfileOK(c)
  BY <1>1 DEF ProfileOK, Fresh, NoProfile, Profiles
<1>6. TimingOK(c)
  BY Ranges, <1>1 DEF TimingOK, Idle
<1>7. QED
  BY <1>1, <1>2, <1>3, <1>4, <1>5, <1>6

(* What Current finds is a right profile; one that says on while AI is off    *)
(* was read before, one that says nothing could not be read now.              *)
LEMMA CurrentOK ==
  ASSUME IndInv, NEW c \in Containers, NEW p \in Current(memory[c].profile)
  PROVE  /\ p \in Profiles
         /\ p.known = "on" => ai \/ offFor <= p.age
         /\ p.known = "none" => p.retry > 0
<1>1. ProfileOK(c)
  BY DEF IndInv
<1>2. CASE p = memory[c].profile /\ (p.known # "none" \/ p.retry > 0)
  BY <1>1, <1>2 DEF ProfileOK
<1>3. CASE p = [known |-> IF ai THEN "on" ELSE "off", age |-> 0, retry |-> 0]
  BY <1>3 DEF Profiles, IndInv
<1>4. CASE p = [NoProfile EXCEPT !.retry = ProfileRetry]
  <2>1. p = [known |-> "none", age |-> 0, retry |-> ProfileRetry]
    BY <1>4 DEF NoProfile
  <2>2. QED
    BY <2>1 DEF Profiles
<1>5. QED
  BY <1>2, <1>3, <1>4 DEF Current, Reads

-----------------------------------------------------------------------------
(* A step of one container leaves the others as they are. *)
LEMMA ContainerStep ==
  ASSUME IndInv, NEW d \in Containers, NEW r, NEW m,
         at' = [at EXCEPT ![d] = r], memory' = [memory EXCEPT ![d] = m],
         UNCHANGED world,
         IsRequest(r), IsMemory(m),
         HoldOK(d)', ProfileOK(d)', TimingOK(d)'
  PROVE  IndInv'
<1>1. at'[d] = r /\ memory'[d] = m
  BY DEF IndInv
<1>2. at' = [c \in Containers |-> at'[c]] /\ memory' = [c \in Containers |-> memory'[c]]
  BY DEF IndInv
<1>3. ASSUME NEW c \in Containers PROVE (ShapeOK(c) /\ HoldOK(c) /\ ProfileOK(c) /\ TimingOK(c))'
  <2>1. CASE c = d
    BY <1>1, <2>1 DEF ShapeOK
  <2>2. CASE c # d
    <3>1. at'[c] = at[c] /\ memory'[c] = memory[c]
      BY <2>2 DEF IndInv
    <3>2. ShapeOK(c) /\ HoldOK(c) /\ ProfileOK(c) /\ TimingOK(c)
      BY DEF IndInv
    <3>3. QED
      BY <3>1, <3>2 DEF ShapeOK, HoldOK, ProfileOK, TimingOK, Satellite, Deployment, world
  <2>3. QED
    BY <2>1, <2>2
<1>4. QED
  BY <1>2, <1>3 DEF IndInv, world

(* A step that leaves what the container remembers, but for its circuits, and *)
(* does not pass the budget.                                                  *)
LEMMA RequestStep ==
  ASSUME IndInv, NEW d \in Containers, NEW r, NEW m,
         at' = [at EXCEPT ![d] = r], memory' = [memory EXCEPT ![d] = m],
         UNCHANGED world,
         IsRequest(r), IsMemory(m),
         m.hold = memory[d].hold, m.profile = memory[d].profile, m.sinceLoss = memory[d].sinceLoss,
         r.pc \in Working => at[d].pc \in Working,
         TimingOK(d)'
  PROVE  IndInv'
<1>1. at'[d] = r /\ memory'[d] = m
  BY DEF IndInv
<1>2. HoldOK(d) /\ ProfileOK(d)
  BY DEF IndInv
<1>3. HoldOK(d)'
  BY <1>1, <1>2 DEF HoldOK
<1>4. ProfileOK(d)'
  BY <1>1, <1>2 DEF ProfileOK, world
<1>5. QED
  BY <1>3, <1>4, ContainerStep

(* A request that is not between the start of a client and its end owes the   *)
(* clock nothing.                                                             *)
LEMMA NoClient ==
  ASSUME NEW d, at'[d].pc \notin {"assume", "invoke"},
         at'[d].left \in Lefts, at'[d].timeout \in Times, at'[d].timer \in Times
  PROVE  TimingOK(d)'
BY DEF TimingOK

-----------------------------------------------------------------------------

(* A request that has ended. *)
LEMMA Ended == IsRequest(Idle) /\ Idle.pc = "idle" /\ Idle.left = 0 /\ Idle.timeout = 0 /\ Idle.timer = 0
BY DEF IsRequest, Idle

(* A request whose rows are to be written. *)
LEMMA ToRecord ==
  ASSUME NEW rows, NEW s, s = [Idle EXCEPT !.pc = "record", !.rows = rows]
  PROVE  IsRequest(s) /\ s.pc = "record" /\ s.left = 0 /\ s.timeout = 0 /\ s.timer = 0
BY DEF IsRequest, Idle

-----------------------------------------------------------------------------
(* The steps of a container keep IndInv. *)

(* A step that leaves the memory alone and ends without a client. *)
LEMMA PlainStep ==
  ASSUME IndInv, NEW d \in Containers, NEW r,
         at' = [at EXCEPT ![d] = r], memory' = memory, UNCHANGED world,
         IsRequest(r), r.pc \notin {"assume", "invoke"},
         r.left \in Lefts, r.timeout \in Times, r.timer \in Times,
         r.pc \in Working => at[d].pc \in Working
  PROVE  IndInv'
<1>1. at'[d] = r
  BY DEF IndInv
<1>2. TimingOK(d)'
  BY <1>1, NoClient
<1>3. memory' = [memory EXCEPT ![d] = memory[d]] /\ IsMemory(memory[d])
  BY DEF IndInv, ShapeOK
<1>4. QED
  BY <1>2, <1>3, RequestStep

(* The steps that change no circuit, hold or profile, and start no client. *)
LEMMA PlainOK ==
  ASSUME IndInv, NEW d \in Containers,
         Ask(d) \/ Limit(d) \/ NextModel(d) \/ Write(d) \/ Respond(d)
  PROVE  IndInv'
<1> DEFINE Fits(s) == /\ IsRequest(s) /\ s.pc \notin {"assume", "invoke"}
                      /\ s.left \in Lefts /\ s.timeout \in Times /\ s.timer \in Times
                      /\ s.pc \in Working => at[d].pc \in Working
<1>1. IsRequest(at[d]) /\ at[d].left \in Lefts /\ at[d].timeout \in Times /\ at[d].timer \in Times
  BY DEF IndInv, ShapeOK, TimingOK
<1>2. memory' = memory /\ UNCHANGED world
  BY DEF Ask, Limit, NextModel, Write, AfterWrite, Respond, world
<1>3. ASSUME NEW s, at' = [at EXCEPT ![d] = s], Fits(s) PROVE IndInv'
  BY <1>2, <1>3, PlainStep
<1>4. Fits(Idle)
  BY Ranges, Ended DEF Working
<1>5. ASSUME NEW rows, Finish(d, rows) PROVE IndInv'
  <2>1. PICK s : s = [Idle EXCEPT !.pc = "record", !.rows = rows]
    OBVIOUS
  <2>2. IsRequest(s) /\ s.pc = "record" /\ s.left = 0 /\ s.timeout = 0 /\ s.timer = 0
    BY <2>1, ToRecord
  <2>3. Fits(s)
    BY Ranges, <2>2 DEF Working
  <2>4. QED
    BY <1>3, <1>5, <2>1, <2>3 DEF Finish
<1> HIDE DEF Fits
<1>6. CASE Ask(d)
  <2>1. PICK s : s = [at[d] EXCEPT !.pc = "budget"]
    OBVIOUS
  <2>2. IsRequest(s) /\ s.pc = "budget" /\ s.left = at[d].left /\ s.timeout = at[d].timeout /\ s.timer = at[d].timer
    BY <1>1, <2>1 DEF IsRequest, Idle
  <2>3. Fits(s)
    BY <1>1, <2>2 DEF Fits, Working
  <2>4. QED
    BY <1>3, <1>6, <2>1, <2>3 DEF Ask, Goto
<1>7. CASE Limit(d)
  <2>1. at[d].pc = "limit"
    BY <1>7 DEF Limit
  <2>2. CASE Leave(d)
    BY <1>3, <1>4, <2>2 DEF Leave
  <2>3. CASE at' = [at EXCEPT ![d].pc = "model", ![d].left = Deadline]
    <3>1. PICK s : s = [at[d] EXCEPT !.pc = "model", !.left = Deadline]
      OBVIOUS
    <3>2. at' = [at EXCEPT ![d] = s]
      BY <2>3, <3>1 DEF IndInv
    <3>3. IsRequest(s) /\ s.pc = "model" /\ s.left = Deadline /\ s.timeout = at[d].timeout /\ s.timer = at[d].timer
      BY <1>1, <3>1 DEF IsRequest, Idle
    <3>4. Fits(s)
      BY Ranges, <1>1, <2>1, <3>3, TimesAssumption DEF Fits, Working
    <3>5. QED
      BY <1>3, <3>2, <3>4
  <2>4. QED
    BY <1>7, <2>2, <2>3 DEF Limit
<1>8. CASE NextModel(d)
  <2>1. at[d].pc = "model"
    BY <1>8 DEF NextModel
  <2>2. CASE Finish(d, at[d].rows)
    BY <1>5, <2>2
  <2>3. CASE ~Finish(d, at[d].rows)
    <3> DEFINE next == at[d].position + 1
               planned(cis) == Plan(d, setting.chain[next], cis)
    <3>1. PICK cis \in SUBSET setting.shut :
            at' = [at EXCEPT ![d].position = next, ![d].items = planned(cis),
                             ![d].pc = IF planned(cis) = {} THEN "model" ELSE "attempt",
                             ![d].rows = IF planned(cis) = {} THEN Append(@, 0) ELSE @]
      BY <1>8, <2>3, Zenon DEF NextModel
    <3>2. PICK items : items = planned(cis)
      OBVIOUS
    <3>3. PICK label \in {"model", "attempt"} : label = IF items = {} THEN "model" ELSE "attempt"
      OBVIOUS
    <3>4. PICK rows : rows = IF items = {} THEN Append(at[d].rows, 0) ELSE at[d].rows
      OBVIOUS
    <3>5. PICK s : s = [at[d] EXCEPT !.position = next, !.items = items, !.pc = label, !.rows = rows]
      OBVIOUS
    <3> HIDE DEF next, planned
    <3>6. at' = [at EXCEPT ![d] = s]
      BY <3>1, <3>2, <3>3, <3>4, <3>5 DEF IndInv
    <3>7. IsRequest(s) /\ s.pc = label /\ s.left = at[d].left /\ s.timeout = at[d].timeout /\ s.timer = at[d].timer
      BY <1>1, <3>5 DEF IsRequest, Idle
    <3>8. Fits(s)
      BY <1>1, <2>1, <3>7 DEF Fits, Working
    <3>9. QED
      BY <1>3, <3>6, <3>8
  <2>4. QED
    BY <2>2, <2>3
<1>9. CASE Respond(d)
  BY <1>3, <1>4, <1>9 DEF Respond, Leave
<1>10. CASE Write(d)
  <2>1. PICK s : s = [at[d] EXCEPT !.rows = Tail(at[d].rows)]
    OBVIOUS
  <2>2. at' = [at EXCEPT ![d] = s] /\ at[d].pc = "record"
    BY <1>10, <2>1 DEF Write, IndInv
  <2>3. IsRequest(s) /\ s.pc = at[d].pc /\ s.left = at[d].left /\ s.timeout = at[d].timeout /\ s.timer = at[d].timer
    BY <1>1, <2>1 DEF IsRequest, Idle
  <2>4. Fits(s)
    BY <1>1, <2>2, <2>3 DEF Fits, Working
  <2>5. QED
    BY <1>3, <2>2, <2>4
<1>11. QED
  BY <1>6, <1>7, <1>8, <1>9, <1>10

(* The budget passes only without a hold; both it and the switch may read the *)
(* profile.                                                                   *)
LEMMA ProfileReadOK ==
  ASSUME IndInv, NEW d \in Containers, Budget(d) \/ Resolve(d)
  PROVE  IndInv'
<1>1. IsRequest(at[d]) /\ IsMemory(memory[d]) /\ HoldOK(d) /\ ProfileOK(d) /\ TimingOK(d)
  BY DEF IndInv, ShapeOK
<1>2. UNCHANGED world /\ at[d].pc \in {"budget", "resolve"}
  BY DEF Budget, Resolve, world
<1>3. PICK r : /\ at' = [at EXCEPT ![d] = r] /\ IsRequest(r) /\ r.pc \notin {"assume", "invoke"}
               /\ r.left \in Lefts /\ r.timeout \in Times /\ r.timer \in Times
               /\ r.pc \in Working => memory[d].hold = 0
  <2>1. CASE Leave(d)
    <3>1. Idle.pc \notin Working /\ Idle.pc \notin {"assume", "invoke"}
      BY Ended DEF Working
    <3>2. at' = [at EXCEPT ![d] = Idle] /\ Idle.left \in Lefts /\ Idle.timeout \in Times /\ Idle.timer \in Times
      BY Ranges, <2>1, Ended DEF Leave
    <3>3. QED
      BY <3>1, <3>2, Ended
  <2>2. CASE Finish(d, <<0>>)
    <3>1. PICK s : s = [Idle EXCEPT !.pc = "record", !.rows = <<0>>]
      OBVIOUS
    <3>2. IsRequest(s) /\ s.pc = "record" /\ s.left = 0 /\ s.timeout = 0 /\ s.timer = 0
      BY <3>1, ToRecord
    <3>3. s.pc \notin Working /\ s.pc \notin {"assume", "invoke"}
      BY <3>2 DEF Working
    <3>4. at' = [at EXCEPT ![d] = s] /\ s.left \in Lefts /\ s.timeout \in Times /\ s.timer \in Times
      BY Ranges, <2>2, <3>1, <3>2 DEF Finish
    <3>5. QED
      BY <3>2, <3>3, <3>4
  <2>3. ASSUME NEW label \in {"resolve", "limit"}, Goto(d, label), memory[d].hold = 0
        PROVE  \E r : /\ at' = [at EXCEPT ![d] = r] /\ IsRequest(r) /\ r.pc \notin {"assume", "invoke"}
                      /\ r.left \in Lefts /\ r.timeout \in Times /\ r.timer \in Times
                      /\ r.pc \in Working => memory[d].hold = 0
    <3>1. PICK s : s = [at[d] EXCEPT !.pc = label]
      OBVIOUS
    <3>2. IsRequest(s) /\ s.pc = label /\ s.left = at[d].left /\ s.timeout = at[d].timeout /\ s.timer = at[d].timer
      BY <1>1, <3>1 DEF IsRequest, Idle
    <3>3. s.pc \notin {"assume", "invoke"}
      BY <3>2
    <3>4. s.left \in Lefts /\ s.timeout \in Times /\ s.timer \in Times
      BY <1>1, <3>2 DEF TimingOK
    <3>5. at' = [at EXCEPT ![d] = s]
      BY <2>3, <3>1 DEF Goto
    <3>6. QED
      BY <2>3, <3>2, <3>3, <3>4, <3>5
  <2>4. CASE Budget(d)
    BY <2>1, <2>3, <2>4 DEF Budget
  <2>5. CASE Resolve(d)
    <3>1. memory[d].hold = 0
      BY <1>1, <2>5 DEF HoldOK, Resolve, Working
    <3>2. Leave(d) \/ Finish(d, <<0>>) \/ Goto(d, "limit")
      BY <2>5 DEF Resolve
    <3>3. QED
      BY <2>1, <2>2, <2>3, <3>1, <3>2
  <2>6. QED
    BY <2>4, <2>5
<1>4. PICK p : /\ memory' = [memory EXCEPT ![d].profile = p]
               /\ p = memory[d].profile \/ p \in Current(memory[d].profile)
  <2>1. CASE UNCHANGED memory
    BY <1>1, <2>1 DEF IndInv, IsMemory
  <2>2. CASE \E p \in Current(memory[d].profile) : memory' = [memory EXCEPT ![d].profile = p]
    BY <2>2
  <2>3. QED
    BY <2>1, <2>2 DEF Budget, Resolve
<1>5. PICK m : m = [memory[d] EXCEPT !.profile = p]
  OBVIOUS
<1>6. IsMemory(m) /\ m.hold = memory[d].hold /\ m.profile = p /\ m.sinceLoss = memory[d].sinceLoss
  BY <1>1, <1>5 DEF IsMemory
<1>7. memory' = [memory EXCEPT ![d] = m]
  BY <1>4, <1>5
<1>8. memory'[d] = m /\ at'[d] = r
  BY <1>3, <1>7 DEF IndInv
<1>9. HoldOK(d)'
  BY <1>1, <1>3, <1>6, <1>8 DEF HoldOK
<1>10. ProfileOK(d)'
  BY <1>1, <1>2, <1>4, <1>6, <1>8, CurrentOK DEF ProfileOK, world
<1>11. TimingOK(d)'
  BY <1>3, <1>8, NoClient
<1>12. QED
  BY <1>2, <1>3, <1>6, <1>7, <1>9, <1>10, <1>11, ContainerStep

(* An attempt starts a client with the time that is left; the role's client   *)
(* gives way to the model's.                                                  *)
LEMMA ClientOK ==
  ASSUME IndInv, NEW d \in Containers, Attempt(d) \/ Assumed(d)
  PROVE  IndInv'
<1>1. IsRequest(at[d]) /\ TimingOK(d) /\ IsMemory(memory[d]) /\ at[d].left \in Lefts
  BY DEF IndInv, ShapeOK, TimingOK
<1>2. memory' = memory /\ UNCHANGED world /\ at[d].pc \in Working
  BY DEF Attempt, Assumed, world, Working
<1>3. CASE Attempt(d) /\ ~TimeLeft(d)
  <2>1. PICK s : s = [Idle EXCEPT !.pc = "record", !.rows = Append(at[d].rows, 0)]
    OBVIOUS
  <2>2. IsRequest(s) /\ s.pc = "record" /\ s.left = 0 /\ s.timeout = 0 /\ s.timer = 0
    BY <2>1, ToRecord
  <2>3. at' = [at EXCEPT ![d] = s]
    BY <1>3, <2>1 DEF Attempt, Finish
  <2>4. s.pc \notin {"assume", "invoke"} /\ s.left \in Lefts /\ s.timeout \in Times /\ s.timer \in Times
    BY Ranges, <2>2
  <2>5. QED
    BY <1>2, <2>2, <2>3, <2>4, PlainStep
<1>4. CASE Attempt(d) /\ TimeLeft(d)
  <2>1. PICK label \in {"assume", "invoke"} : label = IF Satellite(d) THEN "assume" ELSE "invoke"
    BY DEF Satellite
  <2>2. PICK s : s = [at[d] EXCEPT !.pc = label, !.timeout = at[d].left, !.timer = at[d].left]
    OBVIOUS
  <2>3. /\ IsRequest(s) /\ s.pc = label
        /\ s.left = at[d].left /\ s.timeout = at[d].left /\ s.timer = at[d].left /\ s.items = at[d].items /\ s.position = at[d].position
    BY <1>1, <2>2 DEF IsRequest, Idle
  <2>4. at' = [at EXCEPT ![d].pc = IF Satellite(d) THEN "assume" ELSE "invoke",
                         ![d].timeout = at[d].left, ![d].timer = at[d].left]
    BY <1>4 DEF Attempt, Satellite
  <2>5. at' = [at EXCEPT ![d] = s]
    BY <2>1, <2>2, <2>4 DEF IndInv
  <2>6. at'[d] = s
    BY <2>5 DEF IndInv
  <2>7. at[d].left > 0
    BY <1>1, <1>4, TimesAssumption DEF TimeLeft, Lefts
  <2>8. Satellite(d)' <=> Satellite(d)
    BY <1>2, <2>3, <2>6 DEF Satellite, Deployment, world
  <2>9. TimingOK(d)'
    BY <1>1, <2>1, <2>3, <2>6, <2>7, <2>8 DEF TimingOK, Lefts, Times
  <2>10. memory' = [memory EXCEPT ![d] = memory[d]]
    BY <1>2 DEF IndInv
  <2>11. QED
    BY <1>1, <1>2, <2>3, <2>5, <2>9, <2>10, RequestStep
<1>5. CASE Assumed(d)
  <2>1. at[d].pc = "assume"
    BY <1>5 DEF Assumed
  <2>2. PICK s : s = [at[d] EXCEPT !.pc = "invoke", !.timer = at[d].timeout]
    OBVIOUS
  <2>3. /\ IsRequest(s) /\ s.pc = "invoke"
        /\ s.left = at[d].left /\ s.timeout = at[d].timeout /\ s.timer = at[d].timeout /\ s.items = at[d].items /\ s.position = at[d].position
    BY <1>1, <2>2 DEF IsRequest, Idle
  <2>4. at' = [at EXCEPT ![d] = s]
    BY <1>5, <2>2 DEF Assumed, IndInv
  <2>5. at'[d] = s
    BY <2>4 DEF IndInv
  <2>6. Satellite(d)' <=> Satellite(d)
    BY <1>2, <2>3, <2>5 DEF Satellite, Deployment, world
  <2>7. TimingOK(d)'
    BY <1>1, <2>1, <2>3, <2>5, <2>6 DEF TimingOK, Lefts, Times
  <2>8. memory' = [memory EXCEPT ![d] = memory[d]]
    BY <1>2 DEF IndInv
  <2>9. QED
    BY <1>1, <1>2, <2>3, <2>4, <2>7, <2>8, RequestStep
<1>6. QED
  BY <1>3, <1>4, <1>5

(* The end of an attempt changes the container's circuits. *)
LEMMA OutcomeOK ==
  ASSUME IndInv, NEW d \in Containers,
         Text(d) \/ Truncated(d) \/ \E outcome \in Classes \cup {"request"} : Fails(d, outcome)
  PROVE  IndInv'
<1>1. IsRequest(at[d]) /\ TimingOK(d) /\ IsMemory(memory[d]) /\ at[d].left \in Lefts
  BY DEF IndInv, ShapeOK, TimingOK
<1>2. UNCHANGED world /\ at[d].pc \in Working
  BY DEF Text, Truncated, Fails, world, Working
<1>3. PICK table : memory' = [memory EXCEPT ![d].table = table]
  BY DEF Text, Truncated, Fails
<1>4. PICK m : m = [memory[d] EXCEPT !.table = table]
  OBVIOUS
<1>5. IsMemory(m) /\ m.hold = memory[d].hold /\ m.profile = memory[d].profile /\ m.sinceLoss = memory[d].sinceLoss
  BY <1>1, <1>4 DEF IsMemory
<1>6. memory' = [memory EXCEPT ![d] = m]
  BY <1>3, <1>4
<1>7. PICK s : /\ at' = [at EXCEPT ![d] = s] /\ IsRequest(s) /\ s.pc \in {"record", "model", "attempt"}
               /\ s.left \in Lefts /\ s.timeout = 0 /\ s.timer = 0
  <2>1. CASE Text(d)
    <3>1. PICK s : s = [Idle EXCEPT !.pc = "record", !.rows = Append(at[d].rows, 1)]
      OBVIOUS
    <3>2. IsRequest(s) /\ s.pc = "record" /\ s.left = 0 /\ s.timeout = 0 /\ s.timer = 0
      BY <3>1, ToRecord
    <3>3. at' = [at EXCEPT ![d] = s]
      BY <2>1, <3>1 DEF Text, Finish
    <3>4. s.pc \in {"record", "model", "attempt"} /\ s.left \in Lefts
      BY Ranges, <3>2
    <3>5. QED
      BY <3>2, <3>3, <3>4
  <2>2. ASSUME NEW cost, Onward(d, cost)
        PROVE  \E s : /\ at' = [at EXCEPT ![d] = s] /\ IsRequest(s) /\ s.pc \in {"record", "model", "attempt"}
                      /\ s.left \in Lefts /\ s.timeout = 0 /\ s.timer = 0
    <3>1. PICK items : items = at[d].items \ {Min(at[d].items)}
      OBVIOUS
    <3>2. PICK label \in {"model", "attempt"} : label = IF items = {} THEN "model" ELSE "attempt"
      OBVIOUS
    <3>3. PICK rows : rows = Append(at[d].rows, cost)
      OBVIOUS
    <3>4. PICK s : s = [at[d] EXCEPT !.items = items, !.pc = label, !.rows = rows, !.timeout = 0, !.timer = 0]
      OBVIOUS
    <3>5. IsRequest(s) /\ s.pc = label /\ s.left = at[d].left /\ s.timeout = 0 /\ s.timer = 0
      BY <1>1, <3>4 DEF IsRequest, Idle
    <3>6. at' = [at EXCEPT ![d] = s]
      BY <2>2, <3>1, <3>2, <3>3, <3>4 DEF Onward, IndInv
    <3>7. s.pc \in {"record", "model", "attempt"} /\ s.left \in Lefts
      BY <1>1, <3>1, <3>5
    <3>8. QED
      BY <3>5, <3>6, <3>7
  <2>3. QED
    BY <2>1, <2>2 DEF Truncated, Fails
<1>8. at'[d] = s
  BY <1>7 DEF IndInv
<1>9. TimingOK(d)'
  BY Ranges, <1>7, <1>8 DEF TimingOK
<1>10. QED
  BY <1>1, <1>2, <1>5, <1>6, <1>7, <1>9, RequestStep

(* A lost row begins a hold; a recycled container has forgotten it, and       *)
(* whatever else it knew.                                                     *)
LEMMA LossOK ==
  ASSUME IndInv, NEW d \in Containers, Lose(d) \/ Recycle(d)
  PROVE  IndInv'
<1>1. IsRequest(at[d]) /\ TimingOK(d) /\ IsMemory(memory[d]) /\ ProfileOK(d) /\ offFor \in 0..ProfileTTL
  BY DEF IndInv, ShapeOK
<1>2. UNCHANGED world
  BY DEF Lose, Recycle, world
<1>3. CASE Lose(d)
  <2>1. PICK s : s = [at[d] EXCEPT !.rows = Tail(at[d].rows)]
    OBVIOUS
  <2>2. at' = [at EXCEPT ![d] = s] /\ at[d].pc = "record"
    BY <1>3, <2>1 DEF Lose, IndInv
  <2>3. IsRequest(s) /\ s.pc = at[d].pc /\ s.left = at[d].left /\ s.timeout = at[d].timeout /\ s.timer = at[d].timer
    BY <1>1, <2>1 DEF IsRequest, Idle
  <2>4. PICK m : m = [memory[d] EXCEPT !.hold = Hold, !.sinceLoss = 0]
    OBVIOUS
  <2>5. IsMemory(m) /\ m.hold = Hold /\ m.profile = memory[d].profile /\ m.sinceLoss = 0
    BY <1>1, <2>4 DEF IsMemory
  <2>6. memory' = [memory EXCEPT ![d] = m]
    BY <1>3, <2>4 DEF Lose, IndInv
  <2>7. at'[d] = s /\ memory'[d] = m
    BY <2>2, <2>6 DEF IndInv
  <2>8. HoldOK(d)'
    BY <2>2, <2>3, <2>5, <2>7, TimesAssumption DEF HoldOK, Working
  <2>9. ProfileOK(d)'
    BY <1>1, <1>2, <2>5, <2>7 DEF ProfileOK, world
  <2>10. TimingOK(d)'
    BY <1>1, <2>2, <2>3, <2>7 DEF TimingOK
  <2>11. QED
    BY <1>2, <2>2, <2>3, <2>5, <2>6, <2>8, <2>9, <2>10, ContainerStep
<1>4. CASE Recycle(d)
  <2>1. at' = [at EXCEPT ![d] = Idle] /\ memory' = [memory EXCEPT ![d] = Fresh]
    BY <1>4 DEF Recycle, Leave
  <2>2. at'[d] = Idle /\ memory'[d] = Fresh
    BY <2>1 DEF IndInv
  <2>3. IsMemory(Fresh) /\ Fresh.hold = 0 /\ Fresh.sinceLoss = Hold /\ Fresh.profile = NoProfile
    BY DEF IsMemory, Fresh
  <2>4. HoldOK(d)'
    BY <2>2, <2>3, Ended, TimesAssumption DEF HoldOK, Working
  <2>5. ProfileOK(d)'
    BY <2>2, <2>3 DEF ProfileOK, Profiles, NoProfile
  <2>6. TimingOK(d)'
    BY Ranges, <2>2, Ended DEF TimingOK
  <2>7. QED
    BY <1>2, <2>1, <2>3, <2>4, <2>5, <2>6, Ended, ContainerStep
<1>5. QED
  BY <1>3, <1>4

-----------------------------------------------------------------------------
(* Time passes for the profile a container keeps and for the switch alike.    *)
LEMMA AgedProfile ==
  ASSUME NEW p \in Profiles,
         p.known = "on" => ai \/ offFor <= p.age,
         offFor \in 0..ProfileTTL, ai \in BOOLEAN, ai' = ai,
         offFor' = IF ai THEN 0 ELSE Smaller(offFor + 1, ProfileTTL),
         NEW q, q = Older(p)
  PROVE  /\ q \in Profiles
         /\ q.known = "on" => ai' \/ offFor' <= q.age
<1>1. /\ p.known \in {"none", "on", "off"} /\ p.age \in Nat /\ p.retry \in 0..ProfileRetry
      /\ ProfileRetry \in Nat /\ ProfileTTL \in Nat \ {0}
  BY TimesAssumption DEF Profiles
<1>2. Less(p.retry) \in 0..ProfileRetry
  BY <1>1 DEF Less
<1>3. CASE p.known # "none" /\ p.age + 1 < ProfileTTL
  <2>1. q = [known |-> p.known, age |-> p.age + 1, retry |-> Less(p.retry)]
    BY <1>3 DEF Older
  <2>2. q.known = p.known /\ q.age = p.age + 1 /\ q \in Profiles
    <3>1. p.age + 1 \in 0..ProfileTTL - 1
      BY <1>1, <1>3
    <3>2. QED
      BY <1>1, <1>2, <2>1, <3>1 DEF Profiles
  <2>3. Smaller(offFor + 1, ProfileTTL) \in Nat /\ Smaller(offFor + 1, ProfileTTL) <= offFor + 1
    <3>1. ProfileTTL \in Nat /\ offFor + 1 \in Nat
      BY TimesAssumption
    <3>2. ASSUME NEW a \in Nat, NEW b \in Nat PROVE Smaller(a, b) \in Nat /\ Smaller(a, b) <= a
      BY DEF Smaller
    <3>3. QED
      BY <3>1, <3>2
  <2>4. CASE ai
    BY <1>1, <1>3, <2>2, <2>4
  <2>5. CASE ~ai
    <3>1. offFor' = Smaller(offFor + 1, ProfileTTL)
      BY <2>5
    <3>2. p.known = "on" => offFor <= p.age
      BY <2>5
    <3>3. QED
      BY <1>1, <1>3, <2>2, <2>3, <3>1, <3>2
  <2>6. QED
    BY <2>4, <2>5
<1>4. CASE ~(p.known # "none" /\ p.age + 1 < ProfileTTL)
  <2>1. q = [known |-> "none", age |-> 0, retry |-> Less(p.retry)]
    BY <1>4 DEF Older
  <2>2. 0 \in 0..ProfileTTL - 1
    BY <1>1
  <2>3. QED
    BY <1>2, <2>1, <2>2 DEF Profiles
<1>5. QED
  BY <1>3, <1>4

(* A unit of time for every container keeps IndInv. *)
LEMMA TickOK == ASSUME IndInv, Tick PROVE IndInv'
<1>1. /\ ai' = ai /\ ai \in BOOLEAN /\ offFor \in 0..ProfileTTL
      /\ offFor' = IF ai THEN 0 ELSE Smaller(offFor + 1, ProfileTTL)
  BY DEF Tick, IndInv
<1>2. offFor' \in 0..ProfileTTL
  BY <1>1, TimesAssumption DEF Smaller
<1>3. at' = [c \in Containers |-> at'[c]] /\ memory' = [c \in Containers |-> memory'[c]]
  BY DEF Tick
<1>4. ASSUME NEW c \in Containers PROVE (ShapeOK(c) /\ HoldOK(c) /\ ProfileOK(c) /\ TimingOK(c))'
  <2>1. IsRequest(at[c]) /\ HoldOK(c) /\ ProfileOK(c) /\ TimingOK(c)
    BY DEF IndInv, ShapeOK
  <2>2. PICK q : q = Older(memory[c].profile)
    OBVIOUS
  <2>3. memory'[c] = [table |-> Elapsed(memory[c].table), hold |-> Less(memory[c].hold),
                      sinceLoss |-> Smaller(memory[c].sinceLoss + 1, Hold), profile |-> q]
    BY <2>2 DEF Tick, Aged
  <2>4. /\ IsMemory(memory'[c]) /\ memory'[c].profile = q /\ memory'[c].hold = Less(memory[c].hold)
        /\ memory'[c].sinceLoss = Smaller(memory[c].sinceLoss + 1, Hold)
    BY <2>3 DEF IsMemory
  <2>5. PICK s : s = IF at[c].pc \in {"assume", "invoke"}
                     THEN [at[c] EXCEPT !.left = at[c].left - 1, !.timer = at[c].timer - 1] ELSE at[c]
    OBVIOUS
  <2>6. at'[c] = s
    BY <2>5 DEF Tick
  <2>7. ASSUME at[c].pc \in {"assume", "invoke"}
        PROVE  IsRequest(at'[c]) /\ at'[c].pc = at[c].pc /\ TimingOK(c)'
    <3>1. /\ IsRequest(s) /\ s.pc = at[c].pc /\ s.items = at[c].items /\ s.position = at[c].position
          /\ s.left = at[c].left - 1 /\ s.timeout = at[c].timeout /\ s.timer = at[c].timer - 1
      BY <2>1, <2>5, <2>7 DEF IsRequest, Idle
    <3>2. at[c].timer > 0
      BY <2>7 DEF Tick
    <3>3. Satellite(c)' <=> Satellite(c)
      BY <2>6, <3>1 DEF Satellite, Deployment, Tick
    <3>4. TimingOK(c)'
      BY <2>1, <2>6, <2>7, <3>1, <3>2, <3>3 DEF TimingOK, Lefts, Times
    <3>5. QED
      BY <2>6, <3>1, <3>4
  <2>8. ASSUME at[c].pc \notin {"assume", "invoke"}
        PROVE  IsRequest(at'[c]) /\ at'[c].pc = at[c].pc /\ TimingOK(c)'
    <3>1. s = at[c]
      BY <2>5, <2>8
    <3>2. TimingOK(c)'
      BY <2>1, <2>6, <2>8, <3>1 DEF TimingOK
    <3>3. QED
      BY <2>1, <2>6, <3>1, <3>2
  <2>9. IsRequest(at'[c]) /\ at'[c].pc = at[c].pc /\ TimingOK(c)'
    BY <2>7, <2>8
  <2>10. HoldOK(c)'
    <3>1. memory[c].hold \in Nat /\ memory[c].sinceLoss \in Nat /\ Hold \in Nat
      BY <2>1, TimesAssumption DEF HoldOK
    <3>2. /\ Less(memory[c].hold) \in 0..Hold /\ Smaller(memory[c].sinceLoss + 1, Hold) \in 0..Hold
          /\ Less(memory[c].hold) + Smaller(memory[c].sinceLoss + 1, Hold) >= Hold
          /\ memory[c].hold = 0 => Less(memory[c].hold) = 0
      BY <2>1, <3>1 DEF HoldOK, Less, Smaller
    <3>3. QED
      BY <2>1, <2>4, <2>9, <3>2 DEF HoldOK
  <2>11. ProfileOK(c)'
    BY <1>1, <2>1, <2>2, <2>4, AgedProfile DEF ProfileOK
  <2>12. QED
    BY <2>4, <2>9, <2>10, <2>11 DEF ShapeOK
<1>5. QED
  BY <1>1, <1>2, <1>3, <1>4 DEF IndInv

(* The switch is as old as every profile when it is used; a day changes the   *)
(* books only.                                                                *)
LEMMA AroundOK ==
  ASSUME IndInv, Switch \/ NewDay \/ UNCHANGED vars
  PROVE  IndInv'
<1>1. memory' = memory /\ at' = at /\ setting' = setting
  BY DEF Switch, NewDay, world, vars
<1>2. /\ ai' \in BOOLEAN /\ offFor' \in 0..ProfileTTL
      /\ (ai' = ai /\ offFor' = offFor) \/ offFor' = 0
  <2>1. ai \in BOOLEAN /\ offFor \in 0..ProfileTTL
    BY DEF IndInv
  <2>2. CASE Switch
    <3>1. (~ai) \in BOOLEAN
      OBVIOUS
    <3>2. ai' \in BOOLEAN
      BY <2>2, <3>1, Zenon DEF Switch
    <3>3. offFor' = 0
      BY <2>2 DEF Switch
    <3>4. QED
      BY <3>2, <3>3
  <2>3. CASE NewDay \/ UNCHANGED vars
    <3>1. ai' = ai /\ offFor' = offFor
      BY <2>3, Zenon DEF NewDay, world, vars
    <3>2. ai' \in BOOLEAN
      BY <2>1, <3>1, Zenon
    <3>3. QED
      BY <2>1, <3>1, <3>2
  <2>4. QED
    BY <2>2, <2>3
<1>3. ASSUME NEW c \in Containers PROVE (ShapeOK(c) /\ HoldOK(c) /\ ProfileOK(c) /\ TimingOK(c))'
  <2>1. ShapeOK(c) /\ HoldOK(c) /\ ProfileOK(c) /\ TimingOK(c)
    BY DEF IndInv
  <2>2. ProfileOK(c)'
    BY <1>1, <1>2, <2>1 DEF ProfileOK, Profiles
  <2>3. QED
    BY <1>1, <2>1, <2>2 DEF ShapeOK, HoldOK, TimingOK, Satellite, Deployment
<1>4. QED
  BY <1>1, <1>2, <1>3 DEF IndInv

-----------------------------------------------------------------------------
(* Every step keeps IndInv. *)
LEMMA StepOK == IndInv /\ [Next]_vars => IndInv'
<1> SUFFICES ASSUME IndInv, [Next]_vars PROVE IndInv'
  OBVIOUS
<1>1. ASSUME NEW c \in Containers, Ask(c) \/ Serve(c) \/ Recycle(c) PROVE IndInv'
  <2>1. CASE Ask(c) \/ Limit(c) \/ NextModel(c) \/ Write(c) \/ Respond(c)
    BY <2>1, PlainOK
  <2>2. CASE Budget(c) \/ Resolve(c)
    BY <2>2, ProfileReadOK
  <2>3. CASE Attempt(c) \/ Assumed(c)
    BY <2>3, ClientOK
  <2>4. CASE Text(c) \/ Truncated(c) \/ \E outcome \in Classes \cup {"request"} : Fails(c, outcome)
    BY <2>4, OutcomeOK
  <2>5. CASE Lose(c) \/ Recycle(c)
    BY <2>5, LossOK
  <2>6. QED
    BY <1>1, <2>1, <2>2, <2>3, <2>4, <2>5 DEF Serve, Generate
<1>2. QED
  BY <1>1, TickOK, AroundOK DEF Next

(* The inductive invariant of Narrate. *)
THEOREM Inductive == Spec => []IndInv
BY InitOK, StepOK, PTL DEF Spec

(* In Narrate every request that calls a model past its deadline is a         *)
(* satellite's last attempt, late by no more than the time it was given.      *)
THEOREM OverrunIsBounded == Spec => []OverrunIsOneAttempt
<1>1. IndInv => OverrunIsOneAttempt
  <2> SUFFICES ASSUME IndInv, NEW c \in Containers, at[c].pc \in {"assume", "invoke"}, at[c].left < 0
               PROVE  /\ at[c].pc = "invoke" /\ Satellite(c)
                      /\ -at[c].left <= at[c].timeout
    BY DEF OverrunIsOneAttempt, Satellite
  <2>1. TimingOK(c)
    BY DEF IndInv
  <2>2. QED
    BY <2>1 DEF TimingOK, Lefts, Times
<1>2. QED
  BY <1>1, Inductive, PTL

(* After a lost ledger row a container calls no model for the hold.           *)
THEOREM HoldIsKept == Spec => HeldAfterLoss
<1> DEFINE Held == \A c \in Containers : Begins(c) => memory[c].sinceLoss >= Hold
<1>1. IndInv => Held
  <2> SUFFICES ASSUME IndInv, NEW c \in Containers, Begins(c) PROVE memory[c].sinceLoss >= Hold
    OBVIOUS
  <2>1. HoldOK(c)
    BY DEF IndInv
  <2>2. QED
    BY <2>1, TimesAssumption DEF HoldOK, Working, Begins
<1>2. QED
  BY <1>1, Inductive, PTL DEF HeldAfterLoss

(* A switch to off reaches a container within the life of its profile.        *)
THEOREM SwitchIsKnown == Spec => SwitchReaches
<1> DEFINE Known ==
      \A c \in Containers : at[c].pc = "resolve" /\ at'[c].pc = "limit" =>
        ai \/ offFor < ProfileTTL \/ memory'[c].profile.retry > 0
<1>1. IndInv /\ [Next]_vars => Known
  <2> SUFFICES ASSUME IndInv, [Next]_vars, NEW c \in Containers, at[c].pc = "resolve", at'[c].pc = "limit"
               PROVE  ai \/ offFor < ProfileTTL \/ memory'[c].profile.retry > 0
    OBVIOUS
  <2>1. Resolve(c)
    <3>1. ~UNCHANGED at /\ ~UNCHANGED vars /\ ~Switch /\ ~NewDay
      BY DEF vars, Switch, NewDay
    <3>2. ~Tick
      <4>1. Tick => at'[c] = at[c]
        BY DEF Tick
      <4>2. QED
        BY <4>1
    <3>3. PICK d \in Containers : Ask(d) \/ Serve(d) \/ Recycle(d)
      BY <3>1, <3>2 DEF Next
    <3>4. d = c
      <4>1. d # c => at'[c] = at[c]
        BY <3>3 DEF IndInv, Ask, Serve, Recycle, Generate, Budget, Resolve, Limit, NextModel, Attempt, Assumed,
                    Truncated, Text, Fails, Write, Lose, Respond, Goto, Leave, Finish, Onward
      <4>2. QED
        BY <4>1
    <3>5. ~Recycle(c)
      <4>1. Recycle(c) => at'[c] = Idle
        BY DEF Recycle, Leave, IndInv
      <4>2. QED
        BY <4>1, Ended
    <3>6. QED
      BY <3>3, <3>4, <3>5 DEF Ask, Serve, Generate, Budget, Limit, NextModel, Attempt, Assumed, Truncated, Text, Fails,
                              Write, Lose, Respond
  <2>2. PICK p \in Current(memory[c].profile) :
          /\ memory' = [memory EXCEPT ![c].profile = p]
          /\ IF AiEnabled(p) THEN Goto(c, "limit") ELSE Finish(c, <<0>>)
    <3>1. ~Leave(c)
      <4>1. Leave(c) => at'[c] = Idle
        BY DEF Leave, IndInv
      <4>2. QED
        BY <4>1, Ended
    <3>2. QED
      BY <2>1, <3>1 DEF Resolve
  <2>3. p.known # "off"
    <3>1. PICK s : s = [Idle EXCEPT !.pc = "record", !.rows = <<0>>]
      OBVIOUS
    <3>2. s.pc = "record"
      BY <3>1, ToRecord
    <3>3. Finish(c, <<0>>) => at'[c] = s
      BY <3>1 DEF Finish, IndInv
    <3>4. QED
      BY <2>2, <3>2, <3>3 DEF AiEnabled
  <2>4. PICK m : m = [memory[c] EXCEPT !.profile = p]
    OBVIOUS
  <2>5. m.profile = p
    <3>1. IsMemory(memory[c])
      BY DEF IndInv, ShapeOK
    <3>2. QED
      BY <2>4, <3>1 DEF IsMemory
  <2>6. memory'[c].profile = p
    BY <2>2, <2>4, <2>5 DEF IndInv
  <2>7. /\ p.known \in {"none", "on", "off"} /\ p.age \in Nat /\ offFor \in 0..ProfileTTL /\ ProfileTTL \in Nat
        /\ p.age <= ProfileTTL - 1
        /\ p.known = "on" => ai \/ offFor <= p.age
        /\ p.known = "none" => p.retry > 0
    BY CurrentOK, TimesAssumption DEF Profiles, IndInv
  <2>8. QED
    BY <2>3, <2>6, <2>7
<1>2. QED
  BY <1>1, Inductive, PTL DEF SwitchReaches, Spec


-----------------------------------------------------------------------------
(* The books. *)

(* The attempts a request may still make: the one under way, the model's     *)
(* other deployments and those of the models after it.                        *)
Ahead(r) ==
  IF r.pc \in Working
  THEN {x \in Chances : x[1] > r.position \/ (x[1] = r.position /\ x[2] \in r.items)} ELSE {}

(* The units a request may yet bring to the ledger. *)
Claims(r) == ({0} \X Ones(r.rows)) \cup ({1} \X Ahead(r))

Requests ==
  [pc : Labels, position : Nat, items : SUBSET Nat, left : Int, timeout : Int, timer : Int, rows : Seq({0, 1})]

RequestOK(r) ==
  /\ r \in Requests /\ r.position <= Len(setting.chain)
  /\ r.position = 0 => r.items = {}
  /\ r.position > 0 => r.items \subseteq DOMAIN setting.chain[r.position]
  /\ r.pc \in {"attempt", "assume", "invoke"} => r.position > 0 /\ r.items # {}
  /\ r.pc \in {"idle", "budget", "resolve", "limit"} => r.position = 0 /\ r.rows = <<>>

Claimed == Tagged(Containers, [c \in Containers |-> Claims(at[c])])

(* The books balance, and the ledger together with all that requests may yet  *)
(* bring to it stays within what WithinTheCap allows.                         *)
BooksInv ==
  /\ setting \in Settings
  /\ ledger \in Nat /\ billed \in Nat /\ lost \in 0..MaxLost
  /\ \A c \in Containers :
       /\ RequestOK(at[c]) /\ (at[c].pc # "idle" => c \in setting.serving)
       /\ Cardinality(Claims(at[c])) <= Cardinality(Chances)
  /\ IsFiniteSet(Pending) /\ BooksBalance
  /\ IsFiniteSet(Claimed)
  /\ ledger + Cardinality(Claimed) <= Cap - 1 + Cardinality(setting.serving) * Cardinality(Chances)

(* A route has finitely many deployments. *)
LEMMA ChancesFinite ==
  ASSUME setting \in Settings
  PROVE  /\ IsFiniteSet(Chances) /\ Cardinality(Chances) \in Nat
         /\ \A x \in Chances : x[1] \in DOMAIN setting.chain /\ x[2] \in DOMAIN setting.chain[x[1]]
<1> DEFINE chain == setting.chain
           row == [m \in DOMAIN chain |-> {m} \X DOMAIN chain[m]]
           family == {{m} \X DOMAIN chain[m] : m \in DOMAIN chain}
<1>1. chain \in Seq(Seq(Deployments))
  BY SettingsAssumption
<1>2. IsFiniteSet(DOMAIN chain)
  <2>1. DOMAIN chain = 1..Len(chain) /\ Len(chain) \in Nat
    BY <1>1
  <2>2. QED
    BY ONLY <2>1, FS_Interval
<1>3. row \in Surjection(DOMAIN chain, family)
  BY DEF Surjection
<1>4. IsFiniteSet(family)
  BY <1>2, <1>3, FS_Surjection
<1>5. ASSUME NEW T \in family PROVE IsFiniteSet(T)
  <2>1. PICK m \in DOMAIN chain : T = {m} \X DOMAIN chain[m]
    OBVIOUS
  <2>2. IsFiniteSet(DOMAIN chain[m])
    <3>1. DOMAIN chain[m] = 1..Len(chain[m]) /\ Len(chain[m]) \in Nat
      BY <1>1
    <3>2. QED
      BY ONLY <3>1, FS_Interval
  <2>3. QED
    BY <2>1, <2>2, FiberSize
<1>6. Chances = UNION family
  BY DEF Chances
<1>7. IsFiniteSet(Chances)
  BY <1>4, <1>5, <1>6, FS_UNION
<1>8. QED
  BY <1>7, FS_CardinalityType DEF Chances

(* What a request claims: its unwritten units and its attempts to come. *)
LEMMA ClaimsCount ==
  ASSUME setting \in Settings, NEW r, r.rows \in Seq({0, 1})
  PROVE  /\ IsFiniteSet(Claims(r)) /\ IsFiniteSet(Ones(r.rows)) /\ IsFiniteSet(Ahead(r))
         /\ Cardinality(Ones(r.rows)) \in Nat /\ Cardinality(Ahead(r)) \in Nat
         /\ Cardinality(Ahead(r)) <= Cardinality(Chances)
         /\ Cardinality(Claims(r)) = Cardinality(Ones(r.rows)) + Cardinality(Ahead(r))
<1>1. IsFiniteSet(Chances)
  BY ChancesFinite
<1>2. Ahead(r) \in SUBSET Chances
  BY DEF Ahead
<1>3. IsFiniteSet(Ahead(r)) /\ Cardinality(Ahead(r)) <= Cardinality(Chances) /\ Cardinality(Ahead(r)) \in Nat
  BY <1>1, <1>2, FS_Subset, FS_CardinalityType
<1>4. IsFiniteSet(Ones(r.rows)) /\ Cardinality(Ones(r.rows)) \in Nat
  BY OnesFinite
<1>5. /\ IsFiniteSet({0} \X Ones(r.rows)) /\ Cardinality({0} \X Ones(r.rows)) = Cardinality(Ones(r.rows))
      /\ IsFiniteSet({1} \X Ahead(r)) /\ Cardinality({1} \X Ahead(r)) = Cardinality(Ahead(r))
  BY <1>3, <1>4, FiberSize
<1>6. ({0} \X Ones(r.rows)) \cap ({1} \X Ahead(r)) = {} /\ Cardinality({}) = 0
  BY FS_EmptySet
<1>7. /\ IsFiniteSet(Claims(r))
      /\ Cardinality(Claims(r)) = Cardinality({0} \X Ones(r.rows)) + Cardinality({1} \X Ahead(r)) - Cardinality({})
  BY ONLY <1>5, <1>6, FS_Union DEF Claims
<1>8. QED
  BY <1>3, <1>4, <1>5, <1>6, <1>7

Steady == at = [c \in Containers |-> at[c]]

(* A step of one request that spends no more than it may keeps the books. *)
LEMMA BookStep ==
  ASSUME Steady, BooksInv, NEW d \in Containers, NEW r, UNCHANGED setting,
         at' = [at EXCEPT ![d] = r],
         RequestOK(r), r.pc # "idle" => d \in setting.serving,
         ledger' \in Nat, billed' \in Nat, lost' \in 0..MaxLost, ledger' >= ledger,
         billed' - billed = (ledger' - ledger) + (lost' - lost)
                            + Cardinality(Ones(r.rows)) - Cardinality(Ones(at[d].rows)),
         \/ (ledger' - ledger) + Cardinality(Claims(r)) <= Cardinality(Claims(at[d]))
         \/ ledger' < Cap /\ Cardinality(Claims(r)) <= Cardinality(Chances)
  PROVE  BooksInv'
<1> DEFINE claims == [c \in Containers |-> Claims(at[c])]
           later == [c \in Containers |-> IF c = d THEN Claims(r) ELSE Claims(at[c])]
           open == [c \in Containers |-> Ones(at[c].rows)]
           next == [c \in Containers |-> IF c = d THEN Ones(r.rows) ELSE Ones(at[c].rows)]
<1>1. at'[d] = r /\ \A c \in Containers \ {d} : at'[c] = at[c]
  BY DEF Steady
<1>2. setting \in Settings /\ RequestOK(at[d]) /\ r.rows \in Seq({0, 1}) /\ at[d].rows \in Seq({0, 1})
  BY DEF BooksInv, RequestOK, Requests
<1>3. Chances' = Chances
  BY DEF Chances
<1>4. \A c \in Containers : Claims(at[c])' = later[c]
  BY <1>1, <1>3 DEF Claims, Ahead
<1>5. Claimed = Tagged(Containers, claims) /\ Claimed' = Tagged(Containers, later)
  BY <1>4 DEF Claimed, Tagged
<1>6. Pending = Tagged(Containers, open) /\ Pending' = Tagged(Containers, next)
  BY <1>1 DEF Pending, Tagged, Unwritten, Ones
<1>7. /\ IsFiniteSet(Pending') /\ Cardinality(Pending') \in Nat /\ Cardinality(Pending) \in Nat
      /\ Cardinality(Pending') + Cardinality(Ones(at[d].rows)) = Cardinality(Pending) + Cardinality(Ones(r.rows))
  <2>1. IsFiniteSet(Tagged(Containers, open)) /\ IsFiniteSet(next[d]) /\ \A c \in Containers \ {d} : open[c] = next[c]
    BY <1>2, <1>6, ClaimsCount DEF BooksInv
  <2>2. /\ IsFiniteSet(Tagged(Containers, next))
        /\ Cardinality(Tagged(Containers, next)) + Cardinality(open[d])
              = Cardinality(Tagged(Containers, open)) + Cardinality(next[d])
    BY <2>1, FiberReplaced
  <2>3. QED
    BY <1>6, <2>1, <2>2, FS_CardinalityType
<1>8. /\ IsFiniteSet(Claimed') /\ Cardinality(Claimed') \in Nat /\ Cardinality(Claimed) \in Nat
      /\ Cardinality(Claimed') + Cardinality(Claims(at[d])) = Cardinality(Claimed) + Cardinality(Claims(r))
  <2>1. IsFiniteSet(Tagged(Containers, claims)) /\ IsFiniteSet(later[d]) /\ \A c \in Containers \ {d} : claims[c] = later[c]
    BY <1>2, <1>5, ClaimsCount DEF BooksInv
  <2>2. /\ IsFiniteSet(Tagged(Containers, later))
        /\ Cardinality(Tagged(Containers, later)) + Cardinality(claims[d])
              = Cardinality(Tagged(Containers, claims)) + Cardinality(later[d])
    BY <2>1, FiberReplaced
  <2>3. QED
    BY <1>5, <2>1, <2>2, FS_CardinalityType
<1> HIDE DEF claims, open, next
<1>9. /\ Cardinality(Claims(r)) \in Nat /\ Cardinality(Claims(at[d])) \in Nat
      /\ Cardinality(Ones(r.rows)) \in Nat /\ Cardinality(Ones(at[d].rows)) \in Nat
      /\ Cardinality(Chances) \in Nat /\ IsFiniteSet(setting.serving) /\ Cardinality(setting.serving) \in Nat
  BY <1>2, ClaimsCount, ChancesFinite, SettingsAssumption, FS_CardinalityType
<1>10. Cardinality(Claims(r)) <= Cardinality(Chances)
  BY <1>9 DEF BooksInv
<1>11. ASSUME NEW c \in Containers
       PROVE  (/\ RequestOK(at[c]) /\ (at[c].pc # "idle" => c \in setting.serving)
               /\ Cardinality(Claims(at[c])) <= Cardinality(Chances))'
  <2>1. CASE c = d
    <3>1. RequestOK(at[c])' /\ Claims(at[c])' = Claims(r)
      BY <1>1, <1>4, <2>1 DEF RequestOK
    <3>2. QED
      BY <1>1, <1>3, <1>10, <2>1, <3>1
  <2>2. CASE c # d
    <3>1. RequestOK(at[c])' /\ Claims(at[c])' = Claims(at[c])
      BY <1>1, <1>4, <2>2 DEF RequestOK, BooksInv
    <3>2. QED
      BY <1>1, <1>3, <2>2, <3>1 DEF BooksInv
  <2>3. QED
    BY <2>1, <2>2
<1>12. BooksBalance'
  <2>1. /\ billed = ledger + lost + Cardinality(Pending)
        /\ ledger \in Int /\ billed \in Int /\ lost \in Int /\ lost' \in Int /\ MaxLost \in Nat
    BY TimesAssumption DEF BooksInv, BooksBalance
  <2>2. billed' = ledger' + lost' + Cardinality(Pending')
    BY ONLY <1>7, <1>9, <2>1, billed' - billed = (ledger' - ledger) + (lost' - lost)
                            + Cardinality(Ones(r.rows)) - Cardinality(Ones(at[d].rows)),
            ledger' \in Nat, billed' \in Nat
  <2>3. QED
    BY <2>2 DEF BooksBalance
<1>13. ledger' + Cardinality(Claimed') <= Cap - 1 + Cardinality(setting.serving) * Cardinality(Chances)
  <2> DEFINE most == Cardinality(setting.serving) * Cardinality(Chances)
  <2>1. most \in Nat /\ Cap \in Nat
    BY <1>9, TimesAssumption
  <2>2. CASE (ledger' - ledger) + Cardinality(Claims(r)) <= Cardinality(Claims(at[d]))
    <3>1. ledger + Cardinality(Claimed) <= Cap - 1 + most
      BY DEF BooksInv
    <3> HIDE DEF most
    <3>2. ledger' + Cardinality(Claimed') <= Cap - 1 + most
      BY <1>8, <1>9, <2>1, <2>2, <3>1 DEF BooksInv
    <3>3. QED
      BY <3>2 DEF most
  <2>3. CASE ledger' < Cap
    <3>1. \A c \in setting.serving : IsFiniteSet(later[c]) /\ Cardinality(later[c]) <= Cardinality(Chances)
      BY <1>2, <1>10, ClaimsCount, SettingsAssumption DEF BooksInv, RequestOK, Requests
    <3>2. \A c \in Containers \ setting.serving : later[c] = {}
      <4>1. ASSUME NEW s, RequestOK(s), s.pc = "idle" PROVE Claims(s) = {}
        BY <4>1, OnesEmpty DEF RequestOK, Claims, Ahead, Working
      <4>2. QED
        BY <4>1 DEF BooksInv
    <3>3. setting.serving \subseteq Containers
      BY <1>2, SettingsAssumption
    <3> HIDE DEF later
    <3>4. Cardinality(Claimed') <= most
      BY <1>5, <1>9, <3>1, <3>2, <3>3, ServingBound
    <3> HIDE DEF most
    <3>5. ledger' + Cardinality(Claimed') <= Cap - 1 + most
      BY <1>8, <2>1, <2>3, <3>4
    <3>6. QED
      BY <3>5 DEF most
  <2>4. QED
    BY <2>2, <2>3
<1>14. QED
  BY <1>2, <1>3, <1>7, <1>8, <1>11, <1>12, <1>13 DEF BooksInv

(* A step that bills nothing and takes no new attempt on. *)
LEMMA PlainBooks ==
  ASSUME Steady, BooksInv, NEW d \in Containers, NEW s,
         at' = [at EXCEPT ![d] = s], UNCHANGED <<setting, ledger, billed, lost>>,
         RequestOK(s), s.pc # "idle" => d \in setting.serving,
         Cardinality(Ones(s.rows)) = Cardinality(Ones(at[d].rows)), Ahead(s) \subseteq Ahead(at[d])
  PROVE  BooksInv'
<1>1. setting \in Settings /\ s.rows \in Seq({0, 1}) /\ at[d].rows \in Seq({0, 1})
  BY DEF BooksInv, RequestOK, Requests
<1>2. /\ Cardinality(Ones(s.rows)) \in Nat /\ Cardinality(Ahead(s)) \in Nat
      /\ Cardinality(Ones(at[d].rows)) \in Nat /\ Cardinality(Ahead(at[d])) \in Nat
      /\ Cardinality(Claims(s)) = Cardinality(Ones(s.rows)) + Cardinality(Ahead(s))
      /\ Cardinality(Claims(at[d])) = Cardinality(Ones(at[d].rows)) + Cardinality(Ahead(at[d]))
  BY <1>1, ClaimsCount
<1>3. Cardinality(Ahead(s)) <= Cardinality(Ahead(at[d]))
  BY <1>1, ClaimsCount, FS_Subset
<1>4. ledger \in Nat /\ billed \in Nat /\ lost \in 0..MaxLost /\ lost \in Int
  BY TimesAssumption DEF BooksInv
<1>5. /\ (ledger' - ledger) + Cardinality(Claims(s)) <= Cardinality(Claims(at[d]))
      /\ billed' - billed = (ledger' - ledger) + (lost' - lost) + Cardinality(Ones(s.rows)) - Cardinality(Ones(at[d].rows))
  BY <1>2, <1>3, <1>4
<1>6. ledger' \in Nat /\ billed' \in Nat /\ lost' \in 0..MaxLost /\ ledger' >= ledger
  BY <1>4
<1>7. QED
  BY <1>5, <1>6, BookStep

(* A container that serves nobody claims nothing. *)
LEMMA IdleOK ==
  ASSUME setting \in Settings
  PROVE  RequestOK(Idle) /\ Idle.pc = "idle" /\ Idle.rows = <<>> /\ Ahead(Idle) = {}
<1>1. Idle \in Requests
  BY DEF Idle, Requests, Labels
<1>2. Len(setting.chain) \in Nat
  BY SettingsAssumption
<1>3. QED
  BY <1>1, <1>2 DEF RequestOK, Idle, Ahead, Working

(* A request left with rows to write. *)
LEMMA FinishOK ==
  ASSUME setting \in Settings, NEW rows \in Seq({0, 1}), NEW s, s = [Idle EXCEPT !.pc = "record", !.rows = rows]
  PROVE  RequestOK(s) /\ s.pc = "record" /\ s.rows = rows /\ Ahead(s) = {}
<1>1. s = [pc |-> "record", position |-> 0, items |-> {}, left |-> 0, timeout |-> 0, timer |-> 0, rows |-> rows]
  BY DEF Idle
<1>2. Len(setting.chain) \in Nat
  BY SettingsAssumption
<1>3. s \in Requests
  BY <1>1 DEF Requests, Labels
<1>4. s.pc = "record" /\ s.position = 0 /\ s.items = {} /\ s.rows = rows
  BY ONLY <1>1
<1>5. QED
  BY <1>2, <1>3, <1>4 DEF RequestOK, Ahead, Working

(* A request on another label, and with another clock. *)
LEMMA MovedOK ==
  ASSUME NEW r, NEW s, RequestOK(r), s \in Requests, s.position = r.position, s.items = r.items, s.rows = r.rows,
         s.pc \in {"attempt", "assume", "invoke"} => r.pc \in {"attempt", "assume", "invoke"},
         s.pc \in {"idle", "budget", "resolve", "limit"} => r.pc \in {"idle", "budget", "resolve", "limit"},
         s.pc \in Working => r.pc \in Working
  PROVE  RequestOK(s) /\ Ones(s.rows) = Ones(r.rows) /\ Ahead(s) \subseteq Ahead(r)
BY DEF RequestOK, Ahead

(* The steps of a container keep the books. *)
LEMMA AskBooks == ASSUME Steady, BooksInv, NEW d \in Containers, Ask(d) PROVE BooksInv'
<1>1. RequestOK(at[d]) /\ at[d] \in Requests /\ at[d].pc = "idle" /\ d \in setting.serving
  BY DEF BooksInv, RequestOK, Ask
<1>2. PICK s : s = [at[d] EXCEPT !.pc = "budget"]
  OBVIOUS
<1>3. /\ s \in Requests /\ s.pc = "budget" /\ s.position = at[d].position /\ s.items = at[d].items
      /\ s.rows = at[d].rows
  BY <1>1, <1>2 DEF Requests, Labels
<1>4. RequestOK(s) /\ Ones(s.rows) = Ones(at[d].rows) /\ Ahead(s) \subseteq Ahead(at[d])
  BY <1>1, <1>3, MovedOK DEF Working
<1>5. at' = [at EXCEPT ![d] = s] /\ UNCHANGED <<setting, ledger, billed, lost>>
  BY <1>2 DEF Ask, Goto, world, spend
<1>6. QED
  BY <1>1, <1>4, <1>5, PlainBooks

(* Leaving gives up what was still to be tried; no row may be unwritten. *)
LEMMA LeaveBooks ==
  ASSUME Steady, BooksInv, NEW d \in Containers, Leave(d), at[d].rows = <<>>, UNCHANGED <<setting, ledger, billed, lost>>
  PROVE  BooksInv'
<1>1. setting \in Settings
  BY DEF BooksInv
<1>2. at' = [at EXCEPT ![d] = Idle]
  BY DEF Leave
<1>3. QED
  BY <1>1, <1>2, IdleOK, PlainBooks

(* The end of a chain gives up the attempts that were to come. *)
LEMMA FinishBooks ==
  ASSUME Steady, BooksInv, NEW d \in Containers, NEW rows \in Seq({0, 1}), Finish(d, rows), at[d].pc # "idle",
         Cardinality(Ones(rows)) = Cardinality(Ones(at[d].rows)), UNCHANGED <<setting, ledger, billed, lost>>
  PROVE  BooksInv'
<1>1. setting \in Settings /\ d \in setting.serving
  BY DEF BooksInv
<1>2. PICK s : s = [Idle EXCEPT !.pc = "record", !.rows = rows]
  OBVIOUS
<1>3. RequestOK(s) /\ s.rows = rows /\ Ahead(s) = {}
  BY <1>1, <1>2, FinishOK
<1>4. at' = [at EXCEPT ![d] = s]
  BY <1>2 DEF Finish
<1>5. QED
  BY <1>1, <1>3, <1>4, PlainBooks

(* A request that passes the budget may spend every chance: the ledger is below *)
(* the cap then.                                                              *)
LEMMA BudgetBooks == ASSUME Steady, BooksInv, NEW d \in Containers, Budget(d) PROVE BooksInv'
<1>1. /\ setting \in Settings /\ RequestOK(at[d]) /\ at[d] \in Requests /\ at[d].pc = "budget" /\ at[d].rows = <<>>
      /\ d \in setting.serving
  BY DEF BooksInv, RequestOK, Budget
<1>2. UNCHANGED <<setting, ledger, billed, lost>> /\ ledger \in Nat /\ billed \in Nat /\ lost \in 0..MaxLost
  BY DEF Budget, world, spend, BooksInv
<1>3. CASE Leave(d)
  BY <1>1, <1>2, <1>3, LeaveBooks
<1>4. CASE ~Exhausted /\ Goto(d, "resolve")
  <2>1. PICK s : s = [at[d] EXCEPT !.pc = "resolve"]
    OBVIOUS
  <2>2. /\ s \in Requests /\ s.pc = "resolve" /\ s.position = at[d].position /\ s.items = at[d].items
        /\ s.rows = at[d].rows
    BY <1>1, <2>1 DEF Requests, Labels
  <2>3. RequestOK(s)
    BY <1>1, <2>2 DEF RequestOK
  <2>4. at' = [at EXCEPT ![d] = s]
    BY <1>4, <2>1 DEF Goto
  <2>5. Cardinality(Claims(s)) <= Cardinality(Chances)
    BY <1>1, <2>2, ClaimsCount, OnesEmpty DEF Requests
  <2>6. ledger' < Cap
    BY <1>2, <1>4, TimesAssumption DEF Exhausted
  <2>7. lost \in Int /\ Cardinality(Ones(at[d].rows)) \in Nat /\ s.rows = at[d].rows
    BY <1>1, <1>2, <2>2, OnesEmpty, TimesAssumption
  <2>8. billed' - billed = (ledger' - ledger) + (lost' - lost) + Cardinality(Ones(s.rows)) - Cardinality(Ones(at[d].rows))
    BY <1>2, <2>7
  <2>9. ledger' \in Nat /\ billed' \in Nat /\ lost' \in 0..MaxLost /\ ledger' >= ledger
    BY <1>2
  <2>10. QED
    BY <1>1, <1>2, <2>3, <2>4, <2>5, <2>6, <2>8, <2>9, BookStep
<1>5. QED
  BY <1>3, <1>4 DEF Budget

(* A step of a request to another label keeps what it owes. *)
LEMMA GotoBooks ==
  ASSUME Steady, BooksInv, NEW d \in Containers, NEW s, s \in Requests, at' = [at EXCEPT ![d] = s], at[d].pc # "idle",
         s.position = at[d].position, s.items = at[d].items, s.rows = at[d].rows,
         s.pc \in {"attempt", "assume", "invoke"} => at[d].pc \in {"attempt", "assume", "invoke"},
         s.pc \in {"idle", "budget", "resolve", "limit"} => at[d].pc \in {"idle", "budget", "resolve", "limit"},
         s.pc \in Working => at[d].pc \in Working,
         UNCHANGED <<setting, ledger, billed, lost>>
  PROVE  BooksInv'
<1>1. RequestOK(at[d]) /\ d \in setting.serving
  BY DEF BooksInv
<1>2. RequestOK(s) /\ Ones(s.rows) = Ones(at[d].rows) /\ Ahead(s) \subseteq Ahead(at[d])
  BY <1>1, MovedOK
<1>3. QED
  BY <1>1, <1>2, PlainBooks

(* An unreadable route or AI off ends the request with nothing to pay. *)
LEMMA ResolveBooks == ASSUME Steady, BooksInv, NEW d \in Containers, Resolve(d) PROVE BooksInv'
<1>1. at[d] \in Requests /\ at[d].pc = "resolve" /\ at[d].rows = <<>>
  BY DEF BooksInv, RequestOK, Resolve
<1>2. UNCHANGED <<setting, ledger, billed, lost>>
  BY DEF Resolve, world, spend
<1>3. CASE Leave(d)
  BY <1>1, <1>2, <1>3, LeaveBooks
<1>4. CASE Finish(d, <<0>>)
  <2>1. <<0>> \in Seq({0, 1}) /\ Ones(<<0>>) = {}
    BY DEF Ones
  <2>2. QED
    BY <1>1, <1>2, <1>4, <2>1, OnesEmpty, FinishBooks
<1>5. CASE Goto(d, "limit")
  <2>1. PICK s : s = [at[d] EXCEPT !.pc = "limit"]
    OBVIOUS
  <2>2. /\ s \in Requests /\ s.pc = "limit" /\ s.position = at[d].position /\ s.items = at[d].items
        /\ s.rows = at[d].rows
    BY <1>1, <2>1 DEF Requests, Labels
  <2>3. at' = [at EXCEPT ![d] = s]
    BY <1>5, <2>1 DEF Goto
  <2>4. QED
    BY <1>1, <1>2, <2>2, <2>3, GotoBooks DEF Working
<1>6. QED
  BY <1>3, <1>4, <1>5 DEF Resolve

(* A request over its session's limit is answered 429. *)
LEMMA LimitBooks == ASSUME Steady, BooksInv, NEW d \in Containers, Limit(d) PROVE BooksInv'
<1>1. at[d] \in Requests /\ at[d].pc = "limit" /\ at[d].rows = <<>>
  BY DEF BooksInv, RequestOK, Limit
<1>2. UNCHANGED <<setting, ledger, billed, lost>>
  BY DEF Limit, world, spend
<1>3. CASE Leave(d)
  BY <1>1, <1>2, <1>3, LeaveBooks
<1>4. CASE at' = [at EXCEPT ![d].pc = "model", ![d].left = Deadline]
  <2>1. PICK s : s = [at[d] EXCEPT !.pc = "model", !.left = Deadline]
    OBVIOUS
  <2>2. /\ s \in Requests /\ s.pc = "model" /\ s.position = at[d].position /\ s.items = at[d].items
        /\ s.rows = at[d].rows
    <3>1. Deadline \in Int
      BY TimesAssumption
    <3>2. QED
      BY ONLY <1>1, <2>1, <3>1 DEF Requests, Labels
  <2>3. at' = [at EXCEPT ![d] = s]
    BY <1>4, <2>1 DEF Steady
  <2>4. QED
    BY <1>1, <1>2, <2>2, <2>3, GotoBooks DEF Working
<1>5. QED
  BY <1>3, <1>4 DEF Limit

(* The next model's deployments were already ahead. *)
LEMMA NextModelBooks == ASSUME Steady, BooksInv, NEW d \in Containers, NextModel(d) PROVE BooksInv'
<1>1. /\ at[d] \in Requests /\ at[d].pc = "model" /\ at[d].rows \in Seq({0, 1}) /\ at[d].position \in Nat
      /\ setting \in Settings /\ d \in setting.serving /\ at[d].left \in Int
  BY DEF BooksInv, RequestOK, NextModel, Requests
<1>2. UNCHANGED <<setting, ledger, billed, lost>>
  BY DEF NextModel, world, spend
<1>3. CASE Finish(d, at[d].rows)
  BY <1>1, <1>2, <1>3, FinishBooks
<1>4. CASE ~Finish(d, at[d].rows)
  <2> DEFINE next == at[d].position + 1
             planned(cis) == Plan(d, setting.chain[next], cis)
  <2>1. PICK cis \in SUBSET setting.shut :
            at' = [at EXCEPT ![d].position = next, ![d].items = planned(cis),
                             ![d].pc = IF planned(cis) = {} THEN "model" ELSE "attempt",
                             ![d].rows = IF planned(cis) = {} THEN Append(@, 0) ELSE @]
    BY <1>4, Zenon DEF NextModel
  <2>2. next <= Len(setting.chain) /\ next \in Nat /\ next > 0 /\ next = at[d].position + 1
    <3>1. Len(setting.chain) \in Nat
      BY <1>1, SettingsAssumption
    <3>2. ~(next > Len(setting.chain))
      BY <1>4 DEF NextModel
    <3>3. QED
      BY <1>1, <3>1, <3>2
  <2>3. PICK items : items = planned(cis)
    OBVIOUS
  <2>4. PICK label \in {"model", "attempt"} : label = IF items = {} THEN "model" ELSE "attempt"
    OBVIOUS
  <2>5. PICK rows : rows = IF items = {} THEN Append(at[d].rows, 0) ELSE at[d].rows
    OBVIOUS
  <2>6. PICK s : s = [at[d] EXCEPT !.position = next, !.items = items, !.pc = label, !.rows = rows]
    OBVIOUS
  <2>7. items \subseteq DOMAIN setting.chain[next] /\ items \in SUBSET Nat
    <3>1. setting.chain \in Seq(Seq(Deployments)) /\ next \in 1..Len(setting.chain)
      BY <1>1, <2>2, SettingsAssumption
    <3>2. DOMAIN setting.chain[next] \subseteq Nat
      <4>1. setting.chain[next] \in Seq(Deployments)
        BY <3>1
      <4>2. QED
        BY ONLY <4>1
    <3>3. QED
      BY <2>3, <3>2 DEF Plan
  <2>8. rows \in Seq({0, 1}) /\ Cardinality(Ones(rows)) = Cardinality(Ones(at[d].rows))
    BY <1>1, <2>5, OnesAppend, OnesFinite
  <2> HIDE DEF next, planned
  <2>9. at' = [at EXCEPT ![d] = s]
    BY <2>1, <2>3, <2>4, <2>5, <2>6 DEF Steady
  <2>10. /\ s \in Requests /\ s.pc = label /\ s.position = next /\ s.items = items /\ s.rows = rows
    BY <1>1, <2>2, <2>6, <2>7, <2>8 DEF Requests, Labels
  <2>11. RequestOK(s)
    BY <2>2, <2>4, <2>7, <2>10 DEF RequestOK
  <2>12. Ahead(s) \subseteq Ahead(at[d])
    <3>1. ASSUME NEW x \in Ahead(s) PROVE x \in Ahead(at[d])
      <4>1. x \in Chances /\ (x[1] > next \/ x[1] = next) /\ x[1] \in Nat
        <5>1. DOMAIN setting.chain \subseteq Nat
          BY <1>1, SettingsAssumption
        <5>2. QED
          BY <1>1, <2>4, <2>10, <5>1, ChancesFinite DEF Ahead, Working
      <4>2. x[1] > at[d].position
        BY <1>1, <2>2, <4>1
      <4>3. QED
        BY <1>1, <4>1, <4>2 DEF Ahead, Working
    <3>2. QED
      BY <3>1
  <2>13. QED
    BY <1>1, <1>2, <2>8, <2>9, <2>10, <2>11, <2>12, PlainBooks
<1>5. QED
  BY <1>3, <1>4

(* An attempt that starts was already ahead, one that is out of time ends all. *)
LEMMA AttemptBooks == ASSUME Steady, BooksInv, NEW d \in Containers, Attempt(d) \/ Assumed(d) PROVE BooksInv'
<1>1. /\ at[d] \in Requests /\ at[d].pc \in {"attempt", "assume"} /\ at[d].rows \in Seq({0, 1})
      /\ at[d].left \in Int /\ at[d].timeout \in Int
  BY DEF BooksInv, RequestOK, Attempt, Assumed, Requests
<1>2. UNCHANGED <<setting, ledger, billed, lost>>
  BY DEF Attempt, Assumed, world, spend
<1>3. CASE Attempt(d) /\ ~TimeLeft(d)
  <2>1. Finish(d, Append(at[d].rows, 0))
    BY <1>3 DEF Attempt
  <2>2. /\ Append(at[d].rows, 0) \in Seq({0, 1})
        /\ Cardinality(Ones(Append(at[d].rows, 0))) = Cardinality(Ones(at[d].rows))
    BY <1>1, OnesAppend, OnesFinite
  <2>3. QED
    BY <1>1, <1>2, <2>1, <2>2, FinishBooks
<1>4. CASE (Attempt(d) /\ TimeLeft(d)) \/ Assumed(d)
  <2>1. PICK label \in {"assume", "invoke"}, timeout \in Int, timer \in Int :
          at' = [at EXCEPT ![d] = [at[d] EXCEPT !.pc = label, !.timeout = timeout, !.timer = timer]]
    <3>1. CASE Attempt(d) /\ TimeLeft(d)
      <4>1. PICK label \in {"assume", "invoke"} : label = IF Deployment(d).connection \in TaskRole THEN "invoke" ELSE "assume"
        OBVIOUS
      <4>2. at' = [at EXCEPT ![d] = [at[d] EXCEPT !.pc = label, !.timeout = at[d].left, !.timer = at[d].left]]
        BY <3>1, <4>1 DEF Attempt, Steady
      <4>3. QED
        BY <1>1, <4>2
    <3>2. CASE Assumed(d)
      <4>1. at[d] = [at[d] EXCEPT !.timeout = at[d].timeout]
        BY <1>1 DEF Requests
      <4>2. at' = [at EXCEPT ![d] = [at[d] EXCEPT !.pc = "invoke", !.timeout = at[d].timeout, !.timer = at[d].timeout]]
        BY <1>1, <3>2 DEF Assumed, Steady, Requests
      <4>3. QED
        BY <1>1, <4>2
    <3>3. QED
      BY <1>4, <3>1, <3>2
  <2>2. PICK s : s = [at[d] EXCEPT !.pc = label, !.timeout = timeout, !.timer = timer]
    OBVIOUS
  <2>3. /\ s \in Requests /\ s.pc = label /\ s.position = at[d].position /\ s.items = at[d].items
        /\ s.rows = at[d].rows
    BY <1>1, <2>2 DEF Requests, Labels
  <2>4. QED
    BY <1>1, <1>2, <2>1, <2>2, <2>3, GotoBooks DEF Working
<1>5. QED
  BY <1>3, <1>4

(* The attempt under way is one of those ahead; once it is over it is not.    *)
LEMMA OnwardOK ==
  ASSUME Steady, BooksInv, NEW d \in Containers, at[d].pc \in {"assume", "invoke"}, NEW cost \in {0, 1}, Onward(d, cost)
  PROVE  \E s : /\ at' = [at EXCEPT ![d] = s] /\ RequestOK(s) /\ s.pc \in {"model", "attempt"}
                /\ Cardinality(Ones(s.rows)) = Cardinality(Ones(at[d].rows)) + cost
                /\ Ahead(s) \subseteq Ahead(at[d]) /\ Cardinality(Ahead(s)) + 1 <= Cardinality(Ahead(at[d]))
<1> DEFINE here == at[d].position
           tried == <<here, Min(at[d].items)>>
<1>1. /\ at[d] \in Requests /\ at[d].rows \in Seq({0, 1}) /\ at[d].items \in SUBSET Nat /\ at[d].items # {}
      /\ here \in Nat /\ here > 0 /\ here <= Len(setting.chain) /\ setting \in Settings
      /\ at[d].items \subseteq DOMAIN setting.chain[here] /\ RequestOK(at[d])
  BY DEF BooksInv, RequestOK, Requests
<1>2. Min(at[d].items) \in at[d].items
  BY <1>1, MinIsMember
<1>3. tried \in Ahead(at[d])
  <2>1. here \in DOMAIN setting.chain
    BY <1>1, SettingsAssumption
  <2>2. tried \in Chances
    BY <1>1, <1>2, <2>1 DEF Chances
  <2>3. QED
    BY <1>2, <2>2 DEF Ahead, Working
<1>4. PICK items : items = at[d].items \ {Min(at[d].items)}
  OBVIOUS
<1>5. PICK label \in {"model", "attempt"} : label = IF items = {} THEN "model" ELSE "attempt"
  OBVIOUS
<1>6. PICK rows : rows = Append(at[d].rows, cost)
  OBVIOUS
<1>7. PICK s : s = [at[d] EXCEPT !.items = items, !.pc = label, !.rows = rows, !.timeout = 0, !.timer = 0]
  OBVIOUS
<1>8. at' = [at EXCEPT ![d] = s]
  BY <1>4, <1>5, <1>6, <1>7 DEF Onward, Steady
<1>9. rows \in Seq({0, 1}) /\ Cardinality(Ones(rows)) = Cardinality(Ones(at[d].rows)) + cost
  BY <1>1, <1>6, OnesAppend
<1>10. s \in Requests /\ s.pc = label /\ s.position = here /\ s.items = items /\ s.rows = rows
  <2>1. items \in SUBSET Nat /\ rows \in Seq({0, 1}) /\ at[d] \in Requests /\ label \in {"model", "attempt"}
    BY <1>1, <1>4, <1>9
  <2>2. /\ s = [pc |-> label, position |-> at[d].position, items |-> items, left |-> at[d].left,
                timeout |-> 0, timer |-> 0, rows |-> rows]
        /\ at[d].position \in Nat /\ at[d].left \in Int
    BY ONLY <2>1, <1>7 DEF Requests
  <2>3. s.pc = label /\ s.position = at[d].position /\ s.items = items /\ s.rows = rows
    BY ONLY <2>2
  <2>4. s \in Requests
    BY ONLY <2>1, <2>2 DEF Requests, Labels
  <2>5. QED
    BY <2>3, <2>4
<1>11. RequestOK(s)
  BY <1>1, <1>4, <1>5, <1>10 DEF RequestOK
<1>12. Ahead(s) \subseteq Ahead(at[d]) \ {tried}
  <2>1. ASSUME NEW x \in Ahead(s) PROVE x \in Ahead(at[d]) /\ x # tried
    <3>1. x \in Chances /\ (x[1] > here \/ (x[1] = here /\ x[2] \in items))
      BY <1>10 DEF Ahead
    <3>2. x \in Ahead(at[d])
      BY <1>4, <3>1 DEF Ahead, Working
    <3>3. x # tried
      BY <1>1, <1>4, <3>1
    <3>4. QED
      BY <3>2, <3>3
  <2>2. QED
    BY <2>1
<1>13. Cardinality(Ahead(s)) + 1 <= Cardinality(Ahead(at[d]))
  <2>1. IsFiniteSet(Ahead(at[d])) /\ Cardinality(Ahead(at[d])) \in Nat /\ Cardinality(Ahead(s)) \in Nat
    BY <1>1, <1>9, <1>10, ClaimsCount
  <2>2. /\ IsFiniteSet(Ahead(at[d]) \ {tried})
        /\ Cardinality(Ahead(at[d]) \ {tried}) = Cardinality(Ahead(at[d])) - 1
    BY <1>3, <2>1, FS_RemoveElement
  <2>3. Cardinality(Ahead(s)) <= Cardinality(Ahead(at[d]) \ {tried})
    BY <1>12, <2>2, FS_Subset
  <2>4. QED
    BY <2>1, <2>2, <2>3
<1>14. QED
  BY <1>5, <1>8, <1>9, <1>10, <1>11, <1>12, <1>13

(* How many units a step moves, for the requests that move some. *)
LEMMA SpendBooks ==
  ASSUME Steady, BooksInv, NEW d \in Containers, NEW s, UNCHANGED setting,
         at' = [at EXCEPT ![d] = s],
         RequestOK(s), s.pc # "idle" => d \in setting.serving,
         NEW written \in Nat, NEW new \in Nat, NEW gone \in Nat,
         ledger' = ledger + written, billed' = billed + new, lost' = lost + gone, lost' <= MaxLost,
         Cardinality(Ones(s.rows)) = Cardinality(Ones(at[d].rows)) + new - written - gone,
         Cardinality(Ahead(s)) + new <= Cardinality(Ahead(at[d])) + gone
  PROVE  BooksInv'
<1>1. setting \in Settings /\ s.rows \in Seq({0, 1}) /\ at[d].rows \in Seq({0, 1})
  BY DEF BooksInv, RequestOK, Requests
<1>2. /\ Cardinality(Ones(s.rows)) \in Nat /\ Cardinality(Ahead(s)) \in Nat
      /\ Cardinality(Ones(at[d].rows)) \in Nat /\ Cardinality(Ahead(at[d])) \in Nat
      /\ Cardinality(Claims(s)) = Cardinality(Ones(s.rows)) + Cardinality(Ahead(s))
      /\ Cardinality(Claims(at[d])) = Cardinality(Ones(at[d].rows)) + Cardinality(Ahead(at[d]))
  BY <1>1, ClaimsCount
<1>3. ledger \in Nat /\ billed \in Nat /\ lost \in Nat /\ MaxLost \in Nat
  BY TimesAssumption DEF BooksInv
<1>4. ledger' \in Nat /\ billed' \in Nat /\ lost' \in 0..MaxLost /\ ledger' >= ledger
  BY <1>3
<1>5. billed' - billed = (ledger' - ledger) + (lost' - lost) + Cardinality(Ones(s.rows)) - Cardinality(Ones(at[d].rows))
  BY <1>2, <1>3
<1>6. (ledger' - ledger) + Cardinality(Claims(s)) <= Cardinality(Claims(at[d]))
  BY <1>2, <1>3
<1>7. QED
  BY <1>4, <1>5, <1>6, BookStep

(* A billed outcome is one of the attempts that were ahead. *)
LEMMA OutcomeBooks ==
  ASSUME Steady, BooksInv, NEW d \in Containers,
         Text(d) \/ Truncated(d) \/ \E outcome \in Classes \cup {"request"} : Fails(d, outcome)
  PROVE  BooksInv'
<1>1. /\ at[d].pc \in {"assume", "invoke"} /\ at[d].rows \in Seq({0, 1}) /\ setting \in Settings
      /\ d \in setting.serving /\ lost \in 0..MaxLost
  BY DEF Text, Truncated, Fails, BooksInv, RequestOK, Requests
<1>2. /\ Cardinality(Ones(at[d].rows)) \in Nat /\ Cardinality(Ahead(at[d])) \in Nat
      /\ lost \in Nat /\ MaxLost \in Nat /\ ledger \in Nat
  BY <1>1, ClaimsCount, TimesAssumption DEF BooksInv
<1>3. CASE \E outcome \in Classes \cup {"request"} : Fails(d, outcome)
  <2>1. Onward(d, 0) /\ UNCHANGED <<setting, ledger, billed, lost>>
    BY <1>3 DEF Fails, world, spend
  <2>2. PICK s : /\ at' = [at EXCEPT ![d] = s] /\ RequestOK(s)
                 /\ Cardinality(Ones(s.rows)) = Cardinality(Ones(at[d].rows)) + 0 /\ Ahead(s) \subseteq Ahead(at[d])
    BY <1>1, <2>1, OnwardOK
  <2>3. Cardinality(Ones(s.rows)) = Cardinality(Ones(at[d].rows))
    BY <1>2, <2>2
  <2>4. QED
    BY <1>1, <2>1, <2>2, <2>3, PlainBooks
<1>4. CASE Truncated(d)
  <2>1. Onward(d, 1) /\ UNCHANGED <<setting, ledger, lost>> /\ billed' = billed + 1
    BY <1>4 DEF Truncated, CutCost, world
  <2>2. PICK s : /\ at' = [at EXCEPT ![d] = s] /\ RequestOK(s)
                 /\ Cardinality(Ones(s.rows)) = Cardinality(Ones(at[d].rows)) + 1
                 /\ Cardinality(Ahead(s)) + 1 <= Cardinality(Ahead(at[d]))
    BY <1>1, <2>1, OnwardOK
  <2>3. /\ ledger' = ledger + 0 /\ lost' = lost + 0 /\ lost' <= MaxLost
        /\ Cardinality(Ones(s.rows)) = Cardinality(Ones(at[d].rows)) + 1 - 0 - 0
        /\ Cardinality(Ahead(s)) + 1 <= Cardinality(Ahead(at[d])) + 0
    BY <1>1, <1>2, <2>1, <2>2
  <2>4. QED
    BY <1>1, <2>1, <2>2, <2>3, SpendBooks
<1>5. CASE Text(d)
  <2>1. PICK rows : rows = Append(at[d].rows, 1)
    OBVIOUS
  <2>2. PICK s : s = [Idle EXCEPT !.pc = "record", !.rows = rows]
    OBVIOUS
  <2>3. at' = [at EXCEPT ![d] = s] /\ UNCHANGED <<setting, ledger, lost>> /\ billed' = billed + 1
    BY <1>5, <2>1, <2>2 DEF Text, Finish, world
  <2>4. rows \in Seq({0, 1}) /\ Cardinality(Ones(rows)) = Cardinality(Ones(at[d].rows)) + 1
    BY <1>1, <2>1, OnesAppend
  <2>5. RequestOK(s) /\ s.rows = rows /\ Ahead(s) = {}
    BY <1>1, <2>2, <2>4, FinishOK
  <2>6. Cardinality(Ahead(at[d])) # 0
    <3>1. Ahead(at[d]) # {}
      <4>1. at[d].position \in Nat /\ at[d].position > 0 /\ at[d].items # {} /\ at[d].position <= Len(setting.chain)
        BY <1>1 DEF BooksInv, RequestOK, Requests
      <4>2. at[d].items \subseteq DOMAIN setting.chain[at[d].position]
        BY <4>1 DEF BooksInv, RequestOK
      <4>3. at[d].position \in DOMAIN setting.chain
        BY <1>1, <4>1, SettingsAssumption
      <4>4. PICK i \in at[d].items : TRUE
        BY <4>1
      <4>5. <<at[d].position, i>> \in Chances
        BY <4>2, <4>3 DEF Chances
      <4>6. <<at[d].position, i>> \in Ahead(at[d])
        BY <1>1, <4>5 DEF Ahead, Working
      <4>7. QED
        BY <4>6
    <3>2. QED
      BY <1>1, <3>1, ClaimsCount, FS_EmptySet
  <2>7. /\ ledger' = ledger + 0 /\ lost' = lost + 0 /\ lost' <= MaxLost
        /\ Cardinality(Ones(s.rows)) = Cardinality(Ones(at[d].rows)) + 1 - 0 - 0
        /\ Cardinality(Ahead(s)) + 1 <= Cardinality(Ahead(at[d])) + 0
    BY <1>1, <1>2, <2>3, <2>4, <2>5, <2>6, FS_EmptySet
  <2>8. QED
    BY <1>1, <2>3, <2>5, <2>7, SpendBooks
<1>6. QED
  BY <1>3, <1>4, <1>5

(* A row that is written or lost moves its unit. *)
LEMMA RecordBooks ==
  ASSUME Steady, BooksInv, NEW d \in Containers, Write(d) \/ Lose(d)
  PROVE  BooksInv'
<1>1. /\ at[d].pc = "record" /\ at[d].rows # <<>> /\ at[d].rows \in Seq({0, 1}) /\ at[d] \in Requests
      /\ RequestOK(at[d]) /\ d \in setting.serving /\ setting \in Settings /\ lost \in 0..MaxLost
  BY DEF Write, Lose, BooksInv, RequestOK, Requests
<1>2. PICK rows : rows = Tail(at[d].rows)
  OBVIOUS
<1>3. PICK unit : unit = Head(at[d].rows)
  OBVIOUS
<1>4. PICK s : s = [at[d] EXCEPT !.rows = rows]
  OBVIOUS
<1>5. at' = [at EXCEPT ![d] = s] /\ UNCHANGED setting
  BY <1>2, <1>4 DEF Write, Lose, Steady, world
<1>6. /\ unit \in {0, 1} /\ rows \in Seq({0, 1})
      /\ Cardinality(Ones(at[d].rows)) = Cardinality(Ones(rows)) + unit
      /\ Cardinality(Ones(rows)) \in Nat /\ Cardinality(Ones(at[d].rows)) \in Nat
      /\ Cardinality(Ahead(at[d])) \in Nat
  BY <1>1, <1>2, <1>3, OnesTail, OnesFinite, ClaimsCount
<1>7. /\ s \in Requests /\ s.pc = "record" /\ s.position = at[d].position /\ s.items = at[d].items
      /\ s.rows = rows
  BY ONLY <1>1, <1>4, <1>6 DEF Requests, Labels
<1>8. RequestOK(s) /\ Ahead(s) = {} /\ Ahead(at[d]) = {}
  BY <1>1, <1>7 DEF RequestOK, Ahead, Working
<1>9. ledger \in Nat /\ billed \in Nat /\ lost \in Nat /\ MaxLost \in Nat /\ unit \in Nat
  BY <1>6, TimesAssumption DEF BooksInv
<1>10. CASE Write(d)
  <2>1. ledger' = ledger + unit /\ billed' = billed + 0 /\ lost' = lost + 0 /\ lost' <= MaxLost
    BY <1>1, <1>3, <1>9, <1>10 DEF Write
  <2>2. /\ Cardinality(Ones(s.rows)) = Cardinality(Ones(at[d].rows)) + 0 - unit - 0
        /\ Cardinality(Ahead(s)) + 0 <= Cardinality(Ahead(at[d])) + 0
    BY <1>6, <1>7, <1>8, <1>9
  <2>3. QED
    BY <1>1, <1>5, <1>8, <1>9, <2>1, <2>2, SpendBooks
<1>11. CASE Lose(d)
  <2>1. ledger' = ledger + 0 /\ billed' = billed + 0 /\ lost' = lost + unit /\ lost' <= MaxLost
    BY <1>3, <1>9, <1>11 DEF Lose
  <2>2. /\ Cardinality(Ones(s.rows)) = Cardinality(Ones(at[d].rows)) + 0 - 0 - unit
        /\ Cardinality(Ahead(s)) + 0 <= Cardinality(Ahead(at[d])) + unit
    BY <1>6, <1>7, <1>8, <1>9
  <2>3. QED
    BY <1>1, <1>5, <1>8, <1>9, <2>1, <2>2, SpendBooks
<1>12. QED
  BY <1>10, <1>11

(* A recycled container loses its rows, and the call it had under way. *)
LEMMA RecycleBooks ==
  ASSUME Steady, BooksInv, NEW d \in Containers, Recycle(d)
  PROVE  BooksInv'
<1>1. /\ at[d].rows \in Seq({0, 1}) /\ RequestOK(at[d]) /\ setting \in Settings
      /\ ledger \in Nat /\ billed \in Nat /\ lost \in Nat /\ MaxLost \in Nat
  BY TimesAssumption DEF BooksInv, RequestOK, Requests
<1>2. PICK late \in 0..(IF at[d].pc = "invoke" THEN 1 ELSE 0) :
        /\ lost' = lost + Cardinality(Unwritten(d)) + late /\ lost' <= MaxLost /\ billed' = billed + late
  BY DEF Recycle
<1>3. late \in Nat /\ late <= 1
  OBVIOUS
<1>4. Unwritten(d) = Ones(at[d].rows)
  BY DEF Unwritten, Ones
<1>5. Cardinality(Ones(at[d].rows)) \in Nat /\ Cardinality(Ahead(at[d])) \in Nat
  BY <1>1, ClaimsCount
<1>6. at' = [at EXCEPT ![d] = Idle] /\ UNCHANGED setting /\ ledger' = ledger + 0
  BY <1>1 DEF Recycle, Leave, world
<1>7. RequestOK(Idle) /\ Idle.pc = "idle" /\ Idle.rows = <<>> /\ Ahead(Idle) = {}
  BY <1>1, IdleOK
<1>8. PICK gone \in Nat : gone = Cardinality(Ones(at[d].rows)) + late
  BY <1>3, <1>5
<1>9. lost' = lost + gone
  BY <1>1, <1>2, <1>3, <1>4, <1>5, <1>8
<1>10. /\ Cardinality(Ones(Idle.rows)) = Cardinality(Ones(at[d].rows)) + late - 0 - gone
       /\ Cardinality(Ahead(Idle)) + late <= Cardinality(Ahead(at[d])) + gone
  BY <1>3, <1>5, <1>7, <1>8, OnesEmpty, FS_EmptySet
<1>11. QED
  BY <1>1, <1>2, <1>3, <1>6, <1>7, <1>8, <1>9, <1>10, SpendBooks

(* A step that leaves every request's claims. *)
LEMMA QuietBooks ==
  ASSUME Steady, BooksInv, UNCHANGED setting,
         \A c \in Containers : /\ at'[c] \in Requests /\ at'[c].pc = at[c].pc /\ at'[c].position = at[c].position
                                /\ at'[c].items = at[c].items /\ at'[c].rows = at[c].rows,
         ledger' \in Nat, billed' \in Nat, lost' \in 0..MaxLost, ledger' <= ledger,
         billed' = ledger' + lost' + Cardinality(Pending)
  PROVE  BooksInv'
<1>1. Chances' = Chances
  BY DEF Chances
<1>2. ASSUME NEW c \in Containers
      PROVE  /\ Claims(at[c])' = Claims(at[c]) /\ Unwritten(c)' = Unwritten(c) /\ RequestOK(at[c])'
             /\ at'[c].pc # "idle" => c \in setting'.serving
  <2>1. /\ at'[c] \in Requests /\ at'[c].pc = at[c].pc /\ at'[c].position = at[c].position
        /\ at'[c].items = at[c].items /\ at'[c].rows = at[c].rows
    OBVIOUS
  <2>2. RequestOK(at[c]) /\ (at[c].pc # "idle" => c \in setting.serving)
    BY DEF BooksInv
  <2>3. RequestOK(at[c])'
    BY <2>1, <2>2 DEF RequestOK
  <2>4. Ones(at[c].rows)' = Ones(at[c].rows) /\ Ahead(at[c])' = Ahead(at[c])
    BY <1>1, <2>1 DEF Ones, Ahead
  <2>5. Claims(at[c])' = Claims(at[c])
    BY <2>4 DEF Claims
  <2>6. Unwritten(c)' = Unwritten(c)
    BY <2>1 DEF Unwritten
  <2>7. QED
    BY <2>1, <2>2, <2>3, <2>5, <2>6
<1>3. Claimed' = Claimed /\ Pending' = Pending
  BY <1>2 DEF Claimed, Pending, Tagged
<1>4. Cardinality(Claimed) \in Nat /\ ledger \in Nat /\ Cardinality(setting.serving) * Cardinality(Chances) \in Nat
  <2>1. IsFiniteSet(setting.serving) /\ IsFiniteSet(Claimed) /\ ledger \in Nat
    BY SettingsAssumption DEF BooksInv
  <2>2. Cardinality(setting.serving) \in Nat /\ Cardinality(Claimed) \in Nat /\ Cardinality(Chances) \in Nat
    BY <2>1, ChancesFinite, FS_CardinalityType DEF BooksInv
  <2>3. QED
    BY <2>1, <2>2
<1>5. ledger' + Cardinality(Claimed) <= Cap - 1 + Cardinality(setting.serving) * Cardinality(Chances)
  <2> DEFINE most == Cardinality(setting.serving) * Cardinality(Chances)
  <2>1. ledger + Cardinality(Claimed) <= Cap - 1 + most /\ Cap \in Nat
    BY TimesAssumption DEF BooksInv
  <2> HIDE DEF most
  <2>2. ledger' + Cardinality(Claimed) <= Cap - 1 + most
    BY <1>4, <2>1 DEF most
  <2>3. QED
    BY <2>2 DEF most
<1>6. BooksBalance'
  BY <1>3 DEF BooksBalance
<1>7. QED
  BY <1>1, <1>2, <1>3, <1>5, <1>6 DEF BooksInv

(* Time, the AI switch and a new day. *)
LEMMA AroundBooks ==
  ASSUME Steady, BooksInv, Tick \/ Switch \/ NewDay \/ UNCHANGED vars
  PROVE  BooksInv'
<1>1. /\ ledger \in Nat /\ billed \in Nat /\ lost \in 0..MaxLost /\ lost \in Nat /\ MaxLost \in Nat
      /\ billed = ledger + lost + Cardinality(Pending) /\ Cardinality(Pending) \in Nat
  BY FS_CardinalityType, TimesAssumption DEF BooksInv, BooksBalance
<1>2. UNCHANGED setting
  BY DEF Tick, Switch, NewDay, vars, world
<1>3. /\ ledger' \in Nat /\ billed' \in Nat /\ lost' \in 0..MaxLost /\ ledger' <= ledger
      /\ billed' = ledger' + lost' + Cardinality(Pending)
  <2>1. CASE NewDay
    BY <1>1, <2>1 DEF NewDay
  <2>2. CASE Tick \/ Switch \/ UNCHANGED vars
    <3>1. UNCHANGED <<ledger, billed, lost>>
      BY <2>2 DEF Tick, Switch, vars, spend
    <3>2. QED
      BY <1>1, <3>1
  <2>3. QED
    BY <2>1, <2>2
<1>4. ASSUME NEW c \in Containers
      PROVE  /\ at'[c] \in Requests /\ at'[c].pc = at[c].pc /\ at'[c].position = at[c].position
             /\ at'[c].items = at[c].items /\ at'[c].rows = at[c].rows
  <2>1. at[c] \in Requests
    BY DEF BooksInv, RequestOK
  <2>2. CASE UNCHANGED at
    BY <2>1, <2>2
  <2>3. CASE Tick
    <3>1. PICK s : s = [at[c] EXCEPT !.left = at[c].left - 1, !.timer = at[c].timer - 1]
      OBVIOUS
    <3>2. at'[c] = s \/ at'[c] = at[c]
      BY <2>3, <3>1 DEF Tick
    <3>3. /\ s \in Requests /\ s.pc = at[c].pc /\ s.position = at[c].position
          /\ s.items = at[c].items /\ s.rows = at[c].rows
      <4>1. /\ at[c].pc \in Labels /\ at[c].position \in Nat /\ at[c].items \in SUBSET Nat /\ at[c].left - 1 \in Int
            /\ at[c].timeout \in Int /\ at[c].timer - 1 \in Int /\ at[c].rows \in Seq({0, 1})
        BY ONLY <2>1 DEF Requests
      <4>2. s = [pc |-> at[c].pc, position |-> at[c].position, items |-> at[c].items, left |-> at[c].left - 1,
                 timeout |-> at[c].timeout, timer |-> at[c].timer - 1, rows |-> at[c].rows]
        BY ONLY <2>1, <3>1 DEF Requests
      <4>3. s \in Requests
        BY ONLY <4>1, <4>2 DEF Requests
      <4>4. QED
        BY ONLY <4>2, <4>3
    <3>4. QED
      BY <2>1, <3>2, <3>3
  <2>4. QED
    BY <2>2, <2>3 DEF Switch, NewDay, vars
<1>5. QED
  BY <1>2, <1>3, <1>4, QuietBooks

(* The books at the start. *)
LEMMA InitBooks == Init => Steady /\ BooksInv
<1> SUFFICES ASSUME Init PROVE Steady /\ BooksInv
  OBVIOUS
<1>1. setting \in Settings /\ ledger = 0 /\ billed = 0 /\ lost = 0 /\ at = [c \in Containers |-> Idle]
  BY DEF Init
<1>2. RequestOK(Idle) /\ Idle.pc = "idle" /\ Idle.rows = <<>> /\ Ahead(Idle) = {} /\ Ones(Idle.rows) = {}
  BY <1>1, IdleOK, OnesEmpty
<1>3. Claims(Idle) = {}
  BY <1>2 DEF Claims
<1>4. Claimed = {} /\ Pending = {}
  BY <1>1, <1>2, <1>3 DEF Claimed, Tagged, Pending, Unwritten, Ones
<1>5. IsFiniteSet({}) /\ Cardinality({}) = 0
  BY FS_EmptySet
<1>6. /\ Cardinality(Chances) \in Nat /\ Cardinality(setting.serving) \in Nat
      /\ Cap \in Nat \ {0} /\ MaxLost \in Nat
  BY <1>1, ChancesFinite, SettingsAssumption, FS_CardinalityType, TimesAssumption
<1>7. Cardinality(setting.serving) * Cardinality(Chances) \in Nat
  BY <1>6
<1>8. ledger + Cardinality(Claimed) <= Cap - 1 + Cardinality(setting.serving) * Cardinality(Chances)
  BY <1>1, <1>4, <1>5, <1>6, <1>7
<1>9. BooksBalance
  BY <1>1, <1>4, <1>5 DEF BooksBalance
<1>10. \A c \in Containers : at[c] = Idle
  BY <1>1
<1>11. Steady
  BY <1>1 DEF Steady
<1>12. ASSUME NEW c \in Containers
       PROVE  /\ RequestOK(at[c]) /\ (at[c].pc # "idle" => c \in setting.serving)
              /\ Cardinality(Claims(at[c])) <= Cardinality(Chances)
  <2>1. at[c] = Idle
    BY <1>10
  <2>2. Cardinality(Claims(Idle)) <= Cardinality(Chances)
    BY <1>3, <1>5, <1>6
  <2>3. QED
    BY <1>2, <2>1, <2>2
<1>13. IsFiniteSet(Pending) /\ IsFiniteSet(Claimed) /\ lost \in 0..MaxLost
  BY <1>1, <1>4, <1>5, <1>6
<1>14. QED
  BY <1>1, <1>8, <1>9, <1>11, <1>12, <1>13 DEF BooksInv

(* Every step keeps the books. *)
LEMMA StepBooks == Steady /\ BooksInv /\ [Next]_vars => BooksInv'
<1> SUFFICES ASSUME Steady, BooksInv, [Next]_vars PROVE BooksInv'
  OBVIOUS
<1>1. ASSUME NEW c \in Containers, Ask(c) \/ Serve(c) \/ Recycle(c) PROVE BooksInv'
  <2>1. CASE Respond(c)
    BY <2>1, LeaveBooks DEF Respond, world, spend
  <2>2. CASE Generate(c)
    BY <2>2, NextModelBooks, AttemptBooks, OutcomeBooks DEF Generate
  <2>3. QED
    BY <1>1, <2>1, <2>2, AskBooks, BudgetBooks, ResolveBooks, LimitBooks, RecordBooks, RecycleBooks DEF Serve
<1>2. QED
  BY <1>1, AroundBooks DEF Next

(* The units yet to be written are among the claims. *)
LEMMA CapOfBooks == BooksInv => WithinTheCap
<1> SUFFICES ASSUME BooksInv PROVE WithinTheCap
  OBVIOUS
<1> DEFINE tag == [x \in Pending |-> <<x[1], <<0, x[2]>>>>]
           most == Cardinality(setting.serving) * Cardinality(Chances)
<1>1. tag \in Injection(Pending, Claimed)
  <2>1. ASSUME NEW x \in Pending PROVE x = <<x[1], x[2]>> /\ tag[x] \in Claimed
    BY DEF Pending, Claimed, Tagged, Claims, Unwritten, Ones
  <2>2. QED
    BY <2>1 DEF Injection, IsInjective
<1>2. Cardinality(Pending) <= Cardinality(Claimed)
  BY <1>1, FS_Injection DEF BooksInv
<1>3. IsFiniteSet(setting.serving) /\ IsFiniteSet(Claimed) /\ IsFiniteSet(Pending)
  BY SettingsAssumption DEF BooksInv
<1>4. Cardinality(Pending) \in Nat /\ Cardinality(Claimed) \in Nat /\ most \in Nat
  <2>1. Cardinality(setting.serving) \in Nat /\ Cardinality(Chances) \in Nat
    BY <1>3, ChancesFinite, FS_CardinalityType DEF BooksInv
  <2>2. QED
    BY <1>3, <2>1, FS_CardinalityType
<1>5. /\ ledger \in Nat /\ lost \in Int /\ Cap \in Nat /\ ledger + Cardinality(Claimed) <= Cap - 1 + most
      /\ billed = ledger + lost + Cardinality(Pending)
  BY TimesAssumption DEF BooksInv, BooksBalance
<1> HIDE DEF most
<1>6. billed <= Cap - 1 + lost + most
  BY <1>2, <1>4, <1>5
<1>7. QED
  BY <1>6 DEF WithinTheCap, most

(* In Narrate the books stay as BooksInv says.                                *)
THEOREM BooksInductive == Spec => []BooksInv
<1>1. IndInv => Steady
  BY DEF IndInv, Steady
<1>2. QED
  BY <1>1, Inductive, InitBooks, StepBooks, PTL DEF Spec

(* In Narrate every unit the provider billed today is in the ledger, among    *)
(* the rows a request has yet to write, or lost.                              *)
THEOREM BooksAreKept == Spec => []BooksBalance
<1>1. BooksInv => BooksBalance
  BY DEF BooksInv
<1>2. QED
  BY <1>1, BooksInductive, PTL

(* In Narrate the cap is overrun by no more than one request of each          *)
(* container in use, and by what was lost.                                    *)
THEOREM CapHolds == Spec => []WithinTheCap
BY CapOfBooks, BooksInductive, PTL

-----------------------------------------------------------------------------
(* The circuits. *)

HIDE TimesAssumption
USE RulesAssumption

(* A circuit that counted to its threshold is open, and was opened for as     *)
(* long as the class of its last error asks for at least.                     *)
HealthOK(h) ==
  /\ h \in Healths
  /\ h.class # "none" => h.failures >= 1
  /\ h.class # "none" /\ h.failures >= Threshold[h.class] => h.opened
  /\ h.opened => h.class # "none" /\ h.streak >= 1 /\ h.left + h.age >= OpenFor[h.class]

TableOK(table) == table \in [Deployments -> Healths] /\ \A d \in Deployments : HealthOK(table[d])

(* Neither the deployment nor its account is behind an open circuit. *)
Free(table, d) ==
  /\ StateOf(table[d]) # "open"
  /\ \A e \in Neighbours(d) :
       table[e].class \in SoloClasses /\ table[e].opened /\ table[e].fresh => table[e].left = 0

(* A power of two is a positive number: it counts the subsets of a set.       *)
LEMMA PowerOfTwo == ASSUME NEW n \in Nat PROVE 2 ^ n \in Nat /\ 2 ^ n >= 1
<1>1. IsFiniteSet(1..n) /\ Cardinality(1..n) = n
  BY FS_Interval
<1>2. IsFiniteSet(SUBSET (1..n)) /\ Cardinality(SUBSET (1..n)) = 2 ^ n
  BY <1>1, FS_SUBSET
<1>3. Cardinality(SUBSET (1..n)) \in Nat /\ Cardinality(SUBSET (1..n)) # 0
  <2>1. SUBSET (1..n) # {}
    OBVIOUS
  <2>2. QED
    BY <1>2, <2>1, FS_CardinalityType, FS_EmptySet
<1>4. QED
  BY <1>2, <1>3

(* An open period is at least the first one of its class, and is capped.      *)
LEMMA OpenSecondsBounds ==
  ASSUME NEW cls \in Classes, NEW streak \in Nat, streak >= 1
  PROVE  OpenSeconds(cls, streak) \in 0..MaxAge /\ OpenSeconds(cls, streak) >= OpenFor[cls]
<1> DEFINE times == 2 ^ (streak - 1)
<1>1. times \in Nat /\ times >= 1
  BY PowerOfTwo
<1>2. OpenFor[cls] \in Nat /\ MaxOpen[cls] \in Nat /\ MaxAge \in Nat
      /\ OpenFor[cls] <= MaxOpen[cls] /\ MaxOpen[cls] <= MaxAge
  BY RulesAssumption
<1> HIDE DEF times
<1>3. OpenFor[cls] * times \in Nat /\ OpenFor[cls] * times >= OpenFor[cls]
  <2>1. PICK n \in Nat : times = n + 1
    <3>1. times - 1 \in Nat /\ times = (times - 1) + 1
      BY <1>1
    <3>2. QED
      BY <3>1
  <2>2. PICK a \in Nat : a = OpenFor[cls]
    BY <1>2
  <2>3. a * n \in Nat /\ a * (n + 1) = a * n + a
    OBVIOUS
  <2>4. QED
    BY <2>1, <2>2, <2>3
<1>4. QED
  BY <1>2, <1>3 DEF OpenSeconds, Smaller, times

(* A row that starts anew. *)
LEMMA NewHealthOK == HealthOK(NewHealth)
BY DEF HealthOK, NewHealth, Healths

(* A failure of a deployment that was called. *)
LEMMA FailureOK ==
  ASSUME NEW h, HealthOK(h), StateOf(h) # "open", NEW cls \in Classes
  PROVE  HealthOK(AfterFailure(h, cls))
<1>1. /\ h \in Healths /\ h.failures \in 0..MaxFailures /\ h.streak \in 0..MaxStreak /\ h.age \in 0..MaxAge
      /\ h.left \in 0..MaxAge /\ h.opened \in BOOLEAN
  BY DEF HealthOK, Healths
<1>2. MaxFailures \in Nat \ {0} /\ MaxStreak \in Nat \ {0} /\ MaxAge \in Nat \ {0} /\ Threshold[cls] \in Nat \ {0}
      /\ cls # "none" /\ Threshold[cls] <= MaxFailures
  BY RulesAssumption DEF Classes, ConnectionClasses, SoloClasses
<1>3. PICK failures \in 1..MaxFailures : failures = Smaller(h.failures + 1, MaxFailures)
  BY <1>1, <1>2 DEF Smaller
<1>4. PICK g : g = [h EXCEPT !.failures = failures, !.class = cls, !.age = 0, !.fresh = TRUE]
  OBVIOUS
<1>5. g = [failures |-> failures, class |-> cls, age |-> 0, fresh |-> TRUE, opened |-> h.opened,
           left |-> h.left, streak |-> h.streak]
  BY ONLY <1>1, <1>4 DEF Healths
<1>6. ASSUME NEW streak \in 1..MaxStreak, NEW k,
             k = [g EXCEPT !.opened = TRUE, !.left = OpenSeconds(cls, streak), !.streak = streak]
      PROVE  HealthOK(k)
  <2>1. PICK left \in 0..MaxAge : left = OpenSeconds(cls, streak) /\ left >= OpenFor[cls]
    BY <1>2, OpenSecondsBounds
  <2>2. k = [failures |-> failures, class |-> cls, age |-> 0, fresh |-> TRUE, opened |-> TRUE,
             left |-> left, streak |-> streak]
    BY ONLY <1>5, <1>6, <2>1
  <2>3. k \in Healths
    BY <1>2, <2>2 DEF Healths
  <2>4. /\ k.failures = failures /\ k.class = cls /\ k.age = 0 /\ k.opened = TRUE
        /\ k.left = left /\ k.streak = streak
    BY ONLY <2>2
  <2>5. OpenFor[cls] \in Nat
    BY RulesAssumption
  <2>6. QED
    BY <1>2, <2>1, <2>3, <2>4, <2>5 DEF HealthOK
<1>7. CASE StateOf(h) = "half_open"
  <2>1. Smaller(h.streak + 1, MaxStreak) \in 1..MaxStreak
    BY <1>1, <1>2 DEF Smaller
  <2>2. AfterFailure(h, cls) = [g EXCEPT !.opened = TRUE, !.left = OpenSeconds(cls, Smaller(h.streak + 1, MaxStreak)),
                                         !.streak = Smaller(h.streak + 1, MaxStreak)]
    BY <1>3, <1>4, <1>7 DEF AfterFailure
  <2>3. QED
    BY <1>6, <2>1, <2>2
<1>8. CASE StateOf(h) = "closed" /\ failures >= Threshold[cls]
  <2>1. AfterFailure(h, cls) = [g EXCEPT !.opened = TRUE, !.left = OpenSeconds(cls, 1), !.streak = 1]
    BY <1>3, <1>4, <1>5, <1>8 DEF AfterFailure
  <2>2. 1 \in 1..MaxStreak
    BY <1>2
  <2>3. QED
    BY <1>6, <2>1, <2>2
<1>9. CASE StateOf(h) = "closed" /\ failures < Threshold[cls]
  <2>1. AfterFailure(h, cls) = g
    BY <1>2, <1>3, <1>4, <1>5, <1>9 DEF AfterFailure
  <2>2. h.opened = FALSE
    BY <1>1, <1>9 DEF StateOf
  <2>3. g \in Healths
    BY <1>1, <1>2, <1>5 DEF Healths
  <2>4. g.failures = failures /\ g.class = cls /\ g.opened = FALSE
    BY ONLY <1>5, <2>2
  <2>5. QED
    BY <1>2, <1>9, <2>1, <2>3, <2>4 DEF HealthOK
<1>10. QED
  <2>1. StateOf(h) \in {"closed", "half_open"}
    BY DEF StateOf
  <2>2. QED
    BY <1>2, <1>7, <1>8, <1>9, <2>1

(* Time opens no circuit. *)
LEMMA ElapsedOK ==
  ASSUME NEW table, TableOK(table)
  PROVE  /\ TableOK(Elapsed(table))
         /\ \A d \in Deployments : Free(table, d) => Free(Elapsed(table), d)
<1> DEFINE later(h) == [h EXCEPT !.left = IF @ = 0 THEN 0 ELSE @ - 1, !.age = Smaller(@ + 1, MaxAge)]
<1>1. ASSUME NEW h, HealthOK(h)
      PROVE  /\ HealthOK(later(h)) /\ later(h).opened = h.opened /\ later(h).class = h.class
             /\ later(h).fresh = h.fresh /\ (h.left = 0 => later(h).left = 0)
  <2>1. /\ h \in Healths /\ h.age \in 0..MaxAge /\ h.left \in 0..MaxAge /\ h.class \in Classes \cup {"none"}
    BY <1>1 DEF HealthOK, Healths
  <2>2. PICK left \in 0..MaxAge : left = IF h.left = 0 THEN 0 ELSE h.left - 1
    BY <2>1
  <2>3. PICK age \in 0..MaxAge : age = Smaller(h.age + 1, MaxAge)
    BY <2>1 DEF Smaller
  <2>4. later(h) = [failures |-> h.failures, class |-> h.class, age |-> age, fresh |-> h.fresh, opened |-> h.opened,
                    left |-> left, streak |-> h.streak]
    <3>1. h = [failures |-> h.failures, class |-> h.class, age |-> h.age, fresh |-> h.fresh, opened |-> h.opened,
               left |-> h.left, streak |-> h.streak]
      BY ONLY <2>1 DEF Healths
    <3>2. later(h) = [h EXCEPT !.left = left, !.age = age]
      BY <2>2, <2>3
    <3> HIDE DEF later
    <3>3. QED
      BY ONLY <3>1, <3>2
  <2>5. later(h) \in Healths
    BY <2>1, <2>4 DEF Healths
  <2>6. h.class # "none" => /\ OpenFor[h.class] \in Nat /\ OpenFor[h.class] <= MaxAge
                            /\ (h.left + h.age >= OpenFor[h.class] => left + age >= OpenFor[h.class])
    BY <2>1, <2>2, <2>3 DEF Smaller
  <2>7. /\ later(h).failures = h.failures /\ later(h).class = h.class /\ later(h).age = age
        /\ later(h).fresh = h.fresh /\ later(h).opened = h.opened /\ later(h).left = left /\ later(h).streak = h.streak
    BY ONLY <2>4
  <2> HIDE DEF later
  <2>8. QED
    BY <1>1, <2>2, <2>5, <2>6, <2>7 DEF HealthOK
<1>2. \A d \in Deployments : Elapsed(table)[d] = later(table[d])
  BY DEF Elapsed
<1> HIDE DEF later
<1>3. TableOK(Elapsed(table))
  <2>1. \A d \in Deployments : HealthOK(Elapsed(table)[d])
    BY <1>1, <1>2 DEF TableOK
  <2>2. Elapsed(table) = [d \in Deployments |-> Elapsed(table)[d]]
    BY DEF Elapsed
  <2>3. QED
    BY <2>1, <2>2 DEF TableOK, HealthOK
<1>4. ASSUME NEW d \in Deployments, Free(table, d) PROVE Free(Elapsed(table), d)
  <2>1. \A e \in Deployments : /\ Elapsed(table)[e].opened = table[e].opened
                               /\ Elapsed(table)[e].class = table[e].class
                               /\ Elapsed(table)[e].fresh = table[e].fresh
                               /\ table[e].left = 0 => Elapsed(table)[e].left = 0
    BY <1>1, <1>2 DEF TableOK
  <2>2. table[d].opened /\ ~(table[d].left > 0) => table[d].left = 0
    BY DEF TableOK, Healths
  <2>3. StateOf(Elapsed(table)[d]) # "open"
    BY <1>4, <2>1, <2>2 DEF StateOf, Free
  <2>4. QED
    BY <1>4, <2>1, <2>3 DEF Free, Neighbours
<1>5. QED
  BY <1>3, <1>4

(* An answer starts the row anew, and leaves other connections alone. *)
LEMMA SuccessOK ==
  ASSUME NEW table, TableOK(table), NEW d \in Deployments
  PROVE  /\ TableOK(RecordSuccess(table, d))
         /\ \A e \in Deployments : e.connection # d.connection /\ Free(table, e) => Free(RecordSuccess(table, d), e)
<1> DEFINE next == RecordSuccess(table, d)
<1>1. ASSUME NEW e \in Deployments PROVE HealthOK(next[e])
  <2>1. next[e] \in {NewHealth, table[e], [table[e] EXCEPT !.fresh = FALSE]}
    BY DEF RecordSuccess
  <2>2. CASE next[e] = [table[e] EXCEPT !.fresh = FALSE]
    <3>1. HealthOK(table[e])
      BY DEF TableOK
    <3>2. PICK h : h = table[e]
      OBVIOUS
    <3>3. next[e] = [failures |-> h.failures, class |-> h.class, age |-> h.age, fresh |-> FALSE, opened |-> h.opened,
                     left |-> h.left, streak |-> h.streak]
      BY <2>2, <3>1, <3>2 DEF HealthOK, Healths
    <3>4. next[e] \in Healths
      BY <3>1, <3>2, <3>3 DEF HealthOK, Healths
    <3>5. /\ next[e].failures = h.failures /\ next[e].class = h.class /\ next[e].age = h.age
          /\ next[e].opened = h.opened /\ next[e].left = h.left /\ next[e].streak = h.streak
      BY ONLY <3>3
    <3> HIDE DEF next
    <3>6. QED
      BY <3>1, <3>2, <3>4, <3>5 DEF HealthOK
  <2>3. QED
    BY <2>1, <2>2, NewHealthOK DEF TableOK
<1>2. \A e \in Deployments : e.connection # d.connection => next[e] = table[e]
  BY DEF RecordSuccess, Neighbours
<1>3. next = [e \in Deployments |-> next[e]]
  BY DEF RecordSuccess
<1> HIDE DEF next
<1>4. TableOK(next)
  BY <1>1, <1>3 DEF TableOK, HealthOK
<1>5. QED
  BY <1>2, <1>4 DEF Free, Neighbours, next

(* A failure leaves other connections alone. *)
LEMMA RecordFailureOK ==
  ASSUME NEW table, TableOK(table), NEW d \in Deployments, StateOf(table[d]) # "open", NEW outcome
  PROVE  /\ TableOK(RecordFailure(table, d, outcome))
         /\ \A e \in Deployments :
              e.connection # d.connection /\ Free(table, e) => Free(RecordFailure(table, d, outcome), e)
<1> DEFINE next == RecordFailure(table, d, outcome)
<1>1. CASE outcome \notin Classes
  BY <1>1 DEF RecordFailure
<1>2. CASE outcome \in Classes
  <2>1. HealthOK(AfterFailure(table[d], outcome))
    BY <1>2, FailureOK DEF TableOK
  <2>2. next = [table EXCEPT ![d] = AfterFailure(table[d], outcome)]
    BY <1>2 DEF RecordFailure
  <2> HIDE DEF next
  <2>3. TableOK(next)
    BY <2>1, <2>2 DEF TableOK, HealthOK
  <2>4. \A e \in Deployments : e.connection # d.connection => next[e] = table[e]
    BY <2>2 DEF TableOK
  <2>5. QED
    BY <2>3, <2>4 DEF Free, Neighbours, next
<1>3. QED
  BY <1>1, <1>2

(* What the plan leaves to be tried is free. *)
LEMMA PlannedIsFree ==
  ASSUME NEW table, TableOK(table), NEW d \in Deployments, ~Shut(table, d)
  PROVE  Free(table, d)
<1>1. StateOf(table[d]) # "open" /\ ~ConnectionOpen(table, d)
  BY DEF Shut
<1>2. ASSUME NEW e \in Neighbours(d), table[e].class \in SoloClasses, table[e].opened, table[e].fresh
      PROVE  table[e].left = 0
  <2>1. StateOf(table[e]) # "closed"
    BY <1>2 DEF StateOf
  <2>2. e \in Signals(table, d, SoloClasses)
    BY <1>2, <2>1 DEF Signals
  <2>3. ~(table[e].left > 0)
    BY <1>1, <2>2 DEF ConnectionOpen
  <2>4. table[e].left \in 0..MaxAge
    BY DEF TableOK, Healths, Neighbours
  <2>5. QED
    BY <2>3, <2>4
<1>3. QED
  BY <1>1, <1>2 DEF Free

(* The table of a new container. *)
LEMMA NewTableOK == TableOK(NewTable)
BY NewHealthOK DEF TableOK, NewTable, HealthOK
-----------------------------------------------------------------------------
(* The circuits through the steps of Narrate. *)

Trying == {"attempt", "assume", "invoke"}

Ready(r, table) == r.pc \in Trying => \A i \in r.items : Free(table, setting.chain[r.position][i])

(* No deployment that is left to be tried is behind an open circuit. *)
CircuitInv == \A c \in Containers : TableOK(memory[c].table) /\ Ready(at[c], memory[c].table)

(* A step of one container. *)
LEMMA CircuitStep ==
  ASSUME CircuitInv, NEW d \in Containers, UNCHANGED setting,
         \A c \in Containers \ {d} : at'[c] = at[c] /\ memory'[c] = memory[c],
         TableOK(memory'[d].table), Ready(at[d], memory[d].table)'
  PROVE  CircuitInv'
<1>1. ASSUME NEW c \in Containers PROVE (TableOK(memory[c].table) /\ Ready(at[c], memory[c].table))'
  <2>1. CASE c = d
    BY <2>1 DEF TableOK
  <2>2. CASE c # d
    <3>1. at'[c] = at[c] /\ memory'[c] = memory[c] /\ TableOK(memory[c].table) /\ Ready(at[c], memory[c].table)
      BY <2>2 DEF CircuitInv
    <3>2. QED
      BY <3>1 DEF Ready, TableOK
  <2>3. QED
    BY <2>1, <2>2
<1>2. QED
  BY <1>1 DEF CircuitInv

(* The steps of a container outside the chain of models. *)
LEMMA OutsideCircuits ==
  ASSUME IndInv, BooksInv, CircuitInv, NEW d \in Containers,
         Ask(d) \/ Budget(d) \/ Resolve(d) \/ Limit(d) \/ Write(d) \/ Lose(d) \/ Respond(d) \/ Recycle(d)
  PROVE  CircuitInv'
<1>1. /\ at = [c \in Containers |-> at[c]] /\ memory = [c \in Containers |-> memory[c]]
      /\ at[d] \in Requests /\ IsMemory(memory[d]) /\ TableOK(memory[d].table)
  BY DEF IndInv, ShapeOK, BooksInv, RequestOK, CircuitInv
<1>2. UNCHANGED setting
  BY DEF Ask, Budget, Resolve, Limit, Write, Lose, Respond, Recycle, world
<1>3. \A c \in Containers \ {d} : at'[c] = at[c] /\ memory'[c] = memory[c]
  BY <1>1 DEF Ask, Budget, Resolve, Limit, Write, AfterWrite, Lose, Respond, Recycle, Goto, Leave, Finish
<1>4. at'[d].pc \notin Trying
  <2>1. ASSUME NEW label \in {"budget", "resolve", "limit"}, Goto(d, label) PROVE at'[d].pc = label
    BY <1>1, <2>1 DEF Goto, Requests
  <2>2. Leave(d) => at'[d].pc = "idle"
    BY <1>1, Ended DEF Leave
  <2>3. Finish(d, <<0>>) => at'[d].pc = "record"
    BY <1>1 DEF Finish, Idle
  <2>4. at' = [at EXCEPT ![d].pc = "model", ![d].left = Deadline] => at'[d].pc = "model"
    BY <1>1 DEF Requests
  <2>5. Write(d) \/ Lose(d) => at'[d].pc = "record"
    BY <1>1 DEF Write, Lose, Requests
  <2>6. QED
    BY <2>1, <2>2, <2>3, <2>4, <2>5 DEF Ask, Budget, Resolve, Limit, Respond, Recycle, Trying
<1>5. TableOK(memory'[d].table)
  <2>1. CASE Recycle(d)
    BY <1>1, <2>1, NewTableOK DEF Recycle, Fresh
  <2>2. CASE Lose(d)
    <3>1. PICK m : m = [memory[d] EXCEPT !.hold = Hold, !.sinceLoss = 0]
      OBVIOUS
    <3>2. memory'[d] = m
      BY <1>1, <2>2, <3>1 DEF Lose
    <3>3. m.table = memory[d].table
      BY <1>1, <3>1 DEF IsMemory
    <3>4. QED
      BY <1>1, <3>2, <3>3
  <2>3. CASE ~Recycle(d) /\ ~Lose(d)
    <3>1. memory'[d] = memory[d] \/ \E p : memory'[d] = [memory[d] EXCEPT !.profile = p]
      BY <1>1, <2>3 DEF Ask, Budget, Resolve, Limit, Write, AfterWrite, Respond
    <3>2. ASSUME NEW p, NEW m, m = [memory[d] EXCEPT !.profile = p] PROVE m.table = memory[d].table
      BY <1>1, <3>2 DEF IsMemory
    <3>3. QED
      BY <1>1, <3>1, <3>2
  <2>4. QED
    BY <2>1, <2>2, <2>3
<1>6. QED
  BY <1>2, <1>3, <1>4, <1>5, CircuitStep DEF Ready

(* The deployments of a model. *)
LEMMA ChainOK ==
  ASSUME BooksInv, NEW p \in 1..Len(setting.chain), NEW i \in DOMAIN setting.chain[p]
  PROVE  setting.chain[p][i] \in Deployments
BY SettingsAssumption DEF BooksInv

(* The next model's deployments are planned by the circuits as they are. *)
LEMMA NextModelCircuits ==
  ASSUME IndInv, BooksInv, CircuitInv, NEW d \in Containers, NextModel(d)
  PROVE  CircuitInv'
<1> DEFINE next == at[d].position + 1
           planned(cis) == Plan(d, setting.chain[next], cis)
<1>1. /\ at = [c \in Containers |-> at[c]] /\ at[d] \in Requests /\ TableOK(memory[d].table) /\ at[d].position \in Nat
      /\ setting \in Settings
  BY DEF IndInv, BooksInv, RequestOK, CircuitInv, Requests
<1>2. UNCHANGED <<setting, memory>>
  BY DEF NextModel, world
<1>3. \A c \in Containers \ {d} : at'[c] = at[c]
  BY <1>1 DEF NextModel, Finish
<1>4. CASE Finish(d, at[d].rows)
  <2>1. at'[d].pc = "record"
    BY <1>1, <1>4 DEF Finish, Idle
  <2>2. QED
    BY <1>1, <1>2, <1>3, <2>1, CircuitStep DEF Ready, Trying
<1>5. CASE ~Finish(d, at[d].rows)
  <2>1. PICK cis \in SUBSET setting.shut :
            at' = [at EXCEPT ![d].position = next, ![d].items = planned(cis),
                             ![d].pc = IF planned(cis) = {} THEN "model" ELSE "attempt",
                             ![d].rows = IF planned(cis) = {} THEN Append(@, 0) ELSE @]
    BY <1>5, Zenon DEF NextModel
  <2>2. next \in 1..Len(setting.chain)
    <3>1. Len(setting.chain) \in Nat
      BY <1>1, SettingsAssumption
    <3>2. ~(next > Len(setting.chain))
      BY <1>5 DEF NextModel
    <3>3. QED
      BY <1>1, <3>1, <3>2
  <2>3. \A i \in planned(cis) : i \in DOMAIN setting.chain[next] /\ ~Shut(memory[d].table, setting.chain[next][i])
    BY DEF Plan
  <2>4. ASSUME NEW i \in planned(cis) PROVE Free(memory[d].table, setting.chain[next][i])
    BY <1>1, <2>2, <2>3, ChainOK, PlannedIsFree
  <2>5. PICK items : items = planned(cis)
    OBVIOUS
  <2> HIDE DEF next, planned
  <2>6. at'[d].position = next /\ at'[d].items = items
    <3>1. PICK label, rows : at' = [at EXCEPT ![d].position = next, ![d].items = items, ![d].pc = label, ![d].rows = rows]
      BY <2>1, <2>5
    <3>2. QED
      BY <1>1, <3>1 DEF Requests
  <2>7. Ready(at[d], memory[d].table)'
    BY <1>2, <2>4, <2>5, <2>6 DEF Ready
  <2>8. QED
    BY <1>1, <1>2, <1>3, <2>7, CircuitStep
<1>6. QED
  BY <1>4, <1>5

(* A client that starts changes nothing of what is to be tried. *)
LEMMA ClientCircuits ==
  ASSUME IndInv, BooksInv, CircuitInv, NEW d \in Containers, Attempt(d) \/ Assumed(d)
  PROVE  CircuitInv'
<1>1. /\ at = [c \in Containers |-> at[c]] /\ at[d] \in Requests /\ TableOK(memory[d].table)
      /\ Ready(at[d], memory[d].table) /\ at[d].pc \in Trying
  BY DEF IndInv, BooksInv, RequestOK, CircuitInv, Attempt, Assumed, Trying
<1>2. UNCHANGED <<setting, memory>>
  BY DEF Attempt, Assumed, world
<1>3. \A c \in Containers \ {d} : at'[c] = at[c]
  BY <1>1 DEF Attempt, Assumed, Finish
<1>4. at'[d].pc \notin Trying \/ (at'[d].position = at[d].position /\ at'[d].items = at[d].items)
  <2>1. CASE Attempt(d) /\ ~TimeLeft(d)
    BY <1>1, <2>1 DEF Attempt, Finish, Idle, Trying
  <2>2. CASE (Attempt(d) /\ TimeLeft(d)) \/ Assumed(d)
    <3>1. CASE Attempt(d) /\ TimeLeft(d)
      BY <1>1, <3>1 DEF Attempt, Requests
    <3>2. CASE Assumed(d)
      BY <1>1, <3>2 DEF Assumed, Requests
    <3>3. QED
      BY <2>2, <3>1, <3>2
  <2>3. QED
    BY <2>1, <2>2
<1>5. Ready(at[d], memory[d].table)'
  BY <1>1, <1>2, <1>4 DEF Ready
<1>6. QED
  BY <1>1, <1>2, <1>3, <1>5, CircuitStep

(* A failed or answered attempt touches one connection; what is left of the   *)
(* model's deployments are on others.                                         *)
LEMMA OutcomeCircuits ==
  ASSUME IndInv, BooksInv, CircuitInv, NEW d \in Containers,
         Text(d) \/ Truncated(d) \/ \E outcome \in Classes \cup {"request"} : Fails(d, outcome)
  PROVE  CircuitInv'
<1> DEFINE called == Deployment(d)
           table == memory[d].table
           chain == setting.chain
<1>1. /\ at = [c \in Containers |-> at[c]] /\ memory = [c \in Containers |-> memory[c]] /\ IsMemory(memory[d])
      /\ at[d] \in Requests /\ RequestOK(at[d]) /\ TableOK(table) /\ Ready(at[d], table) /\ at[d].pc \in {"assume", "invoke"}
      /\ setting \in Settings
  BY DEF IndInv, ShapeOK, BooksInv, RequestOK, CircuitInv, Text, Truncated, Fails
<1>2. UNCHANGED setting
  BY DEF Text, Truncated, Fails, world
<1>3. \A c \in Containers \ {d} : at'[c] = at[c] /\ memory'[c] = memory[c]
  BY <1>1 DEF Text, Truncated, Fails, Finish, Onward
<1>4. /\ at[d].position \in 1..Len(chain) /\ at[d].items \in SUBSET DOMAIN chain[at[d].position]
      /\ Min(at[d].items) \in at[d].items
  <2>1. /\ at[d].position \in Nat /\ at[d].position > 0 /\ at[d].items # {} /\ at[d].position <= Len(chain)
        /\ at[d].items \in SUBSET DOMAIN chain[at[d].position] /\ at[d].items \in SUBSET Nat
    BY <1>1 DEF RequestOK, Requests
  <2>2. Len(chain) \in Nat
    BY <1>1, SettingsAssumption
  <2>3. Min(at[d].items) \in at[d].items
    BY ONLY <2>1, MinIsMember
  <2>4. QED
    BY <2>1, <2>2, <2>3
<1>5. called \in Deployments /\ Free(table, called)
  BY <1>1, <1>4, ChainOK DEF Deployment, Ready, Trying
<1>6. PICK next : /\ TableOK(next)
                  /\ \A e \in Deployments : e.connection # called.connection /\ Free(table, e) => Free(next, e)
                  /\ memory' = [memory EXCEPT ![d].table = next]
  <2>1. CASE Text(d) \/ Truncated(d)
    <3>1. memory' = [memory EXCEPT ![d].table = RecordSuccess(table, called)]
      BY <2>1 DEF Text, Truncated
    <3>2. QED
      BY <1>1, <1>5, <3>1, SuccessOK
  <2>2. CASE \E outcome \in Classes \cup {"request"} : Fails(d, outcome)
    <3>1. PICK outcome : memory' = [memory EXCEPT ![d].table = RecordFailure(table, called, outcome)]
      BY <2>2 DEF Fails
    <3>2. StateOf(table[called]) # "open"
      BY <1>5 DEF Free
    <3>3. QED
      BY <1>1, <1>5, <3>1, <3>2, RecordFailureOK
  <2>3. QED
    BY <2>1, <2>2
<1>7. memory'[d].table = next
  BY <1>1, <1>6 DEF IsMemory
<1>8. Ready(at[d], memory[d].table)'
  <2>1. CASE Text(d)
    <3>1. at'[d].pc = "record"
      BY <1>1, <2>1 DEF Text, Finish, Idle
    <3>2. QED
      BY <3>1 DEF Ready, Trying
  <2>2. CASE ~Text(d)
    <3>1. PICK cost : Onward(d, cost)
      BY <2>2 DEF Truncated, Fails
    <3>2. PICK items : items = at[d].items \ {Min(at[d].items)}
      OBVIOUS
    <3>3. PICK label, rows : at' = [at EXCEPT ![d].items = items, ![d].pc = label, ![d].rows = rows,
                                              ![d].timeout = 0, ![d].timer = 0]
      BY <3>1, <3>2 DEF Onward
    <3>4. at'[d].items = items /\ at'[d].position = at[d].position
      BY <1>1, <3>3 DEF Requests
    <3>5. ASSUME NEW i \in items PROVE Free(next, chain[at[d].position][i])
      <4>1. i \in at[d].items /\ i # Min(at[d].items) /\ i \in DOMAIN chain[at[d].position]
        BY <1>4, <3>2
      <4>2. chain[at[d].position][i] \in Deployments /\ Free(table, chain[at[d].position][i])
        BY <1>1, <1>4, <4>1, ChainOK DEF Ready, Trying
      <4>3. chain[at[d].position][i].connection # called.connection
        <5>1. at[d].position \in DOMAIN chain
          BY <1>1, <1>4, SettingsAssumption
        <5>2. QED
          BY <1>1, <1>4, <4>1, <5>1, SettingsAssumption DEF Deployment
      <4>4. QED
        BY <1>6, <4>2, <4>3
    <3>6. QED
      BY <1>2, <1>7, <3>4, <3>5 DEF Ready
  <2>3. QED
    BY <2>1, <2>2
<1>9. TableOK(memory'[d].table)
  BY <1>6, <1>7
<1>10. QED
  BY <1>1, <1>2, <1>3, <1>8, <1>9, CircuitStep

(* Time, the AI switch and a new day. *)
LEMMA AroundCircuits ==
  ASSUME IndInv, BooksInv, CircuitInv, Tick \/ Switch \/ NewDay \/ UNCHANGED vars
  PROVE  CircuitInv'
<1>1. CASE Tick
  <2>1. UNCHANGED setting
    BY <1>1 DEF Tick
  <2>2. ASSUME NEW c \in Containers PROVE (TableOK(memory[c].table) /\ Ready(at[c], memory[c].table))'
    <3>1. TableOK(memory[c].table) /\ Ready(at[c], memory[c].table) /\ at[c] \in Requests /\ RequestOK(at[c])
      BY DEF CircuitInv, BooksInv, RequestOK
    <3>2. memory'[c].table = Elapsed(memory[c].table)
      BY <1>1 DEF Tick, Aged
    <3>3. at'[c].pc = at[c].pc /\ at'[c].items = at[c].items /\ at'[c].position = at[c].position
      <4>1. at'[c] = at[c] \/ at'[c] = [at[c] EXCEPT !.left = at[c].left - 1, !.timer = at[c].timer - 1]
        BY <1>1 DEF Tick
      <4>2. QED
        BY <3>1, <4>1 DEF Requests
    <3>4. TableOK(memory'[c].table)
      BY <3>1, <3>2, ElapsedOK
    <3>5. ASSUME at[c].pc \in Trying, NEW i \in at[c].items
          PROVE  Free(memory'[c].table, setting.chain[at[c].position][i])
      <4>1. at[c].position \in 1..Len(setting.chain) /\ i \in DOMAIN setting.chain[at[c].position]
        BY <3>1, <3>5, SettingsAssumption DEF RequestOK, Requests, BooksInv, Trying
      <4>2. QED
        BY <3>1, <3>2, <3>5, <4>1, ElapsedOK, ChainOK DEF Ready
    <3>6. QED
      BY <2>1, <3>3, <3>4, <3>5 DEF Ready
  <2>3. QED
    BY <2>2 DEF CircuitInv
<1>2. CASE Switch \/ NewDay \/ UNCHANGED vars
  <2>1. UNCHANGED <<setting, memory, at>>
    BY <1>2 DEF Switch, NewDay, world, vars
  <2>2. QED
    BY <2>1 DEF CircuitInv, Ready
<1>3. QED
  BY <1>1, <1>2

(* The circuits at the start. *)
LEMMA InitCircuits == Init => CircuitInv
<1> SUFFICES ASSUME Init, NEW c \in Containers PROVE TableOK(memory[c].table) /\ Ready(at[c], memory[c].table)
  BY DEF CircuitInv
<1>1. at[c] = Idle /\ memory[c] = Fresh
  BY DEF Init
<1>2. QED
  BY <1>1, NewTableOK, Ended DEF Fresh, Ready, Trying

(* Every step keeps the circuits. *)
LEMMA StepCircuits == IndInv /\ BooksInv /\ CircuitInv /\ [Next]_vars => CircuitInv'
<1> SUFFICES ASSUME IndInv, BooksInv, CircuitInv, [Next]_vars PROVE CircuitInv'
  OBVIOUS
<1>1. ASSUME NEW c \in Containers, Ask(c) \/ Serve(c) \/ Recycle(c) PROVE CircuitInv'
  <2>1. CASE Generate(c)
    BY <2>1, NextModelCircuits, ClientCircuits, OutcomeCircuits DEF Generate
  <2>2. QED
    BY <1>1, <2>1, OutsideCircuits DEF Serve
<1>2. QED
  BY <1>1, AroundCircuits DEF Next

(* In Narrate no deployment left to be tried is behind an open circuit.       *)
THEOREM CircuitsInductive == Spec => []CircuitInv
BY InitCircuits, StepCircuits, Inductive, BooksInductive, PTL DEF Spec

(* In Narrate a container leaves a failing deployment, and every model of a   *)
(* refused account, alone for the open period of its last error.              *)
THEOREM FailingIsLeftAlone == Spec => LeftAlone
<1> DEFINE Alone(c) ==
      LET table == memory[c].table
          d == Deployment(c)
          Rested(e) == table[e].age >= OpenFor[table[e].class]
      IN /\ table[d].class # "none" /\ table[d].failures >= Threshold[table[d].class] => Rested(d)
         /\ \A e \in Neighbours(d) : table[e].class \in SoloClasses /\ table[e].fresh => Rested(e)
<1>1. IndInv /\ BooksInv /\ CircuitInv => \A c \in Containers : Begins(c) => Alone(c)
  <2> SUFFICES ASSUME IndInv, BooksInv, CircuitInv, NEW c \in Containers, Begins(c) PROVE Alone(c)
    OBVIOUS
  <2> DEFINE table == memory[c].table
             d == Deployment(c)
  <2>1. TableOK(table) /\ Ready(at[c], table) /\ RequestOK(at[c]) /\ at[c] \in Requests /\ at[c].pc = "attempt"
        /\ setting \in Settings
    BY DEF CircuitInv, BooksInv, RequestOK, Begins
  <2>2. /\ at[c].position \in 1..Len(setting.chain) /\ Min(at[c].items) \in at[c].items
        /\ Min(at[c].items) \in DOMAIN setting.chain[at[c].position]
    <3>1. Len(setting.chain) \in Nat
      BY <2>1, SettingsAssumption
    <3>2. /\ at[c].position \in Nat /\ at[c].position > 0 /\ at[c].items # {} /\ at[c].position <= Len(setting.chain)
          /\ at[c].items \in SUBSET DOMAIN setting.chain[at[c].position] /\ at[c].items \in SUBSET Nat
      BY <2>1 DEF RequestOK, Requests
    <3>3. Min(at[c].items) \in at[c].items
      BY ONLY <3>2, MinIsMember
    <3>4. QED
      BY <3>1, <3>2, <3>3
  <2>3. d \in Deployments /\ Free(table, d)
    BY <2>1, <2>2, ChainOK DEF Deployment, Ready, Trying
  <2> HIDE DEF table, d
  <2>4. ASSUME NEW e \in Deployments, table[e].opened, table[e].left = 0
        PROVE  table[e].age >= OpenFor[table[e].class]
    <3>1. HealthOK(table[e])
      BY <2>1 DEF TableOK
    <3>2. table[e].left + table[e].age >= OpenFor[table[e].class] /\ table[e].age \in 0..MaxAge
      BY <2>4, <3>1 DEF HealthOK, Healths
    <3>3. QED
      BY <2>4, <3>2
  <2>5. ASSUME table[d].class # "none", table[d].failures >= Threshold[table[d].class]
        PROVE  table[d].age >= OpenFor[table[d].class]
    <3>1. HealthOK(table[d]) /\ table[d].opened /\ table[d].left \in 0..MaxAge
      BY <2>1, <2>3, <2>5 DEF TableOK, HealthOK, Healths
    <3>2. table[d].left = 0
      BY <2>3, <3>1 DEF Free, StateOf
    <3>3. QED
      BY <2>3, <2>4, <3>1, <3>2
  <2>6. ASSUME NEW e \in Neighbours(d), table[e].class \in SoloClasses, table[e].fresh
        PROVE  table[e].age >= OpenFor[table[e].class]
    <3>1. e \in Deployments /\ HealthOK(table[e])
      BY <2>1 DEF Neighbours, TableOK
    <3>2. table[e].class # "none" /\ Threshold[table[e].class] = 1
      BY <2>6 DEF SoloClasses
    <3>3. table[e].opened
      BY <3>1, <3>2 DEF HealthOK, Healths
    <3>4. table[e].left = 0
      BY <2>3, <2>6, <3>3 DEF Free
    <3>5. QED
      BY <2>4, <3>1, <3>3, <3>4
  <2>7. QED
    BY <2>5, <2>6 DEF table, d
<1>2. QED
  BY <1>1, Inductive, BooksInductive, CircuitsInductive, PTL DEF LeftAlone

(* In Narrate every variable has its type.                                    *)
THEOREM TypeCorrect == Spec => []TypeOK
<1>1. IndInv /\ BooksInv /\ CircuitInv => TypeOK
  <2> SUFFICES ASSUME IndInv, BooksInv, CircuitInv PROVE TypeOK
    OBVIOUS
  <2>1. /\ setting \in Settings /\ ai \in BOOLEAN /\ offFor \in 0..ProfileTTL
        /\ {ledger, billed} \subseteq Nat /\ lost \in 0..MaxLost
    BY DEF IndInv, BooksInv
  <2>2. ASSUME NEW c \in Containers
        PROVE  /\ memory[c].table \in [Deployments -> Healths]
               /\ memory[c].hold \in 0..Hold /\ memory[c].sinceLoss \in 0..Hold
               /\ memory[c].profile \in [known : {"none", "on", "off"}, age : 0..ProfileTTL - 1, retry : 0..ProfileRetry]
    BY DEF IndInv, CircuitInv, TableOK, HoldOK, ProfileOK, Profiles
  <2>3. ASSUME NEW c \in Containers
        PROVE  /\ at[c].pc \in Labels
               /\ at[c].left \in -Deadline..Deadline /\ {at[c].timeout, at[c].timer} \subseteq 0..Deadline
               /\ at[c].position \in 0..Len(setting.chain)
               /\ at[c].items \subseteq IF at[c].position = 0 THEN {} ELSE DOMAIN setting.chain[at[c].position]
               /\ at[c].rows \in Seq({0, 1})
    <3>1. RequestOK(at[c]) /\ at[c] \in Requests /\ TimingOK(c)
      BY DEF IndInv, BooksInv, RequestOK
    <3>2. Len(setting.chain) \in Nat
      BY <2>1, SettingsAssumption
    <3>3. at[c].left \in -Deadline..Deadline /\ {at[c].timeout, at[c].timer} \subseteq 0..Deadline
      BY <3>1 DEF TimingOK, Lefts, Times
    <3>4. at[c].pc \in Labels /\ at[c].position \in Nat /\ at[c].rows \in Seq({0, 1})
      BY <3>1 DEF Requests
    <3>5. QED
      BY <3>1, <3>2, <3>3, <3>4 DEF RequestOK
  <2>4. QED
    BY <2>1, <2>2, <2>3 DEF TypeOK
<1>2. QED
  BY <1>1, Inductive, BooksInductive, CircuitsInductive, PTL
=============================================================================
