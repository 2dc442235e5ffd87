---------------------------- MODULE SearchProofs ----------------------------
(***************************************************************************)
(* Proofs about Search, for any routes, queries and times.                 *)
(*                                                                         *)
(* The rate limit: what was let through in a window was counted in its row *)
(* before it was compared with the limit, so the row is never behind.      *)
(*                                                                         *)
(* The space of a vector: a cached space is the registry's or was read     *)
(* before the last change, so a request that came ConfigTTL after a change *)
(* asks only models of the column's space, and what it finds in the query  *)
(* cache under their key was made by one of them.                          *)
(***************************************************************************)
EXTENDS Search, TLAPS

Seqs == INSTANCE SequenceTheorems

(* The row is of this window, or of an earlier one and then nothing passed.   *)
CountedOK ==
  /\ row.start <= WindowStart(now)
  /\ IF row.start = WindowStart(now)
     THEN passed.guest <= row.count /\ passed.all <= row.count
     ELSE passed.guest = 0 /\ passed.all = 0

ShareOK == passed.guest <= Limit /\ passed.all <= Limit * Factor

CountersOK ==
  /\ now \in Nat
  /\ row \in [start : Nat, count : Nat]
  /\ passed \in [guest : Nat, all : Nat]

IndInv == CountersOK /\ CountedOK /\ ShareOK

USE RuleAssumption

-----------------------------------------------------------------------------
(* A window starts at or before each of its moments, ends Window later, and   *)
(* the next one starts there.                                                 *)
LEMMA WindowIs ==
  ASSUME NEW t \in Nat
  PROVE  /\ WindowStart(t) \in Nat
         /\ WindowStart(t) <= t /\ t < WindowStart(t) + Window
         /\ WindowStart(t) <= WindowStart(t + 1)
         /\ WindowStart(WindowStart(t) + Window) = WindowStart(t) + Window
<1> DEFINE q == t \div Window
<1>1. Window \in Nat \ {0}
  OBVIOUS
<1>2. q \in Nat /\ q * Window <= t /\ t < q * Window + Window
  BY <1>1
<1>3. q <= (t + 1) \div Window /\ (t + 1) \div Window \in Nat
  BY <1>1
<1> HIDE DEF q
<1>4. q * Window \in Nat /\ q * Window + Window \in Nat
  BY <1>1, <1>2
<1>5. WindowStart(t) = q * Window
  BY DEF WindowStart, q
<1>6. q * Window <= ((t + 1) \div Window) * Window
  BY <1>1, <1>2, <1>3
<1>7. WindowStart(t) <= WindowStart(t + 1)
  BY <1>5, <1>6 DEF WindowStart
<1>8. (q * Window + Window) \div Window = q + 1
  BY <1>1, <1>2
<1>9. (q + 1) * Window = q * Window + Window
  BY <1>1, <1>2
<1>10. WindowStart(q * Window + Window) = q * Window + Window
  BY <1>8, <1>9 DEF WindowStart
<1>11. QED
  BY <1>2, <1>4, <1>5, <1>7, <1>10

(* A guest's allowance is no more than a signed-in traveller's. *)
LEMMA RuleIs ==
  /\ Limit \in Nat /\ Limit * Factor \in Nat /\ Limit <= Limit * Factor
  /\ Rule(FALSE) = Limit /\ Rule(TRUE) = Limit * Factor
BY DEF Rule

(* No request has been counted at first. *)
LEMMA InitOK == Init => IndInv
<1> SUFFICES ASSUME Init PROVE IndInv
  OBVIOUS
<1>1. now = 0 /\ row = [start |-> 0, count |-> 0] /\ passed = [guest |-> 0, all |-> 0]
  BY DEF Init, NoRow
<1>2. WindowStart(0) = 0
  BY WindowIs
<1>3. QED
  BY <1>1, <1>2, RuleIs DEF IndInv, CountersOK, CountedOK, ShareOK

(* A counted request: the row is of this window, and one more.                *)
LEMMA CountStep ==
  ASSUME IndInv, row' = Upsert(row, now), now' = now,
         NEW signed, (Allowed(row', signed) /\ Pass(signed)) \/ passed' = passed
  PROVE  IndInv'
<1>1. /\ now \in Nat /\ row.start \in Nat /\ row.count \in Nat
      /\ passed.guest \in Nat /\ passed.all \in Nat
  BY DEF IndInv, CountersOK
<1>2. /\ row' \in [start : Nat, count : Nat] /\ row'.start = WindowStart(now)
      /\ passed.guest + 1 <= row'.count /\ passed.all + 1 <= row'.count
  <2>1. CASE row.start = WindowStart(now)
    <3>1. row' = [row EXCEPT !.count = row.count + 1]
      BY <2>1 DEF Upsert
    <3>2. row' = [start |-> row.start, count |-> row.count + 1]
      BY <3>1 DEF IndInv, CountersOK
    <3>3. passed.guest <= row.count /\ passed.all <= row.count
      BY <2>1 DEF IndInv, CountedOK
    <3>4. QED
      BY <1>1, <2>1, <3>2, <3>3
  <2>2. CASE row.start # WindowStart(now)
    <3>1. row' = [start |-> WindowStart(now), count |-> 1]
      BY <2>2 DEF Upsert
    <3>2. passed.guest = 0 /\ passed.all = 0
      BY <2>2 DEF IndInv, CountedOK
    <3>3. QED
      BY <1>1, <3>1, <3>2, WindowIs
  <2>3. QED
    BY <2>1, <2>2
<1>3. CASE passed' = passed
  BY <1>1, <1>2, <1>3, WindowIs DEF IndInv, CountersOK, CountedOK, ShareOK
<1>4. CASE Allowed(row', signed) /\ Pass(signed)
  <2>1. row'.count \in Nat /\ row'.count <= Rule(signed)
    BY <1>2, <1>4 DEF Allowed
  <2> DEFINE most == Limit * Factor
  <2>m. Limit \in Nat /\ most \in Nat /\ Limit <= most /\ Rule(FALSE) = Limit /\ Rule(TRUE) = most
    BY RuleIs
  <2>s. passed.guest <= Limit /\ passed.all <= most
    BY DEF IndInv, ShareOK
  <2>h. ShareOK' <=> passed'.guest <= Limit /\ passed'.all <= most
    BY DEF ShareOK
  <2> HIDE DEF most
  <2>2. CASE signed
    <3>1. passed' = [guest |-> passed.guest + 0, all |-> passed.all + 1]
      BY <1>4, <2>2 DEF Pass
    <3>2. row'.count <= most
      <4>1. Rule(signed) = most
        BY <2>2 DEF Rule, most
      <4>2. QED
        BY <2>1, <2>m, <4>1
    <3>3. passed'.guest = passed.guest /\ passed'.all = passed.all + 1 /\ passed' \in [guest : Nat, all : Nat]
      BY <1>1, <3>1
    <3>4. QED
      <4>1. ShareOK'
        BY <1>1, <1>2, <2>1, <2>m, <2>s, <2>h, <3>2, <3>3
      <4>2. CountersOK'
        BY <1>1, <1>2, <3>3 DEF CountersOK
      <4>3. CountedOK'
        BY <1>1, <1>2, <3>3, WindowIs DEF CountedOK
      <4>4. QED
        BY <4>1, <4>2, <4>3 DEF IndInv
  <2>3. CASE ~signed
    <3>1. passed' = [guest |-> passed.guest + 1, all |-> passed.all + 1]
      BY <1>4, <2>3 DEF Pass
    <3>2. row'.count <= Limit /\ row'.count <= most
      <4>1. Rule(signed) = Limit
        BY <2>3 DEF Rule
      <4>2. QED
        BY <2>1, <2>m, <4>1
    <3>3. passed'.guest = passed.guest + 1 /\ passed'.all = passed.all + 1 /\ passed' \in [guest : Nat, all : Nat]
      BY <1>1, <3>1
    <3>4. QED
      <4>1. ShareOK'
        BY <1>1, <1>2, <2>1, <2>m, <2>s, <2>h, <3>2, <3>3
      <4>2. CountersOK'
        BY <1>1, <1>2, <3>3 DEF CountersOK
      <4>3. CountedOK'
        BY <1>1, <1>2, <3>3, WindowIs DEF CountedOK
      <4>4. QED
        BY <4>1, <4>2, <4>3 DEF IndInv
  <2>4. QED
    BY <2>2, <2>3
<1>5. QED
  BY <1>3, <1>4

(* Every step keeps IndInv: a new window starts with nothing let through.     *)
LEMMA StepOK == IndInv /\ [Next]_vars => IndInv'
<1> SUFFICES ASSUME IndInv, [Next]_vars PROVE IndInv'
  OBVIOUS
<1>1. CASE UNCHANGED <<now, row, passed>>
  BY <1>1 DEF IndInv, CountersOK, CountedOK, ShareOK
<1>2. CASE Tick
  <2>1. now \in Nat /\ now' = now + 1 /\ row' = row
    BY <1>2 DEF Tick, IndInv, CountersOK
  <2>2. WindowStart(now) \in Nat /\ WindowStart(now') \in Nat /\ WindowStart(now) <= WindowStart(now')
    BY <2>1, WindowIs
  <2>3. CASE WindowStart(now') = WindowStart(now)
    <3>1. passed' = passed
      BY <1>2, <2>3 DEF Tick
    <3>2. QED
      BY <2>1, <2>3, <3>1 DEF IndInv, CountersOK, CountedOK, ShareOK
  <2>4. CASE WindowStart(now') # WindowStart(now)
    <3>1. passed' = [guest |-> 0, all |-> 0]
      BY <1>2, <2>4 DEF Tick
    <3>2. row.start \in Nat /\ row.start <= WindowStart(now)
      BY DEF IndInv, CountersOK, CountedOK
    <3>3. row.start < WindowStart(now')
      BY <2>2, <2>4, <3>2
    <3>4. ShareOK'
      BY <3>1, RuleIs DEF ShareOK
    <3>5. CountersOK' /\ CountedOK'
      BY <2>1, <2>2, <3>1, <3>2, <3>3 DEF IndInv, CountersOK, CountedOK
    <3>6. QED
      BY <3>4, <3>5 DEF IndInv
  <2>5. QED
    BY <2>3, <2>4
<1>3. CASE Elsewhere
  <2>1. row' = Upsert(row, now) /\ now' = now
    BY <1>3 DEF Elsewhere
  <2>2. PICK signed \in BOOLEAN : (Allowed(row', signed) /\ Pass(signed)) \/ passed' = passed
    BY <1>3 DEF Elsewhere
  <2>3. QED
    BY <2>1, <2>2, CountStep
<1>4. CASE Hit
  <2>1. now' = now
    BY <1>4 DEF Hit
  <2>2. CASE UNCHANGED limiter
    BY <1>1, <2>1, <2>2 DEF limiter
  <2>3. CASE row' = Upsert(row, now)
    <3>1. (Allowed(row', req.signed) /\ Pass(req.signed)) \/ passed' = passed
      BY <1>4, <2>2, <2>3 DEF Hit, limiter
    <3>2. QED
      BY <2>1, <2>3, <3>1, CountStep
  <2>4. QED
    BY <1>4, <2>2, <2>3 DEF Hit
<1>5. QED
  BY <1>1, <1>2, <1>3, <1>4
  DEF Next, vars, registry, limiter, Recycle, Migrate, Swap, SetRoute, Arrive, NoWord, Unreadable, Load, Lookup,
      Budget, Answered, Throttled, Failed, Rank

-----------------------------------------------------------------------------
(* The counters of Search stay as IndInv says. *)
THEOREM Inductive == Spec => []IndInv
BY InitOK, StepOK, PTL DEF Spec

(* Whatever containers count one traveller's requests, what they let through  *)
(* in a window is within the allowance, and waiting as long as a refusal says *)
(* meets a new window.                                                        *)
THEOREM ShareIsFair == Spec => []FairShare
<1>1. IndInv => FairShare
  <2> SUFFICES ASSUME IndInv PROVE FairShare
    OBVIOUS
  <2>1. ASSUME WindowStart(now) = row.start
        PROVE  RetryAfter(row, now) > 0 /\ Upsert(row, now + RetryAfter(row, now)).count = 1
    <3>1. now \in Nat /\ row.start \in Nat /\ Window \in Nat \ {0}
      BY DEF IndInv, CountersOK
    <3>2. now < row.start + Window /\ WindowStart(row.start + Window) = row.start + Window
      BY <2>1, <3>1, WindowIs
    <3>3. now + RetryAfter(row, now) = row.start + Window
      BY <3>1 DEF RetryAfter
    <3>4. RetryAfter(row, now) > 0
      BY <3>1, <3>2 DEF RetryAfter
    <3>5. row.start # row.start + Window
      BY <3>1
    <3>6. Upsert(row, row.start + Window) = [start |-> row.start + Window, count |-> 1]
      BY <3>2, <3>5 DEF Upsert
    <3>7. QED
      BY <3>3, <3>4, <3>6
  <2>2. QED
    BY <2>1 DEF IndInv, ShareOK, FairShare
<1>2. QED
  BY <1>1, Inductive, PTL

-----------------------------------------------------------------------------
(* The cache of query vectors. *)

(* What is left without a key was there before.                               *)
LEMMA WithoutKeeps ==
  ASSUME NEW S, NEW cache \in Seq(S), NEW key
  PROVE  /\ Without(cache, key) \in Seq(S)
         /\ \A i \in 1..Len(Without(cache, key)) : \E j \in 1..Len(cache) : Without(cache, key)[i] = cache[j]
<1>1. CASE Places(cache, key) = {}
  BY <1>1 DEF Without
<1>2. CASE Places(cache, key) # {}
  <2>1. PICK k \in 1..Len(cache) : Without(cache, key) = SubSeq(cache, 1, k - 1) \o SubSeq(cache, k + 1, Len(cache))
    BY <1>2 DEF Without, Places
  <2>2. Len(cache) \in Nat /\ k \in Int /\ k >= 1 /\ k <= Len(cache) /\ \A i \in 1..Len(cache) : cache[i] \in S
    OBVIOUS
  <2>3. PICK before : before = SubSeq(cache, 1, k - 1)
    OBVIOUS
  <2>4. PICK after : after = SubSeq(cache, k + 1, Len(cache))
    OBVIOUS
  <2>5. before \in Seq(S) /\ Len(before) = k - 1 /\ \A i \in 1..(k - 1) : before[i] = cache[i]
    <3>1. 1 \in Int /\ k - 1 \in Int /\ \A i \in 1..(k - 1) : cache[i] \in S
      BY <2>2
    <3>2. /\ before \in Seq(S) /\ Len(before) = IF 1 <= k - 1 THEN k - 1 - 1 + 1 ELSE 0
          /\ \A i \in 1..(k - 1 - 1 + 1) : before[i] = cache[1 + i - 1]
      BY ONLY <2>3, <3>1, Seqs!SubSeqProperties
    <3>3. QED
      BY <2>2, <3>2
  <2>6. after \in Seq(S) /\ Len(after) = Len(cache) - k /\ \A i \in 1..(Len(cache) - k) : after[i] = cache[k + i]
    <3>1. k + 1 \in Int /\ Len(cache) \in Int /\ \A i \in (k + 1)..Len(cache) : cache[i] \in S
      BY <2>2
    <3>2. /\ after \in Seq(S) /\ Len(after) = IF k + 1 <= Len(cache) THEN Len(cache) - (k + 1) + 1 ELSE 0
          /\ \A i \in 1..(Len(cache) - (k + 1) + 1) : after[i] = cache[k + 1 + i - 1]
      BY ONLY <2>4, <3>1, Seqs!SubSeqProperties
    <3>3. Len(after) = Len(cache) - k
      BY ONLY <2>2, <3>2
    <3>4. ASSUME NEW i \in 1..(Len(cache) - k) PROVE after[i] = cache[k + i]
      <4>1. i \in 1..(Len(cache) - (k + 1) + 1) /\ k + 1 + i - 1 = k + i
        BY ONLY <2>2, <3>4
      <4>2. after[i] = cache[k + 1 + i - 1]
        BY ONLY <3>2, <4>1
      <4>3. QED
        BY ONLY <4>1, <4>2
    <3>5. QED
      BY ONLY <3>2, <3>3, <3>4
  <2>7. PICK rest : rest = Without(cache, key)
    OBVIOUS
  <2>8. rest = before \o after
    BY ONLY <2>1, <2>3, <2>4, <2>7
  <2>9. /\ rest \in Seq(S) /\ Len(rest) = Len(before) + Len(after)
        /\ \A i \in 1..(Len(before) + Len(after)) :
             rest[i] = IF i <= Len(before) THEN before[i] ELSE after[i - Len(before)]
    BY ONLY <2>5, <2>6, <2>8, Seqs!ConcatProperties
  <2>10. ASSUME NEW i \in 1..Len(rest) PROVE \E j \in 1..Len(cache) : rest[i] = cache[j]
    <3>1. CASE i <= k - 1
      <4>1. i \in 1..(k - 1) /\ i \in 1..(Len(before) + Len(after)) /\ i <= Len(before) /\ i \in 1..Len(cache)
        BY ONLY <2>2, <2>5, <2>6, <2>9, <2>10, <3>1
      <4>2. rest[i] = cache[i]
        BY ONLY <2>5, <2>9, <4>1
      <4>3. QED
        BY <4>1, <4>2
    <3>2. CASE i > k - 1
      <4>1. rest[i] = after[i - (k - 1)]
        BY ONLY <2>2, <2>5, <2>6, <2>9, <2>10, <3>2
      <4>2. i - (k - 1) \in 1..(Len(cache) - k) /\ i + 1 \in 1..Len(cache) /\ k + (i - (k - 1)) = i + 1
        BY ONLY <2>2, <2>5, <2>6, <2>9, <2>10, <3>2
      <4>3. after[i - (k - 1)] = cache[i + 1]
        BY ONLY <2>6, <4>2
      <4>4. QED
        BY <4>1, <4>2, <4>3
    <3>3. QED
      BY <2>2, <3>1, <3>2
  <2>11. QED
    BY <2>7, <2>9, <2>10
<1>3. QED
  BY <1>1, <1>2

(* A get brings in no entry. *)
LEMMA GetKeeps ==
  ASSUME NEW S, NEW cache \in Seq(S), NEW key, NEW t
  PROVE  /\ AfterGet(cache, key, t) \in Seq(S)
         /\ \A i \in 1..Len(AfterGet(cache, key, t)) : \E j \in 1..Len(cache) : AfterGet(cache, key, t)[i] = cache[j]
<1> DEFINE rest == Without(cache, key)
           hits == Hits(cache, key, t)
<1>1. rest \in Seq(S) /\ \A i \in 1..Len(rest) : \E j \in 1..Len(cache) : rest[i] = cache[j]
  BY WithoutKeeps
<1>2. CASE hits = {}
  BY <1>1, <1>2 DEF AfterGet
<1>3. CASE hits # {}
  <2>1. PICK e \in hits : AfterGet(cache, key, t) = Append(rest, e)
    BY <1>3 DEF AfterGet
  <2>2. PICK k \in 1..Len(cache) : e = cache[k]
    BY DEF Hits, Cached, Places
  <2>3. e \in S
    BY <2>2
  <2> HIDE DEF rest, hits
  <2>4. Append(rest, e) \in Seq(S) /\ Len(Append(rest, e)) = Len(rest) + 1 /\ Append(rest, e)[Len(rest) + 1] = e
        /\ \A i \in 1..Len(rest) : Append(rest, e)[i] = rest[i]
    BY <1>1, <2>3
  <2>5. ASSUME NEW i \in 1..(Len(rest) + 1) PROVE \E j \in 1..Len(cache) : Append(rest, e)[i] = cache[j]
    <3>1. i = Len(rest) + 1 \/ i \in 1..Len(rest)
      BY <1>1
    <3>2. QED
      BY <1>1, <2>2, <2>4, <3>1
  <2>6. QED
    BY <2>1, <2>4, <2>5
<1>4. QED
  BY <1>2, <1>3

(* A put brings in the one it stores. *)
LEMMA PutKeeps ==
  ASSUME NEW S, NEW cache \in Seq(S), NEW key, NEW v, NEW t, Entry(key, v, t) \in S
  PROVE  /\ AfterPut(cache, key, v, t) \in Seq(S)
         /\ \A i \in 1..Len(AfterPut(cache, key, v, t)) :
              \/ AfterPut(cache, key, v, t)[i] = Entry(key, v, t)
              \/ \E j \in 1..Len(cache) : AfterPut(cache, key, v, t)[i] = cache[j]
<1> DEFINE rest == Without(cache, key)
           grown == Append(rest, Entry(key, v, t))
<1>1. rest \in Seq(S) /\ \A i \in 1..Len(rest) : \E j \in 1..Len(cache) : rest[i] = cache[j]
  BY WithoutKeeps
<1> HIDE DEF rest
<1>2. /\ grown \in Seq(S) /\ Len(grown) = Len(rest) + 1 /\ grown[Len(rest) + 1] = Entry(key, v, t)
      /\ \A i \in 1..Len(rest) : grown[i] = rest[i]
  BY <1>1
<1>3. ASSUME NEW i \in 1..Len(grown) PROVE grown[i] = Entry(key, v, t) \/ \E j \in 1..Len(cache) : grown[i] = cache[j]
  <2>1. i = Len(rest) + 1 \/ i \in 1..Len(rest)
    BY <1>1, <1>2
  <2>2. QED
    BY <1>1, <1>2, <2>1
<1>4. AfterPut(cache, key, v, t) \in {grown, Tail(grown)}
  BY DEF AfterPut, rest
<1> HIDE DEF grown
<1>5. /\ Tail(grown) \in Seq(S) /\ Len(Tail(grown)) = Len(grown) - 1
      /\ \A i \in 1..Len(Tail(grown)) : Tail(grown)[i] = grown[i + 1] /\ i + 1 \in 1..Len(grown)
  <2>1. grown # <<>> /\ Len(grown) \in Nat
    BY <1>1, <1>2
  <2>2. QED
    BY ONLY <1>2, <2>1
<1>6. CASE AfterPut(cache, key, v, t) = grown
  BY <1>2, <1>3, <1>6
<1>7. CASE AfterPut(cache, key, v, t) = Tail(grown)
  <2>1. ASSUME NEW i \in 1..Len(Tail(grown))
        PROVE  Tail(grown)[i] = Entry(key, v, t) \/ \E j \in 1..Len(cache) : Tail(grown)[i] = cache[j]
    BY ONLY <1>3, <1>5, <2>1
  <2>2. QED
    BY ONLY <1>5, <1>7, <2>1
<1>8. QED
  BY <1>4, <1>6, <1>7

-----------------------------------------------------------------------------
(* The space of a request's vectors. *)

USE QueriesAssumption, RoutesAssumption, SearchTimesAssumption

Requests == [query : Queries, signed : BOOLEAN, at : Nat]

Entries == [key : [models : SUBSET Bases, norm : Queries], vec : [space : Bases, norm : Queries], at : Nat]

FirstOnly(r) == \A i \in 1..Len(r) : r[i].base = First

(* Before the registry view exists there is one space.                        *)
WorldOK ==
  /\ now \in Nat /\ changed \in Int /\ changed <= now
  /\ column \in Bases /\ view \in BOOLEAN /\ route \in Routes
  /\ ~view => column = First /\ FirstOnly(route)

(* The column changed less than ConfigTTL before the request came. *)
Late == req.at - changed < ConfigTTL

(* A vector was made by the one model of its key, or while the space might    *)
(* not be known.                                                              *)
EntryOK(e) ==
  /\ e.vec.norm = e.key.norm
  /\ e.key.models = {e.vec.space} \/ e.at - changed < ConfigTTL + RequestLife
  /\ e.vec.space \in e.key.models

(* A cached space is the registry's, or was read before the last change.      *)
CachesOK ==
  /\ routeCache # None => routeCache.value \in Routes /\ (~view => FirstOnly(routeCache.value))
  /\ spaceCache # None => /\ spaceCache.at \in Nat /\ spaceCache.at <= now
                          /\ spaceCache.value = Registered \/ spaceCache.at <= changed
  /\ vectors \in Seq(Entries) /\ \A i \in 1..Len(vectors) : EntryOK(vectors[i])

(* What the request goes by is the column's space, unless the change is late. *)
RequestOK ==
  /\ pc \in {"idle", "limit", "load", "lookup", "budget", "embed", "rank"}
  /\ IF pc = "idle" THEN vec = None
     ELSE /\ req \in Requests /\ req.at <= now /\ now - req.at <= RequestLife
          /\ vec # None => vec.norm = req.query /\ (vec.space = column \/ Late)
  /\ pc \in {"lookup", "budget", "embed"} =>
       plan \in SUBSET Rows /\ (Late \/ \A m \in plan : m.base = column)
  /\ pc \in {"budget", "embed"} =>
       \A i \in 1..Len(vectors) : vectors[i].key = Key(plan, req.query) => ~(now - vectors[i].at < CacheTTL)

SpaceInv == WorldOK /\ CachesOK /\ RequestOK

(* A container starts with nothing cached. *)
LEMMA InitSpace == Init => SpaceInv
<1> SUFFICES ASSUME Init PROVE SpaceInv
  OBVIOUS
<1>1. WorldOK
  BY DEF Init, WorldOK, FirstOnly
<1>2. CachesOK
  BY DEF Init, CachesOK
<1>3. RequestOK
  BY DEF Init, RequestOK
<1>4. QED
  BY <1>1, <1>2, <1>3 DEF SpaceInv

(* A request that ends leaves nothing. *)
LEMMA EndSpace ==
  ASSUME SpaceInv, End, UNCHANGED <<now, registry>>,
         UNCHANGED caches \/ (routeCache' = None /\ spaceCache' = None /\ vectors' = <<>>)
  PROVE  SpaceInv'
<1>1. WorldOK'
  BY DEF SpaceInv, WorldOK, registry
<1>2. CachesOK'
  <2>1. CASE UNCHANGED caches
    BY <2>1 DEF SpaceInv, CachesOK, EntryOK, Registered, registry, caches
  <2>2. CASE routeCache' = None /\ spaceCache' = None /\ vectors' = <<>>
    BY <2>2 DEF CachesOK
  <2>3. QED
    BY <2>1, <2>2
<1>3. RequestOK'
  BY DEF End, Goto, RequestOK
<1>4. QED
  BY <1>1, <1>2, <1>3 DEF SpaceInv

(* A step of the request that leaves the caches of the container, the world   *)
(* and the clock.                                                             *)
LEMMA RequestSpace ==
  ASSUME SpaceInv, UNCHANGED <<now, registry, caches>>, RequestOK'
  PROVE  SpaceInv'
BY DEF SpaceInv, WorldOK, CachesOK, EntryOK, Registered, registry, caches

(* An entry of the cache. *)
LEMMA VectorIs ==
  ASSUME CachesOK, NEW i \in 1..Len(vectors)
  PROVE  vectors[i] \in Entries /\ vectors[i].at \in Nat /\ EntryOK(vectors[i])
<1>1. vectors \in Seq(Entries) /\ EntryOK(vectors[i])
  BY DEF CachesOK
<1>2. vectors[i] \in Entries
  BY ONLY <1>1, i \in 1..Len(vectors)
<1>3. QED
  BY <1>1, <1>2 DEF Entries

(* The clock: a request does not outlive RequestLife. *)
LEMMA TickSpace == ASSUME SpaceInv, Tick PROVE SpaceInv'
<1>1. now \in Nat /\ now' = now + 1 /\ now' \in Nat /\ UNCHANGED <<registry, caches, request>>
  BY DEF Tick, SpaceInv, WorldOK
<1>2. WorldOK'
  BY <1>1 DEF SpaceInv, WorldOK, registry
<1>3. CachesOK'
  <2>1. UNCHANGED <<routeCache, spaceCache, vectors, column, view, changed>>
    BY <1>1 DEF caches, registry
  <2>2. spaceCache.at \in Nat /\ spaceCache.at <= now => spaceCache.at <= now'
    BY <1>1
  <2>3. Registered' = Registered
    BY <2>1 DEF Registered
  <2>4. \A i \in 1..Len(vectors) : EntryOK(vectors[i])'
    BY <2>1 DEF SpaceInv, CachesOK, EntryOK
  <2>5. QED
    BY <2>1, <2>2, <2>3, <2>4 DEF SpaceInv, CachesOK, FirstOnly
<1>4. RequestOK'
  <2>1. UNCHANGED <<pc, req, plan, vec, vectors, column, changed>>
    BY <1>1 DEF caches, registry, request
  <2>2. pc # "idle" => req.at <= now' /\ now' - req.at <= RequestLife
    <3>1. ASSUME pc # "idle" PROVE req.at <= now' /\ now' - req.at <= RequestLife
      <4>1. req \in Requests /\ req.at \in Nat /\ req.at <= now
        BY <3>1 DEF SpaceInv, RequestOK, Requests
      <4>2. req # None
        BY <4>1, NoneAssumption DEF Requests
      <4>3. now - req.at < RequestLife
        BY <4>2 DEF Tick
      <4>4. QED
        BY <1>1, <4>1, <4>3
    <3>2. QED
      BY <3>1
  <2>3. ASSUME NEW i \in 1..Len(vectors), now' - vectors[i].at < CacheTTL PROVE now - vectors[i].at < CacheTTL
    <3>1. vectors[i].at \in Nat /\ CacheTTL \in Nat
      BY VectorIs, CacheAssumption DEF SpaceInv
    <3>2. QED
      BY <1>1, <2>3, <3>1
  <2>4. Late' = Late
    BY <2>1 DEF Late
  <2>5. QED
    BY <2>1, <2>2, <2>3, <2>4 DEF SpaceInv, RequestOK
<1>5. QED
  BY <1>2, <1>3, <1>4 DEF SpaceInv

(* A change of the column or the view is the last one, and late for the       *)
(* request under way; a change of the route is neither.                       *)
LEMMA WorldSpace == ASSUME SpaceInv, Migrate \/ Swap \/ SetRoute PROVE SpaceInv'
<1>1. /\ now' = now /\ now \in Nat /\ changed \in Int /\ changed <= now /\ changed' \in {changed, now}
      /\ UNCHANGED <<routeCache, spaceCache, vectors, pc, req, plan, vec>>
  BY DEF Migrate, Swap, SetRoute, caches, request, SpaceInv, WorldOK
<1>2. changed' = now \/ (changed' = changed /\ column' = column /\ view' = view)
  BY DEF Migrate, Swap, SetRoute
<1>3. view' = TRUE
  BY DEF Migrate, Swap, SetRoute, SpaceInv, WorldOK
<1>4. WorldOK'
  <2>1. now' \in Nat /\ changed' \in Int /\ changed' <= now'
    BY <1>1
  <2>2. column' \in Bases /\ route' \in Routes
    BY DEF Migrate, Swap, SetRoute, SpaceInv, WorldOK
  <2>3. QED
    BY <1>3, <2>1, <2>2 DEF WorldOK
<1>5. CachesOK'
  <2>1. ASSUME NEW i \in 1..Len(vectors) PROVE EntryOK(vectors[i])'
    <3>1. EntryOK(vectors[i]) /\ vectors[i].at \in Nat
      BY VectorIs DEF SpaceInv
    <3>2. vectors[i].at - changed < ConfigTTL + RequestLife => vectors[i].at - changed' < ConfigTTL + RequestLife
      BY <1>1, <3>1
    <3>3. QED
      BY <1>1, <3>1, <3>2 DEF EntryOK
  <2>2. spaceCache # None => spaceCache'.value = Registered' \/ spaceCache'.at <= changed'
    <3>1. CASE changed' = now
      BY <1>1, <3>1 DEF SpaceInv, CachesOK
    <3>2. CASE changed' = changed /\ column' = column /\ view' = view
      BY <1>1, <3>2 DEF SpaceInv, CachesOK, Registered
    <3>3. QED
      BY <1>2, <3>1, <3>2
  <2>3. QED
    BY <1>1, <1>3, <2>1, <2>2 DEF SpaceInv, CachesOK
<1>6. RequestOK'
  <2>1. pc # "idle" => req.at \in Nat /\ req.at <= now
    BY DEF SpaceInv, RequestOK, Requests
  <2>2. pc # "idle" /\ Late => Late'
    BY <1>1, <2>1 DEF Late
  <2>3. pc # "idle" => Late' \/ column' = column
    <3>1. pc # "idle" /\ changed' = now => req.at - changed' <= 0
      BY <1>1, <2>1
    <3>2. pc # "idle" /\ changed' = now => req'.at - changed' < ConfigTTL
      BY <1>1, <2>1, <3>1
    <3>3. QED
      BY <1>1, <1>2, <3>2 DEF Late
  <2>4. QED
    BY <1>1, <2>2, <2>3 DEF SpaceInv, RequestOK
<1>7. QED
  BY <1>4, <1>5, <1>6 DEF SpaceInv

(* The steps of a request that look at no cache. *)
LEMMA PassSpace ==
  ASSUME SpaceInv, Arrive \/ Hit \/ Budget \/ Throttled \/ Failed \/ Elsewhere
  PROVE  SpaceInv'
<1>0. WorldOK /\ CachesOK /\ RequestOK
  BY DEF SpaceInv
<1>1. UNCHANGED <<now, column, view, route, changed, routeCache, spaceCache, vectors>>
  BY DEF Arrive, Hit, Budget, Throttled, Failed, Elsewhere, registry, caches
<1>2. WorldOK' /\ CachesOK'
  BY <1>0, <1>1 DEF WorldOK, CachesOK, EntryOK, Registered, FirstOnly
<1>3. CASE End
  BY <1>1, <1>2, <1>3 DEF SpaceInv, RequestOK, End, Goto
<1>4. CASE Arrive
  <2>1. pc = "idle" /\ pc' = "limit" /\ vec' = vec /\ vec = None /\ now \in Nat
    BY <1>0, <1>4 DEF Arrive, Goto, RequestOK, WorldOK
  <2>2. PICK q \in Queries, signed \in BOOLEAN : req' = [query |-> q, signed |-> signed, at |-> now]
    BY <1>4 DEF Arrive
  <2>3. req' \in Requests /\ req'.at = now
    BY <2>1, <2>2 DEF Requests
  <2>4. now' - req'.at <= RequestLife /\ req'.at <= now'
    BY <1>1, <2>1, <2>3
  <2>5. RequestOK'
    BY <2>1, <2>3, <2>4 DEF RequestOK
  <2>6. QED
    BY <1>2, <2>5 DEF SpaceInv
<1>5. CASE ~End /\ ~Arrive
  <2>1. /\ UNCHANGED <<req, plan, vec>>
        /\ \/ pc' = pc
           \/ pc = "limit" /\ pc' = "load"
           \/ pc = "budget" /\ pc' \in {"embed", "rank"}
           \/ pc = "embed" /\ pc' = "rank"
    BY <1>5 DEF Hit, Budget, Throttled, Failed, Elsewhere, Goto, ByKeyword, request
  <2>2. Late' = Late
    BY <1>1, <2>1 DEF Late
  <2>3. RequestOK'
    BY <1>0, <1>1, <2>1, <2>2 DEF RequestOK
  <2>4. QED
    BY <1>2, <2>3 DEF SpaceInv
<1>6. QED
  BY <1>3, <1>4, <1>5

(* A cached value, or a read one, is a right one. *)
LEMMA LoadedOK ==
  ASSUME SpaceInv
  PROVE  /\ LET r == Loaded(routeCache, route) IN r.value \in Routes /\ (~view => FirstOnly(r.value))
         /\ LET s == Loaded(spaceCache, Registered) IN
              /\ s.at \in Nat /\ s.at <= now /\ now - s.at < ConfigTTL
              /\ s.value = Registered \/ s.at <= changed
<1>1. WorldOK /\ CachesOK
  BY DEF SpaceInv
<1>2. Loaded(routeCache, route).value \in Routes /\ (~view => FirstOnly(Loaded(routeCache, route).value))
  BY <1>1 DEF Loaded, Valid, WorldOK, CachesOK
<1>3. CASE Valid(spaceCache)
  <2>1. Loaded(spaceCache, Registered) = spaceCache /\ spaceCache # None /\ now - spaceCache.at < ConfigTTL
    BY <1>3 DEF Loaded, Valid
  <2>2. spaceCache.at \in Nat /\ spaceCache.at <= now /\ (spaceCache.value = Registered \/ spaceCache.at <= changed)
    BY <1>1, <2>1 DEF CachesOK
  <2>3. QED
    BY <1>2, <2>1, <2>2
<1>4. CASE ~Valid(spaceCache)
  <2>1. Loaded(spaceCache, Registered) = [value |-> Registered, at |-> now]
    BY <1>4 DEF Loaded
  <2>2. now \in Nat /\ now - now = 0 /\ ConfigTTL > 0
    BY <1>1 DEF WorldOK
  <2>3. QED
    BY <1>2, <2>1, <2>2
<1>5. QED
  BY <1>2, <1>3, <1>4

(* The rows a request may use are the route's, of the space if it is known.   *)
LEMMA RestrictIs ==
  ASSUME NEW r \in Seq(Rows), NEW space
  PROVE  \A m \in Restrict(r, space) : m \in Rows /\ space \in {None, m.base} /\ \E i \in 1..Len(r) : m = r[i]
<1>1. \A i \in 1..Len(r) : r[i] \in Rows
  OBVIOUS
<1>2. ASSUME NEW m \in Restrict(r, space) PROVE space \in {None, m.base} /\ m \in {r[i] : i \in 1..Len(r)}
  BY ONLY m \in Restrict(r, space), Zenon DEF Restrict
<1>3. QED
  BY <1>1, <1>2

(* The plan of a request keeps to the column's space, unless the container    *)
(* could not know it yet.                                                     *)
LEMMA LoadSpace == ASSUME SpaceInv, Load \/ Unreadable PROVE SpaceInv'
<1>0. WorldOK /\ CachesOK /\ RequestOK
  BY DEF SpaceInv
<1>1. UNCHANGED <<now, column, view, route, changed, vectors, req, vec>> /\ pc = "load"
  BY DEF Load, Unreadable, ByKeyword, registry
<1>2. PICK r : r = Loaded(routeCache, route) /\ r.value \in Routes /\ (~view => FirstOnly(r.value))
  BY LoadedOK
<1>3. PICK s : /\ s = Loaded(spaceCache, Registered) /\ s.at \in Nat /\ s.at <= now /\ now - s.at < ConfigTTL
               /\ s.value = Registered \/ s.at <= changed
  BY LoadedOK
<1>4. routeCache' \in {routeCache, r} /\ spaceCache' \in {spaceCache, s}
  BY <1>2, <1>3 DEF Load, Unreadable
<1>5. WorldOK'
  BY <1>0, <1>1 DEF WorldOK
<1>6. CachesOK'
  <2>1. routeCache' # None => routeCache'.value \in Routes /\ (~view => FirstOnly(routeCache'.value))
    BY <1>0, <1>2, <1>4 DEF CachesOK
  <2>2. spaceCache' # None => /\ spaceCache'.at \in Nat /\ spaceCache'.at <= now
                              /\ spaceCache'.value = Registered \/ spaceCache'.at <= changed
    BY <1>0, <1>3, <1>4 DEF CachesOK
  <2>3. Registered' = Registered /\ \A i \in 1..Len(vectors) : EntryOK(vectors[i])'
    BY <1>0, <1>1 DEF Registered, CachesOK, EntryOK
  <2>4. QED
    BY <1>0, <1>1, <2>1, <2>2, <2>3 DEF CachesOK
<1>7. Late' = Late
  BY <1>1 DEF Late
<1>8. CASE Unreadable
  <2>1. pc' = "rank"
    BY <1>8 DEF Unreadable, ByKeyword, Goto
  <2>2. RequestOK'
    BY <1>0, <1>1, <1>7, <2>1 DEF RequestOK
  <2>3. QED
    BY <1>5, <1>6, <2>2 DEF SpaceInv
<1>9. CASE Load
  <2>1. plan' = Restrict(r.value, s.value) /\ pc' \in {"rank", "lookup"}
    <3>1. routeCache' = r /\ spaceCache' = s
      BY <1>2, <1>3, <1>9 DEF Load
    <3>2. plan' = Restrict(routeCache'.value, spaceCache'.value)
      BY <1>9, Zenon DEF Load
    <3>3. pc' = IF plan' = {} THEN "rank" ELSE "lookup"
      BY <1>9, Zenon DEF Load, Goto
    <3>4. QED
      BY <3>1, <3>2, <3>3
  <2>2. /\ plan' \in SUBSET Rows
        /\ \A m \in plan' : s.value \in {None, m.base} /\ \E i \in 1..Len(r.value) : m = r.value[i]
    <3>1. r.value \in Seq(Rows)
      BY <1>2
    <3>2. QED
      BY ONLY <2>1, <3>1, RestrictIs
  <2>3. Late \/ \A m \in plan' : m.base = column
    <3>1. CASE s.at <= changed
      <4>1. req \in Requests /\ req.at \in Nat /\ req.at <= now /\ changed \in Int /\ now \in Nat
        BY <1>0, <1>1 DEF RequestOK, Requests, WorldOK
      <4>2. req.at - changed < ConfigTTL
        BY <1>3, <3>1, <4>1
      <4>3. QED
        BY <4>2 DEF Late
    <3>2. CASE s.value = Registered /\ view
      <4>1. s.value = column /\ column # None
        BY <1>0, <3>2, NoneAssumption DEF Registered, WorldOK
      <4>2. QED
        BY <2>2, <4>1
    <3>3. CASE ~view
      <4>1. column = First /\ FirstOnly(r.value)
        BY <1>0, <1>2, <3>3 DEF WorldOK
      <4>2. QED
        BY <2>2, <4>1 DEF FirstOnly
    <3>4. QED
      BY <1>0, <1>3, <3>1, <3>2, <3>3 DEF WorldOK
  <2>4. RequestOK'
    BY <1>0, <1>1, <1>7, <2>1, <2>2, <2>3 DEF RequestOK
  <2>5. QED
    BY <1>5, <1>6, <2>4 DEF SpaceInv
<1>10. QED
  BY <1>8, <1>9

(* A vector found under the request's key is of its text and its models; when *)
(* none is found, none that is live is left under the key.                    *)
LEMMA LookupSpace == ASSUME SpaceInv, Lookup PROVE SpaceInv'
<1> DEFINE key == Key(plan, req.query)
           hits == Hits(vectors, key, now)
<1>0. WorldOK /\ CachesOK /\ RequestOK
  BY DEF SpaceInv
<1>1. /\ UNCHANGED <<now, column, view, route, changed, routeCache, spaceCache, req, plan>> /\ pc = "lookup"
      /\ vectors' = AfterGet(vectors, key, now)
      /\ vec' = IF hits = {} THEN None ELSE (CHOOSE e \in hits : TRUE).vec
      /\ pc' \in {"rank", "budget"} /\ (pc' = "budget" => hits = {})
  BY DEF Lookup, Goto, registry
<1>2. vectors \in Seq(Entries) /\ req \in Requests /\ req.at \in Nat /\ Late' = Late
  BY <1>0, <1>1 DEF CachesOK, RequestOK, Requests, Late
<1>3. vectors' \in Seq(Entries) /\ \A i \in 1..Len(vectors') : \E j \in 1..Len(vectors) : vectors'[i] = vectors[j]
  BY ONLY <1>1, <1>2, GetKeeps
<1>4. WorldOK'
  BY <1>0, <1>1 DEF WorldOK
<1>5. CachesOK'
  <2>1. ASSUME NEW i \in 1..Len(vectors') PROVE EntryOK(vectors[i])'
    <3>1. PICK j \in 1..Len(vectors) : vectors'[i] = vectors[j]
      BY <1>3
    <3>2. EntryOK(vectors[j])
      BY <1>0, VectorIs
    <3>3. QED
      BY <1>1, <3>1, <3>2 DEF EntryOK
  <2>2. Registered' = Registered
    BY <1>1 DEF Registered
  <2>3. QED
    BY <1>0, <1>1, <1>3, <2>1, <2>2 DEF CachesOK
<1>6. \A j \in 1..Len(vectors) : vectors[j].key = key /\ now - vectors[j].at < CacheTTL => vectors[j] \in hits
  BY DEF Hits, Cached, Places
<1>7. ASSUME hits # {} PROVE vec'.norm = req.query /\ (vec'.space = column \/ Late)
  <2>1. PICK e \in hits : vec' = e.vec
    BY <1>1, <1>7
  <2>2. PICK j \in 1..Len(vectors) : e = vectors[j] /\ vectors[j].key = key
    BY DEF Hits, Cached, Places
  <2>3. EntryOK(vectors[j])
    BY <1>0, VectorIs
  <2>4. e.vec.norm = req.query /\ e.vec.space \in Models(plan)
    BY <2>2, <2>3 DEF EntryOK, Key
  <2>5. Late \/ \A m \in plan : m.base = column
    BY <1>0, <1>1 DEF RequestOK
  <2>6. QED
    BY <2>1, <2>4, <2>5 DEF Models
<1>8. ASSUME hits = {}, NEW i \in 1..Len(vectors'), vectors'[i].key = key PROVE ~(now - vectors'[i].at < CacheTTL)
  <2>1. PICK j \in 1..Len(vectors) : vectors'[i] = vectors[j]
    BY <1>3
  <2>2. QED
    BY <1>6, <1>8, <2>1
<1>9. RequestOK'
  <2>1. vec' # None => vec'.norm = req'.query /\ (vec'.space = column' \/ Late')
    BY <1>1, <1>2, <1>7
  <2>2. pc' = "budget" =>
          \A i \in 1..Len(vectors') : vectors'[i].key = Key(plan', req'.query) => ~(now' - vectors'[i].at < CacheTTL)
    BY <1>1, <1>8
  <2>3. pc' \in {"lookup", "budget", "embed"} => plan' \in SUBSET Rows /\ (Late' \/ \A m \in plan' : m.base = column')
    BY <1>0, <1>1, <1>2 DEF RequestOK
  <2>4. req' \in Requests /\ req'.at <= now' /\ now' - req'.at <= RequestLife
    BY <1>0, <1>1 DEF RequestOK
  <2>5. QED
    BY <1>1, <2>1, <2>2, <2>3, <2>4 DEF RequestOK
<1>10. QED
  BY <1>4, <1>5, <1>9 DEF SpaceInv

(* A vector that is stored is of a model of the plan: the only one, unless    *)
(* the space was not known.                                                   *)
LEMMA AnsweredSpace == ASSUME SpaceInv, Answered PROVE SpaceInv'
<1> DEFINE key == Key(plan, req.query)
           e == Entry(key, vec', now)
<1>0. WorldOK /\ CachesOK /\ RequestOK
  BY DEF SpaceInv
<1>1. /\ UNCHANGED <<now, column, view, route, changed, routeCache, spaceCache, req, plan>> /\ pc = "embed"
      /\ vectors' = AfterPut(vectors, key, vec', now) /\ pc' = "rank"
  BY DEF Answered, Goto, registry
<1>2. PICK m \in plan : vec' = [space |-> m.base, norm |-> req.query]
  BY DEF Answered, Enabled
<1>3. /\ vectors \in Seq(Entries) /\ req \in Requests /\ req.at \in Nat /\ req.at <= now /\ now - req.at <= RequestLife
      /\ req.query \in Queries /\ now \in Nat /\ changed \in Int /\ Late' = Late
  BY <1>0, <1>1 DEF CachesOK, RequestOK, Requests, WorldOK, Late
<1>4. plan \in SUBSET Rows /\ (Late \/ \A n \in plan : n.base = column) /\ m.base \in Bases
  BY <1>0, <1>1 DEF RequestOK, Rows
<1>5. /\ vec'.space = m.base /\ vec'.norm = req.query /\ vec' \in [space : Bases, norm : Queries]
      /\ key \in [models : SUBSET Bases, norm : Queries] /\ key.models = Models(plan) /\ key.norm = req.query
  <2>1. Models(plan) \in SUBSET Bases
    BY <1>4 DEF Models, Rows
  <2>2. QED
    BY <1>2, <1>3, <1>4, <2>1 DEF Key
<1>6. e \in Entries /\ e.vec = vec' /\ e.key = key /\ e.at = now
  BY <1>3, <1>5 DEF Entry, Entries
<1>7. EntryOK(e)
  <2>1. e.vec.space \in e.key.models
    BY <1>5, <1>6 DEF Models
  <2>2. CASE Late
    <3>1. e.at - changed < ConfigTTL + RequestLife
      BY <1>3, <1>6, <2>2 DEF Late
    <3>2. QED
      BY <1>5, <1>6, <2>1, <3>1 DEF EntryOK
  <2>3. CASE \A n \in plan : n.base = column
    <3>1. Models(plan) = {m.base}
      BY <2>3 DEF Models
    <3>2. QED
      BY <1>5, <1>6, <2>1, <3>1 DEF EntryOK
  <2>4. QED
    BY <1>4, <2>2, <2>3
<1> HIDE DEF e, key
<1>8. /\ vectors' \in Seq(Entries)
      /\ \A i \in 1..Len(vectors') : vectors'[i] = e \/ \E j \in 1..Len(vectors) : vectors'[i] = vectors[j]
  <2>1. Entry(key, vec', now) \in Entries
    BY <1>6 DEF e
  <2>2. QED
    BY ONLY <1>1, <1>3, <2>1, PutKeeps DEF e
<1>9. WorldOK'
  BY <1>0, <1>1 DEF WorldOK
<1>10. CachesOK'
  <2>1. ASSUME NEW i \in 1..Len(vectors') PROVE EntryOK(vectors[i])'
    <3>1. PICK o : vectors'[i] = o /\ EntryOK(o)
      BY <1>0, <1>7, <1>8, VectorIs
    <3>2. QED
      BY <1>1, <3>1 DEF EntryOK
  <2>2. Registered' = Registered
    BY <1>1 DEF Registered
  <2>3. QED
    BY <1>0, <1>1, <1>8, <2>1, <2>2 DEF CachesOK
<1>11. RequestOK'
  <2>1. vec'.norm = req'.query /\ (vec'.space = column' \/ Late')
    BY <1>1, <1>3, <1>4, <1>5
  <2>2. req' \in Requests /\ req'.at <= now' /\ now' - req'.at <= RequestLife
    BY <1>1, <1>3
  <2>3. QED
    BY <1>1, <2>1, <2>2 DEF RequestOK
<1>12. QED
  BY <1>9, <1>10, <1>11 DEF SpaceInv

(* Every step keeps SpaceInv. *)
LEMMA StepSpace == SpaceInv /\ [Next]_vars => SpaceInv'
<1> SUFFICES ASSUME SpaceInv, [Next]_vars PROVE SpaceInv'
  OBVIOUS
<1>1. CASE NoWord \/ Rank \/ Recycle
  BY <1>1, EndSpace DEF NoWord, Rank, Recycle
<1>2. CASE UNCHANGED vars
  BY <1>2 DEF vars, SpaceInv, WorldOK, CachesOK, RequestOK, EntryOK, Registered, Late, registry, caches, request
<1>3. QED
  BY <1>1, <1>2, TickSpace, WorldSpace, PassSpace, LoadSpace, LookupSpace, AnsweredSpace DEF Next

(* In Search what is cached and what a request goes by stay as SpaceInv says. *)
THEOREM SpaceInductive == Spec => []SpaceInv
BY InitSpace, StepSpace, PTL DEF Spec

(* A semantic ranking compares the query's own vector with a column in its    *)
(* space, or the column changed less than ConfigTTL and a request's life ago. *)
THEOREM RankedInItsSpace == Spec => []SameSpace
<1>1. SpaceInv => SameSpace
  <2> SUFFICES ASSUME SpaceInv, pc = "rank", vec # None
               PROVE  vec.norm = req.query /\ (vec.space = column \/ now - changed < ConfigTTL + RequestLife)
    BY DEF SameSpace
  <2>1. /\ vec.norm = req.query /\ (vec.space = column \/ Late) /\ req.at \in Nat /\ now - req.at <= RequestLife
        /\ now \in Nat /\ changed \in Int
    BY DEF SpaceInv, RequestOK, WorldOK, Requests
  <2>2. QED
    BY <2>1 DEF Late
<1>2. QED
  BY <1>1, SpaceInductive, PTL

(* The model is not called for a text the container holds a live vector of.   *)
THEOREM QuotaIsSpared == Spec => []SparesTheQuota
<1>1. SpaceInv => SparesTheQuota
  <2> SUFFICES ASSUME SpaceInv, pc = "embed", NEW i \in 1..Len(vectors),
                      vectors[i].vec.norm = req.query, Models(plan) = {vectors[i].vec.space},
                      now - vectors[i].at < CacheTTL, vectors[i].at - changed >= ConfigTTL + RequestLife
               PROVE  FALSE
    BY DEF SparesTheQuota
  <2>1. vectors[i] \in Entries /\ EntryOK(vectors[i]) /\ vectors[i].at \in Nat /\ changed \in Int
    BY VectorIs DEF SpaceInv, WorldOK
  <2>2. vectors[i].key.models = Models(plan) /\ vectors[i].key.norm = req.query
    BY <2>1 DEF EntryOK
  <2>3. vectors[i].key = Key(plan, req.query)
    BY <2>1, <2>2 DEF Entries, Key
  <2>4. QED
    BY <2>3 DEF SpaceInv, RequestOK
<1>2. QED
  BY <1>1, SpaceInductive, PTL
=============================================================================
