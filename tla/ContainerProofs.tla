-------------------------- MODULE ContainerProofs --------------------------
(***************************************************************************)
(* Proofs about Container, for any keys, documents, tenants and requests,  *)
(* and any lives of what is cached.                                        *)
(*                                                                         *)
(* A cache is right by when it was filled: what it holds was in force when *)
(* it was read (EdgeOK, KeysOK), so it is as old as the read at most.      *)
(***************************************************************************)
EXTENDS Container, TLAPS

Labels == {"idle", "edge", "assertion", "caller", "acquire", "bind", "route", "unbind", "release"}

WorldOK ==
  /\ now \in Nat
  /\ setting \in Settings
  /\ secret \in Keys \cup {Placeholder}
  /\ document \in Documents

(* What the histories say of the secret and the document. *)
HistoryOK ==
  /\ held \in [Keys -> Int]
  /\ \A k \in Keys : held[k] <= now
  /\ secret \in Keys => held[secret] = now
  /\ since \in [Kids -> Int \cup {NoKeys}]
  /\ until \in [Kids -> Int]
  /\ \A kid \in Kids :
       IF Published(document, kid) THEN until[kid] = now
       ELSE since[kid] = NoKeys /\ until[kid] <= now

(* A cached key was the secret when it was read; a read is put off only after *)
(* one that found no key.                                                     *)
EdgeOK ==
  /\ edge \in [value : Keys \cup {None}, fetched : Nat, retry : Nat]
  /\ edge.value # None => edge.fetched <= held[edge.value]
  /\ edge.retry > 0 => found \notin Keys

(* A loaded set held what was published when it was fetched. *)
KeysOK(c) ==
  /\ c \in [keys : (SUBSET Kids) \cup {NoKeys}, fetched : Nat, attempted : Nat \cup {NoKeys}]
  /\ c.keys # NoKeys =>
       /\ c.keys \in SUBSET Kids
       /\ c.attempted \in Nat /\ c.fetched <= c.attempted /\ c.fetched <= now
       /\ \A kid \in c.keys : c.fetched <= until[kid]
       /\ \A kid \in Kids \ c.keys : since[kid] = NoKeys \/ c.fetched <= since[kid]

(* Only a route's own request has a context on the connection. *)
ConnOK ==
  /\ conn \in [open : BOOLEAN, context : Tenants \cup {None}]
  /\ pc \notin {"route", "unbind", "release"} => conn.context = None
  /\ pc = "route" /\ conn.open => conn.context = tenant

RequestOK ==
  /\ pc \in Labels
  /\ tenant = None <=> pc \in {"idle", "edge", "assertion"}
  /\ pc # "idle" =>
       /\ req.token # NoToken => req.token.kid \in Kids
       /\ req.assertion # NoAssertion =>
            req.assertion.tenant \in Tenants /\ req.assertion.iat \in Int /\ req.assertion.exp \in Int
  /\ tenant # None =>
       /\ tenant \in Tenants
       /\ tenant = IF req.assertion = NoAssertion THEN DefaultTenant ELSE req.assertion.tenant

IndInv == WorldOK /\ HistoryOK /\ EdgeOK /\ KeysOK(keyset) /\ ConnOK /\ RequestOK

USE KeyTimesAssumption, KeysAssumption, TenantsAssumption, LifetimeAssumption, JwksTimesAssumption

-----------------------------------------------------------------------------
(* What expected_key gives and leaves in the cache, whatever the read finds. *)
LEMMA KeyLookup ==
  ASSUME WorldOK, HistoryOK, EdgeOK, NEW read \in Reads, NEW found1,
         NEW got, got = ExpectedKey(setting, EnvKey, edge, now, read),
         found1 = IF got.cache = edge THEN found ELSE read
  PROVE  /\ got.cache \in [value : Keys \cup {None}, fetched : Nat, retry : Nat]
         /\ got.cache.value # None => got.cache.fetched <= held[got.cache.value]
         /\ got.cache.retry > 0 => found1 \notin Keys
         /\ got.key \in Keys =>
              \/ setting = "env" /\ got.key = EnvKey
              \/ setting = "secret" /\ (now - held[got.key] < KeyTTL \/ found1 \notin Keys)
         /\ got.key = Gate => setting = "local"
         /\ setting = "local" => got.key = Gate
         /\ got.key \in Keys \cup {None, Gate}
<1>0. /\ edge \in [value : Keys \cup {None}, fetched : Nat, retry : Nat]
      /\ edge = [value |-> edge.value, fetched |-> edge.fetched, retry |-> edge.retry]
      /\ now \in Nat /\ now + KeyRetry \in Nat /\ now + KeyRetry > 0
  BY DEF EdgeOK, WorldOK
<1> DEFINE Kept == [key |-> edge.value, cache |-> edge]
           Put == [edge EXCEPT !.retry = now + KeyRetry]
<1>p. Put = [value |-> edge.value, fetched |-> edge.fetched, retry |-> now + KeyRetry]
  BY <1>0
<1>1. CASE setting = "env"
  <2>1. got = [key |-> EnvKey, cache |-> edge]
    BY <1>1 DEF ExpectedKey
  <2>2. QED
    BY <1>0, <1>1, <2>1, WorldAssumption DEF EdgeOK
<1>2. CASE setting \in {"envPlaceholder", "unnamed"}
  <2>1. got = [key |-> None, cache |-> edge]
    BY <1>2 DEF ExpectedKey
  <2>2. QED
    BY <1>0, <1>2, <2>1 DEF EdgeOK
<1>3. CASE setting = "local"
  <2>1. got = [key |-> Gate, cache |-> edge]
    BY <1>3 DEF ExpectedKey
  <2>2. QED
    BY <1>0, <1>3, <2>1 DEF EdgeOK
<1>4. CASE setting = "secret"
  <2>1. got = KeyFromSecretsManager(edge, now, read)
    BY <1>4 DEF ExpectedKey
  <2>2. CASE Fresh(edge, now)
    <3>1. got = Kept
      BY <2>1, <2>2 DEF KeyFromSecretsManager
    <3>2. edge.value \in Keys /\ now - edge.fetched < KeyTTL /\ edge.fetched <= held[edge.value]
      BY <1>0, <2>2 DEF Fresh, EdgeOK
    <3>3. held[edge.value] \in Int
      BY <3>2 DEF HistoryOK
    <3>4. now - held[edge.value] < KeyTTL
      BY <1>0, <3>2, <3>3
    <3>5. QED
      BY <1>0, <1>4, <3>1, <3>2, <3>4 DEF EdgeOK
  <2>3. CASE Waiting(edge, now)
    <3>1. got = Kept
      BY <2>1, <2>3 DEF KeyFromSecretsManager
    <3>2. edge.retry > 0
      BY <1>0, <2>3 DEF Waiting
    <3>3. QED
      BY <1>0, <1>4, <3>1, <3>2 DEF EdgeOK
  <2>4. CASE ~Fresh(edge, now) /\ ~Waiting(edge, now)
    <3>1. edge.retry # now + KeyRetry
      BY <1>0, <2>4 DEF Waiting
    <3>2. Put # edge
      BY <1>p, <3>1
    <3>3. CASE read \in Keys
      <4>1. got = [key |-> read, cache |-> [value |-> read, fetched |-> now, retry |-> 0]]
        BY <2>1, <2>4, <3>3 DEF KeyFromSecretsManager, Usable
      <4>2. read = secret /\ held[read] = now
        BY <3>3 DEF Reads, HistoryOK
      <4>3. QED
        BY <1>0, <1>4, <3>3, <4>1, <4>2
    <3>4. CASE read \notin Keys
      <4>1. got.cache = Put /\ got.key \in {edge.value, None}
        BY <2>1, <2>4, <3>4 DEF KeyFromSecretsManager, Usable, ReadFailed
      <4>2. found1 \notin Keys
        BY <3>2, <3>4, <4>1
      <4>3. QED
        BY <1>0, <1>p, <1>4, <4>1, <4>2 DEF EdgeOK
    <3>5. QED
      BY <3>3, <3>4
  <2>5. QED
    BY <2>2, <2>3, <2>4
<1>5. QED
  BY <1>1, <1>2, <1>3, <1>4 DEF WorldOK, Settings

(* What the lookup of a kid leaves in the key set, whatever the fetch loads.  *)
LEMMA KeySetLookup ==
  ASSUME WorldOK, HistoryOK, KeysOK(keyset), NEW kid \in Kids, NEW got \in Loads
  PROVE  KeysOK(AfterLookup(keyset, kid, now, got))
<1>1. CASE AfterLookup(keyset, kid, now, got) = keyset
  BY <1>1
<1>2. CASE AfterLookup(keyset, kid, now, got) = Refresh(keyset, now, got) /\ got = {}
  <2>1. Refresh(keyset, now, got) = [keyset EXCEPT !.attempted = now]
    BY <1>2 DEF Refresh
  <2>2. Refresh(keyset, now, got) =
          [keys |-> keyset.keys, fetched |-> keyset.fetched, attempted |-> now]
    BY <2>1 DEF KeysOK
  <2>3. QED
    BY <1>2, <2>2 DEF KeysOK, WorldOK
<1>3. CASE AfterLookup(keyset, kid, now, got) = Refresh(keyset, now, got) /\ got # {}
  <2>1. got = RsaKeys(document)
    BY <1>3 DEF Loads
  <2>2. AfterLookup(keyset, kid, now, got) = [keys |-> got, fetched |-> now, attempted |-> now]
    BY <1>3 DEF Refresh
  <2>3. got \in SUBSET Kids
    BY <2>1, WorldAssumption DEF WorldOK
  <2>4. ASSUME NEW k \in got PROVE now <= until[k]
    <3>1. k \in Kids /\ Published(document, k)
      BY <2>1, <2>3 DEF Published
    <3>2. until[k] = now
      BY <3>1 DEF HistoryOK
    <3>3. QED
      BY <3>2 DEF WorldOK
  <2>5. \A k \in Kids \ got : since[k] = NoKeys
    BY <2>1 DEF HistoryOK, Published
  <2>6. QED
    BY <2>2, <2>3, <2>4, <2>5 DEF KeysOK, WorldOK
<1>4. QED
  BY <1>1, <1>2, <1>3 DEF AfterLookup

(* The container starts empty. *)
LEMMA InitOK == Init => IndInv
<1> SUFFICES ASSUME Init PROVE IndInv
  OBVIOUS
<1>1. WorldOK
  BY DEF Init, WorldOK
<1>2. \A kid \in Kids : Published(document, kid) \in BOOLEAN
  BY DEF Published
<1>3. HistoryOK
  <2>1. held \in [Keys -> Int] /\ (\A k \in Keys : held[k] <= now) /\ (secret \in Keys => held[secret] = now)
    BY DEF Init
  <2>2. since \in [Kids -> Int \cup {NoKeys}] /\ until \in [Kids -> Int]
    BY DEF Init
  <2>3. \A kid \in Kids :
          IF Published(document, kid) THEN until[kid] = now
          ELSE since[kid] = NoKeys /\ until[kid] <= now
    BY <1>2 DEF Init
  <2>4. QED
    BY <2>1, <2>2, <2>3 DEF HistoryOK
<1>4. EdgeOK
  BY DEF Init, Empty, EdgeOK
<1>5. KeysOK(keyset)
  <2>1. keyset = [keys |-> NoKeys, fetched |-> 0, attempted |-> NoKeys]
    BY DEF Init, NoSet
  <2>2. keyset.keys = NoKeys
    BY <2>1
  <2>3. keyset \in [keys : (SUBSET Kids) \cup {NoKeys}, fetched : Nat, attempted : Nat \cup {NoKeys}]
    BY <2>1
  <2>4. QED
    BY <2>2, <2>3 DEF KeysOK
<1>6. ConnOK
  BY DEF Init, Closed, ConnOK
<1>7. RequestOK
  BY DEF Init, RequestOK, Labels
<1>8. QED
  BY <1>1, <1>3, <1>4, <1>5, <1>6, <1>7 DEF IndInv

(* The caches stay right while the world moves on: histories only grow.       *)
LEMMA CachesAge ==
  ASSUME IndInv, WorldOK', HistoryOK', now' >= now, UNCHANGED caches,
         \A k \in Keys : held[k] <= held'[k],
         \A kid \in Kids : until[kid] <= until'[kid],
         \A kid \in Kids : \/ since'[kid] = since[kid]
                           \/ since'[kid] = NoKeys
                           \/ since'[kid] \in Int /\ now <= since'[kid]
  PROVE  EdgeOK' /\ KeysOK(keyset)'
<1>1. EdgeOK'
  <2>1. edge' = edge /\ found' = found
    BY DEF caches
  <2>2. edge.value # None => edge.value \in Keys /\ held[edge.value] \in Int /\ held'[edge.value] \in Int
    BY DEF IndInv, EdgeOK, HistoryOK
  <2>3. edge.fetched \in Nat
    BY DEF IndInv, EdgeOK
  <2>4. edge.value # None => edge.fetched <= held'[edge.value]
    BY <2>2, <2>3 DEF IndInv, EdgeOK
  <2>5. QED
    BY <2>1, <2>4 DEF IndInv, EdgeOK
<1>2. KeysOK(keyset)'
  <2>1. keyset' = keyset /\ KeysOK(keyset) /\ now \in Nat /\ now' \in Nat
    BY DEF caches, IndInv, WorldOK
  <2>2. CASE keyset.keys = NoKeys
    BY <2>1, <2>2 DEF KeysOK
  <2>3. CASE keyset.keys # NoKeys
    <3>1. keyset.fetched \in Nat /\ keyset.fetched <= now /\ keyset.fetched <= now'
      BY <2>1, <2>3 DEF KeysOK
    <3>2. ASSUME NEW kid \in keyset.keys PROVE keyset.fetched <= until'[kid]
      <4>1. kid \in Kids /\ keyset.fetched <= until[kid]
        BY <2>1, <2>3, <3>2 DEF KeysOK
      <4>2. until[kid] \in Int /\ until'[kid] \in Int
        BY <4>1 DEF IndInv, HistoryOK
      <4>3. QED
        BY <3>1, <4>1, <4>2
    <3>3. ASSUME NEW kid \in Kids \ keyset.keys
          PROVE  since'[kid] = NoKeys \/ keyset.fetched <= since'[kid]
      <4>1. since[kid] = NoKeys \/ keyset.fetched <= since[kid]
        BY <2>1, <2>3, <3>3 DEF KeysOK
      <4>2. since'[kid] \in Int /\ now <= since'[kid] => keyset.fetched <= since'[kid]
        BY <2>1, <3>1
      <4>3. QED
        BY <4>1, <4>2
    <3>4. QED
      BY <2>1, <2>3, <3>1, <3>2, <3>3 DEF KeysOK
  <2>4. QED
    BY <2>2, <2>3
<1>3. QED
  BY <1>1, <1>2

(* Time passing, a rotation and a publication keep the histories and the      *)
(* caches right.                                                              *)
LEMMA WorldMoves == IndInv /\ (Tick \/ RotateSecret \/ Publish) => IndInv'
<1> SUFFICES ASSUME IndInv, Tick \/ RotateSecret \/ Publish PROVE IndInv'
  OBVIOUS
<1> USE DEF IndInv
<1>0. now \in Nat /\ now + 1 \in Nat
  BY DEF WorldOK
<1>1. UNCHANGED <<conn, request, caches>>
  BY DEF Tick, RotateSecret, Publish
<1>2. ConnOK' /\ RequestOK'
  BY <1>1 DEF ConnOK, RequestOK, request
<1>3. CASE Tick
  <2>1. now' = now + 1 /\ UNCHANGED <<setting, secret, document, since>>
    BY <1>3 DEF Tick
  <2>2. WorldOK'
    BY <1>0, <2>1 DEF WorldOK
  <2>3. /\ held' \in [Keys -> Int]
        /\ \A k \in Keys : held'[k] <= now' /\ held[k] <= held'[k]
        /\ secret \in Keys => held'[secret] = now'
    <3>1. \A k \in Keys : held'[k] = IF k = secret THEN now + 1 ELSE held[k]
      BY <1>3, <2>1 DEF Tick
    <3>2. held' \in [Keys -> Int]
      BY <1>0, <1>3, <2>1 DEF Tick, HistoryOK
    <3>3. QED
      BY <1>0, <2>1, <3>1, <3>2 DEF HistoryOK
  <2>4. /\ until' \in [Kids -> Int]
        /\ \A kid \in Kids : until[kid] <= until'[kid]
        /\ \A kid \in Kids :
             IF Published(document, kid) THEN until'[kid] = now'
             ELSE since[kid] = NoKeys /\ until'[kid] <= now'
    <3>1. \A kid \in Kids : until'[kid] = IF Published(document, kid) THEN now + 1 ELSE until[kid]
      BY <1>3, <2>1 DEF Tick
    <3>2. until' \in [Kids -> Int]
      BY <1>0, <1>3, <2>1 DEF Tick, HistoryOK
    <3>3. ASSUME NEW kid \in Kids
          PROVE  /\ until[kid] <= until'[kid]
                 /\ IF Published(document, kid) THEN until'[kid] = now'
                    ELSE since[kid] = NoKeys /\ until'[kid] <= now'
      <4>1. until[kid] \in Int /\ until[kid] <= now
        BY <1>0 DEF HistoryOK, Published
      <4>2. CASE Published(document, kid)
        BY <1>0, <2>1, <3>1, <4>1, <4>2
      <4>3. CASE ~Published(document, kid)
        BY <1>0, <2>1, <3>1, <4>1, <4>3 DEF HistoryOK
      <4>4. QED
        BY <4>2, <4>3
    <3>4. QED
      BY <3>2, <3>3
  <2>5. HistoryOK'
    BY <2>1, <2>3, <2>4 DEF HistoryOK, Published
  <2>6. now' >= now
    BY <1>0, <2>1
  <2>7. EdgeOK' /\ KeysOK(keyset)'
    BY <1>1, <2>1, <2>2, <2>3, <2>4, <2>5, <2>6, CachesAge
  <2>8. QED
    BY <1>2, <2>2, <2>5, <2>7
<1>4. CASE RotateSecret
  <2>1. UNCHANGED <<now, setting, document, since, until>> /\ secret' \in Keys \cup {Placeholder}
    BY <1>4 DEF RotateSecret
  <2>2. WorldOK'
    BY <2>1 DEF WorldOK
  <2>3. \A k \in Keys : held'[k] = IF k = secret' THEN now ELSE held[k]
    BY <1>4 DEF RotateSecret
  <2>4. held' \in [Keys -> Int]
    BY <1>0, <1>4 DEF RotateSecret, HistoryOK
  <2>5. \A k \in Keys : held'[k] <= now' /\ held[k] <= held'[k]
    BY <1>0, <2>1, <2>3 DEF HistoryOK
  <2>6. secret' \in Keys => held'[secret'] = now'
    BY <2>1, <2>3
  <2>7. HistoryOK'
    BY <2>1, <2>4, <2>5, <2>6 DEF HistoryOK, Published
  <2>8. now' >= now /\ \A kid \in Kids : until[kid] <= until'[kid]
    BY <1>0, <2>1 DEF HistoryOK
  <2>9. EdgeOK' /\ KeysOK(keyset)'
    BY <1>1, <2>1, <2>2, <2>5, <2>7, <2>8, CachesAge
  <2>10. QED
    BY <1>2, <2>2, <2>7, <2>9
<1>5. CASE Publish
  <2>1. UNCHANGED <<now, setting, secret, held>> /\ document' \in Documents
    BY <1>5 DEF Publish
  <2>2. WorldOK'
    BY <2>1 DEF WorldOK
  <2>3. \A kid \in Kids :
          /\ since'[kid] = IF ~Published(document', kid) THEN NoKeys
                           ELSE IF since[kid] # NoKeys THEN since[kid] ELSE now
          /\ until'[kid] = IF Published(document', kid) THEN now ELSE until[kid]
    BY <1>5 DEF Publish
  <2>4. since' \in [Kids -> Int \cup {NoKeys}] /\ until' \in [Kids -> Int]
    BY <1>0, <1>5 DEF Publish, HistoryOK
  <2>5. \A kid \in Kids : until[kid] \in Int /\ until[kid] <= now
    BY <1>0 DEF HistoryOK, Published
  <2>6. \A kid \in Kids :
          IF Published(document', kid) THEN until'[kid] = now'
          ELSE since'[kid] = NoKeys /\ until'[kid] <= now'
    BY <2>1, <2>3, <2>5 DEF Published
  <2>7. HistoryOK'
    BY <2>1, <2>4, <2>6 DEF HistoryOK
  <2>8. now' >= now /\ (\A kid \in Kids : until[kid] <= until'[kid])
        /\ \A k \in Keys : held[k] <= held'[k]
    BY <1>0, <2>1, <2>3, <2>5 DEF HistoryOK, Published
  <2>9. \A kid \in Kids : \/ since'[kid] = since[kid]
                          \/ since'[kid] = NoKeys
                          \/ since'[kid] \in Int /\ now <= since'[kid]
    BY <1>0, <2>3 DEF Published
  <2>10. EdgeOK' /\ KeysOK(keyset)'
    BY <1>1, <2>2, <2>7, <2>8, <2>9, CachesAge
  <2>11. QED
    BY <1>2, <2>2, <2>7, <2>10
<1>6. QED
  BY <1>3, <1>4, <1>5

(* A request's steps keep them right, and the connection's context its own.   *)
LEMMA RequestMoves ==
  ASSUME IndInv,
         \/ Break \/ Recycle \/ Arrive \/ CheckKey \/ BarePath \/ CheckAssertion \/ Identify
         \/ Acquire \/ Bind \/ Route \/ Unbind \/ Release
  PROVE  IndInv'
<1> USE DEF IndInv
<1>1. UNCHANGED world
  BY DEF Break, Recycle, Arrive, CheckKey, BarePath, CheckAssertion, Identify, Acquire, Bind,
         Route, Unbind, Release
<1>2. WorldOK' /\ HistoryOK'
  BY <1>1 DEF world, WorldOK, HistoryOK
<1>3. EdgeOK'
  <2>1. ASSUME CheckKey \/ CheckAssertion PROVE EdgeOK'
    <3>1. PICK read \in Reads :
            Keep(ExpectedKey(setting, EnvKey, edge, now, read).cache, read)
      BY <2>1 DEF CheckKey, CheckAssertion
    <3> DEFINE got == ExpectedKey(setting, EnvKey, edge, now, read)
    <3>2. edge' = got.cache /\ found' = IF got.cache = edge THEN found ELSE read
      BY <3>1 DEF Keep
    <3> HIDE DEF got
    <3>3. /\ edge' \in [value : Keys \cup {None}, fetched : Nat, retry : Nat]
          /\ edge'.value # None => edge'.fetched <= held[edge'.value]
          /\ edge'.retry > 0 => found' \notin Keys
      BY <3>2, KeyLookup DEF got
    <3>4. QED
      BY <1>1, <3>3 DEF EdgeOK, world
  <2>2. ASSUME Recycle PROVE EdgeOK'
    BY <2>2 DEF Recycle, Empty, EdgeOK
  <2>3. ASSUME UNCHANGED <<edge, found>> PROVE EdgeOK'
    BY <1>1, <2>3 DEF EdgeOK, world
  <2>4. QED
    BY <2>1, <2>2, <2>3 DEF Break, Arrive, BarePath, Identify, Acquire, Bind, Route, Unbind, Release, caches
<1>4. KeysOK(keyset)'
  <2>1. ASSUME UNCHANGED keyset PROVE KeysOK(keyset)'
    BY <1>1, <2>1 DEF KeysOK, world
  <2>2. ASSUME Recycle PROVE KeysOK(keyset)'
    <3>1. keyset' = [keys |-> NoKeys, fetched |-> 0, attempted |-> NoKeys]
      BY <2>2 DEF Recycle, NoSet
    <3>2. QED
      BY <3>1 DEF KeysOK
  <2>3. ASSUME Identify, keyset' # keyset PROVE KeysOK(keyset)'
    <3>1. PICK got \in Loads : keyset' = AfterLookup(keyset, req.token.kid, now, got)
      BY <2>3 DEF Identify
    <3>2. req.token.kid \in Kids
      BY <2>3 DEF Identify, RequestOK
    <3>3. KeysOK(keyset')
      BY <3>1, <3>2, KeySetLookup
    <3>4. QED
      BY <1>1, <3>3 DEF KeysOK, world
  <2>4. QED
    BY <2>1, <2>2, <2>3 DEF Break, Arrive, CheckKey, BarePath, CheckAssertion, Identify, Acquire, Bind,
                            Route, Unbind, Release, caches
<1>5. ConnOK'
  <2>0. /\ conn \in [open : BOOLEAN, context : Tenants \cup {None}]
        /\ conn = [open |-> conn.open, context |-> conn.context]
        /\ tenant \in Tenants \cup {None}
        /\ conn.open \in BOOLEAN /\ conn.context \in Tenants \cup {None}
    BY DEF ConnOK, RequestOK
  <2> DEFINE Conns == [open : BOOLEAN, context : Tenants \cup {None}]
  <2>t. \A b \in BOOLEAN : \A c \in Tenants \cup {None} : [open |-> b, context |-> c] \in Conns
    OBVIOUS
  <2>1. ASSUME Break \/ Recycle PROVE ConnOK'
    <3>1. conn' = [open |-> FALSE, context |-> None]
      BY <2>1 DEF Break, Recycle, Closed
    <3>2. QED
      BY <3>1 DEF ConnOK
  <2>2. ASSUME Arrive \/ CheckKey \/ BarePath \/ CheckAssertion \/ Identify PROVE ConnOK'
    <3>1. conn' = conn /\ pc \notin {"route", "unbind", "release"} /\ pc' # "route"
      BY <2>2 DEF Arrive, CheckKey, BarePath, CheckAssertion, Identify, Goto, End, caches
    <3>2. conn'.context = None
      BY <3>1 DEF ConnOK
    <3>3. QED
      BY <2>0, <3>1, <3>2 DEF ConnOK
  <2>3. ASSUME Acquire PROVE ConnOK'
    <3>1. pc = "acquire" /\ pc' \in {"bind", "idle"}
      BY <2>3 DEF Acquire, Goto, End
    <3>2. conn' = conn \/ conn' = [open |-> TRUE, context |-> conn.context]
      BY <2>0, <2>3 DEF Acquire
    <3>3. conn' \in Conns
      BY <2>0, <2>t, <3>2, Zenon
    <3>4. conn'.context = None
      BY <3>1, <3>2 DEF ConnOK
    <3>5. QED
      BY <3>1, <3>3, <3>4 DEF ConnOK
  <2>4. ASSUME Bind PROVE ConnOK'
    <3>1. pc = "bind" /\ tenant' = tenant
      BY <2>4 DEF Bind
    <3>2. \/ pc' = "route" /\ conn' = [open |-> conn.open, context |-> tenant]
          \/ pc' = "release" /\ (conn' = [open |-> conn.open, context |-> tenant] \/ conn' = conn)
      BY <2>0, <2>4 DEF Bind, Goto
    <3>3. conn' \in Conns
      BY <2>0, <2>t, <3>2, Zenon
    <3>4. pc' = "route" => conn'.context = tenant'
      BY <3>1, <3>2
    <3>5. QED
      BY <3>1, <3>2, <3>3, <3>4 DEF ConnOK
  <2>5. ASSUME Route \/ Unbind PROVE ConnOK'
    <3>1. pc' \in {"unbind", "release"}
      BY <2>5 DEF Route, Unbind, Goto
    <3>2. \/ conn' = conn
          \/ conn' = [open |-> conn.open, context |-> None]
          \/ conn' = [open |-> FALSE, context |-> None]
      BY <2>0, <2>5 DEF Route, Unbind, Closed
    <3>3. conn' \in Conns
      BY <2>0, <2>t, <3>2, Zenon
    <3>4. QED
      BY <3>1, <3>3 DEF ConnOK
  <2>6. ASSUME Release PROVE ConnOK'
    <3>1. pc' = "idle"
      BY <2>6 DEF Release, End
    <3>2. \/ conn' = [open |-> conn.open, context |-> None]
          \/ conn' = [open |-> FALSE, context |-> None]
      BY <2>0, <2>6 DEF Release, Closed
    <3>3. conn' \in Conns
      BY <2>0, <2>t, <3>2, Zenon
    <3>4. conn'.context = None
      BY <3>2
    <3>5. QED
      BY <3>1, <3>3, <3>4 DEF ConnOK
  <2>7. QED
    BY <2>1, <2>2, <2>3, <2>4, <2>5, <2>6
<1>6. RequestOK'
  <2>1. ASSUME Arrive PROVE RequestOK'
    <3>1. PICK w \in Workload : req' = [w EXCEPT !.assertion = At(w.assertion)]
      BY <2>1 DEF Arrive
    <3>2. req' = [key |-> w.key, assertion |-> At(w.assertion), token |-> w.token]
      BY <3>1, WorkloadAssumption
    <3>3. w.token # NoToken => w.token.kid \in Kids
      BY WorkloadAssumption
    <3>4. At(w.assertion) # NoAssertion =>
            /\ At(w.assertion).tenant \in Tenants
            /\ At(w.assertion).iat \in Int /\ At(w.assertion).exp \in Int
      <4>1. CASE w.assertion = NoAssertion
        BY <4>1 DEF At
      <4>2. CASE w.assertion # NoAssertion
        <5> DEFINE a == w.assertion
        <5>1. /\ a = Claims(a.wellFormed, a.tenant, a.key, a.iat, a.exp)
              /\ a.tenant \in Tenants /\ a.iat \in Int /\ a.exp \in Int
          BY <4>2, WorkloadAssumption
        <5>2. At(a) = [a EXCEPT !.iat = a.iat + now, !.exp = a.exp + now]
          BY <4>2 DEF At
        <5>3. At(a) = [wellFormed |-> a.wellFormed, tenant |-> a.tenant, key |-> a.key,
                       iat |-> a.iat + now, exp |-> a.exp + now]
          BY <5>1, <5>2 DEF Claims
        <5>4. a.iat + now \in Int /\ a.exp + now \in Int
          BY <5>1 DEF WorldOK
        <5>5. QED
          BY <5>1, <5>3, <5>4
      <4>3. QED
        BY <4>1, <4>2
    <3>5. pc = "idle" /\ pc' = "edge" /\ tenant' = tenant
      BY <2>1 DEF Arrive, Goto
    <3>6. QED
      BY <3>2, <3>3, <3>4, <3>5 DEF RequestOK, Labels
  <2>2. ASSUME CheckKey \/ BarePath \/ CheckAssertion PROVE RequestOK'
    <3>1. /\ pc \in {"edge", "assertion"} /\ tenant = None
          /\ \/ pc' = "idle" /\ tenant' = None
             \/ pc = "edge" /\ pc' = "assertion" /\ UNCHANGED <<req, tenant>>
             \/ /\ pc = "assertion" /\ pc' = "caller" /\ req' = req
                /\ tenant' = IF req.assertion = NoAssertion THEN DefaultTenant ELSE req.assertion.tenant
      BY <2>2 DEF CheckKey, BarePath, CheckAssertion, Goto, End, RequestOK
    <3>2. QED
      BY <3>1, WorldAssumption DEF RequestOK, Labels
  <2>3. ASSUME Identify \/ Acquire \/ Bind \/ Route \/ Unbind PROVE RequestOK'
    <3>1. /\ pc \in {"caller", "acquire", "bind", "route", "unbind"}
          /\ \/ pc' = "idle" /\ tenant' = None
             \/ /\ UNCHANGED <<req, tenant>>
                /\ pc' \in {"acquire", "bind", "route", "unbind", "release"}
      BY <2>3 DEF Identify, Acquire, Bind, Route, Unbind, Goto, End
    <3>2. QED
      BY <3>1 DEF RequestOK, Labels
  <2>4. ASSUME Recycle \/ Release PROVE RequestOK'
    <3>1. pc' = "idle" /\ tenant' = None
      BY <2>4 DEF Recycle, Release, End
    <3>2. QED
      BY <3>1 DEF RequestOK, Labels
  <2>5. ASSUME Break PROVE RequestOK'
    BY <2>5 DEF Break, request, RequestOK
  <2>6. QED
    BY <2>1, <2>2, <2>3, <2>4, <2>5
<1>7. QED
  BY <1>2, <1>3, <1>4, <1>5, <1>6

(* Every state of the container is right in these senses. *)
THEOREM Inductive == Spec => []IndInv
<1>1. IndInv /\ [Next]_vars => IndInv'
  <2> SUFFICES ASSUME IndInv, [Next]_vars PROVE IndInv'
    OBVIOUS
  <2>1. CASE UNCHANGED vars
    BY <2>1 DEF vars, IndInv, WorldOK, HistoryOK, Published, EdgeOK, KeysOK, ConnOK, RequestOK
  <2>2. CASE Next
    BY <2>2, WorldMoves, RequestMoves DEF Next
  <2>3. QED
    BY <2>1, <2>2
<1>2. QED
  BY InitOK, <1>1, PTL DEF Spec

(* A statement runs under the tenant its own request proved, whichever of     *)
(* bind, route, unbind, reset and the connection failed before.               *)
THEOREM OwnTenantHolds == Spec => []OwnTenant
<1>1. IndInv => OwnTenant
  BY DEF IndInv, ConnOK, RequestOK, OwnTenant
<1>2. QED
  BY Inductive, <1>1, PTL

-----------------------------------------------------------------------------
(* The key a lookup gives, while it may be given. *)
LEMMA GivenKeyIsCurrent ==
  ASSUME IndInv, NEW read \in Reads, NEW got,
         got = ExpectedKey(setting, EnvKey, edge, now, read),
         Keep(got.cache, read), got.key \in Keys
  PROVE  Current(got.key)
<1>1. found' = IF got.cache = edge THEN found ELSE read
  BY DEF Keep
<1>2. QED
  BY <1>1, KeyLookup DEF IndInv, Current

(* A rotated edge key lets no request in, and signs no tenant, longer than a  *)
(* cache life after it was the secret, while the secret can be read.          *)
THEOREM KeyStaysCurrent == Spec => KeyIsCurrent
<1> DEFINE Fine ==
      /\ pc = "edge" /\ pc' = "assertion" => setting = "local" \/ Current(req.key)
      /\ tenant' \notin {None, tenant, DefaultTenant} =>
           /\ Current(req.assertion.key)
           /\ now < req.assertion.exp /\ req.assertion.exp <= now + Skew + MaxLifetime
<1>1. IndInv /\ [Next]_vars => [Fine]_vars
  <2> SUFFICES ASSUME IndInv, Next PROVE Fine
    OBVIOUS
  <2>1. ASSUME CheckKey PROVE Fine
    <3> DEFINE Got(read) == ExpectedKey(setting, EnvKey, edge, now, read)
    <3>1. PICK read \in Reads :
            /\ Keep(Got(read).cache, read)
            /\ IF CheckEvent(Got(read).key, req.key) = "allowed"
               THEN Goto("assertion") /\ UNCHANGED <<req, tenant, caller>>
               ELSE End
      BY <2>1 DEF CheckKey
    <3>2. tenant' \in {tenant, None}
      BY <3>1 DEF End
    <3>3. ASSUME pc' = "assertion", setting # "local" PROVE Current(req.key)
      <4> DEFINE got == Got(read)
      <4>1. CheckEvent(got.key, req.key) = "allowed"
        BY <3>1, <3>3 DEF End
      <4> HIDE DEF got
      <4>2. got.key # Gate /\ got.key \in Keys \cup {None, Gate}
        BY <3>1, <3>3, KeyLookup DEF got, Got, Keep, IndInv
      <4>3. got.key \in Keys /\ got.key = req.key
        BY <4>1, <4>2 DEF CheckEvent
      <4>4. QED
        BY <3>1, <4>3, GivenKeyIsCurrent DEF got, Got
    <3>4. QED
      BY <3>2, <3>3
  <2>2. ASSUME CheckAssertion PROVE Fine
    <3> DEFINE Got(read) == ExpectedKey(setting, EnvKey, edge, now, read)
    <3>1. PICK read \in Reads :
            /\ Keep(Got(read).cache, read)
            /\ IF Got(read).key \in Keys /\ Verified(req.assertion, Got(read).key, now)
               THEN Goto("caller") /\ tenant' = req.assertion.tenant /\ UNCHANGED <<req, caller>>
               ELSE End
      BY <2>2 DEF CheckAssertion
    <3>2. pc = "assertion" /\ req.assertion # NoAssertion
      BY <2>2 DEF CheckAssertion
    <3>3. ASSUME tenant' # None
          PROVE  /\ Current(req.assertion.key)
                 /\ now < req.assertion.exp /\ req.assertion.exp <= now + Skew + MaxLifetime
      <4> DEFINE got == Got(read)
      <4>1. got.key \in Keys /\ Verified(req.assertion, got.key, now)
        BY <3>1, <3>3 DEF End
      <4> HIDE DEF got
      <4>2. Current(got.key)
        BY <3>1, <4>1, GivenKeyIsCurrent DEF got, Got
      <4>3. req.assertion.key = got.key
        BY <4>1 DEF Verified
      <4>4. req.assertion.iat \in Int /\ req.assertion.exp \in Int /\ now \in Nat
        BY <3>2 DEF IndInv, RequestOK, WorldOK
      <4>5. QED
        BY <4>1, <4>2, <4>3, <4>4 DEF Verified, Lifetime
    <3>4. QED
      BY <3>2, <3>3
  <2>3. ASSUME BarePath PROVE Fine
    BY <2>3 DEF BarePath
  <2>4. ASSUME pc' # "assertion", tenant' \in {tenant, None} PROVE Fine
    BY <2>4
  <2>5. ASSUME pc' = pc, tenant' = tenant PROVE Fine
    BY <2>5
  <2>6. QED
    BY <2>1, <2>2, <2>3, <2>4, <2>5 DEF Next, Tick, RotateSecret, Publish, Break, Recycle, Arrive,
       Identify, Acquire, Bind, Route, Unbind, Release, Goto, End, request
<1>2. QED
  BY Inductive, <1>1, PTL DEF Spec, KeyIsCurrent

-----------------------------------------------------------------------------
(* What the key set says of a kid after its lookup: a key it holds was        *)
(* published at most JwksTTL ago, one it does not hold is not or only just    *)
(* published, unless the last fetch failed.                                   *)
LEMMA LookupIsCurrent ==
  ASSUME IndInv, NEW kid \in Kids, NEW got \in Loads, NEW after,
         after = AfterLookup(keyset, kid, now, got)
  PROVE  /\ Holds(after, kid) => now - until[kid] < JwksTTL \/ LastFetchFailed(after)
         /\ after.keys = NoKeys => LastFetchFailed(after)
         /\ after.keys # NoKeys /\ ~Holds(after, kid) =>
              since[kid] = NoKeys \/ now - since[kid] < Refetch \/ LastFetchFailed(after)
<1>0. now \in Nat /\ NoKeys \notin Int /\ KeysOK(keyset) /\ KeysOK(after)
  BY KeySetLookup, WorldAssumption DEF IndInv, WorldOK
<1>1. until[kid] \in Int /\ since[kid] \in Int \cup {NoKeys}
  BY DEF IndInv, HistoryOK
<1>2. CASE after.keys # NoKeys /\ after.fetched = now
  <2>1. Holds(after, kid) => now <= until[kid]
    BY <1>0, <1>2 DEF KeysOK, Holds
  <2>2. ~Holds(after, kid) => since[kid] = NoKeys \/ now <= since[kid]
    BY <1>0, <1>2 DEF KeysOK, Holds
  <2>3. QED
    BY <1>0, <1>1, <1>2, <2>1, <2>2
<1>3. CASE Asks(keyset, kid, now) /\ got = {}
  <2>1. after = [keyset EXCEPT !.attempted = now]
    BY <1>3 DEF AfterLookup, Refresh
  <2>2. after.keys = keyset.keys /\ after.fetched = keyset.fetched /\ after.attempted = now
    BY <1>0, <2>1 DEF KeysOK
  <2>3. after.keys # NoKeys => after.fetched < now
    <3>1. SUFFICES ASSUME keyset.keys # NoKeys PROVE keyset.fetched < now
      BY <2>2
    <3>2. /\ keyset.attempted \in Nat /\ keyset.fetched \in Nat
          /\ keyset.fetched <= keyset.attempted
      BY <1>0, <3>1 DEF KeysOK
    <3>3. now - keyset.attempted >= Refetch
      BY <1>0, <1>3, <3>1, <3>2 DEF Asks, MayFetch
    <3>4. QED
      BY <1>0, <3>2, <3>3
  <2>4. LastFetchFailed(after)
    BY <1>0, <2>2, <2>3 DEF LastFetchFailed
  <2>5. QED
    BY <2>4
<1>4. CASE Asks(keyset, kid, now) /\ got # {}
  <2>1. after = [keys |-> got, fetched |-> now, attempted |-> now]
    BY <1>4 DEF AfterLookup, Refresh
  <2>2. after.keys = NoKeys => LastFetchFailed(after)
    BY <1>0, <2>1 DEF LastFetchFailed
  <2>3. QED
    BY <1>2, <2>1, <2>2 DEF Holds
<1>5. CASE ~Asks(keyset, kid, now)
  <2>1. after = keyset
    BY <1>5 DEF AfterLookup
  <2>2. CASE after.keys = NoKeys
    BY <1>5, <2>1, <2>2 DEF Asks, Stale, MayFetch, LastFetchFailed, Holds
  <2>3. CASE after.keys # NoKeys
    <3>1. /\ after.attempted \in Nat /\ after.fetched \in Nat /\ after.attempted # NoKeys
          /\ after.fetched <= after.attempted
      BY <1>0, <2>3 DEF KeysOK
    <3>2. ASSUME after.attempted = after.fetched, ~MayFetch(after, now)
          PROVE  now - after.fetched < Refetch
      BY <1>0, <2>3, <3>1, <3>2 DEF MayFetch
    <3>3. after.attempted # after.fetched => LastFetchFailed(after)
      BY <3>1 DEF LastFetchFailed
    <3>4. CASE Holds(after, kid)
      <4>1. after.fetched <= until[kid]
        BY <1>0, <2>3, <3>4 DEF KeysOK, Holds
      <4>2. Stale(after, now) => ~MayFetch(after, now)
        BY <1>5, <2>1 DEF Asks
      <4>3. ~Stale(after, now) => now - after.fetched < JwksTTL
        BY <1>0, <2>3, <3>1 DEF Stale
      <4>4. now - after.fetched < JwksTTL \/ LastFetchFailed(after)
        BY <1>0, <3>1, <3>2, <3>3, <4>2, <4>3
      <4>5. QED
        BY <1>0, <1>1, <2>3, <3>1, <3>4, <4>1, <4>4
    <3>5. CASE ~Holds(after, kid)
      <4>1. since[kid] = NoKeys \/ after.fetched <= since[kid]
        BY <1>0, <2>3, <3>5 DEF KeysOK, Holds
      <4>2. ~MayFetch(after, now)
        BY <1>5, <2>1, <3>5 DEF Asks
      <4>3. now - after.fetched < Refetch \/ LastFetchFailed(after)
        BY <3>2, <3>3, <4>2
      <4>4. QED
        BY <1>0, <1>1, <2>3, <3>1, <3>5, <4>1, <4>3
    <3>6. QED
      BY <3>4, <3>5
  <2>4. QED
    BY <2>2, <2>3
<1>6. QED
  BY <1>3, <1>4, <1>5

(* Who is signed in, refused or answered 503, by the issuer's keys as they    *)
(* were at most a cache life ago, unless fetching them fails.                 *)
THEOREM SigningKeyStaysCurrent == Spec => SigningKeyIsCurrent
<1> DEFINE Fine ==
      pc = "caller" /\ pc' = "acquire" /\ req.token # NoToken =>
       LET kid == req.token.kid
       IN CASE caller' = "ok" ->
                 /\ ~Refused(req.token) /\ ClaimsHold(req.token, now)
                 /\ now - until[kid] < JwksTTL \/ LastFetchFailed(keyset')
            [] caller' = "unavailable" -> keyset'.keys = NoKeys /\ LastFetchFailed(keyset')
            [] caller' = "invalid" ->
                 \/ Refused(req.token) \/ ~ClaimsHold(req.token, now)
                 \/ since[kid] = NoKeys
                 \/ now - since[kid] < Refetch
                 \/ LastFetchFailed(keyset')
<1>1. IndInv /\ [Next]_vars => [Fine]_vars
  <2> SUFFICES ASSUME IndInv, Next, pc = "caller", pc' = "acquire", req.token # NoToken
               PROVE  Fine
    OBVIOUS
  <2> DEFINE kid == req.token.kid
  <2>1. Identify
    BY DEF Next, Tick, RotateSecret, Publish, Break, Recycle, Arrive, CheckKey, BarePath,
       CheckAssertion, Acquire, Bind, Route, Unbind, Release, Goto, End, request
  <2>2. kid \in Kids
    BY DEF IndInv, RequestOK
  <2>3. /\ caller' = Verdict(req.token, keyset', now)
        /\ \/ Refused(req.token)
           \/ \E got \in Loads : keyset' = AfterLookup(keyset, kid, now, got)
    BY <2>1 DEF Identify
  <2>4. CASE Refused(req.token)
    <3>1. caller' = "invalid"
      BY <2>3, <2>4 DEF Verdict
    <3>2. QED
      BY <2>4, <3>1
  <2>5. CASE ~Refused(req.token)
    <3>1. PICK got \in Loads : keyset' = AfterLookup(keyset, kid, now, got)
      BY <2>3, <2>5
    <3> HIDE DEF kid
    <3>2. /\ Holds(keyset', kid) => now - until[kid] < JwksTTL \/ LastFetchFailed(keyset')
          /\ keyset'.keys = NoKeys => LastFetchFailed(keyset')
          /\ keyset'.keys # NoKeys /\ ~Holds(keyset', kid) =>
               since[kid] = NoKeys \/ now - since[kid] < Refetch \/ LastFetchFailed(keyset')
      BY <2>2, <3>1, LookupIsCurrent
    <3>3. CASE keyset'.keys = NoKeys
      <4>1. caller' = "unavailable"
        BY <2>3, <2>5, <3>3 DEF Verdict
      <4>2. QED
        BY <3>2, <3>3, <4>1
    <3>4. CASE keyset'.keys # NoKeys /\ Holds(keyset', kid) /\ ClaimsHold(req.token, now)
      <4>1. caller' = "ok"
        BY <2>3, <2>5, <3>4 DEF Verdict, kid
      <4>2. QED
        BY <2>5, <3>2, <3>4, <4>1 DEF kid
    <3>5. CASE keyset'.keys # NoKeys /\ ~(Holds(keyset', kid) /\ ClaimsHold(req.token, now))
      <4>1. caller' = "invalid"
        BY <2>3, <2>5, <3>5 DEF Verdict, kid
      <4>2. QED
        BY <2>5, <3>2, <3>5, <4>1 DEF kid
    <3>6. QED
      BY <3>3, <3>4, <3>5
  <2>6. QED
    BY <2>4, <2>5
<1>2. QED
  BY Inductive, <1>1, PTL DEF Spec, SigningKeyIsCurrent
=============================================================================
