------------------------------- MODULE Search -------------------------------
(***************************************************************************)
(* Semantic search in one browse container (backend/browse/search.py with  *)
(* embedding_space.py, the embedding half of llm_gateway.py and the rate   *)
(* limit of browse/handler.py).  Requests are served one after another;    *)
(* CIS swaps the embedding column to another space, an admin changes the   *)
(* route, and other containers count the same traveller's requests, between *)
(* any two steps of one.                                                   *)
(*                                                                         *)
(* A vector is the space (the base model) it was made in and the text.     *)
(***************************************************************************)
EXTENDS Integers, FiniteSets, RateLimit, QueryCache

CONSTANTS
  Bases,          \* base models, each an embedding space
  First,          \* the space of the column before the registry view exists
  Queries,        \* queries by their normal form (normalise_query)
  Blank,          \* those with no word to search for
  Routes,         \* the routes an admin may set: sequences of model rows
  None,
  ConfigTTL,      \* _CACHE_TTL_SECONDS of the route, CACHE_TTL_SECONDS of the space
  Cooldown,       \* THROTTLE_COOLDOWN_SECONDS
  RequestLife, \* the function's timeout
  MaxTime, MaxRequests, MaxChanges  \* bounds on the clock, the requests, the changes around them

(* A row is a model of the route's chain on one deployment. *)
Rows == [key : STRING, base : Bases, enabled : BOOLEAN]

ASSUME RoutesAssumption == \A r \in Routes : r \in Seq(Rows) /\ r # <<>>

ASSUME QueriesAssumption == First \in Bases /\ Blank \in Queries

ASSUME NoneAssumption == None \notin Bases \cup [query : Queries, signed : BOOLEAN, at : Nat]

ASSUME SearchTimesAssumption == {ConfigTTL, Cooldown, RequestLife} \subseteq Nat \ {0}

VARIABLES
  now,
  column,      \* the space the searched column is in
  view,        \* whether the registry view exists
  route,       \* the active route
  routeCache, spaceCache,  \* [value, at], None before the first read
  vectors,     \* query_embed_cache
  cooled,      \* _throttled_until
  row,         \* the traveller's row of ai_rate_counter
  pc, req,     \* the request under way: its query, whether it is signed in
  plan,        \* the rows of the route the request may use
  vec,         \* the query vector, None for a keyword ranking
  served,
  changes,     \* what has happened around the container
  changed,     \* (history) when the column was last swapped or the view made
  passed       \* (history) requests counted and let through in the window: guests', all

vars == <<now, column, view, route, routeCache, spaceCache, vectors, cooled, row,
          pc, req, plan, vec, served, changes, changed, passed>>

registry == <<column, view, route, changed>>
caches == <<routeCache, spaceCache, vectors, cooled>>
limiter == <<row, passed>>
request == <<pc, req, plan, vec, served>>

Init ==
  /\ now = 0
  /\ column = First /\ view \in BOOLEAN
  /\ route \in {r \in Routes : \A i \in 1..Len(r) : r[i].base = First}
  /\ routeCache = None /\ spaceCache = None /\ vectors = <<>>
  /\ cooled = 0
  /\ row = NoRow
  /\ pc = "idle" /\ req = None /\ plan = {} /\ vec = None /\ served = 0 /\ changes = 0
  /\ changed = -(ConfigTTL + RequestLife)
  /\ passed = [guest |-> 0, all |-> 0]

Goto(to) == pc' = to

Change == changes < MaxChanges /\ changes' = changes + 1

-----------------------------------------------------------------------------
(* The world around the container. *)

Tick ==
  /\ now < MaxTime
  /\ req # None => now - req.at < RequestLife
  /\ now' = now + 1
  /\ passed' = IF WindowStart(now') = WindowStart(now) THEN passed ELSE [guest |-> 0, all |-> 0]
  /\ UNCHANGED <<changes, registry, caches, row, request>>

(* The registry view is created before anything leaves the first space. *)
Migrate ==
  /\ Change
  /\ ~view
  /\ view' = TRUE
  /\ changed' = now
  /\ UNCHANGED <<now, column, route, caches, limiter, request>>

(* A re-embed of the column ends in a swap. *)
Swap ==
  /\ Change
  /\ view
  /\ column' \in Bases \ {column}
  /\ changed' = now
  /\ UNCHANGED <<now, view, route, caches, limiter, request>>

SetRoute ==
  /\ Change
  /\ view
  /\ route' \in Routes \ {route}
  /\ UNCHANGED <<now, column, view, changed, caches, limiter, request>>

-----------------------------------------------------------------------------
(* The limit. *)

Pass(signed) ==
  passed' = [guest |-> passed.guest + (IF signed THEN 0 ELSE 1), all |-> passed.all + 1]

(* Another container counts a request of the traveller. *)
Elsewhere ==
  /\ Change
  /\ row.count <= Limit * Factor
  /\ row' = Upsert(row, now)
  /\ \E signed \in BOOLEAN : IF Allowed(row', signed) THEN Pass(signed) ELSE UNCHANGED passed
  /\ UNCHANGED <<now, registry, caches, request>>

Arrive ==
  /\ pc = "idle" /\ served < MaxRequests
  /\ \E q \in Queries, signed \in BOOLEAN : req' = [query |-> q, signed |-> signed, at |-> now]
  /\ served' = served + 1
  /\ Goto("limit")
  /\ UNCHANGED <<changes, now, registry, caches, limiter, plan, vec>>

End == Goto("idle") /\ req' = None /\ plan' = {} /\ vec' = None /\ served' = served

(* Nothing to rank: answered with no count and no call. *)
NoWord ==
  /\ pc = "limit" /\ req.query = Blank
  /\ End
  /\ UNCHANGED <<changes, now, registry, caches, limiter>>

(* A counter that cannot be written lets the request through. *)
Hit ==
  /\ pc = "limit" /\ req.query # Blank
  /\ \/ /\ row' = Upsert(row, now)
        /\ \/ Allowed(row', req.signed) /\ Pass(req.signed) /\ Goto("load") /\ UNCHANGED <<req, plan, vec, served>>
           \/ ~Allowed(row', req.signed) /\ End /\ passed' = passed
     \/ Goto("load") /\ UNCHANGED <<limiter, req, plan, vec, served>>
  /\ UNCHANGED <<changes, now, registry, caches>>

-----------------------------------------------------------------------------
(* The query vector. *)

Valid(cache) == cache # None /\ now - cache.at < ConfigTTL

(* The cached value, or what a read finds. *)
Loaded(cache, found) == IF Valid(cache) THEN cache ELSE [value |-> found, at |-> now]

(* The space the registry names, None while it names none. *)
Registered == IF view THEN column ELSE None

(* Mutant: the route is used as it is. *)
Mut_Unrestricted(r, space) == {r[i] : i \in 1..Len(r)}

(* The models of the space only, or all while the space is not known. *)
Restrict(r, space) == {m \in {r[i] : i \in 1..Len(r)} : space \in {None, m.base}}

ByKeyword == Goto("rank") /\ UNCHANGED <<req, plan, vec, served>>

(* A read that fails is not cached, and AI switched off refuses: keyword.    *)
Unreadable ==
  /\ pc = "load"
  /\ ByKeyword
  /\ \/ UNCHANGED <<routeCache, spaceCache>>
     \/ routeCache' = Loaded(routeCache, route) /\ spaceCache' = spaceCache
  /\ UNCHANGED <<changes, now, registry, vectors, cooled, limiter>>

Load ==
  /\ pc = "load"
  /\ routeCache' = Loaded(routeCache, route)
  /\ spaceCache' = Loaded(spaceCache, Registered)
  /\ plan' = Restrict(routeCache'.value, spaceCache'.value)
  /\ Goto(IF plan' = {} THEN "rank" ELSE "lookup")
  /\ UNCHANGED <<changes, now, registry, vectors, cooled, limiter, req, vec, served>>

Models(p) == {m.base : m \in p}

(* Mutant: the key names the rows of the catalog, not the models behind them. *)
Mut_ByRow(p, q) == [models |-> {m.key : m \in p}, norm |-> q]

Key(p, q) == [models |-> Models(p), norm |-> q]

(* A hit, or the cooldown after a throttle, or on to the budget. *)
Lookup ==
  LET key == Key(plan, req.query)
      hits == Hits(vectors, key, now)
  IN /\ pc = "lookup"
     /\ vectors' = AfterGet(vectors, key, now)
     /\ vec' = IF hits = {} THEN None ELSE (CHOOSE e \in hits : TRUE).vec
     /\ Goto(IF hits # {} \/ now < cooled THEN "rank" ELSE "budget")
     /\ UNCHANGED <<changes, now, registry, routeCache, spaceCache, cooled, limiter, req, plan, served>>

(* Over a cap, or the spend unreadable: keyword. *)
Budget ==
  /\ pc = "budget"
  /\ pc' \in {"embed", "rank"}
  /\ UNCHANGED <<changes, now, registry, caches, limiter, req, plan, vec, served>>

Enabled(p) == {m \in p : m.enabled}

(* Each enabled row in turn until one answers. *)
Answered ==
  /\ pc = "embed"
  /\ \E m \in Enabled(plan) : vec' = [space |-> m.base, norm |-> req.query]
  /\ vectors' = AfterPut(vectors, Key(plan, req.query), vec', now)
  /\ Goto("rank")
  /\ UNCHANGED <<changes, now, registry, routeCache, spaceCache, cooled, limiter, req, plan, served>>

(* Every row failed, one of them throttled. *)
Throttled ==
  /\ pc = "embed" /\ Enabled(plan) # {}
  /\ cooled' = now + Cooldown
  /\ ByKeyword
  /\ UNCHANGED <<changes, now, registry, routeCache, spaceCache, vectors, limiter>>

(* Every row failed otherwise, or was behind an open circuit and not called. *)
Failed ==
  /\ pc = "embed"
  /\ ByKeyword
  /\ UNCHANGED <<changes, now, registry, routeCache, spaceCache, vectors, cooled, limiter>>

(* The ranking compares vec with the column, or matches keywords. *)
Rank ==
  /\ pc = "rank"
  /\ End
  /\ UNCHANGED <<changes, now, registry, caches, limiter>>

(* The runtime times out or is recycled: the next request finds no caches.   *)
Recycle ==
  /\ Change
  /\ routeCache' = None /\ spaceCache' = None /\ vectors' = <<>>
  /\ cooled' = 0
  /\ End
  /\ UNCHANGED <<now, registry, limiter>>

Next ==
  \/ Recycle \/ Tick \/ Migrate \/ Swap \/ SetRoute \/ Elsewhere
  \/ Arrive \/ NoWord \/ Hit \/ Unreadable \/ Load \/ Lookup \/ Budget
  \/ Answered \/ Throttled \/ Failed \/ Rank

Spec == Init /\ [][Next]_vars

-----------------------------------------------------------------------------
Times == 0..MaxTime
Vectors == [space : Bases, norm : Queries]

(* The type of every variable. *)
TypeOK ==
  /\ now \in Times
  /\ column \in Bases /\ view \in BOOLEAN /\ route \in Routes
  /\ routeCache # None => routeCache.value \in Routes /\ routeCache.at \in Times
  /\ spaceCache # None => spaceCache.value \in Bases \cup {None} /\ spaceCache.at \in Times
  /\ Len(vectors) <= MaxEntries
  /\ \A i \in 1..Len(vectors) : vectors[i].vec \in Vectors /\ vectors[i].at \in Times
  /\ \A i, j \in 1..Len(vectors) : vectors[i].key = vectors[j].key => i = j
  /\ cooled \in 0..(MaxTime + Cooldown)
  /\ row.start \in Times /\ row.count \in 0..(MaxRequests + Limit * Factor + 1)
  /\ pc \in {"idle", "limit", "load", "lookup", "budget", "embed", "rank"}
  /\ vec \in Vectors \cup {None}
  /\ served \in 0..MaxRequests /\ changes \in 0..MaxChanges

(* A semantic ranking compares the query's own vector with a column in the   *)
(* same space, through swaps, routes of several models and vectors cached    *)
(* before: only a swap less than ConfigTTL, and this request's life, ago may *)
(* go unnoticed (embedding_space.restrict, llm_gateway.embed_cache_key).     *)
SameSpace ==
  pc = "rank" /\ vec # None =>
    /\ vec.norm = req.query
    /\ vec.space = column \/ now - changed < ConfigTTL + RequestLife

(* In a window a traveller's requests counted and let through, by all        *)
(* containers, are at most the allowance, a guest's at most the guest's; and *)
(* a client that waits as long as a refusal says meets a new window.         *)
FairShare ==
  /\ passed.guest <= Limit /\ passed.all <= Limit * Factor
  /\ row.count > 0 /\ WindowStart(now) = row.start =>
       /\ RetryAfter(row, now) > 0
       /\ Upsert(row, now + RetryAfter(row, now)).count = 1

(* A call to the model goes out only for a text the container holds no live  *)
(* vector of from that model, whichever rows of the catalog lead to it: the  *)
(* twenty requests a minute are spent on new queries                         *)
(* (llm_gateway.embed_cache_key).  Vectors stored while the container may    *)
(* not know the column's space yet can be under several models, and do not   *)
(* count.                                                                    *)
SparesTheQuota ==
  pc = "embed" =>
    ~\E i \in 1..Len(vectors) :
       /\ vectors[i].vec.norm = req.query
       /\ Models(plan) = {vectors[i].vec.space}
       /\ now - vectors[i].at < CacheTTL
       /\ vectors[i].at - changed >= ConfigTTL + RequestLife
=============================================================================
