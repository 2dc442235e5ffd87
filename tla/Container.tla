----------------------------- MODULE Container -----------------------------
(***************************************************************************)
(* What an assembly Lambda container keeps between the requests it serves, *)
(* one after another: the edge key, the issuer's key set and the pooled    *)
(* database connection with its tenant context.  Time passes, the secret   *)
(* and the published keys rotate, reads fail and the connection breaks at  *)
(* any step (handler._handle and serve, shared/tenant.py, shared/db.py).   *)
(*                                                                         *)
(* A request goes through check_event, the tenant assertion, the caller's  *)
(* access token, acquire, bind, route, unbind and release.                 *)
(***************************************************************************)
EXTENDS EdgeKey, TenantAssertion, KeySet

CONSTANTS
  EnvKey,      \* TRIPPLANNER_API_KEY where it is set
  Kids,        \* key ids the issuer uses
  Documents,   \* JWKS documents it may publish
  NoToken,     \* no x-tripplanner-access header
  Workload,    \* requests: the key, the assertion and the token they bring
  MaxTime      \* bound on the clock

ASSUME WorldAssumption ==
  /\ EnvKey \in Keys
  /\ NoKeys \notin Int
  /\ None \notin Tenants
  /\ \A d \in Documents : RsaKeys(d) \subseteq Kids
  /\ MaxTime \in Nat

(* An assertion's times are offsets from its arrival. *)
ASSUME WorkloadAssumption ==
  \A w \in Workload :
    /\ w = [key |-> w.key, assertion |-> w.assertion, token |-> w.token]
    /\ \/ w.assertion = NoAssertion
       \/ LET a == w.assertion
          IN /\ a = Claims(a.wellFormed, a.tenant, a.key, a.iat, a.exp)
             /\ a.tenant \in Tenants /\ a.iat \in Int /\ a.exp \in Int
    /\ w.token # NoToken => w.token.kid \in Kids

VARIABLES
  now,
  setting,   \* where the edge key comes from
  secret,    \* the value in Secrets Manager
  document,  \* the JWKS document the issuer publishes
  edge,      \* auth._cache
  keyset,    \* the verifier's JwksCache
  conn,      \* the pool's only connection: [open, context]
  pc, req,   \* the request under way
  tenant,    \* the tenant serve() is given
  caller,    \* the caller's state
  held,      \* (history) when each key was last the secret
  since,     \* (history) since when each kid is published, NoKeys when it is not
  until,     \* (history) when each kid was last published
  found      \* (history) what the last read of the secret found

vars == <<now, setting, secret, document, edge, keyset, conn, pc, req, tenant, caller,
          held, since, until, found>>

world == <<now, setting, secret, document, held, since, until>>
caches == <<edge, found, keyset>>
request == <<pc, req, tenant, caller>>

Closed == [open |-> FALSE, context |-> None]

Published(d, kid) == kid \in RsaKeys(d)

Init ==
  /\ now = 0
  /\ setting \in Settings
  /\ secret \in Keys
  /\ document \in Documents
  /\ edge = Empty /\ found = None /\ keyset = NoSet /\ conn = Closed
  /\ pc = "idle" /\ req = None /\ tenant = None /\ caller = None
  /\ held = [k \in Keys |-> IF k = secret THEN 0 ELSE -KeyTTL]
  /\ since = [k \in Kids |-> IF Published(document, k) THEN 0 ELSE NoKeys]
  /\ until = [k \in Kids |-> IF Published(document, k) THEN 0 ELSE -JwksTTL]

-----------------------------------------------------------------------------
(* The world around the container. *)

Tick ==
  /\ now < MaxTime
  /\ now' = now + 1
  /\ held' = [k \in Keys |-> IF k = secret THEN now' ELSE held[k]]
  /\ until' = [k \in Kids |-> IF Published(document, k) THEN now' ELSE until[k]]
  /\ UNCHANGED <<setting, secret, document, since, caches, conn, request>>

RotateSecret ==
  /\ setting = "secret"
  /\ secret' \in (Keys \cup {Placeholder}) \ {secret}
  /\ held' = [k \in Keys |-> IF k = secret' THEN now ELSE held[k]]
  /\ UNCHANGED <<now, setting, document, since, until, caches, conn, request>>

Publish ==
  /\ document' \in Documents \ {document}
  /\ since' = [k \in Kids |-> IF ~Published(document', k) THEN NoKeys
                              ELSE IF since[k] # NoKeys THEN since[k] ELSE now]
  /\ until' = [k \in Kids |-> IF Published(document', k) THEN now ELSE until[k]]
  /\ UNCHANGED <<now, setting, secret, held, caches, conn, request>>

(* The server, or the NAT between, drops the connection with its session. *)
Break ==
  /\ conn.open
  /\ conn' = Closed
  /\ UNCHANGED <<world, caches, request>>

(* The runtime is killed (a timeout) or recycled. *)
Recycle ==
  /\ edge' = Empty /\ found' = None /\ keyset' = NoSet /\ conn' = Closed
  /\ pc' = "idle" /\ req' = None /\ tenant' = None /\ caller' = None
  /\ UNCHANGED world

-----------------------------------------------------------------------------
(* A request.  An answer that ends it early leaves no trace in the container. *)

Goto(to) == pc' = to

End == pc' = "idle" /\ req' = None /\ tenant' = None /\ caller' = None

(* An assertion of the workload is signed an offset before its arrival. *)
At(a) == IF a = NoAssertion THEN a ELSE [a EXCEPT !.iat = @ + now, !.exp = @ + now]

Arrive ==
  /\ pc = "idle"
  /\ \E w \in Workload : req' = [w EXCEPT !.assertion = At(@)]
  /\ Goto("edge")
  /\ UNCHANGED <<world, caches, conn, tenant, caller>>

(* What a read of the secret returns: it may always fail.  A lookup that     *)
(* leaves the cache as it was has not read.                                  *)
Reads == {secret, Error}

Keep(cache, read) == edge' = cache /\ found' = IF cache = edge THEN found ELSE read

CheckKey ==
  /\ pc = "edge"
  /\ \E read \in Reads :
       LET got == ExpectedKey(setting, EnvKey, edge, now, read)
       IN /\ Keep(got.cache, read)
          /\ IF CheckEvent(got.key, req.key) = "allowed"
             THEN Goto("assertion") /\ UNCHANGED <<req, tenant, caller>>
             ELSE End
  /\ UNCHANGED <<world, keyset, conn>>

(* No assertion: the default tenant. *)
BarePath ==
  /\ pc = "assertion" /\ req.assertion = NoAssertion
  /\ tenant' = DefaultTenant
  /\ Goto("caller")
  /\ UNCHANGED <<world, caches, conn, req, caller>>

(* Mutant: an assertion that does not check out is the bare path. *)
Mut_RefusedIsBare ==
  /\ pc = "assertion" /\ req.assertion # NoAssertion
  /\ \E read \in Reads :
       LET got == ExpectedKey(setting, EnvKey, edge, now, read)
           good == got.key \in Keys /\ Verified(req.assertion, got.key, now)
       IN /\ Keep(got.cache, read)
          /\ tenant' = (IF good THEN req.assertion.tenant ELSE DefaultTenant)
          /\ Goto("caller") /\ UNCHANGED <<req, caller>>
  /\ UNCHANGED <<world, keyset, conn>>

(* The assertion is checked against the key expected_key gives now: the key  *)
(* cache is read a second time.                                              *)
CheckAssertion ==
  /\ pc = "assertion" /\ req.assertion # NoAssertion
  /\ \E read \in Reads :
       LET got == ExpectedKey(setting, EnvKey, edge, now, read)
       IN /\ Keep(got.cache, read)
          /\ IF got.key \in Keys /\ Verified(req.assertion, got.key, now)
             THEN Goto("caller") /\ tenant' = req.assertion.tenant /\ UNCHANGED <<req, caller>>
             ELSE End
  /\ UNCHANGED <<world, keyset, conn>>

(* What a fetch of the JWKS loads: nothing when it fails. *)
Loads == {RsaKeys(document), {}}

Identify ==
  /\ pc = "caller"
  /\ \/ req.token = NoToken /\ caller' = "absent" /\ keyset' = keyset
     \/ /\ req.token # NoToken
        /\ \E got \in Loads :
             keyset' = IF Refused(req.token) THEN keyset
                       ELSE AfterLookup(keyset, req.token.kid, now, got)
        /\ caller' = Verdict(req.token, keyset', now)
  /\ Goto("acquire")
  /\ UNCHANGED <<world, edge, found, conn, req, tenant>>

(* The pool opens a new connection when it has none; that may fail (500).    *)
Acquire ==
  /\ pc = "acquire"
  /\ \/ conn' = [conn EXCEPT !.open = TRUE] /\ Goto("bind") /\ UNCHANGED <<req, tenant, caller>>
     \/ ~conn.open /\ End /\ conn' = conn
  /\ UNCHANGED <<world, caches>>

(* A bind that raises may have reached the server; nothing unbinds it.       *)
Bind ==
  /\ pc = "bind"
  /\ \/ conn.open /\ conn' = [conn EXCEPT !.context = tenant] /\ Goto("route")
     \/ conn.open /\ conn' = [conn EXCEPT !.context = tenant] /\ Goto("release")
     \/ conn' = conn /\ Goto("release")
  /\ UNCHANGED <<world, caches, req, tenant, caller>>

(* The route answers or raises; either way the context is cleared next.      *)
Route ==
  /\ pc = "route"
  /\ Goto("unbind")
  /\ UNCHANGED <<world, caches, conn, req, tenant, caller>>

(* An unbind that fails terminates the connection, if even that is possible. *)
Unbind ==
  /\ pc = "unbind"
  /\ \/ conn.open /\ conn' = [conn EXCEPT !.context = None]
     \/ conn' = Closed
     \/ conn' = conn
  /\ Goto("release")
  /\ UNCHANGED <<world, caches, req, tenant, caller>>

(* Mutant: the pool takes the connection back as it is. *)
Mut_NoReset ==
  /\ pc = "release"
  /\ UNCHANGED conn
  /\ End
  /\ UNCHANGED <<world, caches>>

(* RESET ALL as the pool takes the connection back; if it fails the          *)
(* connection is closed.                                                     *)
Release ==
  /\ pc = "release"
  /\ conn' \in {[conn EXCEPT !.context = None], Closed}
  /\ End
  /\ UNCHANGED <<world, caches>>

Next ==
  \/ Tick \/ RotateSecret \/ Publish \/ Break \/ Recycle
  \/ Arrive \/ CheckKey \/ BarePath \/ CheckAssertion \/ Identify
  \/ Acquire \/ Bind \/ Route \/ Unbind \/ Release

Spec == Init /\ [][Next]_vars

-----------------------------------------------------------------------------
Times == 0..MaxTime

(* The type of every variable; a request that is past the tenant check has a *)
(* tenant.                                                                    *)
TypeOK ==
  /\ now \in Times
  /\ setting \in Settings
  /\ secret \in Keys \cup {Placeholder}
  /\ document \in Documents
  /\ edge \in [value : Keys \cup {None}, fetched : Times, retry : 0..(MaxTime + KeyRetry)]
  /\ found \in Keys \cup {Placeholder, Error, None}
  /\ keyset \in [keys : (SUBSET Kids \ {{}}) \cup {NoKeys}, fetched : Times,
                 attempted : Times \cup {NoKeys}]
  /\ conn \in [open : BOOLEAN, context : Tenants \cup {None}]
  /\ pc \in {"idle", "edge", "assertion", "caller", "acquire", "bind", "route", "unbind", "release"}
  /\ tenant \in Tenants \cup {None}
  /\ caller \in {None, "absent", "ok", "invalid", "unavailable"}
  /\ pc = "idle" <=> req = None
  /\ tenant = None <=> pc \in {"idle", "edge", "assertion"}

(* The request has carried the secret's value of at most KeyTTL ago; an older *)
(* one only while Secrets Manager cannot be read.                            *)
Current(k) ==
  \/ setting = "secret" /\ (now - held[k] < KeyTTL \/ found' \notin Keys)
  \/ setting = "env" /\ k = EnvKey

(* A rotated edge key stops letting requests in, and signing their tenants,  *)
(* one cache life after the rotation, whatever the container read meanwhile  *)
(* (auth._key_from_secrets_manager, called twice in a request); and a tenant *)
(* is bound only within its assertion's own life.                            *)
KeyIsCurrent ==
  [][/\ pc = "edge" /\ pc' = "assertion" => setting = "local" \/ Current(req.key)
     /\ tenant' \notin {None, tenant, DefaultTenant} =>
          /\ Current(req.assertion.key)
          /\ now < req.assertion.exp /\ req.assertion.exp <= now + Skew + MaxLifetime]_vars

(* A statement of a route runs under the tenant its request proved, the      *)
(* default one when it brought no assertion; no context outlives a request,  *)
(* whichever of bind, route, unbind and the connection failed (tenant.bound).*)
OwnTenant ==
  /\ pc \notin {"route", "unbind", "release"} => conn.context = None
  /\ pc = "route" /\ conn.open => conn.context = tenant
  /\ tenant # None => tenant = IF req.assertion = NoAssertion THEN DefaultTenant
                               ELSE req.assertion.tenant

(* Whether the last attempt to fetch the key set failed. *)
LastFetchFailed(c) == c.attempted # NoKeys /\ (c.keys = NoKeys \/ c.attempted # c.fetched)

(* A caller is signed in by a key the issuer withdrew at most JwksTTL ago,   *)
(* or while its key set cannot be fetched.  A good token is refused only     *)
(* when its key is newer than the last fetch, which is at most Refetch old,  *)
(* or that fetch failed; 503 only while no set was ever loaded.              *)
SigningKeyIsCurrent ==
  [][pc = "caller" /\ pc' = "acquire" /\ req.token # NoToken =>
       LET kid == req.token.kid
       IN CASE caller' = "ok" ->
                 /\ ~Refused(req.token) /\ ClaimsHold(req.token, now)
                 /\ now - until[kid] < JwksTTL \/ LastFetchFailed(keyset')
            [] caller' = "unavailable" -> keyset'.keys = NoKeys /\ LastFetchFailed(keyset')
            [] caller' = "invalid" ->
                 \/ Refused(req.token) \/ ~ClaimsHold(req.token, now)
                 \/ since[kid] = NoKeys
                 \/ now - since[kid] < Refetch
                 \/ LastFetchFailed(keyset')]_vars

(* "A key that is ... empty or still the REPLACE_ME placeholder answers 503  *)
(* - never allow through" (auth.py:20-21): the request that reads the        *)
(* placeholder is refused, the next ones pass by the key cached before it.   *)
PlaceholderIsRefused ==
  [][pc = "edge" /\ pc' = "assertion" => found' # Placeholder]_vars
=============================================================================
