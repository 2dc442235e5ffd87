------------------------------- MODULE KeySet -------------------------------
(***************************************************************************)
(* The key set of one issuer as a container keeps it, and what it makes of *)
(* an access token (backend/shared/identity_verifier.py, JwksCache and     *)
(* MultiIssuerVerifier).  An instance serves one request at a time, so the *)
(* cache's lock is never contended.                                        *)
(***************************************************************************)
EXTENDS Integers

CONSTANTS
  NoKeys,      \* no key set was ever loaded; no attempt was ever made
  JwksTTL,     \* JWKS_TTL_S
  Refetch,     \* UNKNOWN_KID_REFETCH_S
  ColdRetry,   \* COLD_RETRY_S
  Leeway,      \* leeway_s
  Issuer,      \* the one accepted issuer
  Clients      \* the client ids accepted from it

ASSUME JwksTimesAssumption ==
  /\ {JwksTTL, Refetch, ColdRetry} \subseteq Nat \ {0}
  /\ Refetch <= JwksTTL
  /\ Leeway \in Nat

NoSet == [keys |-> NoKeys, fetched |-> 0, attempted |-> NoKeys]

(* The kids of the RS256 signing keys of a JWKS document; a field that is    *)
(* left out is read as the value it defaults to.                             *)
RsaKeys(document) ==
  {e.kid : e \in {d \in document : d.kty = "RSA" /\ d.use = "sig" /\ d.alg = "RS256"}}

MayFetch(c, now) ==
  \/ c.attempted = NoKeys
  \/ now - c.attempted >= IF c.keys = NoKeys THEN ColdRetry ELSE Refetch

(* A fetch that fails, or finds no usable key, keeps the last good set. *)
Refresh(c, now, got) ==
  IF got = {} THEN [c EXCEPT !.attempted = now]
  ELSE [keys |-> got, fetched |-> now, attempted |-> now]

(* Mutant: a key once loaded is served whatever its age. *)
Mut_NeverStale(c, now) == c.keys = NoKeys

Stale(c, now) == c.keys = NoKeys \/ now - c.fetched >= JwksTTL

Holds(c, kid) == c.keys # NoKeys /\ kid \in c.keys

(* Mutant: a fresh set is asked for no key it does not hold. *)
Mut_OnlyWhenStale(c, kid, now) == Stale(c, now) /\ MayFetch(c, now)

(* Whether the lookup of a kid fetches: nothing fresh holds it, and a fetch  *)
(* is due.                                                                   *)
Asks(c, kid, now) == (Stale(c, now) \/ ~Holds(c, kid)) /\ MayFetch(c, now)

AfterLookup(c, kid, now, got) == IF Asks(c, kid, now) THEN Refresh(c, now, got) ELSE c

(* What is decided before any key is looked up. *)
Refused(token) ==
  \/ ~token.wellFormed
  \/ token.alg # "RS256"
  \/ token.iss # Issuer

(* Signature, expiry, kind, audience and subject. *)
ClaimsHold(token, now) ==
  /\ token.signed
  /\ now - Leeway < token.exp
  /\ token.use = "access"
  /\ token.client \in Clients
  /\ token.sub

(* verify: "ok" is a Principal, "invalid" InvalidToken, "unavailable"        *)
(* AuthUnavailable; `after` is the cache after the lookup.                   *)
Verdict(token, after, now) ==
  IF Refused(token) THEN "invalid"
  ELSE IF after.keys = NoKeys THEN "unavailable"
  ELSE IF Holds(after, token.kid) /\ ClaimsHold(token, now) THEN "ok" ELSE "invalid"
=============================================================================
