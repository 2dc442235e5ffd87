--------------------------- MODULE TenantAssertion ---------------------------
(***************************************************************************)
(* The signed tenant of a /{slug} request                                  *)
(* (backend/shared/tenant_assertion.py).  A signature is named by the edge *)
(* key it is derived from.                                                 *)
(***************************************************************************)
EXTENDS Integers

CONSTANTS
  Tenants,        \* canonical tenant ids
  DefaultTenant,  \* the tenant of a request with no assertion
  NoAssertion,    \* no x-tp-tenant header, or an empty one
  MaxLifetime,    \* TENANT_ASSERTION_MAX_LIFETIME_S
  Skew            \* TENANT_ASSERTION_SKEW_S

ASSUME TenantsAssumption == DefaultTenant \in Tenants

ASSUME LifetimeAssumption == MaxLifetime \in Nat /\ Skew \in Nat

(* An over-long or broken header value, or one whose payload is not the four *)
(* claims with a uuid and a slug, is not well formed.                        *)
Claims(wellFormed, tenant, key, iat, exp) ==
  [wellFormed |-> wellFormed, tenant |-> tenant, key |-> key, iat |-> iat, exp |-> exp]

Lifetime(a) == a.iat < a.exp /\ a.exp - a.iat <= MaxLifetime

(* Mutant: an assertion is good until it has been signed too long ago. *)
Mut_NoExpiry(a, key, now) ==
  a.wellFormed /\ a.key = key /\ Lifetime(a) /\ a.iat <= now + Skew

Verified(a, key, now) ==
  /\ a.wellFormed
  /\ a.key = key
  /\ Lifetime(a)
  /\ a.iat <= now + Skew
  /\ now < a.exp
=============================================================================
