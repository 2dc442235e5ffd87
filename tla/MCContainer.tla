---------------------------- MODULE MCContainer ----------------------------
(* Two values of the secret, three key sets an issuer rotates through, two  *)
(* tenants, and requests that bring a good or a broken part each.            *)
EXTENDS Container

CONSTANTS old, new, blank, error, off, absent, k1, k2, issuer, web, cold, demo, acme, none, bare

MCKeys == {old, new}
MCKids == {k1, k2}
MCTenants == {demo, acme}
MCClients == {web}

Jwk(kid, kty, use, alg) == [kid |-> kid, kty |-> kty, use |-> use, alg |-> alg]
Signing(kid) == Jwk(kid, "RSA", "sig", "RS256")

(* Before, during and after a rotation; k2 is first published to encrypt.    *)
MCDocuments ==
  {{Signing(k1), Jwk(k2, "RSA", "enc", "RS256")}, {Signing(k1), Signing(k2)}, {Signing(k2)}}

Token(kid, life, client) ==
  [wellFormed |-> TRUE, alg |-> "RS256", iss |-> issuer, kid |-> kid, signed |-> TRUE,
   exp |-> life, use |-> "access", client |-> client, sub |-> TRUE]

Good(kid) == Token(kid, MaxTime + 1, web)

MCWorkload ==
  LET ask(key, assertion, token) == [key |-> key, assertion |-> assertion, token |-> token]
      signed(key, iat, exp) == Claims(TRUE, acme, key, iat, exp)
  IN {ask(old, bare, absent), ask(old, bare, Good(k1)), ask(new, bare, Good(k2)),
      ask(old, bare, Token(k1, 1, web)), ask(old, bare, Token(k1, MaxTime + 1, none)),
      ask(old, bare, [Good(k1) EXCEPT !.alg = "none"]),
      ask(old, bare, [Good(k2) EXCEPT !.signed = FALSE]),
      ask(old, bare, [Good(k1) EXCEPT !.use = "id"]),
      ask(old, signed(old, 0, 2), absent), ask(new, signed(new, 1, 3), absent),
      ask(old, signed(old, -3, -1), absent), ask(new, signed(old, 0, 1), absent),
      ask(old, signed(old, 2, 3), absent), ask(old, signed(old, -1, 3), absent),
      ask(old, Claims(FALSE, acme, old, 0, 1), absent),
      ask(none, bare, absent)}

(* One rotation at a time: the key set rotates where the edge key does not,  *)
(* and access tokens of every kind come there.                               *)
OneRotates ==
  \/ setting = "env"
  \/ /\ document = {Signing(k1), Signing(k2)}
     /\ req # None => req.token \in {absent, Good(k1)}
=============================================================================
