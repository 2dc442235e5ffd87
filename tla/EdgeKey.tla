------------------------------ MODULE EdgeKey ------------------------------
(***************************************************************************)
(* The shared secret the BFF proves itself with (backend/shared/auth.py):  *)
(* where a function takes the expected key from, and what the container's  *)
(* cache of the Secrets Manager value becomes by taking it.                *)
(***************************************************************************)
EXTENDS Naturals

CONSTANTS
  Keys,         \* usable values of the secret
  Placeholder,  \* an empty, blank or REPLACE_ME value
  Error,        \* the read raised
  Gate,         \* what expected_key returns when the gate is disabled
  None,
  KeyTTL,       \* API_KEY_CACHE_SECONDS
  KeyRetry      \* API_KEY_RETRY_AFTER_SECONDS

ASSUME KeyTimesAssumption == KeyTTL \in Nat \ {0} /\ KeyRetry \in Nat \ {0}

ASSUME KeysAssumption ==
  /\ {Placeholder, Error, Gate, None} \cap Keys = {}
  /\ Gate # None

(* Where the key comes from: the function's environment, a placeholder       *)
(* there, Secrets Manager, Secrets Manager with no ENVIRONMENT to name the   *)
(* secret by, or nowhere (off Lambda).                                       *)
Settings == {"env", "envPlaceholder", "secret", "unnamed", "local"}

Empty == [value |-> None, fetched |-> 0, retry |-> 0]

Usable(value) == value \in Keys

Fresh(c, now) == c.value # None /\ now - c.fetched < KeyTTL

Waiting(c, now) == now < c.retry

ReadFailed(c, now) == [c EXCEPT !.retry = now + KeyRetry]

(* Mutant: a cached key is good for the life of the container. *)
Mut_CachedForEver(c, now, read) ==
  IF c.value # None THEN [key |-> c.value, cache |-> c]
  ELSE IF Usable(read) THEN [key |-> read, cache |-> [value |-> read, fetched |-> now, retry |-> 0]]
  ELSE [key |-> None, cache |-> ReadFailed(c, now)]

(* The key, None when it is unavailable; `read` is what Secrets Manager     *)
(* answers if it is asked.                                                   *)
KeyFromSecretsManager(c, now, read) ==
  CASE Fresh(c, now) \/ Waiting(c, now) -> [key |-> c.value, cache |-> c]
    [] OTHER ->
         CASE read = Error   -> [key |-> c.value, cache |-> ReadFailed(c, now)]
           [] Usable(read)   -> [key |-> read, cache |-> [value |-> read, fetched |-> now, retry |-> 0]]
           [] OTHER          -> [key |-> None, cache |-> ReadFailed(c, now)]

ExpectedKey(setting, envKey, c, now, read) ==
  CASE setting = "env"                          -> [key |-> envKey, cache |-> c]
    [] setting \in {"envPlaceholder", "unnamed"} -> [key |-> None, cache |-> c]
    [] setting = "local"                        -> [key |-> Gate, cache |-> c]
    [] setting = "secret"                       -> KeyFromSecretsManager(c, now, read)

(* check_event: None lets the request through. *)
CheckEvent(expected, provided) ==
  IF expected = None THEN "503"
  ELSE IF expected = Gate \/ provided = expected THEN "allowed" ELSE "401"
=============================================================================
