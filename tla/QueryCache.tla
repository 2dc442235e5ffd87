----------------------------- MODULE QueryCache -----------------------------
(***************************************************************************)
(* The query embeddings a browse container keeps (llm_gateway,             *)
(* EmbeddingCache): the least recently used entry first, each with the     *)
(* time it was stored.                                                     *)
(***************************************************************************)
EXTENDS Naturals, Sequences

CONSTANTS
  CacheTTL,    \* EMBED_CACHE_TTL_SECONDS
  MaxEntries   \* EMBED_CACHE_MAX_ENTRIES

ASSUME CacheAssumption == CacheTTL \in Nat \ {0} /\ MaxEntries \in Nat \ {0}

Entry(key, vec, at) == [key |-> key, vec |-> vec, at |-> at]

(* Where the key is, in one place at most. *)
Places(cache, key) == {i \in 1..Len(cache) : cache[i].key = key}

Without(cache, key) ==
  IF Places(cache, key) = {} THEN cache
  ELSE LET i == CHOOSE i \in Places(cache, key) : TRUE
       IN SubSeq(cache, 1, i - 1) \o SubSeq(cache, i + 1, Len(cache))

Cached(cache, key) == {cache[i] : i \in Places(cache, key)}

Hits(cache, key, now) == {e \in Cached(cache, key) : now - e.at < CacheTTL}

(* A hit becomes the most recent entry, an expired one is deleted. *)
AfterGet(cache, key, now) ==
  LET rest == Without(cache, key)
      hits == Hits(cache, key, now)
  IN IF hits = {} THEN rest ELSE Append(rest, CHOOSE e \in hits : TRUE)

AfterPut(cache, key, vec, now) ==
  LET grown == Append(Without(cache, key), Entry(key, vec, now))
  IN IF Len(grown) > MaxEntries THEN Tail(grown) ELSE grown
=============================================================================
