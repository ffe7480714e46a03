----------------------------- MODULE SearchCache -----------------------------
(***************************************************************************)
(* TtlLruCache (search/searchCache.ts): the responses of one warm instance.*)
(* A JavaScript Map keeps its keys in the order of their first insertion,  *)
(* so the cache is a sequence of entries, the first one the next to be     *)
(* evicted.  An entry holds its normalized query, the time left until      *)
(* expiresAt (negative: expired) and the age of the data it shows.         *)
(***************************************************************************)
EXTENDS Integers, Sequences

CONSTANTS Queries,     \* queries, each standing for all that normalizeKey joins
          MaxEntries,  \* maxEntries: 300
          Ttl          \* SEARCH_CACHE_TTL_MS, in ticks

ASSUME CacheAssumption == MaxEntries \in Nat \ {0} /\ Ttl \in Nat \ {0}

Expired == -1

Holds(cache, q) == \E i \in DOMAIN cache : cache[i].query = q

Place(cache, q) == CHOOSE i \in DOMAIN cache : cache[i].query = q

(* Map.delete *)
Without(cache, q) ==
    LET n == Place(cache, q)
    IN IF Holds(cache, q)
       THEN SubSeq(cache, 1, n - 1) \o SubSeq(cache, n + 1, Len(cache))
       ELSE cache

(* Whether get returns a value: Date.now() > expiresAt is a miss. *)
Live(cache, q) == Holds(cache, q) /\ cache[Place(cache, q)].left >= 0

(* Faulty variant: a hit starts a new lifetime. *)
GotRenewing(cache, q) ==
    IF Live(cache, q)
    THEN Append(Without(cache, q), [cache[Place(cache, q)] EXCEPT !.left = Ttl])
    ELSE Without(cache, q)

(* The cache after get: a hit becomes the newest entry and keeps its expiry,
   an expired entry is deleted. *)
Got(cache, q) ==
    IF Live(cache, q)
    THEN Append(Without(cache, q), cache[Place(cache, q)])
    ELSE Without(cache, q)

(* Faulty variant: the size is compared after it was passed. *)
EvictedLate(cache) == IF Len(cache) > MaxEntries THEN Tail(cache) ELSE cache

(* set makes room before it looks whether q is present. *)
Evicted(cache) == IF Len(cache) >= MaxEntries THEN Tail(cache) ELSE cache

(* The cache after set: Map.set keeps the place of a key that is present. *)
Stored(cache, q, age) ==
    LET room == Evicted(cache)
        entry == [query |-> q, left |-> Ttl, age |-> age]
    IN IF Holds(room, q)
       THEN [room EXCEPT ![Place(room, q)] = entry]
       ELSE Append(room, entry)
==============================================================================
