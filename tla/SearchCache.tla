------------------------------ MODULE SearchCache ------------------------------
(***************************************************************************)
(* The search cache: MemoryCache and RedisCache of internal/cache, one of  *)
(* which main chooses.  An answer stands for the request that searched.    *)
(***************************************************************************)
EXTENDS ApiClock

CONSTANT Keys   \* cache keys: handlers/search.go joins the query's parameters

Absent == [by |-> "none", stored |-> MaxTime + 1]

VARIABLES
    redis,      \* whether main chose RedisCache
    ttl,        \* the configured lifetime, GATEWAY_SEARCH_CACHE_TTL
    entries     \* entries[k]: whose answer is under k and since when, or Absent;
                \*   its expiry is stored + ttl

cacheVars == <<redis, ttl, entries>>

CacheInit == entries = [k \in Keys |-> Absent]

\* time.Now().After(expiresAt) in memory; Redis drops a key at its expiry, and never
\* when it was set without one.
Expired(k) ==
    IF redis THEN ttl # 0 /\ now >= entries[k].stored + ttl
             ELSE now > entries[k].stored + ttl

HitUnexpiring(k) == entries[k] # Absent   \* faulty variant: an old entry is a hit

Hit(k) == entries[k] # Absent /\ ~Expired(k)

\* Get on a miss: MemoryCache deletes the expired entry; a failing Redis is a miss.
Miss(k) ==
    /\ ~Hit(k) \/ redis
    /\ entries' = IF Hit(k) THEN entries ELSE [entries EXCEPT ![k] = Absent]
    /\ UNCHANGED <<redis, ttl>>

Set(k, r) ==
    /\ entries' = [entries EXCEPT ![k] = [by |-> r, stored |-> now]]
    /\ UNCHANGED <<redis, ttl>>

SetFails == redis /\ UNCHANGED cacheVars
================================================================================
