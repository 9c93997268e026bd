------------------------------ MODULE TokenCache ------------------------------
(***************************************************************************)
(* The cache of access tokens (internal/cache): a local LRU map, Redis, or *)
(* the two as levels of one cache.  The key is a hash of the refresh token *)
(* (GenerateCacheKey; two refresh tokens with one hash are left out), so   *)
(* an entry does not say which protocol its token was requested for.  Each *)
(* operator is one call on one level, which the level makes atomic: the    *)
(* LRU library by its lock, Redis by its server.  Get, Set and the         *)
(* backfill of MultiLevelCache are sequences of such calls, interleaved    *)
(* with those of other requests; TokenProvider has their steps.            *)
(***************************************************************************)
EXTENDS Naturals, FiniteSets

CONSTANTS
  Keys,       \* refresh tokens
  NoEntry,    \* an absent entry
  TTL,        \* ticks a cached token is kept: 50 minutes, on both levels
  LocalSize   \* entries the local level has room for

VARIABLES
  now,        \* the clock
  cacheType,  \* what the configuration asks for; never changes
  local,      \* L1: the entry of each key
  redis       \* L2: the entry of each key

cacheVars == <<now, cacheType, local, redis>>

CacheTypes == {"local", "redis", "multilevel"}
HasLocal == cacheType # "redis"
HasRedis == cacheType # "local"

\* A token is what it was issued for, and when.
Scopes == {"graph", "imap", "other"}
Tokens == [key : Keys, scope : Scopes, issued : Nat]
Entries == [token : Tokens, expires : Nat]

ASSUME CacheAssumption ==
  /\ TTL \in Nat \ {0} /\ LocalSize \in Nat \ {0}
  /\ NoEntry \notin Entries

CacheTypeOK ==
  /\ now \in Nat
  /\ cacheType \in CacheTypes
  /\ local \in [Keys -> Entries \cup {NoEntry}]
  /\ redis \in [Keys -> Entries \cup {NoEntry}]

\* NewCache
CacheInit ==
  /\ now = 0
  /\ cacheType \in CacheTypes
  /\ local = [k \in Keys |-> NoEntry]
  /\ redis = [k \in Keys |-> NoEntry]

Fresh(token) == [token |-> token, expires |-> now + TTL]

\* LocalCache: an entry is good up to and including the time it expires at.
LocalFound(k) == local[k] # NoEntry
\* A bug: the expiry is not looked at.
LocalHitUnchecked(k) == LocalFound(k)
LocalHit(k) == LocalFound(k) /\ now <= local[k].expires

\* Add; when the map is full the library evicts an entry of another key.
LocalSet(k, token) ==
  LET others == {j \in Keys \ {k} : LocalFound(j)}
      stored == [local EXCEPT ![k] = Fresh(token)]
  IN  IF Cardinality(others) < LocalSize
      THEN local' = stored
      ELSE \E j \in others : local' = [stored EXCEPT ![j] = NoEntry]

LocalRemove(k) == local' = [local EXCEPT ![k] = NoEntry]

\* RedisClient: Redis drops an entry itself when it expires (Passes).
RedisHit(k) == redis[k] # NoEntry

RedisSet(k, token) == redis' = [redis EXCEPT ![k] = Fresh(token)]

\* The clock goes on, and Redis drops what expires.
Passes ==
  /\ now' = now + 1
  /\ redis' = [k \in Keys |->
                 IF redis[k] # NoEntry /\ redis[k].expires <= now'
                 THEN NoEntry ELSE redis[k]]
  /\ UNCHANGED <<cacheType, local>>

=============================================================================
