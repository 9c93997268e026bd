-------------------------- MODULE TokenProvider_proofs -------------------------
(***************************************************************************)
(* Theorems about TokenProvider, for any number of accounts and requests,  *)
(* any times and sizes: no request is served another's token, a token of   *)
(* the other protocol, or one older than MaxAge.                           *)
(*                                                                         *)
(* What is served was in a cache before, or in the hands of a request, so  *)
(* the invariant follows a token through both levels and every hand.       *)
(***************************************************************************)
EXTENDS TokenProvider, TLAPS

USE CacheAssumption, ProviderAssumption

GoodScope(k) == IF k \in GraphKeys THEN "graph" ELSE "imap"

\* t may be kept under k.
Good(t, k) == t.key = k /\ (k \notin MixedKeys => t.scope = GoodScope(k))

LocalOK ==
  \A k \in Keys :
    local[k] # NoEntry =>
      /\ Good(local[k].token, k)
      /\ local[k].expires <= local[k].token.issued + MaxAge

RedisOK ==
  \A k \in Keys :
    redis[k] # NoEntry =>
      /\ Good(redis[k].token, k)
      /\ now < redis[k].expires
      /\ redis[k].expires <= redis[k].token.issued + TTL + Delay

\* A caller keeps to the protocol detected, unless the account is mixed.
CallersOK ==
  \A r \in Requests :
    /\ pc[r] # "idle" /\ ReturnsAccess(r) /\ asked[r].key \notin MixedKeys =>
         asked[r].protocol = Detected(asked[r].key)
    /\ pc[r] \in {"fetchBoth", "awaitAccess"} => ReturnsAccess(r)
    /\ pc[r] = "getRedis" => HasRedis

\* The token that r holds is one it may store or return, and not too old.
HandOK(r) ==
  /\ Storing(r) =>
       /\ held[r] # NoToken
       /\ Good(held[r], asked[r].key)
       /\ since[r] <= now /\ now <= since[r] + Delay
       /\ IF pc[r] = "backfill"
          THEN /\ cacheType = "multilevel"
               /\ since[r] + 1 <= held[r].issued + TTL + Delay
          ELSE since[r] = held[r].issued
  /\ Served(r) =>
       /\ held[r] # NoToken
       /\ Good(held[r], asked[r].key)
       /\ since[r] <= held[r].issued + MaxAge

HandsOK == \A r \in Requests : HandOK(r)

IInv == TypeOK /\ LocalOK /\ RedisOK /\ CallersOK /\ HandsOK

-----------------------------------------------------------------------------
(* What is issued, and what the operations on the levels do. *)

LEMMA InitInv == Init => IInv
<1> SUFFICES ASSUME Init PROVE IInv
  OBVIOUS
<1>1. PICK k \in Keys : TRUE
  OBVIOUS
<1>2. [key |-> k, op |-> "access", protocol |-> "IMAP"] \in RequestType
  BY DEF RequestType, TokenRequests, RefreshRequests, DetectRequests, Protocols
<1>3. TypeOK
  <2>1. (CHOOSE q \in RequestType : TRUE) \in RequestType
    BY <1>2
  <2>2. asked \in [Requests -> RequestType]
    BY <2>1 DEF Init
  <2>3. CacheTypeOK
    BY DEF Init, CacheInit, CacheTypeOK
  <2>4. started \in 0..MaxRequests /\ restarts \in 0..MaxRestarts
    BY DEF Init
  <2> QED
    BY <2>2, <2>3, <2>4 DEF Init, TypeOK, PC
<1>4. LocalOK /\ RedisOK
  BY DEF Init, CacheInit, LocalOK, RedisOK
<1>5. CallersOK /\ HandsOK
  BY DEF Init, CallersOK, HandsOK, HandOK, Storing, Served
<1> QED
  BY <1>3, <1>4, <1>5 DEF IInv

\* What the three kinds of request have in common.
LEMMA RequestFields ==
  ASSUME NEW q \in RequestType
  PROVE  /\ q.key \in Keys
         /\ q.op \in {"access", "both", "refresh", "detect"}
         /\ q.protocol \in Protocols
         /\ q.op \in {"access", "both"} <=> q \in TokenRequests
         /\ q.op = "detect" => q.protocol = "GRAPH"
  BY DEF RequestType, TokenRequests, RefreshRequests, DetectRequests, Protocols

\* The endpoint's answer is a token.
LEMMA IssuedType ==
  ASSUME TypeOK, NEW r \in Requests
  PROVE  Issued(r) \in Tokens
  BY RequestFields DEF TypeOK, CacheTypeOK, Issued, ScopeIssued, Tokens, Scopes

\* A token issued to a caller that returns it, or to a detection that keeps
\* it, is good for its account.
LEMMA IssuedGood ==
  ASSUME TypeOK, CallersOK, NEW r \in Requests, pc[r] # "idle",
         \/ ReturnsAccess(r)
         \/ asked[r].op = "detect" /\ Issued(r).scope = "graph"
  PROVE  Good(Issued(r), asked[r].key) /\ Issued(r).issued = now
  BY DEF TypeOK, CallersOK, Good, GoodScope, Issued, ScopeIssued, Detected,
         ReturnsAccess, RequestType, TokenRequests, RefreshRequests,
         DetectRequests

\* An entry stored lasts TTL from now.
LEMMA FreshType ==
  ASSUME TypeOK, NEW t \in Tokens
  PROVE  /\ Fresh(t) \in Entries /\ Fresh(t) # NoEntry
         /\ Fresh(t).token = t /\ Fresh(t).expires = now + TTL
  BY DEF TypeOK, CacheTypeOK, Fresh, Entries

\* A store in the local level may only make another entry disappear.
LEMMA LocalSetEffect ==
  ASSUME TypeOK, NEW k \in Keys, NEW t \in Tokens, LocalSet(k, t)
  PROVE  /\ local' \in [Keys -> Entries \cup {NoEntry}]
         /\ local'[k] = Fresh(t)
         /\ \A j \in Keys \ {k} : local'[j] \in {local[j], NoEntry}
<1>1. local \in [Keys -> Entries \cup {NoEntry}] /\ Fresh(t) \in Entries
  BY FreshType DEF TypeOK, CacheTypeOK
<1>2. CASE local' = [local EXCEPT ![k] = Fresh(t)]
  BY <1>1, <1>2
<1>3. ASSUME NEW j \in Keys \ {k},
             local' = [[local EXCEPT ![k] = Fresh(t)] EXCEPT ![j] = NoEntry]
      PROVE  /\ local' \in [Keys -> Entries \cup {NoEntry}]
             /\ local'[k] = Fresh(t)
             /\ \A i \in Keys \ {k} : local'[i] \in {local[i], NoEntry}
  <2>1. [local EXCEPT ![k] = Fresh(t)] \in [Keys -> Entries \cup {NoEntry}]
    BY <1>1
  <2> QED
    BY <1>1, <1>3, <2>1
<1> QED
  BY <1>2, <1>3 DEF LocalSet

\* A goroutine that stores holds a token.
LEMMA StoredType ==
  ASSUME TypeOK, HandsOK, NEW r \in Requests, Storing(r)
  PROVE  /\ held[r] \in Tokens /\ asked[r].key \in Keys
         /\ Fresh(held[r]) \in Entries /\ Fresh(held[r]) # NoEntry
         /\ Fresh(held[r]).token = held[r]
         /\ Fresh(held[r]).expires = now + TTL
<1>1. held[r] \in Tokens
  BY DEF TypeOK, HandsOK, HandOK
<1> QED
  BY <1>1, FreshType, RequestFields DEF TypeOK

\* An entry found has a token, and times.
LEMMA EntryType ==
  ASSUME TypeOK, NEW k \in Keys
  PROVE  /\ local[k] # NoEntry =>
              /\ local[k].token \in Tokens /\ local[k].expires \in Nat
              /\ local[k].token.issued \in Nat
         /\ redis[k] # NoEntry =>
              /\ redis[k].token \in Tokens /\ redis[k].expires \in Nat
              /\ redis[k].token.issued \in Nat
  BY DEF TypeOK, CacheTypeOK, Entries, Tokens

-----------------------------------------------------------------------------
(* Type correctness.  A store needs a token, so the hands matter here. *)

LEMMA TypeStep == TypeOK /\ HandsOK /\ [Next]_vars => TypeOK'
<1> SUFFICES ASSUME TypeOK, HandsOK, [Next]_vars PROVE TypeOK'
  OBVIOUS
<1>1. ASSUME NEW r \in Requests, Serves(r) PROVE TypeOK'
  <2>a. asked[r].key \in Keys
    BY RequestFields DEF TypeOK
  <2>1. CASE LocalHits(r)
    BY <2>1, <2>a, EntryType
    DEF LocalHits, LocalHit, LocalFound, TypeOK, CacheTypeOK, PC, Moves, Gets,
        TheSame, NoCacheStep, cacheVars
  <2>2. CASE LocalMisses(r)
    BY <2>2, <2>a
    DEF LocalMisses, TypeOK, CacheTypeOK, PC, Moves, Gets, TheSame,
        NoCacheStep, cacheVars
  <2>3. CASE RemoveLocal(r)
    BY <2>3, <2>a
    DEF RemoveLocal, LocalRemove, TypeOK, CacheTypeOK, PC, Moves, Gets,
        TheSame, NoCacheStep, cacheVars
  <2>4. CASE RedisHits(r)
    BY <2>4, <2>a, EntryType
    DEF RedisHits, RedisHit, TypeOK, CacheTypeOK, PC, Moves, Gets, TheSame,
        NoCacheStep, cacheVars
  <2>5. CASE RedisMisses(r)
    BY <2>5, <2>a
    DEF RedisMisses, TypeOK, CacheTypeOK, PC, Moves, Gets, TheSame,
        NoCacheStep, cacheVars
  <2>6. CASE Backfill(r)
    BY <2>6, <2>a, StoredType, LocalSetEffect
    DEF Backfill, Storing, TypeOK, CacheTypeOK, PC, Moves, Gets, TheSame,
        NoCacheStep, cacheVars
  <2>7. CASE Fetched(r)
    BY <2>7, <2>a, IssuedType
    DEF Fetched, FirstStore, TypeOK, CacheTypeOK, PC, Moves, Gets, TheSame,
        NoCacheStep, cacheVars
  <2>8. CASE FetchFails(r)
    BY <2>8, <2>a
    DEF FetchFails, TypeOK, CacheTypeOK, PC, Moves, Gets, TheSame, NoCacheStep,
        cacheVars
  <2>9. CASE BothAccessFetched(r)
    BY <2>9, <2>a, IssuedType
    DEF BothAccessFetched, FirstStore, TypeOK, CacheTypeOK, PC, Moves, Gets,
        TheSame, NoCacheStep, cacheVars
  <2>10. CASE BothRefreshFetched(r)
    BY <2>10, <2>a
    DEF BothRefreshFetched, FirstStore, TypeOK, CacheTypeOK, PC, Moves, Gets,
        TheSame, NoCacheStep, cacheVars
  <2>11. CASE BothFails(r)
    BY <2>11, <2>a
    DEF BothFails, TypeOK, CacheTypeOK, PC, Moves, Gets, TheSame, NoCacheStep,
        cacheVars
  <2>12. CASE StoreLocal(r)
    BY <2>12, <2>a, StoredType, LocalSetEffect
    DEF StoreLocal, Storing, TypeOK, CacheTypeOK, PC, Moves, Gets, TheSame,
        NoCacheStep, cacheVars
  <2>13. CASE StoreRedis(r)
    BY <2>13, <2>a, StoredType
    DEF StoreRedis, Storing, RedisSet, TypeOK, CacheTypeOK, PC, Moves, Gets,
        TheSame, NoCacheStep, cacheVars
  <2> QED
    BY <1>1, <2>1, <2>2, <2>3, <2>4, <2>5, <2>6, <2>7, <2>8, <2>9, <2>10,
       <2>11, <2>12, <2>13
    DEF Serves
<1>2. ASSUME NEW r \in Requests, Request(r) PROVE TypeOK'
  BY <1>2
  DEF Request, FirstStep, TypeOK, CacheTypeOK, PC, Moves, Gets, TheSame,
      NoCacheStep, cacheVars
<1>3. CASE Tick
  BY <1>3
  DEF Tick, Passes, TypeOK, CacheTypeOK, PC, Moves, Gets, TheSame, NoCacheStep,
      cacheVars
<1>4. CASE Restart
  <2>1. restarts' \in 0..MaxRestarts
    BY <1>4 DEF Restart, TypeOK
  <2>2. CacheTypeOK'
    BY <1>4 DEF Restart, TypeOK, CacheTypeOK
  <2> QED
    BY <1>4, <2>1, <2>2 DEF Restart, TypeOK, PC
<1>5. CASE UNCHANGED vars
  BY <1>5 DEF vars, TypeOK, CacheTypeOK, PC, TheSame, NoCacheStep, cacheVars
<1> QED
  BY <1>1, <1>2, <1>3, <1>4, <1>5 DEF Next

-----------------------------------------------------------------------------
(* What the levels hold. *)

\* Only these steps write a level.
LEMMA LocalWrites ==
  ASSUME [Next]_vars
  PROVE  \/ UNCHANGED <<local, cacheType>>
         \/ \E r \in Requests : RemoveLocal(r) \/ Backfill(r) \/ StoreLocal(r)
         \/ Restart
  BY DEF Next, Serves, Tick, Passes, Request, LocalHits, LocalMisses,
         RedisHits, RedisMisses, Fetched, FetchFails, BothAccessFetched,
         BothRefreshFetched, BothFails, StoreRedis, NoCacheStep, cacheVars,
         vars

LEMMA RedisWrites ==
  ASSUME [Next]_vars
  PROVE  UNCHANGED <<redis, now>> \/ Tick \/ \E r \in Requests : StoreRedis(r)
  BY DEF Next, Serves, Restart, Request, LocalHits, LocalMisses, RemoveLocal,
         RedisHits, RedisMisses, Backfill, Fetched, FetchFails,
         BothAccessFetched, BothRefreshFetched, BothFails, StoreLocal,
         NoCacheStep, cacheVars, vars

\* An entry made now of a token in hand is not too old when it expires.
LEMMA FreshAge ==
  ASSUME IInv, NEW r \in Requests, Storing(r)
  PROVE  /\ now + TTL <= held[r].issued + MaxAge
         /\ pc[r] # "backfill" => now + TTL <= held[r].issued + TTL + Delay
<1>1. held[r].issued \in Nat /\ since[r] \in Nat /\ now \in Nat
  BY StoredType DEF IInv, TypeOK, CacheTypeOK, Tokens
<1>2. TTL \in Nat \ {0} /\ Delay \in Nat
  OBVIOUS
<1>3. since[r] <= now /\ now <= since[r] + Delay
  BY DEF IInv, HandsOK, HandOK
<1>4. CASE pc[r] = "backfill"
  <2>1. /\ cacheType = "multilevel"
        /\ since[r] + 1 <= held[r].issued + TTL + Delay
    BY <1>4 DEF IInv, HandsOK, HandOK
  <2> QED
    BY <1>1, <1>2, <1>3, <1>4, <2>1 DEF MaxAge
<1>5. CASE pc[r] # "backfill"
  <2>1. since[r] = held[r].issued
    BY <1>5 DEF IInv, HandsOK, HandOK
  <2> QED
    BY <1>1, <1>2, <1>3, <1>5, <2>1 DEF MaxAge
<1> QED
  BY <1>4, <1>5

\* A store in the local level keeps what it promises.
LEMMA LocalSetOK ==
  ASSUME IInv, NEW r \in Requests, Storing(r), UNCHANGED cacheType,
         LocalSet(asked[r].key, held[r])
  PROVE  LocalOK'
<1> DEFINE k == asked[r].key
<1>1. /\ k \in Keys /\ held[r] \in Tokens /\ Fresh(held[r]).token = held[r]
      /\ Fresh(held[r]).expires = now + TTL
  BY StoredType DEF IInv
<1>2. /\ local'[k] = Fresh(held[r])
      /\ \A j \in Keys \ {k} : local'[j] \in {local[j], NoEntry}
  BY <1>1, LocalSetEffect DEF IInv
<1>3. Good(held[r], k)
  BY DEF IInv, HandsOK, HandOK
<1>4. MaxAge' = MaxAge
  BY DEF MaxAge
<1>5. /\ Good(local'[k].token, k)
      /\ local'[k].expires <= local'[k].token.issued + MaxAge
  BY <1>1, <1>2, <1>3, FreshAge
<1>6. \A j \in Keys \ {k} :
        local'[j] # NoEntry =>
          /\ Good(local'[j].token, j)
          /\ local'[j].expires <= local'[j].token.issued + MaxAge
  BY <1>2 DEF IInv, LocalOK
<1> QED
  BY <1>4, <1>5, <1>6 DEF LocalOK, Good

LEMMA LocalStep == IInv /\ [Next]_vars => LocalOK'
<1> SUFFICES ASSUME IInv, [Next]_vars PROVE LocalOK'
  OBVIOUS
<1>1. CASE UNCHANGED <<local, cacheType>>
  BY <1>1 DEF IInv, LocalOK, MaxAge, Good
<1>2. ASSUME NEW r \in Requests, RemoveLocal(r) PROVE LocalOK'
  <2>1. /\ cacheType' = cacheType
        /\ \A k \in Keys : local'[k] \in {local[k], NoEntry}
    BY <1>2 DEF IInv, TypeOK, CacheTypeOK, RemoveLocal, LocalRemove
  <2> QED
    BY <2>1 DEF IInv, LocalOK, MaxAge, Good
<1>3. ASSUME NEW r \in Requests, Backfill(r) PROVE LocalOK'
  BY <1>3, LocalSetOK DEF Backfill, Moves, Storing
<1>4. ASSUME NEW r \in Requests, StoreLocal(r) PROVE LocalOK'
  BY <1>4, LocalSetOK DEF StoreLocal, Moves, Storing
<1>5. CASE Restart
  BY <1>5 DEF Restart, LocalOK
<1> QED
  BY <1>1, <1>2, <1>3, <1>4, <1>5, LocalWrites

LEMMA RedisStep == IInv /\ [Next]_vars => RedisOK'
<1> SUFFICES ASSUME IInv, [Next]_vars PROVE RedisOK'
  OBVIOUS
<1>1. CASE UNCHANGED <<redis, now>>
  BY <1>1 DEF IInv, RedisOK, Good
<1>2. CASE Tick
  <2>1. \A k \in Keys :
          redis'[k] # NoEntry =>
            redis'[k] = redis[k] /\ ~(redis[k].expires <= now')
    BY <1>2 DEF IInv, TypeOK, CacheTypeOK, Tick, Passes
  <2>2. now' \in Nat
    BY <1>2 DEF IInv, TypeOK, CacheTypeOK, Tick, Passes
  <2> QED
    BY <2>1, <2>2, EntryType DEF IInv, RedisOK, Good
<1>3. ASSUME NEW r \in Requests, StoreRedis(r) PROVE RedisOK'
  <2>1. Storing(r) /\ pc[r] # "backfill" /\ now' = now
    BY <1>3 DEF StoreRedis, Moves, Storing
  <2>2. /\ asked[r].key \in Keys /\ held[r] \in Tokens
        /\ Fresh(held[r]).token = held[r]
        /\ Fresh(held[r]).expires = now + TTL
    BY <2>1, StoredType DEF IInv
  <2>3. CASE redis' = redis
    BY <2>1, <2>3 DEF IInv, RedisOK, Good
  <2>4. CASE RedisSet(asked[r].key, held[r])
    <3>1. \A k \in Keys :
            redis'[k] = IF k = asked[r].key THEN Fresh(held[r]) ELSE redis[k]
      BY <2>4 DEF RedisSet, IInv, TypeOK, CacheTypeOK
    <3>2. Good(held[r], asked[r].key)
      BY <2>1 DEF IInv, HandsOK, HandOK
    <3>3. now < now + TTL
      BY DEF IInv, TypeOK, CacheTypeOK
    <3>4. now + TTL <= held[r].issued + TTL + Delay
      BY <2>1, FreshAge
    <3> QED
      BY <2>1, <2>2, <3>1, <3>2, <3>3, <3>4 DEF IInv, RedisOK, Good
  <2> QED
    BY <1>3, <2>3, <2>4 DEF StoreRedis
<1> QED
  BY <1>1, <1>2, <1>3, RedisWrites

-----------------------------------------------------------------------------
(* What callers ask for, and where their requests go. *)

LEMMA CallersStep == IInv /\ [Next]_vars => CallersOK'
<1> SUFFICES ASSUME IInv, [Next]_vars, NEW q \in Requests
             PROVE  /\ /\ pc'[q] # "idle" /\ ReturnsAccess(q)'
                       /\ asked'[q].key \notin MixedKeys
                       => asked'[q].protocol = Detected(asked'[q].key)
                    /\ pc'[q] \in {"fetchBoth", "awaitAccess"} =>
                         ReturnsAccess(q)'
                    /\ pc'[q] = "getRedis" => HasRedis'
  BY DEF CallersOK
<1> USE DEF IInv, TypeOK, CacheTypeOK, CallersOK, ReturnsAccess, HasRedis,
            NoCacheStep, cacheVars, TheSame
<1>1. ASSUME NEW r \in Requests, Serves(r)
      PROVE  /\ asked' = asked /\ cacheType' = cacheType
             /\ pc'[q] # "idle" => pc[q] # "idle"
             /\ pc'[q] \in {"fetchBoth", "awaitAccess"} =>
                  pc[q] \in {"fetchBoth", "awaitAccess"}
             /\ pc'[q] = "getRedis" => pc[q] = "getRedis" \/ HasRedis
  <2>1. CASE LocalHits(r) \/ LocalMisses(r) \/ RemoveLocal(r)
    BY <2>1 DEF LocalHits, LocalMisses, RemoveLocal, Moves
  <2>2. CASE RedisHits(r) \/ RedisMisses(r) \/ Backfill(r)
    BY <2>2 DEF RedisHits, RedisMisses, Backfill, Moves
  <2>3. CASE Fetched(r) \/ FetchFails(r)
    BY <2>3 DEF Fetched, FetchFails, Moves, FirstStore
  <2>4. CASE BothAccessFetched(r)
    BY <2>4 DEF BothAccessFetched, Moves, FirstStore
  <2>5. CASE BothRefreshFetched(r)
    BY <2>5 DEF BothRefreshFetched, Moves, FirstStore
  <2>6. CASE BothFails(r)
    BY <2>6 DEF BothFails
  <2>7. CASE StoreLocal(r) \/ StoreRedis(r)
    BY <2>7 DEF StoreLocal, StoreRedis, Moves
  <2> QED
    BY <1>1, <2>1, <2>2, <2>3, <2>4, <2>5, <2>6, <2>7 DEF Serves
<1>2. ASSUME NEW r \in Requests, Request(r)
      PROVE  /\ cacheType' = cacheType
             /\ q # r => asked'[q] = asked[q] /\ pc'[q] = pc[q]
             /\ q = r =>
                  /\ pc'[q] = FirstStep(asked'[q])
                  /\ asked'[q].op \in {"access", "both"} =>
                       \/ asked'[q].key \in MixedKeys
                       \/ asked'[q].protocol = Detected(asked'[q].key)
  BY <1>2, RequestFields DEF Request
<1>3. CASE Tick
  BY <1>3 DEF Tick, Passes
<1>4. CASE Restart
  BY <1>4 DEF Restart
<1>5. CASE UNCHANGED vars
  BY <1>5 DEF vars
<1>6. CASE \E r \in Requests : Serves(r)
  BY <1>1, <1>6
<1>7. CASE \E r \in Requests : Request(r)
  <2>1. PICK r \in Requests : Request(r)
    BY <1>7
  <2>2. CASE q # r
    BY <1>2, <2>1, <2>2
  <2>3. CASE q = r
    <3>1. /\ pc'[q] = FirstStep(asked'[q])
          /\ asked'[q].op \in {"access", "both"} =>
               \/ asked'[q].key \in MixedKeys
               \/ asked'[q].protocol = Detected(asked'[q].key)
          /\ cacheType' = cacheType
      BY <1>2, <2>1, <2>3
    <3>2. HasLocal \/ HasRedis
      BY DEF HasLocal
    <3> QED
      BY <3>1, <3>2 DEF FirstStep, HasLocal
  <2> QED
    BY <2>2, <2>3
<1> QED
  BY <1>3, <1>4, <1>5, <1>6, <1>7 DEF Next

-----------------------------------------------------------------------------
(* What the goroutines hold. *)

\* A step of another goroutine leaves the hand alone.
LEMMA HandKept ==
  ASSUME IInv, NEW q \in Requests, UNCHANGED <<now, cacheType, asked>>,
         pc'[q] = pc[q], held'[q] = held[q], since'[q] = since[q]
  PROVE  HandOK(q)'
<1>1. HandOK(q) /\ MaxAge' = MaxAge
  BY DEF IInv, HandsOK, MaxAge
<1> QED
  BY <1>1 DEF HandOK, Storing, Served, ReturnsAccess, Good

\* A step of a goroutine is none of the clock, and asks for nothing new.
LEMMA ServesSame ==
  ASSUME NEW r \in Requests, Serves(r)
  PROVE  UNCHANGED <<now, cacheType, asked>>
<1> USE DEF NoCacheStep, cacheVars, TheSame
<1>1. CASE LocalHits(r) \/ LocalMisses(r) \/ RemoveLocal(r)
  BY <1>1 DEF LocalHits, LocalMisses, RemoveLocal
<1>2. CASE RedisHits(r) \/ RedisMisses(r) \/ Backfill(r)
  BY <1>2 DEF RedisHits, RedisMisses, Backfill
<1>3. CASE Fetched(r) \/ FetchFails(r)
  BY <1>3 DEF Fetched, FetchFails
<1>4. CASE BothAccessFetched(r) \/ BothRefreshFetched(r) \/ BothFails(r)
  BY <1>4 DEF BothAccessFetched, BothRefreshFetched, BothFails
<1>5. CASE StoreLocal(r) \/ StoreRedis(r)
  BY <1>5 DEF StoreLocal, StoreRedis
<1> QED
  BY <1>1, <1>2, <1>3, <1>4, <1>5 DEF Serves

\* A step of r changes neither the place nor the hand of another.
LEMMA OthersSame ==
  ASSUME IInv, NEW r \in Requests, Serves(r), NEW q \in Requests, q # r
  PROVE  pc'[q] = pc[q] /\ held'[q] = held[q] /\ since'[q] = since[q]
<1> USE DEF Moves, Gets
<1>1. CASE LocalHits(r) \/ LocalMisses(r) \/ RemoveLocal(r)
  BY <1>1 DEF IInv, TypeOK, LocalHits, LocalMisses, RemoveLocal
<1>2. CASE RedisHits(r) \/ RedisMisses(r) \/ Backfill(r)
  BY <1>2 DEF IInv, TypeOK, RedisHits, RedisMisses, Backfill
<1>3. CASE Fetched(r) \/ FetchFails(r)
  BY <1>3 DEF IInv, TypeOK, Fetched, FetchFails
<1>4. CASE BothAccessFetched(r) \/ BothRefreshFetched(r) \/ BothFails(r)
  BY <1>4 DEF IInv, TypeOK, BothAccessFetched, BothRefreshFetched, BothFails
<1>5. CASE StoreLocal(r) \/ StoreRedis(r)
  BY <1>5 DEF IInv, TypeOK, StoreLocal, StoreRedis
<1> QED
  BY <1>1, <1>2, <1>3, <1>4, <1>5 DEF Serves

LEMMA OthersKeep ==
  ASSUME IInv, NEW r \in Requests, Serves(r), HandOK(r)'
  PROVE  HandsOK'
  BY ServesSame, OthersSame, HandKept DEF HandsOK

\* A goroutine that comes into a place where it neither stores nor returns an
\* access token may hold anything.
LEMMA NothingInHand ==
  ASSUME NEW r \in Requests,
         pc'[r] \in {"idle", "removeLocal", "getRedis", "fetch", "fetchBoth",
                     "getLocal", "awaitAccess", "failed"}
  PROVE  HandOK(r)'
  BY DEF HandOK, Storing, Served

\* A token just issued is in order, whether stored or awaited.
LEMMA JustIssued ==
  ASSUME IInv, NEW r \in Requests, pc[r] # "idle",
         \/ ReturnsAccess(r)
         \/ asked[r].op = "detect" /\ Issued(r).scope = "graph",
         Gets(r, Issued(r)), UNCHANGED <<now, cacheType, asked>>,
         pc'[r] \in {"awaitRefresh", "storeLocal", "storeRedis"}
  PROVE  HandOK(r)'
<1>1. /\ Issued(r) \in Tokens /\ Good(Issued(r), asked[r].key)
      /\ Issued(r).issued = now
  BY IssuedType, IssuedGood DEF IInv
<1>2. held'[r] = Issued(r) /\ since'[r] = now /\ now \in Nat
  BY DEF Gets, IInv, TypeOK, CacheTypeOK
<1>3. held'[r] # NoToken /\ now <= now + Delay
  BY <1>1, <1>2
<1> QED
  BY <1>1, <1>2, <1>3 DEF HandOK, Storing, Served, Good

\* What is found in the local level is not too old.
LEMMA LocalHitsHand ==
  ASSUME IInv, NEW r \in Requests, LocalHits(r)
  PROVE  HandOK(r)'
<1> DEFINE k == asked[r].key
<1>1. k \in Keys /\ local[k] # NoEntry /\ now <= local[k].expires
  BY RequestFields DEF IInv, TypeOK, LocalHits, LocalHit, LocalFound
<1>2. /\ Good(local[k].token, k)
      /\ local[k].expires <= local[k].token.issued + MaxAge
  BY <1>1 DEF IInv, LocalOK
<1>3. /\ local[k].token \in Tokens /\ local[k].token.issued \in Nat
      /\ local[k].expires \in Nat /\ now \in Nat /\ MaxAge \in Nat
  BY <1>1, EntryType DEF IInv, TypeOK, CacheTypeOK, MaxAge
<1>4. /\ pc'[r] = "answered" /\ held'[r] = local[k].token /\ since'[r] = now
      /\ asked' = asked /\ MaxAge' = MaxAge
  BY DEF LocalHits, Moves, Gets, TheSame, NoCacheStep, cacheVars, IInv, TypeOK,
         MaxAge
<1>5. now <= local[k].token.issued + MaxAge
  BY <1>1, <1>2, <1>3
<1> QED
  BY <1>2, <1>3, <1>4, <1>5 DEF HandOK, Storing, Served, Good

\* What is found in Redis has not expired there.
LEMMA RedisHitsHand ==
  ASSUME IInv, NEW r \in Requests, RedisHits(r)
  PROVE  HandOK(r)'
<1> DEFINE k == asked[r].key
<1>1. k \in Keys /\ redis[k] # NoEntry
  BY RequestFields DEF IInv, TypeOK, RedisHits, RedisHit
<1>2. /\ Good(redis[k].token, k) /\ now < redis[k].expires
      /\ redis[k].expires <= redis[k].token.issued + TTL + Delay
  BY <1>1 DEF IInv, RedisOK
<1>3. /\ redis[k].token \in Tokens /\ redis[k].token.issued \in Nat
      /\ redis[k].expires \in Nat /\ now \in Nat
  BY <1>1, EntryType DEF IInv, TypeOK, CacheTypeOK
<1>4. /\ pc'[r] = IF HasLocal THEN "backfill" ELSE "answered"
      /\ held'[r] = redis[k].token /\ since'[r] = now
      /\ UNCHANGED <<now, cacheType, asked>>
  BY DEF RedisHits, Moves, Gets, TheSame, NoCacheStep, cacheVars, IInv, TypeOK
<1>5. held'[r] # NoToken /\ now + 1 <= held'[r].issued + TTL + Delay
  BY <1>2, <1>3, <1>4
<1>6. CASE HasLocal
  <2>1. cacheType = "multilevel" /\ pc'[r] = "backfill"
    BY <1>4, <1>6
    DEF RedisHits, Moves, HasLocal, HasRedis, IInv, TypeOK, CacheTypeOK,
        CacheTypes, CallersOK
  <2>2. now <= now /\ now <= now + Delay
    BY <1>3
  <2> QED
    BY <1>2, <1>4, <1>5, <2>1, <2>2 DEF HandOK, Storing, Served, Good
<1>7. CASE ~HasLocal
  <2>1. pc'[r] = "answered" /\ MaxAge' = TTL + Delay
    BY <1>4, <1>7 DEF HasLocal, MaxAge
  <2>2. now <= held'[r].issued + (TTL + Delay)
    BY <1>2, <1>3, <1>4
  <2> QED
    BY <1>2, <1>4, <1>5, <2>1, <2>2 DEF HandOK, Storing, Served, Good
<1> QED
  BY <1>6, <1>7

\* The backfill ends at most Delay after the hit.
LEMMA BackfillHand ==
  ASSUME IInv, NEW r \in Requests, Backfill(r)
  PROVE  HandOK(r)'
<1>1. pc[r] = "backfill" /\ Storing(r)
  BY DEF Backfill, Moves, Storing
<1>2. /\ held[r] # NoToken /\ Good(held[r], asked[r].key)
      /\ now <= since[r] + Delay /\ cacheType = "multilevel"
      /\ since[r] + 1 <= held[r].issued + TTL + Delay
  BY <1>1 DEF IInv, HandsOK, HandOK
<1>3. /\ pc'[r] = "answered" /\ held'[r] = held[r] /\ since'[r] = now
      /\ UNCHANGED <<now, cacheType, asked>>
  BY DEF Backfill, Moves, Gets, TheSame, IInv, TypeOK
<1>4. held[r].issued \in Nat /\ now \in Nat /\ since[r] \in Nat
  BY <1>1, StoredType DEF IInv, TypeOK, CacheTypeOK, Tokens
<1>5. MaxAge' = 2 * (TTL + Delay) - 1 /\ TTL \in Nat \ {0} /\ Delay \in Nat
  BY <1>2, <1>3 DEF MaxAge
<1>6. now <= held[r].issued + (2 * (TTL + Delay) - 1)
  BY <1>2, <1>4, <1>5
<1> QED
  BY <1>2, <1>3, <1>5, <1>6 DEF HandOK, Storing, Served, Good

\* While it is stored a token stays in hand, and then it is returned.
LEMMA StoresHand ==
  ASSUME IInv, NEW r \in Requests, StoreLocal(r) \/ StoreRedis(r)
  PROVE  HandOK(r)'
<1>1. Storing(r) /\ pc[r] # "backfill"
  BY DEF StoreLocal, StoreRedis, Moves, Storing
<1>2. /\ held[r] # NoToken /\ Good(held[r], asked[r].key)
      /\ since[r] <= now /\ now <= since[r] + Delay
      /\ since[r] = held[r].issued
  BY <1>1 DEF IInv, HandsOK, HandOK
<1>3. /\ pc'[r] \in {"storeRedis", "answered"}
      /\ UNCHANGED <<now, cacheType, asked, held, since>>
  BY DEF StoreLocal, StoreRedis, Moves, TheSame, IInv, TypeOK
<1>4. held[r].issued \in Nat /\ MaxAge' \in Nat
  BY <1>1, StoredType DEF IInv, TypeOK, Tokens, MaxAge
<1>5. since[r] <= held[r].issued + MaxAge'
  BY <1>2, <1>4
<1> QED
  BY <1>2, <1>3, <1>5 DEF HandOK, Storing, Served, Good

LEMMA HandsStep == IInv /\ [Next]_vars => HandsOK'
<1> SUFFICES ASSUME IInv, [Next]_vars PROVE HandsOK'
  OBVIOUS
<1>1. ASSUME NEW r \in Requests, Serves(r) PROVE HandOK(r)'
  <2>1. CASE LocalHits(r)
    BY <2>1, LocalHitsHand
  <2>2. CASE LocalMisses(r) \/ RemoveLocal(r) \/ RedisMisses(r) \/ FetchFails(r)
    <3>1. pc'[r] \in {"removeLocal", "getRedis", "fetch", "failed"}
      BY <2>2
      DEF LocalMisses, RemoveLocal, RedisMisses, FetchFails, Moves, IInv, TypeOK
    <3> QED
      BY <3>1, NothingInHand
  <2>3. CASE RedisHits(r)
    BY <2>3, RedisHitsHand
  <2>4. CASE Backfill(r)
    BY <2>4, BackfillHand
  <2>5. CASE Fetched(r)
    <3>1. pc[r] = "fetch" /\ UNCHANGED <<now, cacheType, asked>>
      BY <2>5 DEF Fetched, TheSame, NoCacheStep, cacheVars
    <3>2. CASE \/ ReturnsAccess(r)
               \/ asked[r].op = "detect" /\ Issued(r).scope = "graph"
      <4>1. Gets(r, Issued(r)) /\ pc'[r] \in {"storeLocal", "storeRedis"}
        BY <2>5, <3>2 DEF Fetched, Moves, FirstStore, IInv, TypeOK
      <4> QED
        BY <3>1, <3>2, <4>1, JustIssued
    <3>3. CASE ~(\/ ReturnsAccess(r)
                 \/ asked[r].op = "detect" /\ Issued(r).scope = "graph")
      <4>1. pc'[r] = "answered" /\ ~ReturnsAccess(r)'
        BY <2>5, <3>1, <3>3
        DEF Fetched, Moves, ReturnsAccess, IInv, TypeOK
      <4> QED
        BY <4>1 DEF HandOK, Storing, Served
    <3> QED
      BY <3>2, <3>3
  <2>6. CASE BothAccessFetched(r)
    <3>1. /\ pc[r] \in {"fetchBoth", "awaitAccess"}
          /\ UNCHANGED <<now, cacheType, asked>> /\ Gets(r, Issued(r))
          /\ pc'[r] \in {"awaitRefresh", "storeLocal", "storeRedis"}
      BY <2>6
      DEF BothAccessFetched, Moves, FirstStore, TheSame, NoCacheStep, cacheVars,
          IInv, TypeOK
    <3>2. ReturnsAccess(r)
      BY <3>1 DEF IInv, CallersOK
    <3> QED
      BY <3>1, <3>2, JustIssued
  <2>7. CASE BothRefreshFetched(r)
    <3>1. CASE Moves(r, "fetchBoth", "awaitAccess")
      <4>1. pc'[r] = "awaitAccess"
        BY <3>1 DEF Moves, IInv, TypeOK
      <4> QED
        BY <4>1, NothingInHand
    <3>2. CASE Moves(r, "awaitRefresh", FirstStore)
      <4>1. /\ pc[r] = "awaitRefresh" /\ pc'[r] \in {"storeLocal", "storeRedis"}
            /\ UNCHANGED <<now, cacheType, asked, held, since>>
        BY <2>7, <3>2
        DEF BothRefreshFetched, Moves, FirstStore, TheSame, NoCacheStep,
            cacheVars, IInv, TypeOK
      <4>2. HandOK(r)
        BY DEF IInv, HandsOK
      <4> QED
        BY <4>1, <4>2 DEF HandOK, Storing, Served, Good
    <3> QED
      BY <2>7, <3>1, <3>2 DEF BothRefreshFetched
  <2>8. CASE BothFails(r)
    BY <2>8, HandKept DEF BothFails, NoCacheStep, cacheVars
  <2>9. CASE StoreLocal(r) \/ StoreRedis(r)
    BY <2>9, StoresHand
  <2> QED
    BY <1>1, <2>1, <2>2, <2>3, <2>4, <2>5, <2>6, <2>7, <2>8, <2>9 DEF Serves
<1>2. ASSUME NEW r \in Requests, Request(r) PROVE HandsOK'
  <2> SUFFICES ASSUME NEW q \in Requests PROVE HandOK(q)'
    BY DEF HandsOK
  <2>1. CASE q # r
    <3>1. /\ UNCHANGED <<now, cacheType>> /\ asked'[q] = asked[q]
          /\ pc'[q] = pc[q] /\ held'[q] = held[q] /\ since'[q] = since[q]
      BY <1>2, <2>1 DEF Request, NoCacheStep, cacheVars, IInv, TypeOK
    <3>2. HandOK(q) /\ MaxAge' = MaxAge
      BY <3>1 DEF IInv, HandsOK, MaxAge
    <3> QED
      BY <3>1, <3>2 DEF HandOK, Storing, Served, ReturnsAccess, Good
  <2>2. CASE q = r
    <3>1. pc'[q] \in {"getLocal", "getRedis", "fetch", "fetchBoth"}
      BY <1>2, <2>2 DEF Request, FirstStep, IInv, TypeOK
    <3> QED
      BY <3>1, NothingInHand
  <2> QED
    BY <2>1, <2>2
<1>3. CASE Tick
  <2> SUFFICES ASSUME NEW r \in Requests PROVE HandOK(r)'
    BY DEF HandsOK
  <2>1. /\ UNCHANGED <<cacheType, pc, asked, held, since>> /\ now' = now + 1
        /\ Storing(r) => now < since[r] + Delay
    BY <1>3 DEF Tick, Passes, TheSame
  <2>2. now \in Nat /\ since[r] \in Nat /\ Delay \in Nat
    BY DEF IInv, TypeOK, CacheTypeOK
  <2>3. HandOK(r) /\ MaxAge' = MaxAge
    BY <2>1 DEF IInv, HandsOK, MaxAge
  <2>4. Storing(r) => since[r] <= now' /\ now' <= since[r] + Delay
    BY <2>1, <2>2, <2>3 DEF HandOK
  <2> QED
    BY <2>1, <2>3, <2>4 DEF HandOK, Storing, Served, ReturnsAccess, Good
<1>4. CASE Restart
  BY <1>4, NothingInHand DEF Restart, HandsOK
<1>5. CASE UNCHANGED vars
  BY <1>5, HandKept DEF vars, cacheVars, HandsOK
<1> QED
  BY <1>1, <1>2, <1>3, <1>4, <1>5, OthersKeep DEF Next

-----------------------------------------------------------------------------
THEOREM TokenInvariant == Spec => []IInv
<1>1. IInv /\ [Next]_vars => IInv'
  BY TypeStep, LocalStep, RedisStep, CallersStep, HandsStep DEF IInv
<1> QED
  BY <1>1, InitInv, PTL DEF Spec

\* The cache, the clock and every request keep their types (the cache levels,
\* GetAccessToken, GetBothTokens and DetectProtocolType).
THEOREM TokenTypeCorrect == Spec => []TypeOK
  BY TokenInvariant, PTL DEF IInv

\* No caller is given the access token of another's refresh token: both levels
\* keep a token under its own key, however stores and evictions interleave.
THEOREM TokenOwn == Spec => []ServedOwnToken
<1>1. IInv => ServedOwnToken
  BY DEF IInv, HandsOK, HandOK, ServedOwnToken, Good
<1> QED
  BY <1>1, TokenInvariant, PTL

\* Callers who keep to the protocol detected get a token of that protocol,
\* although the cache key does not name it and detections store tokens too.
THEOREM TokenForProtocol == Spec => []ServedForProtocol
<1>1. ASSUME IInv, NEW r \in Requests, Served(r), asked[r].key \notin MixedKeys
      PROVE  held[r].scope = ScopeIssued(asked[r])
  <2>1. held[r].scope = GoodScope(asked[r].key)
    BY <1>1 DEF IInv, HandsOK, HandOK, Good
  <2>2. asked[r].protocol = Detected(asked[r].key)
    BY <1>1 DEF IInv, CallersOK, Served
  <2> QED
    BY <2>1, <2>2 DEF GoodScope, Detected, ScopeIssued
<1>2. IInv => ServedForProtocol
  BY <1>1 DEF ServedForProtocol
<1> QED
  BY <1>2, TokenInvariant, PTL

\* No access token is served later than MaxAge after its issue: one lifetime
\* for one level, two for two levels (LocalCache, RedisCache, the backfill of
\* MultiLevelCache).
THEOREM TokenAge == Spec => []ServedAge
<1>1. IInv => ServedAge
  BY DEF IInv, HandsOK, HandOK, ServedAge
<1> QED
  BY <1>1, TokenInvariant, PTL

-----------------------------------------------------------------------------
(* The provider implements TokenService.  Beyond IInv this needs to know   *)
(* which requests come to which place, and that nothing is used before it  *)
(* was issued.                                                             *)

\* Only a request for the access token alone reads the cache, and only one
\* for both tokens over Graph runs two goroutines.
PathsOK ==
  \A r \in Requests :
    /\ pc[r] \in {"getLocal", "removeLocal", "getRedis", "backfill"} =>
         asked[r].op = "access"
    /\ pc[r] \in {"fetchBoth", "awaitAccess", "awaitRefresh"} =>
         asked[r].op = "both" /\ asked[r].protocol = "GRAPH"

\* Every token there is has been issued before.
BornOK ==
  /\ \A k \in Keys :
       /\ local[k] # NoEntry => local[k].token.issued <= now
       /\ redis[k] # NoEntry => redis[k].token.issued <= now
  /\ \A r \in Requests : held[r] # NoToken => held[r].issued <= now

SInv == IInv /\ PathsOK /\ BornOK

LEMMA PathsStep == IInv /\ PathsOK /\ [Next]_vars => PathsOK'
<1> SUFFICES ASSUME IInv, PathsOK, [Next]_vars PROVE PathsOK'
  OBVIOUS
<1>1. ASSUME NEW r \in Requests, Serves(r) PROVE PathsOK'
  <2> USE <1>1 DEF IInv, TypeOK, PathsOK, Moves, TheSame, FirstStore
  <2>1. CASE LocalHits(r) \/ LocalMisses(r) \/ RemoveLocal(r)
    BY <2>1 DEF LocalHits, LocalMisses, RemoveLocal
  <2>2. CASE RedisHits(r) \/ RedisMisses(r) \/ Backfill(r)
    BY <2>2 DEF RedisHits, RedisMisses, Backfill
  <2>3. CASE Fetched(r) \/ FetchFails(r)
    BY <2>3 DEF Fetched, FetchFails
  <2>4. CASE BothAccessFetched(r) \/ BothRefreshFetched(r) \/ BothFails(r)
    BY <2>4 DEF BothAccessFetched, BothRefreshFetched, BothFails
  <2>5. CASE StoreLocal(r) \/ StoreRedis(r)
    BY <2>5 DEF StoreLocal, StoreRedis
  <2> QED
    BY <2>1, <2>2, <2>3, <2>4, <2>5 DEF Serves
<1>2. ASSUME NEW r \in Requests, Request(r) PROVE PathsOK'
  BY <1>2 DEF Request, FirstStep, IInv, TypeOK, PathsOK
<1>3. CASE Tick
  BY <1>3 DEF Tick, TheSame, PathsOK
<1>4. CASE Restart
  BY <1>4 DEF Restart, PathsOK
<1>5. CASE UNCHANGED vars
  BY <1>5 DEF vars, PathsOK
<1> QED
  BY <1>1, <1>2, <1>3, <1>4, <1>5 DEF Next

\* What a level holds next, it held before or was in a hand.
LEMMA BornStep == IInv /\ BornOK /\ [Next]_vars => BornOK'
<1> SUFFICES ASSUME IInv, BornOK, [Next]_vars PROVE BornOK'
  OBVIOUS
<1>1. now \in Nat /\ now' \in {now, now + 1}
  BY DEF IInv, TypeOK, CacheTypeOK, Next, Serves, Tick, Passes, Restart,
         Request, LocalHits, LocalMisses, RemoveLocal, RedisHits, RedisMisses,
         Backfill, Fetched, FetchFails, BothAccessFetched, BothRefreshFetched,
         BothFails, StoreLocal, StoreRedis, NoCacheStep, cacheVars, vars
<1>2. ASSUME NEW n \in Nat, n <= now PROVE n <= now'
  BY <1>1, <1>2
<1>3. \A r \in Requests : Storing(r) =>
        /\ held[r] \in Tokens /\ held[r].issued \in Nat /\ held[r].issued <= now
        /\ asked[r].key \in Keys /\ Fresh(held[r]).token = held[r]
  BY StoredType DEF IInv, BornOK, HandsOK, HandOK, Tokens
<1>4. \A k \in Keys : local'[k] # NoEntry => local'[k].token.issued <= now'
  <2>1. CASE UNCHANGED local
    BY <1>2, <2>1, EntryType DEF IInv, BornOK
  <2>2. ASSUME NEW r \in Requests, RemoveLocal(r)
        PROVE  \A k \in Keys : local'[k] \in {local[k], NoEntry}
    BY <2>2 DEF RemoveLocal, LocalRemove, IInv, TypeOK, CacheTypeOK
  <2>3. ASSUME NEW r \in Requests, Storing(r), LocalSet(asked[r].key, held[r])
        PROVE  \A k \in Keys : local'[k] # NoEntry => local'[k].token.issued <= now'
    <3>1. /\ local'[asked[r].key] = Fresh(held[r])
          /\ \A j \in Keys \ {asked[r].key} : local'[j] \in {local[j], NoEntry}
      BY <1>3, <2>3, LocalSetEffect DEF IInv
    <3> QED
      BY <1>2, <1>3, <2>3, <3>1, EntryType DEF IInv, BornOK
  <2>4. CASE Restart
    BY <2>4 DEF Restart
  <2>5. CASE \E r \in Requests : RemoveLocal(r)
    BY <1>2, <2>2, <2>5, EntryType DEF IInv, BornOK
  <2>6. CASE \E r \in Requests : Backfill(r) \/ StoreLocal(r)
    BY <2>3, <2>6 DEF Backfill, StoreLocal, Storing, Moves
  <2> QED
    BY <2>1, <2>4, <2>5, <2>6, LocalWrites
<1>5. \A k \in Keys : redis'[k] # NoEntry => redis'[k].token.issued <= now'
  <2>1. CASE UNCHANGED redis
    BY <1>2, <2>1, EntryType DEF IInv, BornOK
  <2>2. CASE Tick
    BY <1>2, <2>2, EntryType DEF Tick, Passes, IInv, BornOK, TypeOK, CacheTypeOK
  <2>3. ASSUME NEW r \in Requests, StoreRedis(r), redis' # redis
        PROVE  \A k \in Keys : redis'[k] # NoEntry => redis'[k].token.issued <= now'
    <3>1. Storing(r) /\ redis' = [redis EXCEPT ![asked[r].key] = Fresh(held[r])]
      BY <2>3 DEF StoreRedis, RedisSet, Storing, Moves
    <3> QED
      BY <1>2, <1>3, <3>1, EntryType DEF IInv, BornOK, TypeOK, CacheTypeOK
  <2> QED
    BY <2>1, <2>2, <2>3, RedisWrites
<1>6. \A r \in Requests : held'[r] # NoToken => held'[r].issued <= now'
  <2> SUFFICES ASSUME NEW r \in Requests, held'[r] # NoToken
               PROVE  held'[r].issued <= now'
    OBVIOUS
  <2>1. CASE held'[r] = held[r]
    BY <1>2, <2>1 DEF IInv, TypeOK, BornOK, Tokens
  <2>2. CASE LocalHits(r) \/ RedisHits(r)
    BY <1>2, <2>2, EntryType, RequestFields
    DEF LocalHits, LocalHit, LocalFound, RedisHits, RedisHit, Gets, IInv,
        TypeOK, BornOK
  <2>3. CASE Fetched(r) \/ BothAccessFetched(r)
    BY <1>1, <2>1, <2>3
    DEF Fetched, BothAccessFetched, Gets, Issued, IInv, TypeOK
  <2>4. held'[r] \in {held[r], NoToken} \/ LocalHits(r) \/ RedisHits(r)
        \/ Fetched(r) \/ BothAccessFetched(r)
    <3>1. ASSUME NEW q \in Requests, q # r, Serves(q) PROVE held'[r] = held[r]
      BY <3>1, OthersSame
    <3>2. ASSUME Serves(r)
          PROVE  held'[r] = held[r] \/ LocalHits(r) \/ RedisHits(r)
                 \/ Fetched(r) \/ BothAccessFetched(r)
      BY <3>2
      DEF Serves, LocalMisses, RemoveLocal, RedisMisses, Backfill, FetchFails,
          BothRefreshFetched, BothFails, StoreLocal, StoreRedis, Gets, IInv,
          TypeOK
    <3>3. ASSUME NEW q \in Requests, Request(q) PROVE held'[r] \in {held[r], NoToken}
      BY <3>3 DEF Request, IInv, TypeOK
    <3>4. CASE Tick \/ Restart \/ UNCHANGED vars
      BY <3>4 DEF Tick, Restart, vars
    <3> QED
      BY <3>1, <3>2, <3>3, <3>4 DEF Next
  <2> QED
    BY <2>1, <2>2, <2>3, <2>4
<1> QED
  BY <1>4, <1>5, <1>6 DEF BornOK

\* The three invariants hold in every state.
LEMMA TokenServiceInvariant == Spec => []SInv
<1>1. Init => PathsOK /\ BornOK
  BY DEF Init, CacheInit, PathsOK, BornOK
<1>2. SInv /\ [Next]_vars => SInv'
  BY TypeStep, LocalStep, RedisStep, CallersStep, HandsStep, PathsStep, BornStep
  DEF SInv, IInv
<1> QED
  BY <1>1, <1>2, InitInv, PTL DEF Spec, SInv

\* A step of r is seen by the callers in the phase and the answer of r only.
LEMMA OnlyOneSeen ==
  ASSUME IInv, NEW r \in Requests, Serves(r)
  PROVE  /\ [q \in Requests |-> PhaseOf(q)]' =
              [[q \in Requests |-> PhaseOf(q)] EXCEPT ![r] = PhaseOf(r)']
         /\ [q \in Requests |-> AnswerOf(q)]' =
              [[q \in Requests |-> AnswerOf(q)] EXCEPT ![r] = AnswerOf(r)']
         /\ UNCHANGED <<now, MaxAge>>
<1>1. UNCHANGED <<now, cacheType, asked>>
  BY ServesSame
<1>2. \A q \in Requests : q # r => PhaseOf(q)' = PhaseOf(q) /\ AnswerOf(q)' = AnswerOf(q)
  BY <1>1, OthersSame DEF PhaseOf, AnswerOf, Served, ReturnsAccess
<1> QED
  BY <1>1, <1>2 DEF MaxAge

\* The token that a caller is answered is one that TokenService allows.
LEMMA AnsweredAllowed ==
  ASSUME SInv, SInv', NEW r \in Requests, Served(r)',
         UNCHANGED <<now, cacheType, asked>>,
         \/ asked[r].op = "access" /\ since'[r] = now
         \/ now <= held'[r].issued + Delay
  PROVE  held'[r] \in Service!Allowed(asked[r])
<1> DEFINE t == held'[r]
           k == asked[r].key
<1>1. /\ t \in Tokens /\ t.key = k /\ t.issued \in Nat /\ t.issued <= now
      /\ (k \notin MixedKeys => t.scope = GoodScope(k))
      /\ since'[r] <= t.issued + MaxAge'
  BY DEF SInv, IInv, TypeOK, HandsOK, HandOK, Good, BornOK, Tokens
<1>2. /\ now \in Nat /\ MaxAge \in Nat /\ Delay <= MaxAge /\ Delay \in Nat
      /\ MaxAge' \in Nat
  BY DEF SInv, IInv, TypeOK, CacheTypeOK, MaxAge
<1>3. UNCHANGED MaxAge
  BY DEF MaxAge
<1>4. t \in [key : {k}, scope : Scopes, issued : 0..now]
  BY <1>1, <1>2 DEF Tokens
<1>5. k \notin MixedKeys => t.scope = ScopeIssued(asked[r])
  BY <1>1 DEF SInv, IInv, CallersOK, Served, GoodScope, Detected, ScopeIssued
<1>6. now <= t.issued + (IF asked[r].op = "both" THEN Delay ELSE MaxAge)
  BY <1>1, <1>2, <1>3
<1> QED
  BY <1>4, <1>5, <1>6 DEF Service!Allowed

\* A step of a goroutine is an answer, a failure or a crash, or nothing that
\* its caller can see.
LEMMA ServesSeen ==
  ASSUME SInv, SInv', NEW r \in Requests, Serves(r)
  PROVE  Service!Next \/ UNCHANGED Service!vars
<1> DEFINE phase == [q \in Requests |-> PhaseOf(q)]
           answer == [q \in Requests |-> AnswerOf(q)]
<1>1. /\ phase' = [phase EXCEPT ![r] = PhaseOf(r)']
      /\ answer' = [answer EXCEPT ![r] = AnswerOf(r)']
      /\ UNCHANGED <<now, cacheType, asked, MaxAge>>
  BY OnlyOneSeen, ServesSame DEF SInv
<1>2. /\ pc \in [Requests -> PC] /\ held \in [Requests -> Tokens \cup {NoToken}]
      /\ pc' \in [Requests -> PC] /\ since \in [Requests -> Nat]
      /\ now \in Nat /\ Delay \in Nat
  BY DEF SInv, IInv, TypeOK, CacheTypeOK
<1>3. ASSUME ~crashed, UNCHANGED crashed, PhaseOf(r) = "asked",
             pc'[r] = "answered",
             ReturnsAccess(r) =>
               \/ asked[r].op = "access" /\ since'[r] = now
               \/ now <= held'[r].issued + Delay
      PROVE  Service!Answer(r)
  <2>1. phase[r] = "asked" /\ PhaseOf(r)' = "answered"
    BY <1>3 DEF PhaseOf
  <2>2. CASE ReturnsAccess(r)
    <3>1. Served(r)' /\ AnswerOf(r)' = held'[r]
      BY <1>1, <1>3, <2>2 DEF Served, ReturnsAccess, AnswerOf
    <3>2. held'[r] \in Service!Allowed(asked[r])
      BY <1>1, <1>3, <2>2, <3>1, AnsweredAllowed
    <3> QED
      BY <1>1, <1>3, <2>1, <2>2, <3>1, <3>2
      DEF Service!Answer, Service!ReturnsToken, ReturnsAccess
  <2>3. CASE ~ReturnsAccess(r)
    <3>1. AnswerOf(r)' = NoToken
      BY <1>1, <2>3 DEF AnswerOf, Served, ReturnsAccess
    <3> QED
      BY <1>1, <1>3, <2>1, <2>3, <3>1
      DEF Service!Answer, Service!ReturnsToken, ReturnsAccess
  <2> QED
    BY <2>2, <2>3
<1>4. ASSUME UNCHANGED crashed, PhaseOf(r) = "asked", PhaseOf(r)' = "asked"
      PROVE  UNCHANGED Service!vars
  <2>1. AnswerOf(r) = NoToken /\ AnswerOf(r)' = NoToken
    BY <1>4 DEF AnswerOf, Served, PhaseOf
  <2> QED
    BY <1>1, <1>4, <2>1 DEF Service!vars
<1> USE DEF Moves, Gets, TheSame, NoCacheStep, cacheVars
<1>5. CASE LocalHits(r)
  <2>1. /\ ~crashed /\ UNCHANGED crashed /\ pc[r] = "getLocal"
        /\ pc'[r] = "answered" /\ since'[r] = now
    BY <1>2, <1>5 DEF LocalHits
  <2> QED
    BY <1>3, <2>1 DEF SInv, PathsOK, PhaseOf, Service!Next
<1>6. CASE LocalMisses(r) \/ RemoveLocal(r) \/ RedisMisses(r)
  BY <1>2, <1>4, <1>6 DEF LocalMisses, RemoveLocal, RedisMisses, PhaseOf
<1>7. CASE RedisHits(r)
  <2>1. /\ ~crashed /\ UNCHANGED crashed /\ pc[r] = "getRedis"
        /\ pc'[r] \in {"backfill", "answered"} /\ since'[r] = now
    BY <1>2, <1>7 DEF RedisHits
  <2>2. CASE pc'[r] = "backfill"
    BY <1>4, <2>1, <2>2 DEF PhaseOf
  <2>3. CASE pc'[r] = "answered"
    BY <1>3, <2>1, <2>3 DEF SInv, PathsOK, PhaseOf, Service!Next
  <2> QED
    BY <2>1, <2>2, <2>3
<1>8. CASE Backfill(r)
  <2>1. /\ ~crashed /\ UNCHANGED crashed /\ pc[r] = "backfill"
        /\ pc'[r] = "answered" /\ since'[r] = now
    BY <1>2, <1>8 DEF Backfill
  <2> QED
    BY <1>3, <2>1 DEF SInv, PathsOK, PhaseOf, Service!Next
<1>9. CASE Fetched(r)
  <2>1. /\ ~crashed /\ UNCHANGED crashed /\ pc[r] = "fetch"
        /\ \/ pc'[r] \in {"storeLocal", "storeRedis"}
           \/ pc'[r] = "answered" /\ ~ReturnsAccess(r)
    BY <1>2, <1>9 DEF Fetched, FirstStore
  <2> QED
    BY <1>3, <1>4, <2>1 DEF PhaseOf, Service!Next
<1>10. CASE FetchFails(r)
  <2>1. /\ ~crashed /\ UNCHANGED crashed /\ pc[r] = "fetch"
        /\ pc'[r] = "failed"
    BY <1>2, <1>10 DEF FetchFails
  <2>2. AnswerOf(r) = NoToken /\ AnswerOf(r)' = NoToken
    BY <2>1 DEF AnswerOf, Served
  <2>3. phase[r] = "asked" /\ PhaseOf(r)' = "failed" /\ UNCHANGED answer
    BY <1>1, <2>1, <2>2 DEF PhaseOf
  <2> QED
    BY <1>1, <2>1, <2>3 DEF Service!Fail, Service!Next
<1>11. CASE BothAccessFetched(r) \/ BothRefreshFetched(r)
  BY <1>2, <1>4, <1>11
  DEF BothAccessFetched, BothRefreshFetched, FirstStore, PhaseOf
<1>12. CASE BothFails(r)
  <2>1. /\ ~crashed /\ crashed' = TRUE /\ UNCHANGED <<pc, held>>
        /\ pc[r] \in {"fetchBoth", "awaitAccess", "awaitRefresh"}
    BY <1>12 DEF BothFails
  <2>2. UNCHANGED <<phase, answer>>
    BY <1>1, <2>1 DEF PhaseOf, AnswerOf, Served, ReturnsAccess
  <2>3. phase[r] = "asked" /\ asked[r].op = "both" /\ asked[r].protocol = "GRAPH"
    BY <2>1 DEF PhaseOf, SInv, PathsOK
  <2> QED
    BY <1>1, <2>1, <2>2, <2>3 DEF Service!Crash, Service!Next
<1>13. CASE StoreLocal(r) \/ StoreRedis(r)
  <2>1. /\ ~crashed /\ UNCHANGED crashed /\ pc[r] \in {"storeLocal", "storeRedis"}
        /\ pc'[r] \in {"storeRedis", "answered"} /\ UNCHANGED held
    BY <1>2, <1>13 DEF StoreLocal, StoreRedis
  <2>2. now <= held'[r].issued + Delay
    BY <2>1 DEF SInv, IInv, HandsOK, HandOK, Storing
  <2> QED
    BY <1>3, <1>4, <2>1, <2>2 DEF PhaseOf, Service!Next
<1> QED
  BY <1>5, <1>6, <1>7, <1>8, <1>9, <1>10, <1>11, <1>12, <1>13 DEF Serves

\* A request that comes in has no answer yet.
LEMMA RequestSeen ==
  ASSUME SInv, NEW r \in Requests, Request(r)
  PROVE  Service!Ask(r)
<1> DEFINE phase == [q \in Requests |-> PhaseOf(q)]
           answer == [q \in Requests |-> AnswerOf(q)]
<1>1. PICK req \in RequestType :
        /\ asked' = [asked EXCEPT ![r] = req]
        /\ pc' = [pc EXCEPT ![r] = FirstStep(req)]
  BY DEF Request
<1>2. /\ pc \in [Requests -> PC] /\ asked \in [Requests -> RequestType]
      /\ held \in [Requests -> Tokens \cup {NoToken}]
  BY DEF SInv, IInv, TypeOK
<1>3. /\ ~crashed /\ UNCHANGED <<crashed, now, cacheType>>
      /\ pc[r] \in {"idle", "answered", "failed"}
      /\ held' = [held EXCEPT ![r] = NoToken]
  BY DEF Request, NoCacheStep, cacheVars
<1>4. \A q \in Requests : q # r =>
        PhaseOf(q)' = PhaseOf(q) /\ AnswerOf(q)' = AnswerOf(q)
  BY <1>1, <1>2, <1>3 DEF PhaseOf, AnswerOf, Served, ReturnsAccess
<1>5. PhaseOf(r)' = "asked"
  BY <1>1, <1>2 DEF PhaseOf, FirstStep
<1>6. AnswerOf(r)' = NoToken
  BY <1>5 DEF AnswerOf, Served, PhaseOf
<1>7. phase' = [phase EXCEPT ![r] = "asked"] /\ answer' = [answer EXCEPT ![r] = NoToken]
  BY <1>4, <1>5, <1>6
<1>8. phase[r] # "asked"
  BY <1>3 DEF PhaseOf
<1> QED
  BY <1>1, <1>3, <1>7, <1>8 DEF Service!Ask, MaxAge

\* The provider implements TokenService, for any accounts, requests, times and
\* sizes (GetAccessToken, GetBothTokens, GetRefreshToken, DetectProtocolType).
THEOREM TokenServiceImplemented == Spec => ServesTokens
<1>1. Init => Service!Init
  <2> SUFFICES ASSUME Init PROVE Service!Init
    OBVIOUS
  <2>1. IInv
    BY InitInv
  <2>2. MaxAge \in Nat
    BY DEF MaxAge
  <2>3. \A r \in Requests : PhaseOf(r) = "idle" /\ AnswerOf(r) = NoToken
    BY DEF Init, PhaseOf, AnswerOf, Served
  <2> QED
    BY <2>1, <2>2, <2>3 DEF Service!Init, Init, CacheInit, IInv, TypeOK
<1>2. SInv /\ SInv' /\ [Next]_vars => [Service!Next]_(Service!vars)
  <2> SUFFICES ASSUME SInv, SInv', [Next]_vars
               PROVE  [Service!Next]_(Service!vars)
    OBVIOUS
  <2>1. ASSUME NEW r \in Requests, Serves(r) PROVE [Service!Next]_(Service!vars)
    BY <2>1, ServesSeen
  <2>2. ASSUME NEW r \in Requests, Request(r) PROVE Service!Next
    BY <2>2, RequestSeen DEF Service!Next
  <2>3. CASE Tick
    <3>1. /\ ~crashed /\ now' = now + 1
          /\ UNCHANGED <<cacheType, pc, asked, held, crashed>>
      BY <2>3 DEF Tick, Passes, TheSame
    <3>2. \A r \in Requests : PhaseOf(r)' = PhaseOf(r) /\ AnswerOf(r)' = AnswerOf(r)
      BY <3>1 DEF PhaseOf, AnswerOf, Served, ReturnsAccess
    <3> QED
      BY <3>1, <3>2 DEF Service!Tick, Service!Next, MaxAge
  <2>4. CASE Restart
    <3>1. \A r \in Requests : PhaseOf(r)' = "idle" /\ AnswerOf(r)' = NoToken
      BY <2>4 DEF Restart, PhaseOf, AnswerOf, Served
    <3> QED
      BY <2>4, <3>1 DEF Restart, Service!Restart, Service!Next, MaxAge
  <2>5. CASE UNCHANGED vars
    <3>1. \A r \in Requests : PhaseOf(r)' = PhaseOf(r) /\ AnswerOf(r)' = AnswerOf(r)
      BY <2>5 DEF vars, PhaseOf, AnswerOf, Served, ReturnsAccess
    <3> QED
      BY <2>5, <3>1 DEF vars, cacheVars, Service!vars, MaxAge
  <2> QED
    BY <2>1, <2>2, <2>3, <2>4, <2>5 DEF Next
<1> QED
  BY <1>1, <1>2, TokenServiceInvariant, PTL DEF Spec, ServesTokens, Service!Spec


=============================================================================
