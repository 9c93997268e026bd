----------------------------- MODULE TokenProvider -----------------------------
(***************************************************************************)
(* The requests that need tokens (internal/provider, internal/origin/auth, *)
(* the detection of ProtocolService), one goroutine each, over the cache   *)
(* they share and the token endpoint, which is external.                   *)
(*                                                                         *)
(* Every call on a level of the cache and every answer of the endpoint is  *)
(* a step, so requests interleave between them.  The endpoint issues a     *)
(* token at one time and the answer is stored later; a token read from     *)
(* Redis is written into the local level later: Delay bounds both.         *)
(***************************************************************************)
EXTENDS TokenCache

CONSTANTS
  Requests,     \* goroutines that serve requests, one after another
  GraphKeys,    \* the accounts that granted Mail.ReadWrite of Graph
  MixedKeys,    \* the accounts whose callers use both protocols
  NoToken,      \* no token in hand
  Delay,        \* bound: ticks from a token's issue, or from a hit in Redis,
                \* to the last store of it
  MaxTime,      \* bound: the clock
  MaxRequests,  \* bound: requests
  MaxRestarts   \* bound: restarts of the process

ASSUME ProviderAssumption ==
  /\ Keys # {} /\ GraphKeys \subseteq Keys /\ MixedKeys \subseteq Keys
  /\ NoToken \notin Tokens
  /\ Delay \in Nat /\ MaxTime \in Nat
  /\ MaxRequests \in Nat /\ MaxRestarts \in Nat

VARIABLES
  pc,         \* where each goroutine is
  asked,      \* the request it serves
  held,       \* the access token it holds, at the end the one it returns
  since,      \* when it got that token
  started,    \* number of requests so far
  crashed,    \* a goroutine panicked with nothing to recover: no process
  restarts    \* number of restarts so far

vars == <<cacheVars, pc, asked, held, since, started, crashed, restarts>>

Protocols == {"IMAP", "GRAPH"}

\* What the handlers ask for.  A query or a subscription needs an access token,
\* and with it a new refresh token if its caller says so (GetTokens).
TokenRequests == [key : Keys, op : {"access", "both"}, protocol : Protocols]
\* A refresh asks for no scope, whatever the protocol.
RefreshRequests == [key : Keys, op : {"refresh"}, protocol : {"IMAP"}]
\* A detection asks for the scope of Graph.
DetectRequests == [key : Keys, op : {"detect"}, protocol : {"GRAPH"}]

RequestType == TokenRequests \cup RefreshRequests \cup DetectRequests

PC == {"idle", "getLocal", "removeLocal", "getRedis", "backfill", "fetch",
       "fetchBoth", "awaitAccess", "awaitRefresh", "storeLocal", "storeRedis",
       "answered", "failed"}

\* The requests that end with an access token for the caller.
ReturnsAccess(r) == asked[r].op \in {"access", "both"}

\* What DetectProtocolType finds out about an account (isGraphScope).
Detected(k) == IF k \in GraphKeys THEN "GRAPH" ELSE "IMAP"

\* GetTokensWithScope asks for the scope of Graph or for none; the endpoint
\* grants what the account allows.
ScopeIssued(q) ==
  IF q.protocol = "IMAP" THEN "imap"
  ELSE IF q.key \in GraphKeys THEN "graph" ELSE "other"

Issued(r) == [key |-> asked[r].key, scope |-> ScopeIssued(asked[r]),
              issued |-> now]

TypeOK ==
  /\ CacheTypeOK
  /\ pc \in [Requests -> PC]
  /\ asked \in [Requests -> RequestType]
  /\ held \in [Requests -> Tokens \cup {NoToken}]
  /\ since \in [Requests -> Nat]
  /\ started \in 0..MaxRequests
  /\ crashed \in BOOLEAN
  /\ restarts \in 0..MaxRestarts

Init ==
  /\ CacheInit
  /\ pc = [r \in Requests |-> "idle"]
  /\ asked = [r \in Requests |-> CHOOSE q \in RequestType : TRUE]
  /\ held = [r \in Requests |-> NoToken]
  /\ since = [r \in Requests |-> 0]
  /\ started = 0
  /\ crashed = FALSE
  /\ restarts = 0

Moves(r, from, to) ==
  /\ ~crashed
  /\ pc[r] = from
  /\ pc' = [pc EXCEPT ![r] = to]

\* The goroutine gets a token, now.
Gets(r, token) ==
  /\ held' = [held EXCEPT ![r] = token]
  /\ since' = [since EXCEPT ![r] = now]

TheSame == UNCHANGED <<asked, started, crashed, restarts>>
NoCacheStep == UNCHANGED cacheVars

-----------------------------------------------------------------------------
\* A bug: a new refresh token comes with an access token of the cache.
FirstStepCached(q) ==
  IF q.op \in {"access", "both"}
  THEN (IF HasLocal THEN "getLocal" ELSE "getRedis")
  ELSE "fetch"

\* Only a request for the access token alone looks into the cache.
FirstStep(q) ==
  IF q.op = "access" THEN (IF HasLocal THEN "getLocal" ELSE "getRedis")
  ELSE IF q.op = "both" /\ q.protocol = "GRAPH" THEN "fetchBoth"
  ELSE "fetch"

\* A request comes in, of a caller who uses the protocol detected for the
\* account, or any protocol if the account is a mixed one.
Request(r) ==
  /\ ~crashed
  /\ pc[r] \in {"idle", "answered", "failed"}
  /\ started < MaxRequests
  /\ \E q \in RequestType :
       /\ q \in TokenRequests =>
            q.key \in MixedKeys \/ q.protocol = Detected(q.key)
       /\ asked' = [asked EXCEPT ![r] = q]
       /\ pc' = [pc EXCEPT ![r] = FirstStep(q)]
  /\ held' = [held EXCEPT ![r] = NoToken]
  /\ since' = [since EXCEPT ![r] = 0]
  /\ started' = started + 1
  /\ UNCHANGED <<crashed, restarts>>
  /\ NoCacheStep

\* The local level has the token.
LocalHits(r) ==
  LET k == asked[r].key
  IN  /\ LocalHit(k)
      /\ Moves(r, "getLocal", "answered")
      /\ Gets(r, local[k].token)
      /\ TheSame /\ NoCacheStep

\* The local level has no entry, or one that has expired, which a second call
\* on the map removes.
LocalMisses(r) ==
  LET k == asked[r].key
  IN  /\ ~LocalHit(k)
      /\ Moves(r, "getLocal",
               IF LocalFound(k) THEN "removeLocal"
               ELSE IF HasRedis THEN "getRedis" ELSE "fetch")
      /\ UNCHANGED <<held, since>>
      /\ TheSame /\ NoCacheStep

\* The entry of the key is removed, whatever it is by now.
RemoveLocal(r) ==
  /\ Moves(r, "removeLocal", IF HasRedis THEN "getRedis" ELSE "fetch")
  /\ LocalRemove(asked[r].key)
  /\ UNCHANGED <<now, cacheType, redis, held, since>>
  /\ TheSame

RedisHits(r) ==
  LET k == asked[r].key
  IN  /\ RedisHit(k)
      /\ Moves(r, "getRedis", IF HasLocal THEN "backfill" ELSE "answered")
      /\ Gets(r, redis[k].token)
      /\ TheSame /\ NoCacheStep

\* Redis has no entry, or cannot be reached.
RedisMisses(r) ==
  /\ Moves(r, "getRedis", "fetch")
  /\ UNCHANGED <<held, since>>
  /\ TheSame /\ NoCacheStep

\* The token found in Redis is stored locally, for 50 minutes from now.
Backfill(r) ==
  /\ Moves(r, "backfill", "answered")
  /\ LocalSet(asked[r].key, held[r])
  /\ Gets(r, held[r])
  /\ UNCHANGED <<now, cacheType, redis>>
  /\ TheSame

-----------------------------------------------------------------------------
\* Where a request goes on that has been given an access token to store.
FirstStore == IF HasLocal THEN "storeLocal" ELSE "storeRedis"

\* A bug: a detection stores its token whatever the scope granted.
FetchedUnscoped(r) ==
  /\ pc[r] = "fetch"
  /\ IF asked[r].op # "refresh"
     THEN /\ Moves(r, "fetch", FirstStore)
          /\ Gets(r, Issued(r))
     ELSE /\ Moves(r, "fetch", "answered")
          /\ UNCHANGED <<held, since>>
  /\ TheSame /\ NoCacheStep

\* The endpoint answers.  GetRefreshToken stores nothing; a detection stores
\* the token only if it is one for Graph.
Fetched(r) ==
  /\ pc[r] = "fetch"
  /\ IF \/ ReturnsAccess(r)
        \/ asked[r].op = "detect" /\ Issued(r).scope = "graph"
     THEN /\ Moves(r, "fetch", FirstStore)
          /\ Gets(r, Issued(r))
     ELSE /\ Moves(r, "fetch", "answered")
          /\ UNCHANGED <<held, since>>
  /\ TheSame /\ NoCacheStep

\* A bug: the error of the fetch is not looked at.
FetchFailsUnnoticed(r) ==
  /\ Moves(r, "fetch", FirstStore)
  /\ UNCHANGED <<held, since>>
  /\ TheSame /\ NoCacheStep

\* The endpoint refuses or cannot be reached, which the caller is told.
FetchFails(r) ==
  /\ Moves(r, "fetch", "failed")
  /\ UNCHANGED <<held, since>>
  /\ TheSame /\ NoCacheStep

\* getBothTokensConcurrently: two goroutines, and the caller waits for both.
BothAccessFetched(r) ==
  /\ \/ Moves(r, "fetchBoth", "awaitRefresh")
     \/ Moves(r, "awaitAccess", FirstStore)
  /\ Gets(r, Issued(r))
  /\ TheSame /\ NoCacheStep

BothRefreshFetched(r) ==
  /\ \/ Moves(r, "fetchBoth", "awaitAccess")
     \/ Moves(r, "awaitRefresh", FirstStore)
  /\ UNCHANGED <<held, since>>
  /\ TheSame /\ NoCacheStep

\* One of the two fails: its goroutine reads a field of the nil response
\* before anybody looks at the error.
BothFails(r) ==
  /\ ~crashed
  /\ pc[r] \in {"fetchBoth", "awaitAccess", "awaitRefresh"}
  /\ crashed' = TRUE
  /\ UNCHANGED <<pc, asked, held, since, started, restarts>>
  /\ NoCacheStep

StoreLocal(r) ==
  /\ Moves(r, "storeLocal", IF HasRedis THEN "storeRedis" ELSE "answered")
  /\ LocalSet(asked[r].key, held[r])
  /\ UNCHANGED <<now, cacheType, redis, held, since>>
  /\ TheSame

\* A bug: the key is a variable that goroutines share.
StoreRedisUnderSharedKey(r) ==
  /\ Moves(r, "storeRedis", "answered")
  /\ \E q \in Requests : RedisSet(asked[q].key, held[r])
  /\ UNCHANGED <<now, cacheType, local, held, since>>
  /\ TheSame

\* An error of Redis is logged and the request goes on.
StoreRedis(r) ==
  /\ Moves(r, "storeRedis", "answered")
  /\ \/ RedisSet(asked[r].key, held[r])
     \/ UNCHANGED redis
  /\ UNCHANGED <<now, cacheType, local, held, since>>
  /\ TheSame

-----------------------------------------------------------------------------
\* The goroutines that hold a token they have not finished to store.
Storing(r) ==
  pc[r] \in {"backfill", "awaitRefresh", "storeLocal", "storeRedis"}

\* The clock goes on, unless somebody would exceed the Delay.
Tick ==
  /\ ~crashed
  /\ now < MaxTime
  /\ \A r \in Requests : Storing(r) => now < since[r] + Delay
  /\ Passes
  /\ UNCHANGED <<pc, asked, held, since>>
  /\ TheSame

\* The process is started again, after a crash or a new deployment: requests
\* and the local level are gone, Redis is not.
Restart ==
  /\ restarts < MaxRestarts
  /\ restarts' = restarts + 1
  /\ crashed' = FALSE
  /\ local' = [k \in Keys |-> NoEntry]
  /\ pc' = [r \in Requests |-> "idle"]
  /\ held' = [r \in Requests |-> NoToken]
  /\ since' = [r \in Requests |-> 0]
  /\ UNCHANGED <<now, cacheType, redis, asked, started>>

Serves(r) ==
  \/ LocalHits(r) \/ LocalMisses(r) \/ RemoveLocal(r)
  \/ RedisHits(r) \/ RedisMisses(r) \/ Backfill(r)
  \/ Fetched(r) \/ FetchFails(r)
  \/ BothAccessFetched(r) \/ BothRefreshFetched(r) \/ BothFails(r)
  \/ StoreLocal(r) \/ StoreRedis(r)

Next == Tick \/ Restart \/ \E r \in Requests : Request(r) \/ Serves(r)

Spec == Init /\ [][Next]_vars

-----------------------------------------------------------------------------
\* What the goroutine of r has answered its caller with.
Served(r) == pc[r] = "answered" /\ ReturnsAccess(r)

\* No caller is given the access token of another's refresh token, whatever
\* the stores, evictions and backfills of other requests do in between.
ServedOwnToken ==
  \A r \in Requests : Served(r) => held[r].key = asked[r].key

\* The cache does not know for which protocol it keeps a token.  Yet callers
\* who keep to the protocol detected for the account get a token with the
\* scope they would be issued, also when detections store tokens as well.
ServedForProtocol ==
  \A r \in Requests :
    Served(r) /\ asked[r].key \notin MixedKeys =>
      held[r].scope = ScopeIssued(asked[r])

\* The comments assume a token good for 60 minutes and keep it for 50.  Two
\* levels serve it for twice that time, since a backfill starts anew (one tick
\* less: Redis drops an entry at its expiry); but never for longer, whatever
\* requests, evictions, restarts and failing levels do.
MaxAge ==
  IF cacheType = "multilevel" THEN 2 * (TTL + Delay) - 1 ELSE TTL + Delay

ServedAge ==
  \A r \in Requests : Served(r) => since[r] <= held[r].issued + MaxAge

PhaseOf(r) == IF pc[r] \in {"idle", "answered", "failed"} THEN pc[r] ELSE "asked"
AnswerOf(r) == IF Served(r) THEN held[r] ELSE NoToken

Service == INSTANCE TokenService WITH
  maxAge <- MaxAge,
  phase <- [r \in Requests |-> PhaseOf(r)],
  answer <- [r \in Requests |-> AnswerOf(r)]

\* To its callers the provider is TokenService: behind the cache, its races and
\* its failures, every request has one answer, which nothing changes any more,
\* with a token that is right at that instant; a request for both tokens never
\* has one out of the cache; and no other request than that over Graph crashes.
ServesTokens == Service!Spec

=============================================================================
