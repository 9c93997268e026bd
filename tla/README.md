# A TLA+ model of GoMailAPI2

GoMailAPI2 is a Go service that gives REST and gRPC access to Outlook mail. A
request carries a refresh token and a protocol (IMAP or Microsoft Graph). The
service turns the refresh token into an access token (through a two-level
cache), opens an IMAP connection or calls Graph, and answers with a mail, or
keeps a stream open and delivers *the next mail that arrives* ("subscription").

This directory holds the specifications of that service, the TLC runs that
check them and the TLAPS proofs about them. Paths below are relative to `src/`.

## 1. The system

### Components

| component | source | state it keeps | operations |
|---|---|---|---|
| subscription handlers, IMAP | `api/rest/handler/subscribe_sse_handler.go`, `api/grpc/subscribe_handlers.go`, `api/grpc/utils.go` | position in the stream, 3 minute timer, 60 second ticker | open, send `subscription`, heartbeat, `email`, `complete`; deferred cleanup |
| ImapSubscriptionManager | `internal/manager/imap_manager.go` | map of subscriptions, `EmailChan` (capacity 1) and `StopCtx` of each | `CreateSubscription`, `StartSubscription`, `CancelSubscription` |
| CommonImapClient | `internal/client/imap/common_imap_client.go`, `internal/client/imap/outlook/imap_client.go` | connection, `isConnected`, `isSubscribed`, `stopChan`, `updates` (capacity 1), WaitGroup of the listener, last mailbox counts, time of the last notice | `Connect`, `SubscribeNewEmails` with its listener and IDLE goroutines, `UnsubscribeNewEmails`, `Disconnect`, single fetches |
| subscription handlers, Graph | the same handler files, `internal/client/graph/graph_client.go` | subscription id, notification channel | create at Graph, register the channel, wait, delete at Graph |
| NotificationManager and webhook | `internal/manager/notification_manager.go`, `api/rest/handler/graph_webhook_handler.go` | map from subscription id to a channel of capacity 1 | `RegisterChannel`, `SendNotification`, `RemoveChannel`, one webhook call per batch |
| token cache | `internal/cache/tokencache/*.go`, `internal/cache/factory/token_factory.go` | local map with expiry times, Redis, the order of the levels | `Get` with backfill, `Set`, `Delete` |
| TokenProvider and token endpoint | `internal/provider/token/token.go`, `internal/origin/auth/auth.go`, `api/common/common.go` | none of its own | access token, access and refresh token, the two concurrent requests of the detection |
| ProtocolService, batch token refresh | `internal/service/protocol_service.go`, `api/rest/handler/token_handler.go`, `api/grpc/token_handlers.go` | counters and result slices of a batch | one goroutine per item, collection of the results |
| mail queries | `api/rest/handler/mail_*.go`, `api/grpc/mail_handlers.go` | none | latest mail, junk mail, mail by id |
| mail parsing | `parseMail` in `common_imap_client.go`, `convertToEmail` in `graph_client.go`, `internal/utils/utils.go` | none | pure conversions |
| start and shutdown | `cmd/*/main.go`, `api/grpc/server.go`, `api/rest/router.go` | the two servers | start, wait for a signal, stop both |
| configuration, records, generated code | `internal/config`, `internal/domain`, `internal/types`, `api/rest/dto`, `proto/pb`, `internal/client/proxy_client.go` | read once | none |

### How they interact, and what is hard

- A **handler goroutine** per request drives everything for that request. For
  an IMAP subscription it shares `EmailChan`, `StopCtx`, `stopChan` and
  `c.client` with a **listener goroutine**, which starts an **IDLE goroutine**
  in every round of its loop. Underneath, go-imap runs a **reader goroutine**
  per connection that sends an update per unsolicited line into a channel of
  capacity 1, which only the listener receives from.
- All of these meet at: closing channels somebody may still send into,
  resetting `c.client` while somebody may still call it, issuing IMAP commands
  from different goroutines on one connection, waiting for one another without
  a timeout, and data that changes between a notice and the fetch it leads to.
- A **Graph** subscription is driven from outside: a webhook request, on its
  own goroutine, looks a channel up in a map that other goroutines change
  without a lock.
- The **token cache** has two levels with clocks of their own, and its key says
  nothing about the protocol the token was requested for.

### What makes each part correct

- *IMAP subscription*: no send on a closed channel, no use of a nil client, no
  overlapping commands, nothing left behind once the handler returned, the
  handler does return, the mail delivered is a new one, and the events follow
  the order promised to the caller.
- *Graph subscription, webhook*: the same promise to the caller, no send on a
  removed channel, every notification of a batch processed, no subscription
  left at Graph.
- *Token cache and provider*: a token served is unexpired and was requested for
  the protocol that uses it; the levels agree after a store; an error is
  returned instead of a crash.
- *Batches*: the counters agree with the results and the wait ends.
- *Server lifecycle*: open streams end and their cleanup runs before the exit.
- *Conversions*: no input panics.

`PROJECT.json` lists every hazard at its line with the properties for it.

## 2. The modules

| module | what it is |
|---|---|
| `ImapConnection` | the mail server and go-imap's reader goroutine; external code, modelled from how `common_imap_client.go` uses it |
| `ImapSubscription` | handler, manager, client, listener and IDLE goroutine of one subscription; EXTENDS `ImapConnection` |
| `NotificationManager` | the map of notification channels, without a lock, as handlers and webhook goroutines use it |
| `GraphSubscription` | the handlers of several Graph subscriptions, the webhook and Microsoft Graph (external); EXTENDS `NotificationManager` |
| `MailEventStream` | abstract: what a subscription promises its caller on any transport and protocol; both subscription modules implement it |
| `TokenCache` | the levels of the token cache, one operator per call on a level, and the clock |
| `TokenProvider` | the requests that need tokens, their two concurrent fetches, the backfill and the stores, a restart; EXTENDS `TokenCache`; the token endpoint is external |
| `TokenService` | abstract: what the token requests promise their callers, without a cache; `TokenProvider` implements it |
| `BatchJobs` | the goroutines of a batch refresh or a batch detection, and its answer |
| `MailQuery` | a query for one mail over IMAP or Graph, and the folders that change meanwhile |
| `AtomicQuery` | abstract: a query as one look at the mailbox; `MailQuery` implements it |
| `SubscriptionHandlers` | the handlers of all subscriptions, as far as they meet: in the unlocked map of `ImapSubscriptionManager` |
| `UnifiedServer` | main, the gRPC and the REST server from the start to the exit; EXTENDS `BatchJobs`, `MailQuery`, `SubscriptionHandlers` |
| `MCImapSubscription`, `MCGraphSubscription`, `MCTokenProvider`, `MCUnifiedServer` | the modules TLC is given: values of the constants, and the claims found in comments that the code does not keep |
| `ImapSubscription_proofs`, `GraphSubscription_proofs`, `TokenProvider_proofs`, `UnifiedServer_proofs` | the theorems and their proofs |
| `BatchJobs_proofs`, `MailQuery_proofs` | the lemmas about these modules that `UnifiedServer_proofs` rests on |

The detailed modules stand for each other in the coarser ones: what one
goroutine of a batch, or a query, asks of `TokenProvider` is a step that
succeeds or fails in `BatchJobs` and `MailQuery`, and a stream of
`SubscriptionHandlers` is a subscription of `ImapSubscription` or
`GraphSubscription` with its ends only, a clean-up that hangs included. For the
streams this is checked and proved: `HandlerPromise` and `HandlersPromise` map the
position of the detailed handler (`Place`) and its map entry to the variables of
`SubscriptionHandlers`. There a map write takes two steps, so that writes can
overlap; of a single IMAP subscription the step in between is the one before
`connected` and the one before `done`. What comes before a detailed handler, the
token request, is `StreamOpens`: refused, ending the process, or going on.

Some definitions start with the comment "A bug:". They
are plausible faulty versions of the action after them and are used by no
specification; putting one in the place of that action must break the property
`PROJECT.json` names beside it, which shows that the property is not vacuous.

### From the code to `ImapSubscription`

| code | model |
|---|---|
| `handleImapSubscription` / `handleImapSubscriptionStream`, the four-way select, the deferred `CancelSubscription` | `handler`, one value per place where another goroutine can run in between; `stream`, `beats`, `mail` are what the caller has seen |
| `ImapSubscription` record: `EmailChan`, `StopCtx`, map entry | `emailChan` (`NoMail` when empty), `chanClosed`, `ctxDone`, `registered` |
| `listenForEmails` | `listener`: `loop`, `select`; `skipWait`, `fetchWait`, `exitWait` = after `close(stop)`, waiting for `idleDone`; `fetch`; `offer` = the select that sends into `EmailChan`; `exited` |
| `go func() { idleDone <- c.client.Idle(stop, nil) }()` | `idle`: `spawned` (not yet at the call), `running`, `ok` / `err` = the result is in `idleDone` |
| `lastMailboxMessages`, `lastMailboxRecent`, `lastIdleNotificationTime` | `lastBox`; `settled` = 5 seconds have passed |
| `listenerWg` | `ListenerRunning` |
| `c.client`, `isConnected` | `connected` (Disconnect sets both, in one critical section) |
| the connection itself, which go-imap's reader goroutine keeps | `link`: `selected` while the client uses it, `abandoned` or `unselected` after a failed LOGOUT, in `Disconnect` or in `Connect`, `none` when the reader has ended |
| `client.Updates`, the channel behind it, the send the reader waits in | `updatesSet`, `updates`, `held` |
| `*imap.MailboxStatus` | `mbox`. A `MailboxUpdate` carries a *pointer* to it, so the listener reads the counts of the moment it looks, not those of the line it was told about |

Decisions worth knowing:

- The client's mutex is left out. Only the handler's goroutine takes it, one
  operation after the other; the listener and the IDLE goroutine never do. It
  orders nothing.
- Every step of a goroutine up to the next point where another one can observe
  or influence it is one action.
- Failures: dialling, authentication and SELECT (`ConnectFails`), IDLE
  (`IdleEnds`), FETCH or parsing with an error or a panic the listener recovers
  from (`FetchFails`), LOGOUT (`LogoutFails`), a lost connection
  (`ConnectionBreaks`), a caller that leaves (`CallerIsGone`).
- Left out because the callers exclude it: the error returns of
  `SubscribeNewEmails` ("not connected", "already subscribed": it runs once,
  after a successful `Connect`), and the `nil` mail branch of the handlers
  (nothing nil is sent, and the channel is closed after the loop).
- `Transport = "grpc"` has every behaviour of `"rest"`, and those in which a
  failing `Send` ends the stream; SSE ignores write errors. The runs use
  `"grpc"`; the proofs cover both.
- go-imap calls no application code between reading a line and sending its
  update; a command completes only after the reader has taken every earlier
  line (`AnswerReadable`), which is what makes the blocked reader matter.
- Nothing in the repository closes a connection: a LOGOUT that is answered does
  (the reader then closes it and ends, `Logout`), and so does a broken connection
  once its reader notices (`ReaderEnds`). After a LOGOUT that failed `c.client` is
  nil, but the connection and its reader stay (`link = "abandoned"`), the server
  goes on sending to it, and a reader that was blocked when the connection broke
  stays blocked for ever.

### From the code to `NotificationManager` and `GraphSubscription`

| code | model |
|---|---|
| `NotificationManager.channels` | `channels` (the ids in the map), `queue` and `closed` (each channel's content and state) |
| a map write | two steps, `BeginMapWrite` and `EndMapWrite`; `writers` are the handlers in between |
| `handleGraphSubscription` / `handleGraphSubscriptionStream` and their loops | `handler[s]`: `creating` = the request is at Graph; `told` = the caller knows, no channel yet; `registering`, `unregistering` = inside a map write; `fetching` = in `GetEmailByID`; `remove`, `unregister`, `delete` = in the deferred functions |
| `HandleGraphWebhook`, `processNotification`, `SendNotification` | `webhook[w]`: the batch, the index of the notice, and whether the goroutine is before the lookup (`lookup`) or before the send (`send`) |
| Microsoft Graph | `remote[s]`, `pending` notices, `repeats` |

- The map has no lock, so its accesses race, which Go leaves undefined. Modelled
  are these outcomes: the runtime notices and ends the process (`ProcessDies`: not
  a panic, so `gin.Recovery` does not help); a lookup during a write, of any
  other entry too, misses what is there (`MayMiss`; a write that makes the map grow
  moves the entries); a lookup finds an entry that is just being written or deleted
  (`MayFind`); and once two writes have overlapped, the map may have lost any entry,
  or still have a deleted one (`EndMapWrite`). `raced` remembers overlapping writes
  and `missed` the handlers whose `RemoveChannel` looked for its channel in vain
  during another one's write, because what holds of the map holds without them
  only. Memory corruption beyond the content of the map is not modelled.
- The `error` event that gRPC sends after a failed fetch, before it goes on
  listening, is left out: `FetchFails` is a stutter of `MailEventStream`, which
  does not constrain such events.
- A send into a closed channel panics; gin ends the call with 500 and Graph
  posts the batch again (`SendPanics`).
- A mail without recipients makes `convertToEmail` dereference nil in the
  handler's goroutine. The deferred functions run; on SSE gin recovers, on gRPC
  nothing does and the process ends after them (`panicking`).
- `getEmailFromURL` returns nil without an error when one string of the answer
  is exactly `value`; the handlers then send an `email` event without a mail
  (`EmptyMail`), which `MailEventStream` is instantiated to allow for Graph.
- Graph's validation request during the creation is answered without touching
  any state; it is part of `CreateReturns`.
- A request to Graph is answered or fails in the end. The code sets no timeout
  on these requests, so this is an assumption about Graph and the network.

### From the code to `TokenCache` and `TokenProvider`

| code | model |
|---|---|
| `LocalCache.lru`, Redis | `local`, `redis`: the token of each key and when it expires |
| `GetAccessToken` of `MultiLevelCache`, and the single levels | `getLocal`, `removeLocal`, `getRedis`, `backfill`: a step per call on a level |
| `GetAccessToken` of the provider after a miss | `fetch`, then `storeLocal`, `storeRedis` |
| `getBothTokensConcurrently` | `fetchBoth`, and `awaitAccess` / `awaitRefresh` when one goroutine is still out |
| `GetRefreshToken`, `DetectProtocolType` | requests with `op` `"refresh"` and `"detect"` |
| an access token | what it was issued for (key and scope) and when |

- Each level is atomic in itself (the LRU library locks, Redis is a server); the
  sequences of calls are not, and interleave with those of other requests.
- The local level keeps an entry up to and including its expiry
  (`time.Now().After`), Redis drops it at its expiry.
- `Restart` empties the local level and loses the goroutines; Redis stays.
- A caller uses the protocol the detection reports for the account, or, for the
  accounts in `MixedKeys`, any. The cache does not know which.
- The endpoint grants what the account allows: a request for Graph of an account
  without `Mail.ReadWrite` gets a token with another scope.
- Left out: collisions of the cache key's hash, the recency of the LRU order (any
  other entry may be evicted), and an answer 200 without a token.

### From the code to `BatchJobs`, `MailQuery`, `SubscriptionHandlers`, `UnifiedServer`

| code | model |
|---|---|
| the goroutine per mail box, `mu`, `wg` of a batch refresh | `worker[i]`: `working`, `fetched`, `counted` = between its two critical sections, `done` |
| `resultChan` of a batch detection | `worker[i] = "sent"` = its result is in the channel |
| `successCount`, `failCount`, `results` | the same names; `results` counts the results per mail box, their order is left out |
| a query's handler | `query`, one value per answer it waits for |
| SELECT, SEARCH, FETCH | `view` = the mails the session numbers, `target` = the sequence number |
| `ImapSubscriptionManager.subscriptions` | `subscriptions`, with `mapWriters`, `mapRaced` and `missed` as in `NotificationManager` |
| `main` | `main`: waiting for the signal, `draining` = in `GracefulStop`, `shutdown` = in `Shutdown` |
| `ms.server`, `Serve` / `ListenAndServe` | `grpc`, `rest` |

- A mail without recipients panics in the request's goroutine: gin answers 500,
  gRPC does not recover and the process ends (`Panicked`). One of two concurrent
  token requests that fails ends the process on either transport.
- During SEARCH and FETCH the server announces no removal (RFC 3501, 7.4.1), so
  the numbers of a session are stable from its SELECT on; new mails come behind.
- `ms.server` is set in the goroutine of the gRPC server and read by main with no
  synchronisation: `StopServer` may see nil while it is set. The 100 ms that main
  sleeps order nothing.
- The servers accept a request while they serve; `GracefulStop` and `Shutdown`
  let none in any more. Requests meet only in the servers and in the map of the
  subscriptions.
- A Message-ID is given as a whole to a find, and the FETCH response it waits for
  is that of its own number. A second signal and SIGKILL are left out, and so is
  a batch with a null element. A request with an unknown protocol is answered at once.

## 3. The runs

| run | checks | result |
|---|---|---|
| `imap_safety` | `TypeOK`, `NoSendOnClosedChannel`, `ClientAliveWhileUsed`, `OneCommandAtATime`, `OnlyReaderIsLeft`, `OnlyMailThatArrived`, `StreamPromise`, `HandlerPromise`, `OnlyReaderBlocks` | hold |
| `imap_liveness` | `CleanedUpUnlessBlocked` | holds |
| `imap_hang` | `CleanedUp` | violated |
| `imap_old_mail` | `NewMailOnly` | violated |
| `imap_skipped_notice` | `OnlyDuplicatesSkipped` | violated |
| `graph_pair` | `OwnMailOnly`, `ListenerReachable`, `NothingLeftInProcess`, `StreamsPromise`, `HandlersPromise` | hold |
| `graph_single` | `TypeOK`, `HandlersEnd` | hold |
| `graph_lost_notice` | `NoticeNotThrownAway` | violated |
| `graph_panic` | `EveryNoticeProcessed` | violated |
| `token_requests` | `TypeOK`, `ServedOwnToken`, `ServedForProtocol`, `ServedAge`, `ServesTokens` | hold |
| `token_error` | `ErrorsAreReturned` | violated |
| `server` | `TypeOK`, `BatchAgrees`, `NothingNewerMissed`, `FoundIsAsked`, `ExitAfterRequests`, `WebhookOutlivesStreams`, `CancelledUnlessRaced`, `OnlyHungStreamsStall`, `BatchAnswered`, `ShutsDown`, `QueryAtomic` | hold |

- `NoSendOnClosedChannel`, `ClientAliveWhileUsed`, `OneCommandAtATime`: the
  cleanup closes `EmailChan` and resets `c.client` with no lock the listener
  respects. What protects them is the order unsubscribe, wait for the WaitGroup,
  log out, close, and the listener's rule never to leave or fetch before it has
  received from `idleDone`. The faulty versions break exactly these.
- `OnlyReaderIsLeft`: on every path into the cleanup nothing stays in use: no map
  entry, listener, IDLE goroutine, timer or connection that was not logged out. It
  says what may stay instead, a connection whose LOGOUT failed with its reader
  goroutine, and that this reader is blocked only if the connection broke: the
  reset of `client.Updates` keeps a reader that is not blocked yet from blocking
  later, when nobody receives (the faulty version leaves the channel).
- `OnlyMailThatArrived`: the sequence number fetched is not the one compared,
  lines and arrivals interleave with the wait for IDLE, and mails are deleted by
  other sessions, which shifts the numbers under the client's count; yet, as long
  as the server announces no count again (`chatter = 0`; `imap_old_mail` shows what
  happens otherwise), the mail delivered is one that arrived after INBOX was
  selected.
- `StreamPromise`: `ImapSubscription` implements `MailEventStream`. `registered`
  and `handler` give the abstract `resources`; the other variables map to
  themselves.
- `HandlerPromise`: the handler that `SubscriptionHandlers` composes with others is
  the one of `ImapSubscription`: on every way out it looks its subscription up,
  cancels it, removes it from the map, and returns only then.
- `OnlyReaderBlocks`: no state in which a handler has not returned and neither it, nor
  the listener, the IDLE goroutine or the reader has a step to take, except with the
  reader blocked on the full channel and somebody waiting for an answer it would have
  to read. What each can do (`HandlerCanRun` and its like) is written out, because
  `ENABLED` cannot be proved about.
- `CleanedUpUnlessBlocked`: the only way not to be cleaned up is a reader that
  stays blocked for ever.
- `OwnMailOnly`: notices of two callers come in one call of the webhook, are
  repeated, and meet channels that come and go; no caller gets another's mail.
- `ListenerReachable`: while a handler waits or fetches, its channel is open and in
  the map, unless writes have overlapped; full channels and other subscriptions'
  clean-up do not matter. It speaks of the content of the map: a webhook that looks
  during another handler's write may miss the channel, and the notice is lost.
- `NothingLeftInProcess`: every way out, also a panic, runs both clean-ups. A channel
  stays in the map for two reasons only: overlapping writes lost its deletion, and
  then it is closed; or `RemoveChannel` looked for it during another handler's write
  and did not find it, and then it may be open, and stays for good.
- `StreamsPromise`: every Graph subscription implements `MailEventStream`, with
  repeated notices, failed fetches and panics.
- `HandlersPromise`: the same for Graph: once Graph has created the subscription a
  handler returns only through its deferred functions, and a panic ends the process
  only after them.
- `HandlersEnd`: a handler that asked Graph for a subscription returns, unless
  the process dies.
- `ServedOwnToken`: a token goes from the endpoint or Redis into a goroutine, from
  there into either level, and out again in another request; it stays with the
  refresh token it was issued for.
- `ServedForProtocol`: requests and detections with different scopes share an
  entry; a caller who keeps to the detected protocol gets the right scope. An account
  used with both protocols (`MixedKeys`) does get the other one's token from the cache:
  the code makes no difference, and the property does not speak of it. The other
  account of the run uses IMAP; one that uses Graph only is covered by the theorem.
- `ServedAge`: the age at which a token is served. Each backfill restarts the
  50 minutes, so the bound for two levels is twice that of one, and TLC finds
  that it is reached; it is never exceeded, because a local entry is never
  copied back to Redis.
- `ServesTokens`: `TokenProvider` implements `TokenService`. A caller sees of two levels,
  backfills, evictions and stores in any order only one answer per request, allowed at
  the instant it is given; a request for both tokens is never served from the cache; a
  crash comes from a request for both tokens over Graph only.
- `BatchAgrees`, `BatchAnswered`: sums over goroutines that count and collect in
  separate critical sections, and a wait that depends on every one of them.
- `NothingNewerMissed`, `FoundIsAsked`: the number SELECT or SEARCH returned is used
  by a later command, while mails arrive in both folders and disappear.
- `QueryAtomic`: `MailQuery` implements `AtomicQuery`: SELECT, SEARCH and FETCH at three
  instants give what one look at the mailbox would have given at one of them, between the
  request and the answer. Of a latest mail that is SELECT; of a find it is SELECT if the
  mail is there already, and otherwise SEARCH.
- `ExitAfterRequests`: what may still be open when main returns: gRPC requests only
  if the signal came before `ms.server` was seen, REST requests only after 5 seconds.
- `WebhookOutlivesStreams`: gRPC is drained first, so the webhook that feeds its
  Graph streams stays open.
- `CancelledUnlessRaced`: a handler that does not find its subscription cancels
  nothing, and leaves its connection and listener. That has two reasons only: map
  writes have overlapped, or it looked while another handler wrote; whatever else is
  created and cancelled meanwhile, it finds its own entry and removes it.
- `OnlyHungStreamsStall`: a running batch has a goroutine that can go on, and after a
  signal main or some request can: `GracefulStop`, `Shutdown`, `wg.Wait` and the
  collector never all wait for something nobody is left to do, except for a gRPC
  subscription that hangs.
- `ShutsDown`: after a signal the process ends, with every request under way and
  from every state of the start; a gRPC stream that hangs (`imap_hang`) is the
  only exception. That queries and batches end is assumed (their HTTP and IMAP calls
  have no timeout in the code): one whose call never returns would do the same.

### Where the code and its comments disagree

1. `imap_hang`. `Disconnect` (`common_imap_client.go:115`) resets
   `client.Updates` "to prevent a deadlock". A reader that is *already* waiting
   to send into the full channel is not released by that, so the answer to
   DONE, FETCH or LOGOUT is never read, and `listenerWg.Wait` or `Logout`, which
   have no timeout, never return. One arrival and one more line are enough: the EXISTS line makes
   the listener stop IDLE, the RECENT line fills the channel, and the next line blocks the
   reader while the listener waits for `idleDone`.
2. `imap_old_mail`. The recorded counts start at 0 and not at what SELECT
   returned, so the first EXISTS or RECENT line that announces no new mail
   leads to a fetch, and the caller of "subscribe, get one newly arrived mail"
   (`api/rest/dto/dto.go:23`) gets an old one.
3. `imap_skipped_notice`. The test commented "duplicate notice" looks at the
   time only: a second new mail within 5 seconds is dropped, which loses it if
   the fetch for the first one failed.
4. `graph_lost_notice`. The caller is told "subscribed" before the channel is
   registered; a notice in between is dropped, and Graph does not repeat it.
5. `graph_panic`. A comment says that every notice of a call is processed
   (`graph_webhook_handler.go:64`). `RemoveChannel` may close the channel a
   webhook goroutine has looked up, and also leaves the closed channel in the
   map until the deletion: the send panics and the rest of the call is skipped.
6. `token_error`. `auth.go:106` checks the errors of the two concurrent token
   requests, but each goroutine has read a field of its response before; on an
   error that is nil, and the process ends.

One more is not a run of its own: `multilevel.go:42` says that the backfill uses a
shorter life "so that L1 does not expire later than L2". It uses the full
50 minutes, and that is why `ServedAge` needs twice the life.

### Bounds

- `UpdatesCap = 1`: the code's value.
- `InitialMails = 1`: an old mail exists, so delivering one is possible.
- `MaxMails = 2` (1 for liveness): two arrivals, with two lines each, are enough
  for a notice during a fetch, a notice within the 5 seconds, counts that change
  between the comparison and the fetch, and a blocked reader.
- `MaxExpunged = 1` and `MaxChatter = 0` in `imap_safety`: one deletion by another
  session, which shifts the sequence numbers below an arrival, and no line without a
  change of INBOX. `MaxChatter = 1` and `MaxExpunged = 0` in `imap_liveness`,
  `imap_hang` and `imap_old_mail`: one line that announces no new mail. Both at once
  multiply the states beyond reach; the proofs hold for every value of both.
- `MaxBeats = 1` (0 where heartbeats do not matter): a heartbeat before and
  after every other step. The code has room for three (60 second ticks, 3 minutes); the action is the same.
- Graph: `Subs = {s1, s2}`, the smallest number with races and shared calls,
  one on SSE and one on gRPC (`Grpc = {s2}`); one webhook goroutine, since a
  lookup changes nothing and the sends of two goroutines are as those of one;
  `MaxMails = 2` (both to one mailbox, which fills a channel, or one to each);
  `MaxBatch = 2`, so that a notice is left when one panics. `graph_single` has
  one subscription with a heartbeat and a repeated call (`MaxRepeats = 1`),
  which would multiply the states of `graph_pair` and touch no other
  subscription. The violation runs use the smallest bounds that show the case.
- IDLE rounds, fetches and failures are not bounded.
- Tokens: one account that uses both protocols and one that uses IMAP only; two
  goroutines, three requests (store, backfill, hit) and one restart; `TTL = 1` and
  `Delay = 1` tick, so that `MaxAge = 3`, and `MaxTime = 5` lies beyond it;
  `LocalSize = 1`, so that the two keys evict each other.
- Server: batches of 0 to 3 mail boxes around a limit of 2 (the code's is 100);
  three mails in two folders, one more that arrives and one that is removed; two
  IMAP streams, which meet in the map, and a Graph stream. `Loads` says which of
  these come in one run: a batch with the Graph stream, the two IMAP streams, the
  query. All together multiply the states without meeting anywhere else; the
  proofs hold for every set of loads.

`CHECK_DEADLOCK FALSE` throughout: subscriptions end, a process may die, and
with a blocked reader the system really stands still.

### Fairness

- `WF` of the handler, the listener, the IDLE goroutine and the reader: a
  goroutine that can run is scheduled, the handler's timer fires, and the server
  answers a command it has received (`Logout`, `FetchAnswered`, `IdleStopped`).
- `SF` of `SeeStop`: IDLE may end by itself again and again, so that the
  listener passes through its select without staying there. Go picks at random
  among the ready cases of a select, so a `stopChan` that stays closed is seen.
- `GraphSubscription`: `WF` of every handler and webhook goroutine, which
  includes Graph's answers; none of requests, failures, Graph's posts or expiry.
- `UnifiedServer`: `WF` of main, of the goroutines of the batch, the query and each
  stream: they are scheduled, the timers fire (3 minutes of a stream, 5 seconds
  of `Shutdown`), and mail servers and token endpoint answer. None of the start,
  the signal, or the coming of requests. A stream may hang, by a choice of its own.
- `TokenProvider` has safety properties only.
- None for `FailureStep`, `EnvironmentStep` (arrivals, lost connections, the
  `StopCtx` timer) beyond that; nothing is assumed of the caller.

## 4. The proofs

For every value of the constants:

| theorem | statement |
|---|---|
| *`ImapSubscription_proofs`* | |
| `TypeCorrect` | `Spec => []TypeOK` |
| `NoSendOnClosed` | `Spec => []NoSendOnClosedChannel` |
| `ClientAlive` | `Spec => []ClientAliveWhileUsed` |
| `CommandsDoNotOverlap` | `Spec => []OneCommandAtATime` |
| `CleanupLeavesReaderOnly` | `Spec => []OnlyReaderIsLeft` |
| `StreamRefinement` | `Spec => StreamPromise` |
| `DeliveredMailArrived` | `Spec => []OnlyMailThatArrived` |
| `HandlerRefinement` | `Spec => HandlerPromise` |
| `NoOtherDeadlock` | `Spec => []OnlyReaderBlocks` |
| *`GraphSubscription_proofs`* | |
| `GraphTypeCorrect` | `Spec => []TypeOK` |
| `GraphOwnMail` | `Spec => []OwnMailOnly` |
| `GraphReachable` | `Spec => []ListenerReachable` |
| `GraphCleanup` | `Spec => []NothingLeftInProcess` |
| `GraphStreams` | `Spec => StreamsPromise` |
| `GraphHandlerRefinement` | `Spec => HandlersPromise` |
| *`TokenProvider_proofs`* | |
| `TokenTypeCorrect` | `Spec => []TypeOK` |
| `TokenOwn` | `Spec => []ServedOwnToken` |
| `TokenForProtocol` | `Spec => []ServedForProtocol` |
| `TokenAge` | `Spec => []ServedAge` |
| `TokenServiceImplemented` | `Spec => ServesTokens` |
| *`UnifiedServer_proofs`* | |
| `ServerTypeCorrect` | `Spec => []TypeOK` |
| `ServerBatchAgrees` | `Spec => []BatchAgrees` |
| `ServerNothingNewerMissed` | `Spec => []NothingNewerMissed` |
| `ServerFoundIsAsked` | `Spec => []FoundIsAsked` |
| `ServerExitAfterRequests` | `Spec => []ExitAfterRequests` |
| `ServerWebhookOutlivesStreams` | `Spec => []WebhookOutlivesStreams` |
| `ServerCancelledUnlessRaced` | `Spec => []CancelledUnlessRaced` |
| `ServerQueryAtomic` | `Spec => QueryAtomic` |
| `ServerOnlyHungStreamsStall` | `Spec => []OnlyHungStreamsStall` |
| `ServerBatchShrinks` | a step of a batch is its answer, or takes one of finitely many `StepsLeft` |
| `ServerRequestsShrink` | a step of the query or of a stream takes one of its steps left; a draining gRPC server has ever fewer requests |

IMAP: none of the safety properties is inductive: each talks of two goroutines and
says nothing of the places they can come from. The inductive invariant is
`IInv == TypeOK /\ Phases /\ Told`. `Phases` ties each goroutine's position to
the handler's: a running listener means the subscription is open or the handler
waits for it; an IDLE goroutine exists exactly while the listener is in a place
that will receive its result; whoever passed the wait has no listener; past
LOGOUT the client uses no connection, and the reader of one that is left has no
Updates channel to block on, so it is blocked only since before, and then the
connection is broken. `Told` ties `stream` to the handler's position.
The three parts are kept by separate lemmas (`TypeStep`, `PhasesStep`,
`ToldStep`), each by cases on the steps of the system; the safety properties
follow from `Phases`, and `StreamStep` maps every step to a step of
`MailEventStream` or to a stutter.

`OnlyMailThatArrived` needs more, `Arrivals`, which speaks of every line on the
wire and every update on its way. Let `OldLeft` be the number of mails left of those
that were there at SELECT. Of an arrival the EXISTS line comes before the RECENT line,
so nothing of it reaches the listener before the client's count is greater than
`OldLeft` (`Announced`), and a deletion can only lower `OldLeft`. The listener fetches
only after it was told of an arrival (`Noticed`), and the number it fetches is the
count of that moment or a later one: beyond the old mails, whatever is deleted before
the answer, so the mail with that number, if there is still one, is a mail that
arrived, and it stays one on its way to the caller. `HandlerKeeps` maps
every step of the handler to a step of `SubscriptionHandlers`, from `Phases`.

`NoOtherDeadlock` follows from `Phases`, by cases on where the handler waits: for
the listener (which waits for IDLE, for an answer, or for something a closed `stopChan`
gives it) or for LOGOUT. An answer is missing only while the reader holds lines back, and
the reader is stopped only by the full channel. `Phases` has a conjunct for it that no
other property needs: a handler that waits, or has just connected, has a connection.

Graph: `IInv == TypeOK /\ CallsOK /\ OwnMail /\ MapPhases /\ Told`. `CallsOK`
says that a call is within its batch, without which the types are not kept;
`OwnMail` follows a mail from the notice through the channel and the fetch to
the caller; `MapPhases` ties the map, the open and closed channels and the map
writes in progress to the handlers' positions, and says that two handlers in a
map write mean `raced`; `Told` is as above. One lemma per part (`TypeStep`,
`CallsStep`, `OwnStep`, `MapStep`, `ToldStep`). `StreamsPromise` is
`\A s : Stream(s)!Spec` with the quantifier moved inside the box, a form TLC
can check. `HandlersPromise` needs one fact besides the types: a handler that
will panic is already in its deferred functions (`PanicsLate`).

Tokens: `IInv == TypeOK /\ LocalOK /\ RedisOK /\ CallersOK /\ HandsOK` follows
a token wherever it can be: an entry of either level, or the hands of a goroutine,
holds only tokens of its key, of the account's scope unless the account is a mixed
one, and of an age that leaves time for the next store. The age is where the parts
need each other: an entry of Redis expires at the latest `TTL + Delay` after its
issue, a backfill adds at most `Delay` and `TTL` to a time before that, and a local
entry goes nowhere but to a caller.

`TokenServiceImplemented` maps a request's `pc` and `held` to phase and answer. Beyond
`IInv` it needs where each request can be (`PathsOK`: one that reads the cache asks for
an access token only, one that awaits a goroutine asks for both over Graph) and that
every token there is has been issued before (`BornOK`). `AnsweredAllowed` shows that the
token in hand is an allowed one at the moment of the answer; `OnlyOneSeen`, that no other
request's answer changes with it.

Server: `IInv == BatchInv /\ QueryInv /\ WayOK /\ ServerInv /\ StreamInv`, one invariant per
module composed. `BatchInv` says of each worker what it has contributed to the
counters and the results so far, which are then cardinalities of sets of workers.
`QueryInv` says of the number that is fetched that it is the position of a mail as
new as all that stayed, or of the mail asked for, whatever arrives behind it.
`WayOK` says that a query keeps to the commands of its protocol and operation.
`ServerInv` ties what may be unfinished to the phase of main, and `StreamInv` the
map, its writers and the handlers that missed their entry to the positions of the
handlers, as for Graph. The lemmas of
`BatchJobs_proofs` and `MailQuery_proofs` show that each step of these modules keeps
its part, wherever it is taken from; the server's own steps leave those parts alone.

`ServerQueryAtomic` names the instant of the look (`HasLooked`) and what it gave
(`QueryAnswers`), and shows for each action which step of `AtomicQuery` it is. The mails
that arrive after it do not disturb the answer, because they come behind the mail the
number stands for, nor do those removed, because a session's numbers stay.

The liveness properties have a part that needs no fairness, and that part is proved.
Nobody waits in vain (`NoOtherDeadlock`, `ServerOnlyHungStreamsStall`), and nobody goes on
for ever: a batch has finitely many steps left (`StepsLeft`, a subset that shrinks), so
have the query and every stream (`QueryLeft`, `StreamLeft`), and a server that drains
takes no request in. For the IMAP subscription there is no such bound, since IDLE may end
again and again; there the fairness is essential.

Assumptions: `CacheAssumption`, `ProviderAssumption`, `BatchAssumption` (a batch is
a finite set), `QueryAssumption`, `StreamsAssumption`, `ServerAssumption` (names and
natural bounds), `ConnectionAssumption` (capacity at least 1, natural bounds),
`SubscriptionAssumption` (the two transports), `ManagerAssumption` and
`GraphAssumption` (natural bounds, `NoMail` and `EmptyMail` are no mails), and
`FiniteSetTheorems` for the counts of INBOX.

Only model-checked: `CleanedUpUnlessBlocked`, `HandlersEnd`, `BatchAnswered` and
`ShutsDown`, liveness properties under fairness, which the prover cannot do. That the
conditions `OnlyReaderBlocks` and `OnlyHungStreamsStall` write out are those under which the
actions are enabled is read off their guards; `ENABLED` is out of the prover's reach too.
Of the violation runs nothing is to be proved.

## 5. Not modelled, and why

- *Configuration, records, generated protobuf code, the proxy client nothing uses,
  and the validation code of the handlers*: values read once, plain data, no state.
- *Mail parsing and conversion*: what the rest of the system can tell apart is in the
  models (a mail, an error, a panic); the text of a mail is not, and no property is
  about it.
- *`cmd/rest-server`*: it starts the REST server and has no shutdown; what it serves
  is what the unified server serves over REST.
- *`DeleteAccessToken` of the cache*, which no code calls, and `Close`, which only the
  exit calls.
- *Logging, Redis set-up and the choice of the cache at the start*, beyond the type of
  cache that results.
- *The content of tokens and the refresh tokens that are returned*: the callers keep
  them, and the service never stores one.
