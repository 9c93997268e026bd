-------------------------- MODULE GraphSubscription --------------------------
(***************************************************************************)
(* Graph mail subscriptions: one request handler each (SSE or gRPC), the   *)
(* NotificationManager they share with the webhook's goroutines, and       *)
(* Microsoft Graph, external, which keeps the subscriptions, posts batches *)
(* of notices and posts a batch again when its call did not succeed.       *)
(* Every request to Graph is answered or fails in the end.  The handler's  *)
(* goroutine panics on a mail without recipients (convertToEmail): its     *)
(* deferred functions run; gin recovers on SSE, on gRPC nothing does.      *)
(***************************************************************************)
EXTENDS NotificationManager, Sequences, Functions

CONSTANTS
  Grpc,        \* the subscriptions that came over gRPC
  Webhooks,    \* goroutines that run HandleGraphWebhook
  MaxBatch,    \* bound: notices in one call of the webhook
  MaxRepeats,  \* bound: calls Graph repeats although they succeeded
  MaxBeats     \* bound: heartbeats of one subscription

ASSUME GraphAssumption ==
  /\ Grpc \subseteq Subs
  /\ MaxBatch \in Nat /\ MaxRepeats \in Nat /\ MaxBeats \in Nat

VARIABLES
  handler,    \* where each handler is
  stream,     \* what each caller has been told
  beats,      \* heartbeats sent
  mail,       \* the mail sent
  fetching,   \* the mail whose details are being fetched
  panicking,  \* the handler's goroutine panics and nothing will recover
  remote,     \* the subscription at Graph
  arrived,    \* mails that arrived in mailboxes Graph watches
  pending,    \* notices Graph has to post
  repeats,    \* calls repeated although they succeeded
  webhook     \* where each webhook goroutine is, and its batch

handlerVars == <<handler, stream, beats, mail, fetching, panicking>>
graphVars == <<arrived, pending, repeats>>
vars == <<handlerVars, remote, graphVars, webhook, managerVars>>

HandlerPC ==
  {"start", "creating", "created", "told", "registering", "listening",
   "fetching", "completing", "remove", "unregister", "unregistering",
   "delete", "done"}
StreamState ==
  {"opening", "subscribed", "mailSent", "completed", "timedOut", "failed",
   "dropped"}

\* The batch of a call and the index of the notice it is at.
Idle == [pc |-> "idle", batch |-> << >>, next |-> 1]
Call == [pc : {"idle", "lookup", "send"}, batch : Seq(Mails), next : Nat]
Notice(w) == webhook[w].batch[webhook[w].next]
SubscriptionOf(m) == m[1]

TypeOK ==
  /\ ManagerTypeOK
  /\ handler \in [Subs -> HandlerPC]
  /\ stream \in [Subs -> StreamState]
  /\ beats \in [Subs -> 0..MaxBeats]
  /\ mail \in [Subs -> Mails \cup {NoMail, EmptyMail}]
  /\ fetching \in [Subs -> Mails \cup {NoMail}]
  /\ panicking \in [Subs -> BOOLEAN]
  /\ remote \in [Subs -> {"none", "active", "gone"}]
  /\ arrived \in 0..MaxMails
  /\ pending \in SUBSET Mails
  /\ repeats \in 0..MaxRepeats
  /\ webhook \in [Webhooks -> Call]

Init ==
  /\ ManagerInit
  /\ handler = [s \in Subs |-> "start"]
  /\ stream = [s \in Subs |-> "opening"]
  /\ beats = [s \in Subs |-> 0]
  /\ mail = [s \in Subs |-> NoMail]
  /\ fetching = [s \in Subs |-> NoMail]
  /\ panicking = [s \in Subs |-> FALSE]
  /\ remote = [s \in Subs |-> "none"]
  /\ arrived = 0
  /\ pending = {}
  /\ repeats = 0
  /\ webhook = [w \in Webhooks |-> Idle]

\* The handler of s goes from one place to another.
Moves(s, from, to) ==
  /\ handler[s] = from
  /\ handler' = [handler EXCEPT ![s] = to]

\* The stream of s goes on to what the caller sees next.
Tells(s, what) == stream' = [stream EXCEPT ![s] = what]

-----------------------------------------------------------------------------
(* The handler: open the subscription. *)

\* graph.CreateSubscription: the request reaches Graph.
CreateSubscription(s) ==
  /\ Moves(s, "start", "creating")
  /\ remote' = [remote EXCEPT ![s] = "active"]
  /\ UNCHANGED <<stream, beats, mail, fetching, panicking, graphVars, webhook,
                 managerVars>>

CreateReturns(s) ==
  /\ Moves(s, "creating", "created")
  /\ UNCHANGED <<stream, beats, mail, fetching, panicking, remote, graphVars,
                 webhook, managerVars>>

\* The handler gets an error: Graph refused, or it did create the subscription
\* and the response was lost.  Nothing has been deferred yet.
CreateFails(s) ==
  /\ Moves(s, "start", "done") \/ Moves(s, "creating", "done")
  /\ Tells(s, "failed")
  /\ UNCHANGED <<beats, mail, fetching, panicking, remote, graphVars, webhook,
                 managerVars>>

SendSubscriptionSuccess(s) ==
  /\ Moves(s, "created", "told")
  /\ Tells(s, "subscribed")
  /\ UNCHANGED <<beats, mail, fetching, panicking, remote, graphVars, webhook,
                 managerVars>>

\* nfManager.RegisterChannel
RegisterChannel(s) ==
  /\ \/ Moves(s, "told", "registering") /\ RegisterBegins(s)
     \/ Moves(s, "registering", "listening") /\ RegisterEnds(s)
  /\ UNCHANGED <<stream, beats, mail, fetching, panicking, remote, graphVars,
                 webhook>>

-----------------------------------------------------------------------------
(* The handler: listenForGraphNotifications, with GetEmailByID. *)

TakeNotification(s) ==
  /\ Moves(s, "listening", "fetching")
  /\ ReceiveNotification(s)
  /\ fetching' = [fetching EXCEPT ![s] = queue[s]]
  /\ UNCHANGED <<stream, beats, mail, panicking, remote, graphVars, webhook>>

\* A bug: the handler goes back to its select after the email event.
SendEmailAndGoOn(s) ==
  /\ Moves(s, "fetching", "listening")
  /\ mail' = [mail EXCEPT ![s] = fetching[s]]
  /\ Tells(s, "mailSent")
  /\ fetching' = [fetching EXCEPT ![s] = NoMail]
  /\ UNCHANGED <<beats, panicking, remote, graphVars, webhook, managerVars>>

\* GetEmailByID returns the mail, or nil without an error (the answer is taken
\* for a list when one of its strings is exactly "value"); nil is sent as well.
SendEmail(s) ==
  /\ Moves(s, "fetching", "completing")
  /\ \E m \in {fetching[s], EmptyMail} : mail' = [mail EXCEPT ![s] = m]
  /\ Tells(s, "mailSent")
  /\ fetching' = [fetching EXCEPT ![s] = NoMail]
  /\ UNCHANGED <<beats, panicking, remote, graphVars, webhook, managerVars>>

\* GetEmailByID returns an error; gRPC sends an error event; the loop goes on.
FetchFails(s) ==
  /\ Moves(s, "fetching", "listening")
  /\ fetching' = [fetching EXCEPT ![s] = NoMail]
  /\ UNCHANGED <<stream, beats, mail, panicking, remote, graphVars, webhook,
                 managerVars>>

\* A bug: a panic leaves the handler past its deferred functions.
FetchPanicsPastDefers(s) ==
  /\ Moves(s, "fetching", "done")
  /\ Tells(s, "dropped")
  /\ fetching' = [fetching EXCEPT ![s] = NoMail]
  /\ panicking' = [panicking EXCEPT ![s] = s \in Grpc]
  /\ UNCHANGED <<beats, mail, remote, graphVars, webhook, managerVars>>

\* The mail has no recipients: convertToEmail dereferences nil.
FetchPanics(s) ==
  /\ Moves(s, "fetching", "remove")
  /\ Tells(s, "dropped")
  /\ fetching' = [fetching EXCEPT ![s] = NoMail]
  /\ panicking' = [panicking EXCEPT ![s] = s \in Grpc]
  /\ UNCHANGED <<beats, mail, remote, graphVars, webhook, managerVars>>

SendComplete(s) ==
  /\ Moves(s, "completing", "remove")
  /\ Tells(s, "completed")
  /\ UNCHANGED <<beats, mail, fetching, panicking, remote, graphVars, webhook,
                 managerVars>>

\* A bug: the timeout leaves the select and not the loop.
TimeoutStaysInLoop(s) ==
  /\ Moves(s, "listening", "listening")
  /\ Tells(s, "timedOut")
  /\ UNCHANGED <<beats, mail, fetching, panicking, remote, graphVars, webhook,
                 managerVars>>

HandlerTimeout(s) ==
  /\ Moves(s, "listening", "remove")
  /\ Tells(s, "timedOut")
  /\ UNCHANGED <<beats, mail, fetching, panicking, remote, graphVars, webhook,
                 managerVars>>

\* A bug: the ticker outlives the timer.
HeartbeatWithoutTimer(s) ==
  /\ handler[s] = "listening"
  /\ beats' = [beats EXCEPT ![s] = @ + 1]
  /\ UNCHANGED <<handler, stream, mail, fetching, panicking, remote, graphVars,
                 webhook, managerVars>>

SendHeartbeat(s) ==
  /\ handler[s] = "listening"
  /\ beats[s] < MaxBeats
  /\ beats' = [beats EXCEPT ![s] = @ + 1]
  /\ UNCHANGED <<handler, stream, mail, fetching, panicking, remote, graphVars,
                 webhook, managerVars>>

\* The caller has left.  The select notices; on gRPC every Send does: that of
\* the subscription event before RemoveChannel is deferred, that of an email or
\* error event after the fetch.
CallerIsGone(s) ==
  /\ \/ Moves(s, "listening", "remove")
     \/ s \in Grpc /\ Moves(s, "created", "delete")
     \/ s \in Grpc /\ Moves(s, "fetching", "remove")
     \/ s \in Grpc /\ Moves(s, "completing", "remove")
  /\ Tells(s, "dropped")
  /\ fetching' = [fetching EXCEPT ![s] = NoMail]
  /\ UNCHANGED <<beats, mail, panicking, remote, graphVars, webhook,
                 managerVars>>

-----------------------------------------------------------------------------
(* The handler: the deferred functions, RemoveChannel and DeleteSubscription. *)

\* A bug: the entry of the map stays.
RemoveChannelClosesOnly(s) ==
  /\ s \in channels
  /\ Moves(s, "remove", "delete")
  /\ CloseChannel(s)
  /\ UNCHANGED <<stream, beats, mail, fetching, panicking, remote, graphVars,
                 webhook>>

\* nfManager.RemoveChannel; it does nothing if it does not find the entry.
RemoveChannel(s) ==
  /\ \/ /\ MayFind(s)
        /\ Moves(s, "remove", "unregister")
        /\ CloseChannel(s)
     \/ Moves(s, "remove", "delete") /\ MissChannel(s)
     \/ Moves(s, "unregister", "unregistering") /\ RemoveBegins(s)
     \/ Moves(s, "unregistering", "delete") /\ RemoveEnds(s)
  /\ UNCHANGED <<stream, beats, mail, fetching, panicking, remote, graphVars,
                 webhook>>

\* graph.DeleteSubscription; a failure is logged.  A panic that nothing recovers
\* ends the process now.
DeleteSubscription(s) ==
  /\ Moves(s, "delete", "done")
  /\ \/ remote[s] = "active" /\ remote' = [remote EXCEPT ![s] = "gone"]
     \/ UNCHANGED remote
  /\ process' = IF panicking[s] THEN "crashed" ELSE process
  /\ UNCHANGED <<stream, beats, mail, fetching, panicking, graphVars, webhook,
                 channels, queue, closed, writers, raced, missed>>

-----------------------------------------------------------------------------
(* The webhook: HandleGraphWebhook and processNotification. *)

\* Goes on with the next notice, or returns 200 after the last.
NextNotice(w) ==
  webhook' = [webhook EXCEPT ![w] =
    IF @.next = Len(@.batch) THEN Idle
    ELSE [pc |-> "lookup", batch |-> @.batch, next |-> @.next + 1]]

\* The lookup in SendNotification.
LookupChannel(w) ==
  /\ webhook[w].pc = "lookup"
  /\ \/ /\ MayFind(SubscriptionOf(Notice(w)))
        /\ webhook' = [webhook EXCEPT ![w].pc = "send"]
     \/ MayMiss(SubscriptionOf(Notice(w))) /\ NextNotice(w)
  /\ UNCHANGED <<handlerVars, remote, graphVars, managerVars>>

\* A bug: the whole batch goes to the subscription of its first notice.
SendToFirst(w) ==
  /\ webhook[w].pc = "send"
  /\ SendNotification(SubscriptionOf(webhook[w].batch[1]), Notice(w))
  /\ NextNotice(w)
  /\ UNCHANGED <<handlerVars, remote, graphVars>>

Send(w) ==
  /\ webhook[w].pc = "send"
  /\ SendNotification(SubscriptionOf(Notice(w)), Notice(w))
  /\ NextNotice(w)
  /\ UNCHANGED <<handlerVars, remote, graphVars>>

\* The channel was closed after the lookup: the send panics, gin answers 500,
\* and Graph will post the whole batch again.
SendPanics(w) ==
  /\ webhook[w].pc = "send"
  /\ SubscriptionOf(Notice(w)) \in closed
  /\ webhook' = [webhook EXCEPT ![w] = Idle]
  /\ pending' = pending \cup Range(webhook[w].batch)
  /\ UNCHANGED <<handlerVars, remote, arrived, repeats, managerVars>>

-----------------------------------------------------------------------------
(* Microsoft Graph, and the Go runtime. *)

MailArrives(s) ==
  /\ remote[s] = "active"
  /\ arrived < MaxMails
  /\ arrived' = arrived + 1
  /\ pending' = pending \cup {<<s, arrived + 1>>}
  /\ UNCHANGED <<handlerVars, remote, repeats, webhook, managerVars>>

\* Graph posts a batch, to be repeated or not.
PostNotices(w) ==
  /\ process = "up"
  /\ webhook[w].pc = "idle"
  /\ \E n \in 1..MaxBatch : \E batch \in Injection(1..n, pending) :
       /\ webhook' = [webhook EXCEPT ![w] =
                         [pc |-> "lookup", batch |-> batch, next |-> 1]]
       /\ \/ /\ pending' = pending \ Range(batch)
             /\ UNCHANGED repeats
          \/ /\ repeats < MaxRepeats
             /\ repeats' = repeats + 1
             /\ UNCHANGED pending
  /\ UNCHANGED <<handlerVars, remote, arrived, managerVars>>

\* The 5 minutes are over.
SubscriptionExpires(s) ==
  /\ remote[s] = "active"
  /\ remote' = [remote EXCEPT ![s] = "gone"]
  /\ UNCHANGED <<handlerVars, graphVars, webhook, managerVars>>

\* A goroutine that is about to use the map finds it being written.
ProcessDies ==
  /\ process = "up"
  /\ \/ \E s \in Subs : handler[s] \in {"told", "remove", "unregister"}
     \/ \E w \in Webhooks : webhook[w].pc = "lookup"
  /\ MapRaceNoticed
  /\ UNCHANGED <<handlerVars, remote, graphVars, webhook>>

-----------------------------------------------------------------------------

RequestStep(s) ==
  /\ process = "up"
  /\ CreateSubscription(s)

HandlerStep(s) ==
  /\ process = "up"
  /\ \/ CreateReturns(s) \/ SendSubscriptionSuccess(s) \/ RegisterChannel(s)
     \/ TakeNotification(s) \/ SendEmail(s) \/ SendComplete(s)
     \/ HandlerTimeout(s) \/ SendHeartbeat(s) \/ RemoveChannel(s)
     \/ DeleteSubscription(s)

FailureStep(s) ==
  /\ process = "up"
  /\ CreateFails(s) \/ FetchFails(s) \/ FetchPanics(s) \/ CallerIsGone(s)

WebhookStep(w) ==
  /\ process = "up"
  /\ LookupChannel(w) \/ Send(w) \/ SendPanics(w)

GraphStep ==
  \/ \E s \in Subs : MailArrives(s) \/ SubscriptionExpires(s)
  \/ \E w \in Webhooks : PostNotices(w)

Next ==
  \/ \E s \in Subs : RequestStep(s) \/ HandlerStep(s) \/ FailureStep(s)
  \/ \E w \in Webhooks : WebhookStep(w)
  \/ GraphStep
  \/ ProcessDies

\* Goroutines run, timers fire, and Graph answers requests.  Nothing is assumed
\* of requests, failures and callers, nor of the mails and notices of Graph.
Fairness ==
  /\ \A s \in Subs : WF_vars(HandlerStep(s))
  /\ \A w \in Webhooks : WF_vars(WebhookStep(w))

Spec == Init /\ [][Next]_vars /\ Fairness

-----------------------------------------------------------------------------
(* Properties. *)

\* A caller gets mails of the mailbox it subscribed to and of no other, however
\* the subscriptions share webhook calls, and even if map writes raced.
OwnMailOnly ==
  \A s \in Subs : mail[s] \in Mails => SubscriptionOf(mail[s]) = s

\* While a handler waits for notices, its channel is open and in the map, for
\* the webhook to find, unless racing map writes damaged the map.  (A lookup
\* during another handler's write may still miss it: that notice is lost.)
ListenerReachable ==
  \A s \in Subs : handler[s] \in {"listening", "fetching"} =>
    s \notin closed /\ (s \in channels \/ raced)

\* When a handler has returned, wherever it left off, it neither writes the map
\* nor fetches a mail, and its channel is out of the map.  A channel is left in
\* it for two reasons only: racing writes lost the deletion, and then it is
\* closed; or RemoveChannel looked for it during another handler's write.
NothingLeftInProcess ==
  \A s \in Subs : handler[s] = "done" =>
    /\ s \notin writers
    /\ fetching[s] = NoMail
    /\ s \in channels => (raced /\ s \in closed) \/ s \in missed

\* One subscription as an event stream.
Stream(s) == INSTANCE MailEventStream
  WITH Mails <- Mails \cup {EmptyMail},
       stream <- stream[s], beats <- beats[s], mail <- mail[s],
       resources <- IF handler[s] \in {"start", "creating"}
                        \/ stream[s] = "failed" THEN "none"
                    ELSE IF handler[s] = "done" THEN "released" ELSE "held"

StreamStep(s) == UNCHANGED Stream(s)!vars \/ Stream(s)!Next

\* Every Graph subscription keeps the promise of MailEventStream, on SSE and on
\* gRPC and whatever the others and the webhook do: each starts as an event
\* stream and each step is a step of its event stream or leaves it alone.
StreamsPromise ==
  /\ \A s \in Subs : Stream(s)!Init
  /\ [][\A s \in Subs : StreamStep(s)]_vars

\* What SubscriptionHandlers knows of a handler.
Place(s) ==
  IF handler[s] = "start" THEN "none"
  ELSE IF handler[s] \in {"remove", "unregister", "unregistering", "delete"}
  THEN "cleanup"
  ELSE IF handler[s] = "done"
  THEN (IF panicking[s] THEN "panicked" ELSE "ended")
  ELSE "open"

Handlers == INSTANCE SubscriptionHandlers
  WITH Streams <- Subs, ImapStreams <- {},
       stream <- [s \in Subs |-> Place(s)],
       subscriptions <- {}, mapWriters <- {}, mapRaced <- FALSE, missed <- {}

\* The handlers do what the server counts on: from the creation on, each
\* returns only through its deferred functions, and panics only after them.
HandlersPromise ==
  /\ Handlers!StreamInit
  /\ [][UNCHANGED Handlers!streamVars \/ Handlers!StreamStep]_vars

\* Every handler that asked Graph for a subscription ends, whatever notices, the
\* other handlers and Graph do, unless the process dies.
HandlersEnd ==
  \A s \in Subs :
    handler[s] = "creating" ~> (handler[s] = "done" \/ process = "crashed")

=============================================================================
