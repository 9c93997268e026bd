--------------------------- MODULE ImapSubscription ---------------------------
(***************************************************************************)
(* One IMAP mail subscription from the request to the end of its cleanup:  *)
(* the request handler (SSE or gRPC), ImapSubscriptionManager's three      *)
(* operations, and CommonImapClient with its listener goroutine and the    *)
(* IDLE goroutines the listener starts.  ImapConnection is the go-imap     *)
(* client and the server underneath.                                       *)
(*                                                                         *)
(* The client's mutex is left out: only the handler's goroutine takes it   *)
(* (Connect, SubscribeNewEmails, UnsubscribeNewEmails, Disconnect run one  *)
(* after the other there), the listener never does.  listenerWg is the     *)
(* predicate ListenerRunning: one Add, one Done per listener.              *)
(***************************************************************************)
EXTENDS ImapConnection

CONSTANTS
  Transport,  \* "rest" (SSE) or "grpc"
  MaxBeats    \* bound: heartbeats (3 minutes of 60 second ticks in the code)

ASSUME SubscriptionAssumption ==
  Transport \in {"rest", "grpc"} /\ MaxBeats \in Nat

NoMail == 0

VARIABLES
  handler,       \* where the request handler is
  stream,        \* what the caller has been told
  beats,         \* heartbeats sent
  mail,          \* the mail sent to the caller
  registered,    \* the subscription is in the manager's map
  ctxDone,       \* StopCtx: cancelled, or its 3 minutes are over
  isSubscribed,
  stopClosed,    \* stopChan is closed
  listener,      \* where listenForEmails is
  idle,          \* the IDLE goroutine of this round
  lastBox,       \* lastMailboxMessages and lastMailboxRecent
  settled,       \* 5 seconds passed since lastIdleNotificationTime
  seqNum,        \* sequence number of the FETCH in progress
  fetched,       \* the mail the listener is about to hand over
  emailChan,     \* content of EmailChan, a channel of capacity 1
  chanClosed     \* EmailChan is closed

handlerVars == <<handler, stream, beats, mail, registered>>
listenerVars == <<listener, idle, lastBox, settled, seqNum, fetched>>
subVars == <<ctxDone, isSubscribed, stopClosed, emailChan, chanClosed>>
vars == <<handlerVars, listenerVars, subVars, connVars>>

HandlerPC ==
  {"start", "created", "connected", "started", "listening", "completing",
   "cancel", "unsubscribe", "waiting", "disconnect", "logout", "close", "done"}
ListenerPC ==
  {"off", "loop", "select", "skipWait", "fetchWait", "exitWait", "fetch",
   "offer", "exited"}
StreamState ==
  {"opening", "subscribed", "mailSent", "completed", "timedOut", "failed",
   "dropped"}

TypeOK ==
  /\ ConnTypeOK
  /\ handler \in HandlerPC
  /\ stream \in StreamState
  /\ beats \in 0..MaxBeats
  /\ mail \in Mails \cup {NoMail}
  /\ registered \in BOOLEAN
  /\ ctxDone \in BOOLEAN
  /\ isSubscribed \in BOOLEAN
  /\ stopClosed \in BOOLEAN
  /\ listener \in ListenerPC
  /\ idle \in {"none", "spawned", "running", "ok", "err"}
  /\ lastBox \in Status
  /\ settled \in BOOLEAN
  /\ seqNum \in Nat
  /\ fetched \in Mails \cup {NoMail}
  /\ emailChan \in Mails \cup {NoMail}
  /\ chanClosed \in BOOLEAN

Init ==
  /\ ConnInit
  /\ handler = "start"
  /\ stream = "opening"
  /\ beats = 0
  /\ mail = NoMail
  /\ registered = FALSE
  /\ ctxDone = FALSE
  /\ isSubscribed = FALSE
  /\ stopClosed = FALSE
  /\ listener = "off"
  /\ idle = "none"
  /\ lastBox = [messages |-> 0, recent |-> 0]
  /\ settled = TRUE
  /\ seqNum = 0
  /\ fetched = NoMail
  /\ emailChan = NoMail
  /\ chanClosed = FALSE

ListenerRunning == listener \notin {"off", "exited"}

\* A bug: the exit paths of the listener forget close(stop).
StopClosedToGoOnOnly == listener \in {"skipWait", "fetchWait"}

\* The stop channel of this round's IDLE is closed: from each of the listener's
\* close(stop) to the receive from idleDone that follows it.
StopClosed == listener \in {"skipWait", "fetchWait", "exitWait"}

-----------------------------------------------------------------------------
(* The handler: open the subscription. *)

\* CreateSubscription: EmailChan, StopCtx with its timer, the map entry.
CreateSubscription ==
  /\ handler = "start"
  /\ registered' = TRUE
  /\ handler' = "created"
  /\ UNCHANGED <<stream, beats, mail, listenerVars, subVars, connVars>>

\* Connect: dial, authenticate, SELECT INBOX.  The counts SELECT returns go to
\* the library's mailbox status; the client itself drops them.
Connect ==
  /\ handler = "created"
  /\ connected' = TRUE
  /\ link' = "selected"
  /\ mbox' = [messages |-> Cardinality(inbox), recent |-> Cardinality(NewMails)]
  /\ handler' = "connected"
  /\ UNCHANGED <<stream, beats, mail, registered, listenerVars, subVars, inbox,
                 arrived, chatter, wire, updatesSet, updates, held, broken>>

\* Connect returns an error: the caller gets it, the deferred cleanup runs.  A
\* LOGOUT that Connect calls before it returns may fail, its error is dropped.
ConnectFails ==
  /\ handler = "created"
  /\ link' \in {"none", "unselected"}
  /\ stream' = "failed"
  /\ handler' = "cancel"
  /\ UNCHANGED <<beats, mail, registered, listenerVars, subVars, connected,
                 inbox, arrived, chatter, wire, mbox, updatesSet, updates, held,
                 broken>>

SubscribeNewEmails ==
  /\ handler = "connected"
  /\ connected /\ ~isSubscribed
  /\ updatesSet' = TRUE
  /\ updates' = << >>
  /\ stopClosed' = FALSE
  /\ isSubscribed' = TRUE
  /\ listener' = "loop"
  /\ handler' = "started"
  /\ UNCHANGED <<stream, beats, mail, registered, idle, lastBox, settled,
                 seqNum, fetched, ctxDone, emailChan, chanClosed, connected,
                 link, inbox, arrived, chatter, wire, mbox, held, broken>>

SendSubscriptionSuccess ==
  /\ handler = "started"
  /\ stream' = "subscribed"
  /\ handler' = "listening"
  /\ UNCHANGED <<beats, mail, registered, listenerVars, subVars, connVars>>

-----------------------------------------------------------------------------
(* The handler: listenForImapEmails and listenForImapEmailsStream. *)

\* A bug: the handler goes on listening after it sent a mail.
SendEmailAndGoOn ==
  /\ handler = "listening"
  /\ emailChan # NoMail
  /\ emailChan' = NoMail
  /\ mail' = emailChan
  /\ stream' = "mailSent"
  /\ UNCHANGED <<handler, beats, registered, listenerVars, ctxDone,
                 isSubscribed, stopClosed, chanClosed, connVars>>

\* The mail is taken from the channel and sent.  (The code also tests for nil:
\* nothing nil is ever sent, and the channel is closed after this loop only.)
SendEmail ==
  /\ handler = "listening"
  /\ emailChan # NoMail
  /\ emailChan' = NoMail
  /\ mail' = emailChan
  /\ stream' = "mailSent"
  /\ handler' = "completing"
  /\ UNCHANGED <<beats, registered, listenerVars, ctxDone, isSubscribed,
                 stopClosed, chanClosed, connVars>>

SendComplete ==
  /\ handler = "completing"
  /\ stream' = "completed"
  /\ handler' = "cancel"
  /\ UNCHANGED <<beats, mail, registered, listenerVars, subVars, connVars>>

\* A bug: the ticker goes on where the timer should have ended the stream.
HeartbeatWithoutTimer ==
  /\ handler = "listening"
  /\ beats' = beats + 1
  /\ UNCHANGED <<handler, stream, mail, registered, listenerVars, subVars,
                 connVars>>

SendHeartbeat ==
  /\ handler = "listening"
  /\ beats < MaxBeats
  /\ beats' = beats + 1
  /\ UNCHANGED <<handler, stream, mail, registered, listenerVars, subVars,
                 connVars>>

\* A bug: the clean-up is called after the loop, and not deferred.
TimeoutSkipsCancel ==
  /\ handler = "listening"
  /\ stream' = "timedOut"
  /\ handler' = "done"
  /\ UNCHANGED <<beats, mail, registered, listenerVars, subVars, connVars>>

\* The handler's own 3 minute timer.
HandlerTimeout ==
  /\ handler = "listening"
  /\ stream' = "timedOut"
  /\ handler' = "cancel"
  /\ UNCHANGED <<beats, mail, registered, listenerVars, subVars, connVars>>

\* The caller has left (it may at any time) and the handler notices: through the
\* request context while it listens, or, on gRPC, because a Send fails (that of
\* the mail event after the mail was taken from the channel).
CallerIsGone ==
  /\ \/ /\ handler = "listening"
        /\ UNCHANGED emailChan
     \/ /\ Transport = "grpc"
        /\ handler \in {"started", "completing"}
        /\ UNCHANGED emailChan
     \/ /\ Transport = "grpc"
        /\ handler = "listening"
        /\ emailChan # NoMail
        /\ emailChan' = NoMail
  /\ stream' = "dropped"
  /\ handler' = "cancel"
  /\ UNCHANGED <<beats, mail, registered, listenerVars, ctxDone, isSubscribed,
                 stopClosed, chanClosed, connVars>>

-----------------------------------------------------------------------------
(* The handler: CancelSubscription, deferred since CreateSubscription. *)

StopCancel ==
  /\ handler = "cancel"
  /\ ctxDone' = TRUE
  /\ handler' = "unsubscribe"
  /\ UNCHANGED <<stream, beats, mail, registered, listenerVars, isSubscribed,
                 stopClosed, emailChan, chanClosed, connVars>>

\* A bug: the listener is told to stop and not waited for.
UnsubscribeWithoutWait ==
  /\ handler = "unsubscribe"
  /\ stopClosed' = isSubscribed
  /\ isSubscribed' = FALSE
  /\ handler' = "disconnect"
  /\ UNCHANGED <<stream, beats, mail, registered, listenerVars, ctxDone,
                 emailChan, chanClosed, connVars>>

\* IsSubscribed, then UnsubscribeNewEmails up to listenerWg.Wait.
Unsubscribe ==
  /\ handler = "unsubscribe"
  /\ IF isSubscribed
       THEN /\ stopClosed' = TRUE
            /\ isSubscribed' = FALSE
            /\ handler' = "waiting"
       ELSE /\ handler' = "disconnect"
            /\ UNCHANGED <<isSubscribed, stopClosed>>
  /\ UNCHANGED <<stream, beats, mail, registered, listenerVars, ctxDone,
                 emailChan, chanClosed, connVars>>

WaitForListener ==
  /\ handler = "waiting"
  /\ ~ListenerRunning
  /\ handler' = "disconnect"
  /\ UNCHANGED <<stream, beats, mail, registered, listenerVars, subVars,
                 connVars>>

\* A bug: Disconnect leaves the Updates channel to the reader.
DisconnectKeepsUpdates ==
  /\ handler = "disconnect"
  /\ handler' = IF connected THEN "logout" ELSE "close"
  /\ UNCHANGED <<stream, beats, mail, registered, listenerVars, subVars,
                 connVars>>

\* IsConnected, then Disconnect up to the LOGOUT command.
Disconnect ==
  /\ handler = "disconnect"
  /\ IF connected
       THEN updatesSet' = FALSE /\ handler' = "logout"
       ELSE handler' = "close" /\ UNCHANGED updatesSet
  /\ UNCHANGED <<stream, beats, mail, registered, listenerVars, subVars,
                 connected, link, inbox, arrived, chatter, wire, mbox, updates,
                 held, broken>>

\* LOGOUT returns; c.client = nil whether it failed or not.
LogoutReturns ==
  /\ handler = "logout"
  /\ connected' = FALSE
  /\ handler' = "close"
  /\ UNCHANGED <<stream, beats, mail, registered, listenerVars, subVars, inbox,
                 arrived, chatter, wire, mbox, updatesSet, updates, held,
                 broken>>

\* LOGOUT returns no error: the server has said BYE, upon which the reader
\* closed the connection, or the reader has found it broken.
Logout == AnswerReadable /\ LogoutReturns /\ link' = "none"

\* LOGOUT returns an error, which is logged.  Nothing closes the connection.
LogoutFails ==
  /\ CommandMayFail
  /\ LogoutReturns
  /\ link' = IF link = "selected" THEN "abandoned" ELSE link

CloseEmailChan ==
  /\ handler = "close"
  /\ chanClosed' = TRUE
  /\ registered' = FALSE
  /\ handler' = "done"
  /\ UNCHANGED <<stream, beats, mail, listenerVars, ctxDone, isSubscribed,
                 stopClosed, emailChan, connVars>>

-----------------------------------------------------------------------------
(* The listener goroutine. *)

\* Top of the loop: a new stop channel, a new IDLE goroutine.
StartIdle ==
  /\ listener = "loop"
  /\ idle' = "spawned"
  /\ listener' = "select"
  /\ UNCHANGED <<handlerVars, lastBox, settled, seqNum, fetched, subVars,
                 connVars>>

\* A MailboxUpdate that leads to a FETCH: more than 5 seconds after the last
\* one, and the counts are not the recorded ones.
TakeNotice ==
  /\ listener = "select"
  /\ updates # << >>
  /\ Head(updates) = "mailbox"
  /\ settled
  /\ mbox # lastBox
  /\ updates' = Tail(updates)
  /\ settled' = FALSE
  /\ lastBox' = mbox
  /\ listener' = "fetchWait"
  /\ UNCHANGED <<handlerVars, idle, seqNum, fetched, subVars, connected,
                 link, inbox, arrived, chatter, wire, mbox, updatesSet, held,
                 broken>>

\* Any other update: IDLE is stopped and started again.
SkipUpdate ==
  /\ listener = "select"
  /\ updates # << >>
  /\ \/ Head(updates) = "other"
     \/ ~settled
     \/ mbox = lastBox
  /\ updates' = Tail(updates)
  /\ listener' = "skipWait"
  /\ UNCHANGED <<handlerVars, idle, lastBox, settled, seqNum, fetched, subVars,
                 connected, link, inbox, arrived, chatter, wire, mbox,
                 updatesSet, held, broken>>

\* A bug: the listener returns without waiting for its IDLE goroutine.
SeeStopAndReturn ==
  /\ listener = "select"
  /\ ctxDone \/ stopClosed
  /\ listener' = "exited"
  /\ UNCHANGED <<handlerVars, idle, lastBox, settled, seqNum, fetched, subVars,
                 connVars>>

\* The select sees ctx.Done or stopChan.
SeeStop ==
  /\ listener = "select"
  /\ ctxDone \/ stopClosed
  /\ listener' = "exitWait"
  /\ UNCHANGED <<handlerVars, idle, lastBox, settled, seqNum, fetched, subVars,
                 connVars>>

\* idleDone is received, in the select or after stop was closed.  Only an
\* error seen by the select ends the listener.
IdleDone ==
  /\ idle \in {"ok", "err"}
  /\ \/ listener = "select" /\ idle = "ok" /\ listener' = "loop"
     \/ listener = "select" /\ idle = "err" /\ listener' = "exited"
     \/ listener = "skipWait" /\ listener' = "loop"
     \/ listener = "exitWait" /\ listener' = "exited"
  /\ idle' = "none"
  /\ UNCHANGED <<handlerVars, lastBox, settled, seqNum, fetched, subVars,
                 connVars>>

\* A bug: the FETCH is sent before IDLE has ended.
StartFetchDuringIdle ==
  /\ listener = "fetchWait"
  /\ seqNum' = mbox.messages
  /\ listener' = "fetch"
  /\ UNCHANGED <<handlerVars, idle, lastBox, settled, fetched, subVars,
                 connVars>>

\* A bug: sequence numbers taken to start at 0.
StartFetchOfMailBefore ==
  /\ listener = "fetchWait"
  /\ idle \in {"ok", "err"}
  /\ idle' = "none"
  /\ seqNum' = mbox.messages - 1
  /\ listener' = "fetch"
  /\ UNCHANGED <<handlerVars, lastBox, settled, fetched, subVars, connVars>>

\* After IDLE ended, FETCH the mail whose number the status has by now.
StartFetch ==
  /\ listener = "fetchWait"
  /\ idle \in {"ok", "err"}
  /\ idle' = "none"
  /\ seqNum' = mbox.messages
  /\ listener' = "fetch"
  /\ UNCHANGED <<handlerVars, lastBox, settled, fetched, subVars, connVars>>

FetchAnswered ==
  /\ listener = "fetch"
  /\ AnswerReadable
  /\ \/ /\ ~broken
        /\ fetched' \in MailAt(seqNum)
        /\ listener' = "offer"
     \/ /\ broken \/ MailAt(seqNum) = {}
        /\ listener' = "loop"
        /\ UNCHANGED fetched
  /\ seqNum' = 0
  /\ UNCHANGED <<handlerVars, idle, lastBox, settled, subVars, connVars>>

\* FETCH or parseMail returns an error; or parseMail panics, which the deferred
\* recover turns into the end of the listener.
FetchFails ==
  /\ listener = "fetch"
  /\ \/ CommandMayFail /\ listener' = "loop"
     \/ AnswerReadable /\ ~broken /\ listener' = "exited"
  /\ seqNum' = 0
  /\ UNCHANGED <<handlerVars, idle, lastBox, settled, fetched, subVars,
                 connVars>>

OfferEmail ==
  /\ listener = "offer"
  /\ emailChan = NoMail
  /\ emailChan' = fetched
  /\ fetched' = NoMail
  /\ listener' = "loop"
  /\ UNCHANGED <<handlerVars, idle, lastBox, settled, seqNum, ctxDone,
                 isSubscribed, stopClosed, chanClosed, connVars>>

OfferAbandoned ==
  /\ listener = "offer"
  /\ ctxDone \/ stopClosed
  /\ fetched' = NoMail
  /\ listener' = "exited"
  /\ UNCHANGED <<handlerVars, idle, lastBox, settled, seqNum, subVars,
                 connVars>>

-----------------------------------------------------------------------------
(* The IDLE goroutine: idleDone <- c.client.Idle(nil). *)

IdleRuns ==
  /\ idle = "spawned"
  /\ idle' = "running"
  /\ UNCHANGED <<handlerVars, listener, lastBox, settled, seqNum, fetched,
                 subVars, connVars>>

\* The server acknowledges DONE, or the connection turns out to be broken.
IdleStopped ==
  /\ idle = "running"
  /\ AnswerReadable
  /\ \/ StopClosed /\ ~broken /\ idle' = "ok"
     \/ broken /\ idle' = "err"
  /\ UNCHANGED <<handlerVars, listener, lastBox, settled, seqNum, fetched,
                 subVars, connVars>>

\* IDLE returns without being stopped, with an error or without.
IdleEnds ==
  /\ idle = "running"
  /\ \/ AnswerReadable /\ ~broken /\ idle' = "ok"
     \/ CommandMayFail /\ idle' = "err"
  /\ UNCHANGED <<handlerVars, listener, lastBox, settled, seqNum, fetched,
                 subVars, connVars>>

-----------------------------------------------------------------------------
(* Time, the server and the reader. *)

\* The 3 minutes of StopCtx are over.
StopCtxExpires ==
  /\ registered
  /\ ~ctxDone
  /\ ctxDone' = TRUE
  /\ UNCHANGED <<handlerVars, listenerVars, isSubscribed, stopClosed,
                 emailChan, chanClosed, connVars>>

FiveSecondsPass ==
  /\ ~settled
  /\ settled' = TRUE
  /\ UNCHANGED <<handlerVars, listener, idle, lastBox, seqNum, fetched,
                 subVars, connVars>>

\* The server announces an EXPUNGE only outside a FETCH (RFC 3501, 7.4.1).
ServerStep ==
  /\ \/ MailArrives
     \/ listener # "fetch" /\ MailExpunged
     \/ ServerChatters
     \/ ConnectionBreaks
  /\ UNCHANGED <<handlerVars, listenerVars, subVars>>

ReaderStep ==
  /\ ReadLine \/ SendHeldUpdate \/ ReaderEnds
  /\ UNCHANGED <<handlerVars, listenerVars, subVars>>

-----------------------------------------------------------------------------

HandlerStep ==
  \/ CreateSubscription \/ Connect \/ ConnectFails \/ SubscribeNewEmails
  \/ SendSubscriptionSuccess \/ SendEmail \/ SendComplete \/ SendHeartbeat
  \/ HandlerTimeout \/ CallerIsGone \/ StopCancel \/ Unsubscribe
  \/ WaitForListener \/ Disconnect \/ Logout \/ CloseEmailChan

ListenerStep ==
  \/ StartIdle \/ TakeNotice \/ SkipUpdate \/ SeeStop \/ IdleDone \/ StartFetch
  \/ FetchAnswered \/ OfferEmail \/ OfferAbandoned

IdleStep == IdleRuns \/ IdleStopped

FailureStep == LogoutFails \/ FetchFails \/ IdleEnds

EnvironmentStep ==
  StopCtxExpires \/ FiveSecondsPass \/ ServerStep

Next ==
  \/ HandlerStep \/ ListenerStep \/ IdleStep \/ ReaderStep \/ FailureStep
  \/ EnvironmentStep

\* Every goroutine that can run runs, the timers fire, and the server answers a
\* command it has read.  A select that sees ctx.Done or stopChan again and again
\* takes that case eventually (Go picks among the ready cases at random).
\* Nothing is assumed of failures, of new mails or of the caller.
Fairness ==
  /\ WF_vars(HandlerStep)
  /\ WF_vars(ListenerStep)
  /\ SF_vars(SeeStop)
  /\ WF_vars(IdleStep)
  /\ WF_vars(ReaderStep)

Spec == Init /\ [][Next]_vars /\ Fairness

-----------------------------------------------------------------------------
(* Properties. *)

\* EmailChan is closed only when no listener is left that could still send into
\* it: a send on a closed channel panics (close in CancelSubscription, send in
\* listenForEmails).
NoSendOnClosedChannel == chanClosed => ~ListenerRunning

\* While the listener or an IDLE goroutine runs, c.client is there to be used:
\* Disconnect sets it to nil, and neither of them takes the mutex before it
\* calls Idle or Fetch.
ClientAliveWhileUsed == ListenerRunning \/ idle # "none" => connected

\* IMAP allows no command while IDLE is in progress.  Of the IDLE of the IDLE
\* goroutine, the FETCH of the listener and the LOGOUT of the handler, three
\* goroutines, at most one is in flight.
OneCommandAtATime ==
  /\ idle # "none" => listener # "fetch" /\ handler # "logout"
  /\ listener = "fetch" => handler # "logout"

\* When the handler has returned, nothing of the subscription is in use: no map
\* entry, no listener, no IDLE goroutine, no running timer, and no connection
\* that was not logged out.  A connection whose LOGOUT failed is left to its
\* reader goroutine, and that reader is blocked for ever only if the connection
\* broke: Disconnect took the Updates channel away from it before.
OnlyReaderIsLeft ==
  handler = "done" =>
    /\ ~registered /\ ~connected /\ ~isSubscribed
    /\ ~ListenerRunning /\ idle = "none"
    /\ ctxDone /\ chanClosed
    /\ link # "selected"
    /\ ReaderBlocked => link = "abandoned" /\ broken

\* As long as the server announces no counts again and no flags, the mail the
\* caller gets is one that arrived after INBOX was selected, in whatever order
\* lines, FETCH, further arrivals and deletions by other sessions come.
OnlyMailThatArrived == mail # NoMail /\ chatter = 0 => mail > InitialMails

\* The subscription keeps the promise of MailEventStream on every transport.
Stream == INSTANCE MailEventStream
  WITH resources <- IF registered THEN "held"
                    ELSE IF handler = "start" THEN "none" ELSE "released"

StreamPromise == Stream!Spec

\* What SubscriptionHandlers knows of the handler, which keeps all of them at
\* once: the only one here.  Its map writes are the steps before "connected"
\* and before "done".
This == {"this subscription"}

Place ==
  IF handler = "start" THEN "none"
  ELSE IF handler = "created" THEN "creating"
  ELSE IF handler = "unsubscribe" THEN "cleanup"
  ELSE IF handler \in {"waiting", "disconnect", "logout"} THEN "cancelling"
  ELSE IF handler = "close" THEN "removing"
  ELSE IF handler = "done" THEN "ended"
  ELSE "open"

Handlers == INSTANCE SubscriptionHandlers
  WITH Streams <- This, ImapStreams <- This,
       stream <- [s \in This |-> Place],
       subscriptions <- {s \in This : registered /\ handler # "created"},
       mapWriters <- {s \in This : handler \in {"created", "close"}},
       mapRaced <- FALSE, missed <- {}

\* The handler of one subscription does what the server counts on for each of
\* many: whichever way it ends, it finds its subscription, cancels it, and
\* removes it from the map after that and before it returns.
HandlerPromise == Handlers!StreamsSpec

\* Where the steps of each goroutine can be taken; failures are not counted on.
HandlerCanRun ==
  /\ handler # "done"
  /\ handler = "connected" => connected /\ ~isSubscribed
  /\ handler = "waiting" => ~ListenerRunning
  /\ handler = "logout" => AnswerReadable

ListenerCanRun ==
  \/ listener = "loop"
  \/ /\ listener = "select"
     /\ updates # << >> \/ ctxDone \/ stopClosed \/ idle \in {"ok", "err"}
  \/ listener \in {"skipWait", "fetchWait", "exitWait"} /\ idle \in {"ok", "err"}
  \/ listener = "fetch" /\ AnswerReadable
  \/ listener = "offer" /\ (emailChan = NoMail \/ ctxDone \/ stopClosed)

IdleCanRun ==
  \/ idle = "spawned"
  \/ idle = "running" /\ AnswerReadable /\ (StopClosed \/ broken)

ReaderCanRun ==
  IF ReaderBlocked THEN Len(updates) < UpdatesCap
  ELSE wire # << >> \/ (link # "none" /\ broken)

\* The handler, the listener, its IDLE and the reader never wait for each other
\* in a circle, but for the one through the Updates channel: the handler waits
\* for a command, its own LOGOUT or one that the listener waits for, whose
\* answer the reader does not read while it waits for room in the channel.
OnlyReaderBlocks ==
  registered /\ ~(HandlerCanRun \/ ListenerCanRun \/ IdleCanRun \/ ReaderCanRun) =>
    /\ ReaderBlocked
    /\ \/ handler = "logout"
       \/ handler = "waiting" /\ (listener = "fetch" \/ idle = "running")

\* Every subscription is cleaned up in the end (its timers guarantee that the
\* handler reaches CancelSubscription), unless the reader of the connection
\* stays blocked on the Updates channel.
CleanedUpUnlessBlocked == registered ~> (~registered \/ []ReaderBlocked)

=============================================================================
