----------------------- MODULE GraphSubscription_proofs -----------------------
(***************************************************************************)
(* Safety of GraphSubscription for any number of subscriptions, webhook    *)
(* goroutines, mails and notices per call.                                 *)
(***************************************************************************)
EXTENDS GraphSubscription, TLAPS

\* A call that is under way is at one of its notices.
CallsOK ==
  \A w \in Webhooks :
    webhook[w].pc # "idle" => webhook[w].next \in 1..Len(webhook[w].batch)

\* What is on its way to a caller is a mail of its mailbox.
OwnMail ==
  \A s \in Subs :
    /\ queue[s] \in Mails => SubscriptionOf(queue[s]) = s
    /\ fetching[s] \in Mails => SubscriptionOf(fetching[s]) = s
    /\ mail[s] \in Mails => SubscriptionOf(mail[s]) = s

\* The map, the channels and the handlers go together.
MapPhases ==
  /\ \A s, t \in writers : s # t => raced
  /\ \A s \in Subs :
       /\ s \in writers <=> handler[s] \in {"registering", "unregistering"}
       /\ s \in closed =>
            handler[s] \in {"unregister", "unregistering", "delete", "done"}
       /\ handler[s] \in {"unregister", "unregistering"} => s \in closed
       /\ handler[s] \in {"listening", "fetching"} => s \in channels \/ raced
       /\ handler[s] \in {"delete", "done"} /\ s \in channels =>
            (raced /\ s \in closed) \/ s \in missed
       /\ s \in channels =>
            handler[s] \notin
              {"start", "creating", "created", "told", "registering"}
       /\ fetching[s] # NoMail <=> handler[s] = "fetching"

\* What a caller has been told, by its handler's position.
Told ==
  \A s \in Subs :
    /\ handler[s] \in {"start", "creating", "created"} => stream[s] = "opening"
    /\ handler[s] \in {"told", "registering", "listening", "fetching"} =>
         stream[s] = "subscribed"
    /\ handler[s] = "completing" => stream[s] = "mailSent"
    /\ handler[s] \in {"remove", "unregister", "unregistering", "delete"} =>
         stream[s] \in {"completed", "timedOut", "dropped"}
    /\ handler[s] = "done" =>
         stream[s] \in {"completed", "timedOut", "failed", "dropped"}

IInv == TypeOK /\ CallsOK /\ OwnMail /\ MapPhases /\ Told

-----------------------------------------------------------------------------
(* Type correctness. *)

\* A call under way has a notice to process, one that Graph posted.
LEMMA NoticeIsMail ==
  ASSUME TypeOK, CallsOK, NEW w \in Webhooks, webhook[w].pc # "idle"
  PROVE  Notice(w) \in Mails /\ SubscriptionOf(Notice(w)) \in Subs
<1>1. webhook[w].next \in 1..Len(webhook[w].batch)
  BY DEF CallsOK
<1>2. webhook[w].batch \in Seq(Mails)
  BY DEF TypeOK, Call
<1>3. Notice(w) \in Mails
  BY <1>1, <1>2 DEF Notice
<1> QED
  BY <1>3 DEF Mails, SubscriptionOf

\* After a notice the call goes on with the next or has ended.
LEMMA NextNoticeType ==
  ASSUME TypeOK, CallsOK, NEW w \in Webhooks, webhook[w].pc # "idle",
         NextNotice(w)
  PROVE  webhook' \in [Webhooks -> Call] /\ CallsOK'
<1>1. webhook[w] \in Call
  BY DEF TypeOK
<1>2. Idle \in Call
  BY DEF Idle, Call
<1>3. [pc |-> "lookup", batch |-> webhook[w].batch,
       next |-> webhook[w].next + 1] \in Call
  BY <1>1 DEF Call
<1>4. webhook' \in [Webhooks -> Call]
  BY <1>2, <1>3 DEF NextNotice, TypeOK
<1>5. ASSUME NEW v \in Webhooks, webhook'[v].pc # "idle"
      PROVE  webhook'[v].next \in 1..Len(webhook'[v].batch)
  <2>1. CASE v # w
    BY <1>5, <2>1 DEF NextNotice, TypeOK, CallsOK
  <2>2. CASE v = w /\ webhook[w].next = Len(webhook[w].batch)
    BY <1>5, <2>2 DEF NextNotice, TypeOK, Idle
  <2>3. CASE v = w /\ webhook[w].next # Len(webhook[w].batch)
    <3>1. /\ webhook'[v].next = webhook[w].next + 1
          /\ webhook'[v].batch = webhook[w].batch
      BY <1>1, <2>3 DEF NextNotice, TypeOK, Call
    <3>2. /\ webhook[w].next \in 1..Len(webhook[w].batch)
          /\ Len(webhook[w].batch) \in Nat
      BY <1>1 DEF CallsOK, Call
    <3> QED
      BY <2>3, <3>1, <3>2
  <2> QED
    BY <2>1, <2>2, <2>3
<1> QED
  BY <1>4, <1>5 DEF CallsOK

\* No step of a handler, the webhook or Graph breaks a type.
LEMMA TypeStep == TypeOK /\ CallsOK /\ [Next]_vars => TypeOK'
<1> SUFFICES ASSUME TypeOK, CallsOK, [Next]_vars PROVE TypeOK'
  OBVIOUS
<1>1. ASSUME NEW s \in Subs, RequestStep(s) PROVE TypeOK'
  BY <1>1
  DEF RequestStep, CreateSubscription, TypeOK, ManagerTypeOK, HandlerPC,
      StreamState, Moves, Tells, handlerVars, graphVars, managerVars
<1>2. ASSUME NEW s \in Subs, HandlerStep(s) PROVE TypeOK'
  <2>1. CASE CreateReturns(s)
    BY <2>1
    DEF CreateReturns, TypeOK, ManagerTypeOK, HandlerPC, StreamState, Moves,
        Tells, handlerVars, graphVars, managerVars
  <2>2. CASE SendSubscriptionSuccess(s)
    BY <2>2
    DEF SendSubscriptionSuccess, TypeOK, ManagerTypeOK, HandlerPC, StreamState,
        Moves, Tells, handlerVars, graphVars, managerVars
  <2>3. CASE RegisterChannel(s)
    BY <2>3
    DEF RegisterChannel, RegisterBegins, RegisterEnds, BeginMapWrite,
        EndMapWrite, TypeOK, ManagerTypeOK, HandlerPC, StreamState, Moves,
        Tells, handlerVars, graphVars, managerVars
  <2>4. CASE TakeNotification(s)
    BY <2>4
    DEF TakeNotification, ReceiveNotification, TypeOK, ManagerTypeOK,
        HandlerPC, StreamState, Moves, Tells, handlerVars, graphVars,
        managerVars
  <2>5. CASE SendEmail(s)
    BY <2>5
    DEF SendEmail, TypeOK, ManagerTypeOK, HandlerPC, StreamState, Moves, Tells,
        handlerVars, graphVars, managerVars
  <2>6. CASE SendComplete(s)
    BY <2>6
    DEF SendComplete, TypeOK, ManagerTypeOK, HandlerPC, StreamState, Moves,
        Tells, handlerVars, graphVars, managerVars
  <2>7. CASE HandlerTimeout(s)
    BY <2>7
    DEF HandlerTimeout, TypeOK, ManagerTypeOK, HandlerPC, StreamState, Moves,
        Tells, handlerVars, graphVars, managerVars
  <2>8. CASE SendHeartbeat(s)
    BY <2>8, GraphAssumption
    DEF SendHeartbeat, TypeOK, ManagerTypeOK, HandlerPC, StreamState, Moves,
        Tells, handlerVars, graphVars, managerVars
  <2>9. CASE RemoveChannel(s)
    BY <2>9
    DEF RemoveChannel, MissChannel, CloseChannel, RemoveBegins, RemoveEnds,
        BeginMapWrite, EndMapWrite, TypeOK, ManagerTypeOK, HandlerPC,
        StreamState, Moves, Tells, handlerVars, graphVars, managerVars
  <2>10. CASE DeleteSubscription(s)
    BY <2>10
    DEF DeleteSubscription, TypeOK, ManagerTypeOK, HandlerPC, StreamState,
        Moves, Tells, handlerVars, graphVars, managerVars
  <2> QED
    BY <1>2, <2>1, <2>2, <2>3, <2>4, <2>5, <2>6, <2>7, <2>8, <2>9, <2>10
    DEF HandlerStep
<1>3. ASSUME NEW s \in Subs, FailureStep(s) PROVE TypeOK'
  <2>1. CASE CreateFails(s)
    BY <2>1
    DEF CreateFails, TypeOK, ManagerTypeOK, HandlerPC, StreamState, Moves,
        Tells, handlerVars, graphVars, managerVars
  <2>2. CASE FetchFails(s)
    BY <2>2
    DEF FetchFails, TypeOK, ManagerTypeOK, HandlerPC, StreamState, Moves,
        Tells, handlerVars, graphVars, managerVars
  <2>3. CASE FetchPanics(s)
    BY <2>3
    DEF FetchPanics, TypeOK, ManagerTypeOK, HandlerPC, StreamState, Moves,
        Tells, handlerVars, graphVars, managerVars
  <2>4. CASE CallerIsGone(s)
    BY <2>4
    DEF CallerIsGone, TypeOK, ManagerTypeOK, HandlerPC, StreamState, Moves,
        Tells, handlerVars, graphVars, managerVars
  <2> QED
    BY <1>3, <2>1, <2>2, <2>3, <2>4
    DEF FailureStep
<1>4. ASSUME NEW w \in Webhooks, WebhookStep(w) PROVE TypeOK'
  <2>1. CASE LookupChannel(w)
    <3>1. UNCHANGED <<handlerVars, remote, graphVars, managerVars>>
      BY <2>1 DEF LookupChannel
    <3>2. webhook[w] \in Call
      BY DEF TypeOK
    <3>3. CASE webhook' = [webhook EXCEPT ![w].pc = "send"]
      <4>1. [webhook[w] EXCEPT !.pc = "send"] \in Call
        BY <3>2 DEF Call
      <4>2. webhook' \in [Webhooks -> Call]
        BY <3>3, <4>1 DEF TypeOK
      <4> QED
        BY <3>1, <4>2
        DEF TypeOK, ManagerTypeOK, handlerVars, graphVars, managerVars
    <3>4. CASE NextNotice(w)
      <4>1. webhook' \in [Webhooks -> Call]
        BY <2>1, <3>4, NextNoticeType DEF LookupChannel
      <4> QED
        BY <3>1, <4>1
        DEF TypeOK, ManagerTypeOK, handlerVars, graphVars, managerVars
    <3> QED
      BY <2>1, <3>3, <3>4 DEF LookupChannel
  <2>2. CASE Send(w)
    BY <2>2, NoticeIsMail, NextNoticeType
    DEF Send, SendNotification, SubscriptionOf, TypeOK, ManagerTypeOK,
        HandlerPC, StreamState, Moves, Tells, handlerVars, graphVars,
        managerVars
  <2>3. CASE SendPanics(w)
    <3>1. Idle \in Call /\ Range(webhook[w].batch) \subseteq Mails
      BY DEF Idle, Call, TypeOK, Range
    <3> QED
      BY <2>3, <3>1
      DEF SendPanics, TypeOK, ManagerTypeOK, HandlerPC, StreamState, Moves,
          Tells, handlerVars, graphVars, managerVars
  <2> QED
    BY <1>4, <2>1, <2>2, <2>3
    DEF WebhookStep
<1>5. CASE GraphStep
  <2>1. ASSUME NEW s \in Subs, MailArrives(s) PROVE TypeOK'
    BY <2>1, ManagerAssumption
    DEF MailArrives, Mails, TypeOK, ManagerTypeOK, HandlerPC, StreamState,
        Moves, Tells, handlerVars, graphVars, managerVars
  <2>2. ASSUME NEW s \in Subs, SubscriptionExpires(s) PROVE TypeOK'
    BY <2>2
    DEF SubscriptionExpires, TypeOK, ManagerTypeOK, HandlerPC, StreamState,
        Moves, Tells, handlerVars, graphVars, managerVars
  <2>3. ASSUME NEW w \in Webhooks, PostNotices(w) PROVE TypeOK'
    <3>1. PICK n \in 1..MaxBatch :
            \E batch \in Injection(1..n, pending) :
              webhook' = [webhook EXCEPT ![w] =
                            [pc |-> "lookup", batch |-> batch, next |-> 1]]
      BY <2>3 DEF PostNotices
    <3>2. PICK batch \in Injection(1..n, pending) :
            webhook' = [webhook EXCEPT ![w] =
                          [pc |-> "lookup", batch |-> batch, next |-> 1]]
      BY <3>1
    <3>3. [pc |-> "lookup", batch |-> batch, next |-> 1] \in Call
      BY DEF Injection, Call, TypeOK, ManagerTypeOK
    <3>4. pending' \in SUBSET Mails /\ repeats' \in 0..MaxRepeats
      BY <2>3, GraphAssumption DEF PostNotices, TypeOK
    <3> QED
      BY <2>3, <3>2, <3>3, <3>4
      DEF PostNotices, TypeOK, ManagerTypeOK, HandlerPC, StreamState, Moves,
          Tells, handlerVars, graphVars, managerVars
  <2> QED
    BY <1>5, <2>1, <2>2, <2>3 DEF GraphStep
<1>6. CASE ProcessDies
  BY <1>6
  DEF ProcessDies, MapRaceNoticed, TypeOK, ManagerTypeOK, HandlerPC,
      StreamState, Moves, Tells, handlerVars, graphVars, managerVars
<1>7. CASE UNCHANGED vars
  BY <1>7
  DEF vars, TypeOK, ManagerTypeOK, HandlerPC, StreamState, Moves, Tells,
      handlerVars, graphVars, managerVars
<1> QED
  BY <1>1, <1>2, <1>3, <1>4, <1>5, <1>6, <1>7 DEF Next

-----------------------------------------------------------------------------
(* The inductive invariant. *)

\* Only the webhook's goroutines and Graph's posts move a call, and they keep it
\* within its batch.
LEMMA CallsStep == TypeOK /\ CallsOK /\ [Next]_vars => CallsOK'
<1> SUFFICES ASSUME TypeOK, CallsOK, [Next]_vars PROVE CallsOK'
  OBVIOUS
<1>0. ASSUME UNCHANGED webhook PROVE CallsOK'
  BY <1>0 DEF CallsOK
<1>1. ASSUME NEW s \in Subs, RequestStep(s) \/ HandlerStep(s)
      PROVE  UNCHANGED webhook
  BY <1>1
  DEF RequestStep, CreateSubscription, HandlerStep, CreateReturns,
      SendSubscriptionSuccess, RegisterChannel, TakeNotification, SendEmail,
      SendComplete, HandlerTimeout, SendHeartbeat, RemoveChannel,
      DeleteSubscription
<1>2. ASSUME NEW s \in Subs, FailureStep(s) PROVE UNCHANGED webhook
  BY <1>2
  DEF FailureStep, CreateFails, FetchFails, FetchPanics, CallerIsGone
<1>3. ASSUME NEW w \in Webhooks, WebhookStep(w) PROVE CallsOK'
  <2>1. CASE NextNotice(w)
    <3>1. webhook[w].pc # "idle"
      BY <1>3 DEF WebhookStep, LookupChannel, Send, SendPanics
    <3> QED
      BY <2>1, <3>1, NextNoticeType
  <2>2. CASE webhook' = [webhook EXCEPT ![w].pc = "send"]
    <3>1. webhook[w].pc # "idle" /\ webhook[w] \in Call
      BY <1>3 DEF WebhookStep, LookupChannel, Send, SendPanics, TypeOK
    <3> QED
      BY <2>2, <3>1 DEF CallsOK, TypeOK, Call
  <2>3. CASE webhook' = [webhook EXCEPT ![w] = Idle]
    BY <2>3 DEF CallsOK, TypeOK, Idle
  <2> QED
    BY <1>3, <2>1, <2>2, <2>3 DEF WebhookStep, LookupChannel, Send, SendPanics
<1>4. CASE GraphStep
  <2>1. ASSUME NEW w \in Webhooks, PostNotices(w) PROVE CallsOK'
    <3>1. PICK n \in 1..MaxBatch :
            \E batch \in Injection(1..n, pending) :
              webhook' = [webhook EXCEPT ![w] =
                            [pc |-> "lookup", batch |-> batch, next |-> 1]]
      BY <2>1 DEF PostNotices
    <3>2. PICK batch \in Injection(1..n, pending) :
            webhook' = [webhook EXCEPT ![w] =
                          [pc |-> "lookup", batch |-> batch, next |-> 1]]
      BY <3>1
    <3>3. Len(batch) = n /\ n >= 1
      BY DEF Injection
    <3> QED
      BY <3>2, <3>3 DEF CallsOK, TypeOK
  <2> QED
    BY <1>0, <1>4, <2>1 DEF GraphStep, MailArrives, SubscriptionExpires
<1>5. CASE ProcessDies
  BY <1>0, <1>5 DEF ProcessDies
<1>6. CASE UNCHANGED vars
  BY <1>0, <1>6 DEF vars
<1> QED
  BY <1>0, <1>1, <1>2, <1>3, <1>4, <1>5, <1>6 DEF Next

\* A notice goes into the channel of its own subscription, and from there to
\* its caller.
LEMMA OwnStep == TypeOK /\ CallsOK /\ OwnMail /\ [Next]_vars => OwnMail'
<1> SUFFICES ASSUME TypeOK, CallsOK, OwnMail, [Next]_vars PROVE OwnMail'
  OBVIOUS
<1>0. ASSUME UNCHANGED <<queue, fetching, mail>> PROVE OwnMail'
  BY <1>0 DEF OwnMail
<1>1. ASSUME NEW s \in Subs, RequestStep(s) \/ HandlerStep(s) PROVE OwnMail'
  <2>1. CASE TakeNotification(s)
    BY <2>1, ManagerAssumption
    DEF TakeNotification, ReceiveNotification, OwnMail, TypeOK, ManagerTypeOK
  <2>2. CASE SendEmail(s)
    BY <2>2, ManagerAssumption
    DEF SendEmail, managerVars, OwnMail, TypeOK, ManagerTypeOK
  <2> QED
    BY <1>0, <1>1, <2>1, <2>2
    DEF RequestStep, CreateSubscription, HandlerStep, CreateReturns,
        SendSubscriptionSuccess, RegisterChannel, SendComplete, HandlerTimeout,
        SendHeartbeat, RemoveChannel, DeleteSubscription, RegisterBegins,
        RegisterEnds, BeginMapWrite, EndMapWrite, CloseChannel, MissChannel,
        RemoveBegins, RemoveEnds, managerVars
<1>2. ASSUME NEW s \in Subs, FailureStep(s) PROVE OwnMail'
  BY <1>0, <1>2, ManagerAssumption
  DEF FailureStep, CreateFails, FetchFails, FetchPanics, CallerIsGone,
      managerVars, OwnMail, TypeOK
<1>3. ASSUME NEW w \in Webhooks, WebhookStep(w) PROVE OwnMail'
  <2>1. CASE Send(w)
    <3>1. Notice(w) \in Mails
      BY <2>1, NoticeIsMail DEF Send
    <3> QED
      BY <2>1, <3>1
      DEF Send, SendNotification, SubscriptionOf, handlerVars, OwnMail, TypeOK,
          ManagerTypeOK
  <2> QED
    BY <1>0, <1>3, <2>1
    DEF WebhookStep, LookupChannel, SendPanics, handlerVars, managerVars
<1>4. CASE GraphStep
  BY <1>0, <1>4
  DEF GraphStep, MailArrives, SubscriptionExpires, PostNotices, handlerVars,
      managerVars
<1>5. CASE ProcessDies
  BY <1>0, <1>5 DEF ProcessDies, MapRaceNoticed, handlerVars
<1>6. CASE UNCHANGED vars
  BY <1>0, <1>6 DEF vars, handlerVars, managerVars
<1> QED
  BY <1>1, <1>2, <1>3, <1>4, <1>5, <1>6 DEF Next

\* The map, the channels and the handlers stay in step.
LEMMA MapStep == TypeOK /\ MapPhases /\ [Next]_vars => MapPhases'
<1> SUFFICES ASSUME TypeOK, MapPhases, [Next]_vars PROVE MapPhases'
  OBVIOUS
<1>0. ASSUME UNCHANGED <<handler, fetching, channels, closed, writers, raced,
                         missed>>
      PROVE  MapPhases'
  BY <1>0 DEF MapPhases
<1>1. ASSUME NEW s \in Subs, RequestStep(s) PROVE MapPhases'
  BY <1>1
  DEF RequestStep, CreateSubscription, Moves, MapPhases, TypeOK, ManagerTypeOK,
      handlerVars, managerVars
<1>2. ASSUME NEW s \in Subs, HandlerStep(s) PROVE MapPhases'
  <2>1. CASE CreateReturns(s)
    BY <2>1
    DEF CreateReturns, Moves, MapPhases, TypeOK, ManagerTypeOK, handlerVars,
        managerVars
  <2>2. CASE SendSubscriptionSuccess(s)
    BY <2>2
    DEF SendSubscriptionSuccess, Moves, MapPhases, TypeOK, ManagerTypeOK,
        handlerVars, managerVars
  <2>3. CASE RegisterChannel(s)
    <3>1. CASE Moves(s, "told", "registering") /\ RegisterBegins(s)
      BY <2>3, <3>1
      DEF RegisterChannel, RegisterBegins, BeginMapWrite, Moves, MapPhases,
          TypeOK, ManagerTypeOK, handlerVars, managerVars
    <3>2. CASE Moves(s, "registering", "listening") /\ RegisterEnds(s)
      BY <2>3, <3>2
      DEF RegisterChannel, RegisterEnds, EndMapWrite, Moves, MapPhases, TypeOK,
          ManagerTypeOK, handlerVars, managerVars
    <3> QED
      BY <2>3, <3>1, <3>2
      DEF RegisterChannel
  <2>4. CASE TakeNotification(s)
    BY <2>4
    DEF TakeNotification, ReceiveNotification, Moves, MapPhases, TypeOK,
        ManagerTypeOK, handlerVars, managerVars
  <2>5. CASE SendEmail(s)
    BY <2>5
    DEF SendEmail, Moves, MapPhases, TypeOK, ManagerTypeOK, handlerVars,
        managerVars
  <2>6. CASE SendComplete(s)
    BY <2>6
    DEF SendComplete, Moves, MapPhases, TypeOK, ManagerTypeOK, handlerVars,
        managerVars
  <2>7. CASE HandlerTimeout(s)
    BY <2>7
    DEF HandlerTimeout, Moves, MapPhases, TypeOK, ManagerTypeOK, handlerVars,
        managerVars
  <2>8. CASE SendHeartbeat(s)
    BY <2>8
    DEF SendHeartbeat, Moves, MapPhases, TypeOK, ManagerTypeOK, handlerVars,
        managerVars
  <2>9. CASE RemoveChannel(s)
    <3>1. CASE Moves(s, "remove", "unregister") /\ CloseChannel(s)
      BY <2>9, <3>1
      DEF RemoveChannel, CloseChannel, Moves, MapPhases, TypeOK, ManagerTypeOK,
          handlerVars, managerVars
    <3>2. CASE Moves(s, "remove", "delete") /\ MissChannel(s)
      BY <2>9, <3>2
      DEF RemoveChannel, MissChannel, MayMiss, Moves, MapPhases, TypeOK,
          ManagerTypeOK, handlerVars, managerVars
    <3>3. CASE Moves(s, "unregister", "unregistering") /\ RemoveBegins(s)
      BY <2>9, <3>3
      DEF RemoveChannel, RemoveBegins, BeginMapWrite, Moves, MapPhases, TypeOK,
          ManagerTypeOK, handlerVars, managerVars
    <3>4. CASE Moves(s, "unregistering", "delete") /\ RemoveEnds(s)
      BY <2>9, <3>4
      DEF RemoveChannel, RemoveEnds, EndMapWrite, Moves, MapPhases, TypeOK,
          ManagerTypeOK, handlerVars, managerVars
    <3> QED
      BY <2>9, <3>1, <3>2, <3>3, <3>4
      DEF RemoveChannel
  <2>10. CASE DeleteSubscription(s)
    BY <2>10
    DEF DeleteSubscription, Moves, MapPhases, TypeOK, ManagerTypeOK,
        handlerVars, managerVars
  <2> QED
    BY <1>2, <2>1, <2>2, <2>3, <2>4, <2>5, <2>6, <2>7, <2>8, <2>9, <2>10
    DEF HandlerStep
<1>3. ASSUME NEW s \in Subs, FailureStep(s) PROVE MapPhases'
  <2>1. CASE CreateFails(s)
    BY <2>1
    DEF CreateFails, Moves, MapPhases, TypeOK, ManagerTypeOK, handlerVars,
        managerVars
  <2>2. CASE FetchFails(s)
    BY <2>2
    DEF FetchFails, Moves, MapPhases, TypeOK, ManagerTypeOK, handlerVars,
        managerVars
  <2>3. CASE FetchPanics(s)
    BY <2>3
    DEF FetchPanics, Moves, MapPhases, TypeOK, ManagerTypeOK, handlerVars,
        managerVars
  <2>4. CASE CallerIsGone(s)
    BY <2>4
    DEF CallerIsGone, Moves, MapPhases, TypeOK, ManagerTypeOK, handlerVars,
        managerVars
  <2> QED
    BY <1>3, <2>1, <2>2, <2>3, <2>4
    DEF FailureStep
<1>4. ASSUME NEW w \in Webhooks, WebhookStep(w) PROVE MapPhases'
  <2>1. CASE LookupChannel(w)
    BY <2>1, <1>0
    DEF LookupChannel, handlerVars, managerVars
  <2>2. CASE Send(w)
    BY <2>2, <1>0
    DEF Send, SendNotification, handlerVars, managerVars
  <2>3. CASE SendPanics(w)
    BY <2>3, <1>0
    DEF SendPanics, handlerVars, managerVars
  <2> QED
    BY <1>4, <2>1, <2>2, <2>3
    DEF WebhookStep
<1>5. CASE GraphStep
  <2>1. ASSUME NEW s \in Subs, MailArrives(s) PROVE MapPhases'
    BY <2>1, <1>0
    DEF MailArrives, handlerVars, managerVars
  <2>2. ASSUME NEW s \in Subs, SubscriptionExpires(s) PROVE MapPhases'
    BY <2>2, <1>0
    DEF SubscriptionExpires, handlerVars, managerVars
  <2>3. ASSUME NEW w \in Webhooks, PostNotices(w) PROVE MapPhases'
    BY <2>3, <1>0
    DEF PostNotices, handlerVars, managerVars
  <2> QED
    BY <1>5, <2>1, <2>2, <2>3 DEF GraphStep
<1>6. CASE ProcessDies
  BY <1>6, <1>0
  DEF ProcessDies, MapRaceNoticed, handlerVars, managerVars
<1>7. CASE UNCHANGED vars
  BY <1>7, <1>0
  DEF vars, handlerVars, managerVars
<1> QED
  BY <1>1, <1>2, <1>3, <1>4, <1>5, <1>6, <1>7 DEF Next

\* What a caller was told follows its handler's position.
LEMMA ToldStep == TypeOK /\ Told /\ [Next]_vars => Told'
<1> SUFFICES ASSUME TypeOK, Told, [Next]_vars PROVE Told'
  OBVIOUS
<1>0. ASSUME UNCHANGED <<handler, stream>> PROVE Told'
  BY <1>0 DEF Told
<1>1. ASSUME NEW s \in Subs, RequestStep(s) PROVE Told'
  BY <1>1
  DEF RequestStep, CreateSubscription, Moves, Tells, Told, TypeOK
<1>2. ASSUME NEW s \in Subs, HandlerStep(s) PROVE Told'
  <2>1. CASE CreateReturns(s)
    BY <2>1
    DEF CreateReturns, Moves, Tells, Told, TypeOK
  <2>2. CASE SendSubscriptionSuccess(s)
    BY <2>2
    DEF SendSubscriptionSuccess, Moves, Tells, Told, TypeOK
  <2>3. CASE RegisterChannel(s)
    BY <2>3
    DEF RegisterChannel, Moves, Tells, Told, TypeOK
  <2>4. CASE TakeNotification(s)
    BY <2>4
    DEF TakeNotification, Moves, Tells, Told, TypeOK
  <2>5. CASE SendEmail(s)
    BY <2>5
    DEF SendEmail, Moves, Tells, Told, TypeOK
  <2>6. CASE SendComplete(s)
    BY <2>6
    DEF SendComplete, Moves, Tells, Told, TypeOK
  <2>7. CASE HandlerTimeout(s)
    BY <2>7
    DEF HandlerTimeout, Moves, Tells, Told, TypeOK
  <2>8. CASE SendHeartbeat(s)
    BY <2>8
    DEF SendHeartbeat, Moves, Tells, Told, TypeOK
  <2>9. CASE RemoveChannel(s)
    BY <2>9
    DEF RemoveChannel, Moves, Tells, Told, TypeOK
  <2>10. CASE DeleteSubscription(s)
    BY <2>10
    DEF DeleteSubscription, Moves, Tells, Told, TypeOK
  <2> QED
    BY <1>2, <2>1, <2>2, <2>3, <2>4, <2>5, <2>6, <2>7, <2>8, <2>9, <2>10
    DEF HandlerStep
<1>3. ASSUME NEW s \in Subs, FailureStep(s) PROVE Told'
  <2>1. CASE CreateFails(s)
    BY <2>1
    DEF CreateFails, Moves, Tells, Told, TypeOK
  <2>2. CASE FetchFails(s)
    BY <2>2
    DEF FetchFails, Moves, Tells, Told, TypeOK
  <2>3. CASE FetchPanics(s)
    BY <2>3
    DEF FetchPanics, Moves, Tells, Told, TypeOK
  <2>4. CASE CallerIsGone(s)
    BY <2>4
    DEF CallerIsGone, Moves, Tells, Told, TypeOK
  <2> QED
    BY <1>3, <2>1, <2>2, <2>3, <2>4
    DEF FailureStep
<1>4. ASSUME NEW w \in Webhooks, WebhookStep(w) PROVE Told'
  <2>1. CASE LookupChannel(w)
    BY <2>1, <1>0
    DEF LookupChannel, handlerVars
  <2>2. CASE Send(w)
    BY <2>2, <1>0
    DEF Send, handlerVars
  <2>3. CASE SendPanics(w)
    BY <2>3, <1>0
    DEF SendPanics, handlerVars
  <2> QED
    BY <1>4, <2>1, <2>2, <2>3
    DEF WebhookStep
<1>5. CASE GraphStep
  <2>1. ASSUME NEW s \in Subs, MailArrives(s) PROVE Told'
    BY <2>1, <1>0
    DEF MailArrives, handlerVars
  <2>2. ASSUME NEW s \in Subs, SubscriptionExpires(s) PROVE Told'
    BY <2>2, <1>0
    DEF SubscriptionExpires, handlerVars
  <2>3. ASSUME NEW w \in Webhooks, PostNotices(w) PROVE Told'
    BY <2>3, <1>0
    DEF PostNotices, handlerVars
  <2> QED
    BY <1>5, <2>1, <2>2, <2>3 DEF GraphStep
<1>6. CASE ProcessDies
  BY <1>6, <1>0
  DEF ProcessDies, handlerVars
<1>7. CASE UNCHANGED vars
  BY <1>7, <1>0
  DEF vars, handlerVars
<1> QED
  BY <1>1, <1>2, <1>3, <1>4, <1>5, <1>6, <1>7 DEF Next

\* A service without subscriptions satisfies the inductive invariant.
LEMMA InitIInv == Init => IInv
<1> SUFFICES ASSUME Init PROVE IInv
  OBVIOUS
<1>1. Idle \in Call
  BY DEF Idle, Call
<1>2. TypeOK
  <2>1. ManagerTypeOK
    BY DEF Init, ManagerInit, ManagerTypeOK
  <2>2. /\ 0 \in 0..MaxBeats
        /\ 0 \in 0..MaxMails
        /\ 0 \in 0..MaxRepeats
    BY ManagerAssumption, GraphAssumption
  <2>3. webhook \in [Webhooks -> Call]
    BY <1>1 DEF Init
  <2> QED
    BY <2>1, <2>2, <2>3 DEF Init, TypeOK, HandlerPC, StreamState
<1>3. CallsOK
  BY DEF Init, CallsOK, Idle
<1>4. OwnMail
  BY ManagerAssumption DEF Init, ManagerInit, OwnMail
<1>5. MapPhases /\ Told
  BY DEF Init, ManagerInit, MapPhases, Told
<1> QED
  BY <1>2, <1>3, <1>4, <1>5 DEF IInv

\* The inductive invariant survives every step, as each of its parts does.
LEMMA IInvStep == IInv /\ [Next]_vars => IInv'
BY TypeStep, CallsStep, OwnStep, MapStep, ToldStep DEF IInv

\* Hence it holds throughout every behaviour.
LEMMA IInvAlways == Spec => []IInv
BY InitIInv, IInvStep, PTL DEF Spec

-----------------------------------------------------------------------------
(* The theorems. *)

\* Every variable keeps its type, for any number of subscriptions and webhook
\* goroutines.
THEOREM GraphTypeCorrect == Spec => []TypeOK
<1>1. IInv => TypeOK
  BY DEF IInv
<1> QED
  BY <1>1, IInvAlways, PTL

\* No caller ever gets a mail of another caller's mailbox.
THEOREM GraphOwnMail == Spec => []OwnMailOnly
<1>1. IInv => OwnMailOnly
  BY DEF IInv, OwnMail, OwnMailOnly
<1> QED
  BY <1>1, IInvAlways, PTL

\* A handler that waits for notices can be reached by the webhook.
THEOREM GraphReachable == Spec => []ListenerReachable
<1>1. IInv => ListenerReachable
  BY DEF IInv, MapPhases, ListenerReachable
<1> QED
  BY <1>1, IInvAlways, PTL

\* A handler that has returned leaves no map write and no fetch behind, and no
\* channel in the map but one whose removal racing writes lost, or that was
\* looked for during another handler's write; for any number of handlers.
THEOREM GraphCleanup == Spec => []NothingLeftInProcess
<1>1. IInv => NothingLeftInProcess
  BY DEF IInv, MapPhases, NothingLeftInProcess
<1> QED
  BY <1>1, IInvAlways, PTL

\* Every step is, for every subscription, a step of its event stream or none.
LEMMA StreamsStep == IInv /\ [Next]_vars => \A t \in Subs : StreamStep(t)
<1> SUFFICES ASSUME IInv, [Next]_vars, NEW t \in Subs
             PROVE  StreamStep(t)
  OBVIOUS
<1>0. ASSUME UNCHANGED <<handler, stream, beats, mail>>
      PROVE  StreamStep(t)
  BY <1>0 DEF StreamStep, Stream!vars
<1>1. ASSUME NEW s \in Subs, RequestStep(s) PROVE StreamStep(t)
  BY <1>1
  DEF RequestStep, CreateSubscription, IInv, TypeOK, Told, Moves, Tells,
      StreamStep, Stream!Next, Stream!vars
<1>2. ASSUME NEW s \in Subs, HandlerStep(s) PROVE StreamStep(t)
  <2>1. CASE CreateReturns(s)
    BY <2>1
    DEF CreateReturns, IInv, TypeOK, Told, Moves, Tells, Stream!Acquire,
        StreamStep, Stream!Next, Stream!vars
  <2>2. CASE SendSubscriptionSuccess(s)
    BY <2>2
    DEF SendSubscriptionSuccess, IInv, TypeOK, Told, Moves, Tells,
        Stream!Subscribed, StreamStep, Stream!Next, Stream!vars
  <2>3. CASE RegisterChannel(s)
    BY <2>3
    DEF RegisterChannel, IInv, TypeOK, Told, Moves, Tells, StreamStep,
        Stream!Next, Stream!vars
  <2>4. CASE TakeNotification(s)
    BY <2>4
    DEF TakeNotification, IInv, TypeOK, Told, Moves, Tells, StreamStep,
        Stream!Next, Stream!vars
  <2>5. CASE SendEmail(s)
    BY <2>5
    DEF SendEmail, IInv, TypeOK, Told, Moves, Tells, MapPhases,
        Stream!SendMail, StreamStep, Stream!Next, Stream!vars
  <2>6. CASE SendComplete(s)
    BY <2>6
    DEF SendComplete, IInv, TypeOK, Told, Moves, Tells, Stream!Complete,
        StreamStep, Stream!Next, Stream!vars
  <2>7. CASE HandlerTimeout(s)
    BY <2>7
    DEF HandlerTimeout, IInv, TypeOK, Told, Moves, Tells, Stream!End,
        StreamStep, Stream!Next, Stream!vars
  <2>8. CASE SendHeartbeat(s)
    BY <2>8
    DEF SendHeartbeat, IInv, TypeOK, Told, Moves, Tells, Stream!Heartbeat,
        StreamStep, Stream!Next, Stream!vars
  <2>9. CASE RemoveChannel(s)
    BY <2>9
    DEF RemoveChannel, IInv, TypeOK, Told, Moves, Tells, StreamStep,
        Stream!Next, Stream!vars
  <2>10. CASE DeleteSubscription(s)
    BY <2>10
    DEF DeleteSubscription, IInv, TypeOK, Told, Moves, Tells, Stream!Release,
        Stream!Ended, StreamStep, Stream!Next, Stream!vars
  <2> QED
    BY <1>2, <2>1, <2>2, <2>3, <2>4, <2>5, <2>6, <2>7, <2>8, <2>9, <2>10
    DEF HandlerStep
<1>3. ASSUME NEW s \in Subs, FailureStep(s) PROVE StreamStep(t)
  <2>1. CASE CreateFails(s)
    BY <2>1
    DEF CreateFails, IInv, TypeOK, Told, Moves, Tells, Stream!End, StreamStep,
        Stream!Next, Stream!vars
  <2>2. CASE FetchFails(s)
    BY <2>2
    DEF FetchFails, IInv, TypeOK, Told, Moves, Tells, StreamStep, Stream!Next,
        Stream!vars
  <2>3. CASE FetchPanics(s)
    BY <2>3
    DEF FetchPanics, IInv, TypeOK, Told, Moves, Tells, Stream!End, StreamStep,
        Stream!Next, Stream!vars
  <2>4. CASE CallerIsGone(s)
    BY <2>4
    DEF CallerIsGone, IInv, TypeOK, Told, Moves, Tells, Stream!End, StreamStep,
        Stream!Next, Stream!vars
  <2> QED
    BY <1>3, <2>1, <2>2, <2>3, <2>4
    DEF FailureStep
<1>4. ASSUME NEW w \in Webhooks, WebhookStep(w) PROVE StreamStep(t)
  <2>1. CASE LookupChannel(w)
    BY <2>1, <1>0
    DEF LookupChannel, handlerVars
  <2>2. CASE Send(w)
    BY <2>2, <1>0
    DEF Send, handlerVars
  <2>3. CASE SendPanics(w)
    BY <2>3, <1>0
    DEF SendPanics, handlerVars
  <2> QED
    BY <1>4, <2>1, <2>2, <2>3
    DEF WebhookStep
<1>5. CASE GraphStep
  <2>1. ASSUME NEW s \in Subs, MailArrives(s) PROVE StreamStep(t)
    BY <2>1, <1>0
    DEF MailArrives, handlerVars
  <2>2. ASSUME NEW s \in Subs, SubscriptionExpires(s) PROVE StreamStep(t)
    BY <2>2, <1>0
    DEF SubscriptionExpires, handlerVars
  <2>3. ASSUME NEW w \in Webhooks, PostNotices(w) PROVE StreamStep(t)
    BY <2>3, <1>0
    DEF PostNotices, handlerVars
  <2> QED
    BY <1>5, <2>1, <2>2, <2>3 DEF GraphStep
<1>6. CASE ProcessDies
  BY <1>6, <1>0
  DEF ProcessDies, handlerVars
<1>7. CASE UNCHANGED vars
  BY <1>7, <1>0
  DEF vars, handlerVars
<1> QED
  BY <1>1, <1>2, <1>3, <1>4, <1>5, <1>6, <1>7 DEF Next

\* Every Graph subscription implements the promise made to its caller.
THEOREM GraphStreams == Spec => StreamsPromise
<1>1. Init => \A s \in Subs : Stream(s)!Init
  BY DEF Init, Stream!Init
<1>2. IInv /\ [Next]_vars =>
        [\A s \in Subs : StreamStep(s)]_vars
  BY StreamsStep
<1> QED
  BY <1>1, <1>2, IInvAlways, PTL DEF Spec, StreamsPromise

-----------------------------------------------------------------------------
(* The refinement of SubscriptionHandlers. *)

\* A handler panics only after it has got its subscription, and from then on it
\* is on its way out.
PanicsLate ==
  \A s \in Subs : panicking[s] =>
    handler[s] \in {"remove", "unregister", "unregistering", "delete", "done"}

LEMMA PanicsStep == TypeOK /\ PanicsLate /\ [Next]_vars => PanicsLate'
<1> SUFFICES ASSUME TypeOK, PanicsLate, [Next]_vars PROVE PanicsLate'
  OBVIOUS
<1>0. ASSUME UNCHANGED <<handler, panicking>> PROVE PanicsLate'
  BY <1>0 DEF PanicsLate
<1>1. ASSUME NEW s \in Subs, RequestStep(s) \/ HandlerStep(s)
      PROVE  PanicsLate'
  BY <1>1
  DEF PanicsLate, TypeOK, Moves, RequestStep, CreateSubscription, HandlerStep,
      CreateReturns, SendSubscriptionSuccess, RegisterChannel,
      TakeNotification, SendEmail, SendComplete, HandlerTimeout, SendHeartbeat,
      RemoveChannel, DeleteSubscription
<1>2. ASSUME NEW s \in Subs, FailureStep(s) PROVE PanicsLate'
  BY <1>2
  DEF PanicsLate, TypeOK, Moves, FailureStep, CreateFails, FetchFails,
      FetchPanics, CallerIsGone
<1>3. ASSUME NEW w \in Webhooks, WebhookStep(w) PROVE PanicsLate'
  BY <1>0, <1>3 DEF WebhookStep, LookupChannel, Send, SendPanics, handlerVars
<1>4. CASE GraphStep
  BY <1>0, <1>4
  DEF GraphStep, MailArrives, SubscriptionExpires, PostNotices, handlerVars
<1>5. CASE ProcessDies \/ UNCHANGED vars
  BY <1>0, <1>5 DEF ProcessDies, vars, handlerVars
<1> QED
  BY <1>1, <1>2, <1>3, <1>4, <1>5 DEF Next

\* Only handler s changes: the other handlers keep their places.
LEMMA PlaceMoves ==
  ASSUME TypeOK, NEW s \in Subs, NEW from, NEW to,
         Place(s) = from, Place(s)' = to,
         \A t \in Subs \ {s} : UNCHANGED <<handler[t], panicking[t]>>
  PROVE  Handlers!StreamMoves(s, from, to) /\ Handlers!NoMapStep
<1>1. \A t \in Subs \ {s} : Place(t)' = Place(t)
  BY DEF Place
<1> QED
  BY <1>1 DEF Handlers!StreamMoves, Handlers!NoMapStep

\* A handler whose place does not change is not seen to move.
LEMMA PlaceStays ==
  ASSUME \A t \in Subs : Place(t)' = Place(t)
  PROVE  UNCHANGED Handlers!streamVars
BY DEF Handlers!streamVars

\* A step is a step of one handler in SubscriptionHandlers, or of none.
LEMMA HandlersKeep ==
  TypeOK /\ PanicsLate /\ [Next]_vars =>
    [Handlers!StreamStep]_(Handlers!streamVars)
<1> SUFFICES ASSUME TypeOK, PanicsLate, [Next]_vars
             PROVE  Handlers!StreamStep \/ UNCHANGED Handlers!streamVars
  OBVIOUS
<1>0. ASSUME UNCHANGED <<handler, panicking>>
      PROVE  UNCHANGED Handlers!streamVars
  BY <1>0, PlaceStays DEF Place
<1>1. ASSUME NEW s \in Subs, RequestStep(s) \/ HandlerStep(s) \/ FailureStep(s)
      PROVE  Handlers!StreamStep \/ UNCHANGED Handlers!streamVars
  <2>1. \A t \in Subs \ {s} : UNCHANGED <<handler[t], panicking[t]>>
    BY <1>1
    DEF TypeOK, Moves, RequestStep, CreateSubscription, HandlerStep,
        CreateReturns, SendSubscriptionSuccess, RegisterChannel,
        TakeNotification, SendEmail, SendComplete, HandlerTimeout,
        SendHeartbeat, RemoveChannel, DeleteSubscription, FailureStep,
        CreateFails, FetchFails, FetchPanics, CallerIsGone
  <2>2. ASSUME \/ Handlers!StreamOpens(s) \/ Handlers!GraphCreateFails(s)
               \/ Handlers!StreamEnds(s) \/ Handlers!GraphCleansUp(s)
        PROVE  Handlers!StreamStep
    BY <2>2 DEF Handlers!StreamStep, Handlers!StreamProgress
  <2>3. CASE RequestStep(s)
    <3>1. Place(s) = "none" /\ Place(s)' = "open"
      BY <2>3 DEF RequestStep, CreateSubscription, Moves, TypeOK, Place
    <3> QED
      BY <2>1, <2>2, <3>1, PlaceMoves DEF Handlers!StreamOpens
  <2>4. CASE CreateFails(s)
    <3>1. ~panicking[s] /\ ~panicking'[s] /\ Place(s)' = "ended"
      BY <2>4 DEF CreateFails, Moves, TypeOK, PanicsLate, Place
    <3>2. CASE handler[s] = "start"
      <4>1. Place(s) = "none"
        BY <3>2 DEF Place
      <4> QED
        BY <2>1, <2>2, <3>1, <4>1, PlaceMoves DEF Handlers!StreamOpens
    <3>3. CASE handler[s] = "creating"
      <4>1. Place(s) = "open"
        BY <3>3 DEF Place
      <4> QED
        BY <2>1, <2>2, <3>1, <4>1, PlaceMoves DEF Handlers!GraphCreateFails
    <3> QED
      BY <2>4, <3>2, <3>3 DEF CreateFails, Moves
  <2>5. CASE SendComplete(s) \/ HandlerTimeout(s) \/ CallerIsGone(s)
             \/ FetchPanics(s)
    <3>1. Place(s) = "open" /\ Place(s)' = "cleanup"
      BY <2>5
      DEF SendComplete, HandlerTimeout, CallerIsGone, FetchPanics, Moves,
          TypeOK, Place
    <3> QED
      BY <2>1, <2>2, <3>1, PlaceMoves DEF Handlers!StreamEnds
  <2>6. CASE DeleteSubscription(s)
    <3>1. Place(s) = "cleanup" /\ Place(s)' \in {"ended", "panicked"}
      BY <2>6 DEF DeleteSubscription, Moves, TypeOK, Place
    <3> QED
      BY <2>1, <2>2, <3>1, PlaceMoves DEF Handlers!GraphCleansUp
  <2>7. CASE \/ CreateReturns(s) \/ SendSubscriptionSuccess(s)
             \/ RegisterChannel(s) \/ TakeNotification(s) \/ SendEmail(s)
             \/ SendHeartbeat(s) \/ RemoveChannel(s) \/ FetchFails(s)
    <3>1. Place(s)' = Place(s)
      BY <2>7
      DEF CreateReturns, SendSubscriptionSuccess, RegisterChannel,
          TakeNotification, SendEmail, SendHeartbeat, RemoveChannel,
          FetchFails, Moves, TypeOK, Place
    <3>2. \A t \in Subs : Place(t)' = Place(t)
      BY <2>1, <3>1 DEF Place
    <3> QED
      BY <3>2, PlaceStays
  <2> QED
    BY <1>1, <2>3, <2>4, <2>5, <2>6, <2>7
    DEF RequestStep, HandlerStep, FailureStep
<1>2. ASSUME NEW w \in Webhooks, WebhookStep(w)
      PROVE  UNCHANGED Handlers!streamVars
  BY <1>0, <1>2 DEF WebhookStep, LookupChannel, Send, SendPanics, handlerVars
<1>3. CASE GraphStep
  BY <1>0, <1>3
  DEF GraphStep, MailArrives, SubscriptionExpires, PostNotices, handlerVars
<1>4. CASE ProcessDies \/ UNCHANGED vars
  BY <1>0, <1>4 DEF ProcessDies, vars, handlerVars
<1> QED
  BY <1>1, <1>2, <1>3, <1>4 DEF Next

\* The handlers of Graph subscriptions implement those of SubscriptionHandlers:
\* none returns past its deferred functions.
THEOREM GraphHandlerRefinement == Spec => HandlersPromise
<1>1. Init => Handlers!StreamInit /\ PanicsLate
  BY DEF Init, Handlers!StreamInit, Place, PanicsLate
<1>2. TypeOK /\ PanicsLate /\ [Next]_vars => PanicsLate'
  BY PanicsStep
<1>3. TypeOK /\ PanicsLate /\ [Next]_vars =>
        [Handlers!StreamStep]_(Handlers!streamVars)
  BY HandlersKeep
<1> QED
  BY <1>1, <1>2, <1>3, GraphTypeCorrect, PTL
  DEF Spec, HandlersPromise

=============================================================================
