------------------------ MODULE ImapSubscription_proofs ------------------------
(***************************************************************************)
(* Safety of ImapSubscription for every capacity, every number of mails    *)
(* and both transports.  Phases says how the handler's position, the       *)
(* listener, the IDLE goroutine and the resources go together; with TypeOK *)
(* it is inductive, and the safety properties follow from it.              *)
(***************************************************************************)
EXTENDS ImapSubscription, FiniteSetTheorems, TLAPS

Cancelled ==
  {"unsubscribe", "waiting", "disconnect", "logout", "close", "done"}

Phases ==
  /\ registered <=> handler \notin {"start", "done"}
  /\ chanClosed <=> handler = "done"
  /\ handler \in Cancelled => ctxDone
  /\ isSubscribed =>
       handler \in
         {"started", "listening", "completing", "cancel", "unsubscribe"}
  /\ isSubscribed \/ handler \in {"connected", "waiting"} => connected
  /\ handler \in {"close", "done"} => ~connected
  /\ ListenerRunning => isSubscribed \/ handler = "waiting"
  /\ idle # "none" <=>
       listener \in {"select", "skipWait", "fetchWait", "exitWait"}
  /\ handler \in {"start", "created"} => link = "none"
  /\ link = "selected" => connected
  /\ updatesSet => connected /\ handler # "logout"
  /\ wire # << >> \/ held # "none" => link \in {"selected", "abandoned"}
  /\ held # "none" => connected \/ broken

\* What the caller has been told, by the handler's position.
Told ==
  /\ handler \in {"start", "created", "connected", "started"} =>
       stream = "opening"
  /\ handler = "listening" => stream = "subscribed"
  /\ handler = "completing" => stream = "mailSent"
  /\ handler \in Cancelled \cup {"cancel"} =>
       stream \in {"completed", "timedOut", "failed", "dropped"}

IInv == TypeOK /\ Phases /\ Told

\* The mails left of those that were there when INBOX was selected.
OldMails == {m \in inbox : m <= InitialMails}
OldLeft == Cardinality(OldMails)

\* The client's count goes beyond them: it has been told of an arrival.
Announced == mbox.messages > OldLeft

\* Of the lines on the wire, RECENT lines come after an EXISTS line.
LinesOK ==
  \A i \in 1..Len(wire) :
    /\ wire[i].kind = "EXISTS" => wire[i].n > OldLeft
    /\ wire[i].kind = "RECENT" =>
         Announced \/ \E j \in 1..(i - 1) : wire[j].kind = "EXISTS"

\* A MailboxUpdate is on its way to the listener, or has reached it.
Noticed ==
  \/ \E i \in 1..Len(updates) : updates[i] = "mailbox"
  \/ held = "mailbox"
  \/ listener = "fetchWait"

\* While the server announces no count again: nothing of an arrival reaches the
\* listener before a count beyond the old mails, and every mail on its way to
\* the caller is one that arrived.
Arrivals ==
  chatter = 0 =>
    /\ LinesOK
    /\ Noticed => Announced
    /\ handler \in {"start", "created"} =>
         wire = << >> /\ updates = << >> /\ held = "none"
    /\ listener = "fetch" => seqNum > OldLeft
    /\ \A m \in {fetched, emailChan, mail} : m # NoMail => m > InitialMails

-----------------------------------------------------------------------------
(* Type correctness. *)

\* INBOX is finite at all times, so the counts the server announces are numbers.
LEMMA CountsAreNumbers ==
  ASSUME inbox \in SUBSET Mails
  PROVE  Cardinality(inbox) \in Nat /\ Cardinality(NewMails) \in Nat
<1>1. IsFiniteSet(Mails)
  BY ConnectionAssumption, FS_Interval DEF Mails
<1>2. IsFiniteSet(inbox)
  BY <1>1, FS_Subset
<1>3. NewMails \subseteq inbox
  BY DEF NewMails
<1>4. IsFiniteSet(NewMails)
  BY <1>2, <1>3, FS_Subset
<1> QED
  BY <1>2, <1>4, FS_CardinalityType

\* Every line the reader takes leaves a mailbox status and is one update.
LEMMA LineIsUpdate ==
  ASSUME NEW line \in Line, mbox \in Status
  PROVE  UpdateOf(line) \in Update /\ StatusAfter(line) \in Status
BY DEF Line, Update, Status, UpdateOf, StatusAfter

\* The server's and the reader's steps keep the connection well typed.
LEMMA ConnectionStepType ==
  ASSUME ConnTypeOK,
         MailArrives \/ MailExpunged \/ ServerChatters \/ ConnectionBreaks
           \/ ReadLine \/ SendHeldUpdate \/ ReaderEnds
  PROVE  ConnTypeOK'
<1> USE DEF ConnTypeOK
<1>0. Cardinality(inbox) \in Nat /\ Cardinality(NewMails) \in Nat
  BY CountsAreNumbers
<1>1. CASE MailArrives
  <2>1. InitialMails + arrived + 1 \in Mails
    BY <1>1, ConnectionAssumption DEF MailArrives, Mails
  <2>2. /\ [kind |-> "EXISTS", n |-> Cardinality(inbox) + 1] \in Line
        /\ [kind |-> "RECENT", n |-> Cardinality(NewMails) + 1] \in Line
    BY <1>0 DEF Line
  <2>3. wire' \in Seq(Line)
    BY <1>1, <2>2 DEF MailArrives
  <2> QED
    BY <1>1, <2>1, <2>3, ConnectionAssumption DEF MailArrives
<1>2. CASE MailExpunged
  <2>1. [kind |-> "OTHER", n |-> 0] \in Line
    BY DEF Line
  <2> QED
    BY <1>2, <2>1, ConnectionAssumption DEF MailExpunged
<1>3. CASE ServerChatters
  <2>1. /\ [kind |-> "EXISTS", n |-> Cardinality(inbox)] \in Line
        /\ [kind |-> "RECENT", n |-> Cardinality(NewMails)] \in Line
        /\ [kind |-> "OTHER", n |-> 0] \in Line
    BY <1>0 DEF Line
  <2>2. wire' \in Seq(Line)
    BY <1>3, <2>1 DEF ServerChatters
  <2> QED
    BY <1>3, <2>2, ConnectionAssumption DEF ServerChatters
<1>4. CASE ConnectionBreaks
  BY <1>4 DEF ConnectionBreaks
<1>5. CASE ReadLine
  <2>1. Head(wire) \in Line /\ Tail(wire) \in Seq(Line)
    BY <1>5 DEF ReadLine
  <2>2. UpdateOf(Head(wire)) \in Update /\ StatusAfter(Head(wire)) \in Status
    BY <2>1, LineIsUpdate
  <2>3. wire' \in Seq(Line) /\ mbox' \in Status
    BY <1>5, <2>1, <2>2 DEF ReadLine
  <2>4. updates' \in Seq(Update)
    <3>1. updates' = updates \/ updates' = Append(updates, UpdateOf(Head(wire)))
      BY <1>5 DEF ReadLine
    <3> HIDE DEF ConnTypeOK
    <3>2. updates \in Seq(Update)
      BY DEF ConnTypeOK
    <3> QED
      BY <2>2, <3>1, <3>2
  <2>5. held' \in Update \cup {"none"}
    BY <1>5, <2>2 DEF ReadLine
  <2> QED
    BY <1>5, <2>3, <2>4, <2>5 DEF ReadLine
<1>6. CASE SendHeldUpdate
  BY <1>6 DEF SendHeldUpdate
<1>7. CASE ReaderEnds
  BY <1>7 DEF ReaderEnds, Link
<1> QED
  BY <1>1, <1>2, <1>3, <1>4, <1>5, <1>6, <1>7

\* A subscription starts in the inductive invariant.
LEMMA InitIInv == Init => IInv
<1> SUFFICES ASSUME Init PROVE IInv
  OBVIOUS
<1>1. TypeOK
  <2>1. 1..InitialMails \in SUBSET Mails
    BY ConnectionAssumption DEF Mails
  <2>2. << >> \in Seq(Line) /\ << >> \in Seq(Update)
    OBVIOUS
  <2>3. inbox \in SUBSET Mails /\ wire \in Seq(Line) /\ updates \in Seq(Update)
    BY <2>1, <2>2 DEF Init, ConnInit
  <2>4. mbox \in Status /\ lastBox \in Status
    BY DEF Init, ConnInit, Status
  <2>5. arrived \in 0..MaxMails /\ chatter \in 0..MaxChatter
    BY ConnectionAssumption DEF Init, ConnInit
  <2>6. ConnTypeOK
    BY <2>3, <2>4, <2>5 DEF Init, ConnInit, ConnTypeOK, Link
  <2>7. beats \in 0..MaxBeats
    BY SubscriptionAssumption DEF Init
  <2> QED
    BY <2>4, <2>6, <2>7
    DEF Init, TypeOK, HandlerPC, ListenerPC, StreamState, NoMail
<1>2. Phases /\ Told
  BY DEF Init, ConnInit, Phases, Told, ListenerRunning, Cancelled
<1> QED
  BY <1>1, <1>2 DEF IInv

\* LOGOUT, answered or failed.
LEMMA LogoutType ==
  ASSUME TypeOK, Logout \/ LogoutFails
  PROVE  TypeOK'
<1> USE DEF Logout, LogoutFails, LogoutReturns, handlerVars, listenerVars, subVars
<1>1. link' \in Link
  BY DEF Link, ConnTypeOK, TypeOK
<1>2. ConnTypeOK'
  BY <1>1 DEF ConnTypeOK, TypeOK
<1>3. handler' \in HandlerPC
  BY DEF HandlerPC
<1> QED
  BY <1>2, <1>3 DEF TypeOK

\* No step of the handler, a goroutine or the environment breaks a type.
LEMMA TypeStep == TypeOK /\ [Next]_vars => TypeOK'
<1> SUFFICES ASSUME TypeOK, [Next]_vars PROVE TypeOK'
  OBVIOUS
<1> USE DEF handlerVars, listenerVars, subVars, connVars
<1>0. ConnTypeOK
  BY DEF TypeOK
<1>1. ASSUME UNCHANGED connVars PROVE ConnTypeOK'
  BY <1>0, <1>1 DEF ConnTypeOK
<1>2. CASE HandlerStep
  <2>1. CASE CreateSubscription
    BY <1>1, <2>1
    DEF CreateSubscription, TypeOK, HandlerPC, ListenerPC, StreamState, NoMail
  <2>2. CASE Connect
    <3>1. ConnTypeOK'
      BY <1>0, <2>2, CountsAreNumbers DEF Connect, ConnTypeOK, Status, Link
    <3> QED
      BY <2>2, <3>1
      DEF Connect, TypeOK, HandlerPC, ListenerPC, StreamState, NoMail
  <2>3. CASE ConnectFails
    <3>1. ConnTypeOK'
      BY <1>0, <2>3 DEF ConnectFails, ConnTypeOK, Link
    <3> QED
      BY <2>3, <3>1
      DEF ConnectFails, TypeOK, HandlerPC, ListenerPC, StreamState, NoMail
  <2>4. CASE SubscribeNewEmails
    <3>1. ConnTypeOK'
      BY <1>0, <2>4 DEF SubscribeNewEmails, ConnTypeOK
    <3>2. handler' \in HandlerPC /\ listener' \in ListenerPC
      BY <2>4 DEF SubscribeNewEmails, TypeOK, HandlerPC, ListenerPC
    <3> QED
      BY <2>4, <3>1, <3>2 DEF SubscribeNewEmails, TypeOK
  <2>5. CASE SendSubscriptionSuccess
    BY <1>1, <2>5
   
    DEF SendSubscriptionSuccess, TypeOK, HandlerPC, ListenerPC, StreamState,
        NoMail
  <2>6. CASE SendEmail
    BY <1>1, <2>6
    DEF SendEmail, TypeOK, HandlerPC, ListenerPC, StreamState, NoMail
  <2>7. CASE SendComplete
    BY <1>1, <2>7
    DEF SendComplete, TypeOK, HandlerPC, ListenerPC, StreamState, NoMail
  <2>8. CASE SendHeartbeat
    BY <1>1, <2>8, SubscriptionAssumption
    DEF SendHeartbeat, TypeOK, HandlerPC, ListenerPC, StreamState, NoMail
  <2>9. CASE HandlerTimeout
    BY <1>1, <2>9
    DEF HandlerTimeout, TypeOK, HandlerPC, ListenerPC, StreamState, NoMail
  <2>10. CASE CallerIsGone
    BY <1>1, <2>10
    DEF CallerIsGone, TypeOK, HandlerPC, ListenerPC, StreamState, NoMail
  <2>11. CASE StopCancel
    BY <1>1, <2>11
    DEF StopCancel, TypeOK, HandlerPC, ListenerPC, StreamState, NoMail
  <2>12. CASE Unsubscribe
    <3>1. handler' \in {"waiting", "disconnect"}
      BY <2>12 DEF Unsubscribe
    <3>2. isSubscribed' \in BOOLEAN /\ stopClosed' \in BOOLEAN
      BY <2>12 DEF Unsubscribe, TypeOK
    <3> QED
      BY <1>1, <2>12, <3>1, <3>2
      DEF Unsubscribe, TypeOK, HandlerPC, ListenerPC, StreamState, NoMail
  <2>13. CASE WaitForListener
    BY <1>1, <2>13
    DEF WaitForListener, TypeOK, HandlerPC, ListenerPC, StreamState, NoMail
  <2>14. CASE Disconnect
    <3>1. ConnTypeOK'
      BY <1>0, <2>14 DEF Disconnect, ConnTypeOK
    <3> QED
      BY <2>14, <3>1
      DEF Disconnect, TypeOK, HandlerPC, ListenerPC, StreamState, NoMail
  <2>15. CASE Logout
    BY <2>15, LogoutType
  <2>16. CASE CloseEmailChan
    <3>1. handler' \in HandlerPC
      BY <2>16 DEF CloseEmailChan, HandlerPC
    <3> QED
      BY <1>1, <2>16, <3>1 DEF CloseEmailChan, TypeOK
  <2> QED
    BY <1>2, <2>1, <2>2, <2>3, <2>4, <2>5, <2>6, <2>7, <2>8, <2>9,
       <2>10, <2>11, <2>12, <2>13, <2>14, <2>15, <2>16
    DEF HandlerStep
<1>3. CASE ListenerStep
  <2>1. CASE StartIdle
    BY <1>1, <2>1
    DEF StartIdle, TypeOK, HandlerPC, ListenerPC, StreamState, NoMail
  <2>2. CASE TakeNotice
    <3>1. ConnTypeOK'
      BY <1>0, <2>2 DEF TakeNotice, ConnTypeOK
    <3>2. mbox \in Status
      BY <1>0 DEF ConnTypeOK
    <3>3. handler' \in HandlerPC /\ listener' \in ListenerPC
      BY <2>2 DEF TakeNotice, TypeOK, HandlerPC, ListenerPC
    <3> QED
      BY <2>2, <3>1, <3>2, <3>3 DEF TakeNotice, TypeOK
  <2>3. CASE SkipUpdate
    <3>1. ConnTypeOK'
      BY <1>0, <2>3 DEF SkipUpdate, ConnTypeOK
    <3> QED
      BY <2>3, <3>1
      DEF SkipUpdate, TypeOK, HandlerPC, ListenerPC, StreamState, NoMail
  <2>4. CASE SeeStop
    BY <1>1, <2>4
    DEF SeeStop, TypeOK, HandlerPC, ListenerPC, StreamState, NoMail
  <2>5. CASE IdleDone
    BY <1>1, <2>5
    DEF IdleDone, TypeOK, HandlerPC, ListenerPC, StreamState, NoMail
  <2>6. CASE StartFetch
    <3>1. mbox.messages \in Nat
      BY <1>0 DEF ConnTypeOK, Status
    <3> QED
      BY <1>1, <2>6, <3>1
      DEF StartFetch, TypeOK, HandlerPC, ListenerPC, StreamState, NoMail
  <2>7. CASE FetchAnswered
    <3>1. MailAt(seqNum) \subseteq Mails
      BY <1>0 DEF ConnTypeOK, MailAt
    <3> QED
      BY <1>1, <2>7, <3>1
      DEF FetchAnswered, TypeOK, HandlerPC, ListenerPC, StreamState, NoMail
  <2>8. CASE OfferEmail
    BY <1>1, <2>8
    DEF OfferEmail, TypeOK, HandlerPC, ListenerPC, StreamState, NoMail
  <2>9. CASE OfferAbandoned
    BY <1>1, <2>9
    DEF OfferAbandoned, TypeOK, HandlerPC, ListenerPC, StreamState, NoMail
  <2> QED
    BY <1>3, <2>1, <2>2, <2>3, <2>4, <2>5, <2>6, <2>7, <2>8, <2>9
    DEF ListenerStep
<1>4. CASE IdleStep
  <2>1. CASE IdleRuns
    BY <1>1, <2>1
    DEF IdleRuns, TypeOK, HandlerPC, ListenerPC, StreamState, NoMail
  <2>2. CASE IdleStopped
    BY <1>1, <2>2
    DEF IdleStopped, TypeOK, HandlerPC, ListenerPC, StreamState, NoMail
  <2> QED
    BY <1>4, <2>1, <2>2 DEF IdleStep
<1>5. CASE FailureStep
  <2>1. CASE LogoutFails
    BY <2>1, LogoutType
  <2>2. CASE FetchFails
    BY <1>1, <2>2
    DEF FetchFails, TypeOK, HandlerPC, ListenerPC, StreamState, NoMail
  <2>3. CASE IdleEnds
    BY <1>1, <2>3
    DEF IdleEnds, TypeOK, HandlerPC, ListenerPC, StreamState, NoMail
  <2> QED
    BY <1>5, <2>1, <2>2, <2>3 DEF FailureStep
<1>6. CASE EnvironmentStep
  <2>1. CASE StopCtxExpires
    BY <1>1, <2>1
    DEF StopCtxExpires, TypeOK, HandlerPC, ListenerPC, StreamState, NoMail
  <2>2. CASE FiveSecondsPass
    BY <1>1, <2>2
    DEF FiveSecondsPass, TypeOK, HandlerPC, ListenerPC, StreamState, NoMail
  <2>3. CASE ServerStep
    <3>1. ConnTypeOK'
      BY <1>0, <2>3, ConnectionStepType DEF ServerStep
    <3> QED
      BY <2>3, <3>1 DEF ServerStep, TypeOK
  <2> QED
    BY <1>6, <2>1, <2>2, <2>3 DEF EnvironmentStep
<1>7. CASE ReaderStep
  <2>1. ConnTypeOK'
    BY <1>0, <1>7, ConnectionStepType DEF ReaderStep
  <2> QED
    BY <1>7, <2>1 DEF ReaderStep, TypeOK
<1>8. CASE UNCHANGED vars
  BY <1>1, <1>8 DEF vars, TypeOK
<1> QED
  BY <1>2, <1>3, <1>4, <1>5, <1>6, <1>7, <1>8 DEF Next

-----------------------------------------------------------------------------
(* The inductive invariant. *)

\* The handler, the listener and the IDLE goroutine stay in step.
LEMMA PhasesStep == Phases /\ [Next]_vars => Phases'
<1> SUFFICES ASSUME Phases, [Next]_vars PROVE Phases'
  OBVIOUS
<1> USE DEF Phases, ListenerRunning, Cancelled, handlerVars, listenerVars,
            subVars, connVars
<1>1. CASE HandlerStep
  <2>1. CASE CreateSubscription
    BY <2>1 DEF CreateSubscription
  <2>2. CASE Connect
    BY <2>2 DEF Connect
  <2>3. CASE ConnectFails
    BY <2>3 DEF ConnectFails
  <2>4. CASE SubscribeNewEmails
    BY <2>4 DEF SubscribeNewEmails
  <2>5. CASE SendSubscriptionSuccess
    BY <2>5 DEF SendSubscriptionSuccess
  <2>6. CASE SendEmail
    BY <2>6 DEF SendEmail
  <2>7. CASE SendComplete
    BY <2>7 DEF SendComplete
  <2>8. CASE SendHeartbeat
    BY <2>8 DEF SendHeartbeat
  <2>9. CASE HandlerTimeout
    BY <2>9 DEF HandlerTimeout
  <2>10. CASE CallerIsGone
    BY <2>10 DEF CallerIsGone
  <2>11. CASE StopCancel
    BY <2>11 DEF StopCancel
  <2>12. CASE Unsubscribe
    BY <2>12 DEF Unsubscribe
  <2>13. CASE WaitForListener
    BY <2>13 DEF WaitForListener
  <2>14. CASE Disconnect
    BY <2>14 DEF Disconnect
  <2>15. CASE Logout
    BY <2>15 DEF Logout, LogoutReturns, AnswerReadable
  <2>16. CASE CloseEmailChan
    BY <2>16 DEF CloseEmailChan
  <2> QED
    BY <1>1, <2>1, <2>2, <2>3, <2>4, <2>5, <2>6, <2>7, <2>8, <2>9,
       <2>10, <2>11, <2>12, <2>13, <2>14, <2>15, <2>16
    DEF HandlerStep
<1>2. CASE ListenerStep
  <2>1. CASE StartIdle
    BY <2>1 DEF StartIdle
  <2>2. CASE TakeNotice
    BY <2>2 DEF TakeNotice
  <2>3. CASE SkipUpdate
    BY <2>3 DEF SkipUpdate
  <2>4. CASE SeeStop
    BY <2>4 DEF SeeStop
  <2>5. CASE IdleDone
    BY <2>5 DEF IdleDone
  <2>6. CASE StartFetch
    BY <2>6 DEF StartFetch
  <2>7. CASE FetchAnswered
    BY <2>7 DEF FetchAnswered
  <2>8. CASE OfferEmail
    BY <2>8 DEF OfferEmail
  <2>9. CASE OfferAbandoned
    BY <2>9 DEF OfferAbandoned
  <2> QED
    BY <1>2, <2>1, <2>2, <2>3, <2>4, <2>5, <2>6, <2>7, <2>8, <2>9
    DEF ListenerStep
<1>3. CASE IdleStep
  <2>1. CASE IdleRuns
    BY <2>1 DEF IdleRuns
  <2>2. CASE IdleStopped
    BY <2>2 DEF IdleStopped
  <2> QED
    BY <1>3, <2>1, <2>2 DEF IdleStep
<1>4. CASE FailureStep
  <2>1. CASE LogoutFails
    BY <2>1 DEF LogoutFails, LogoutReturns, CommandMayFail, AnswerReadable
  <2>2. CASE FetchFails
    BY <2>2 DEF FetchFails
  <2>3. CASE IdleEnds
    BY <2>3 DEF IdleEnds
  <2> QED
    BY <1>4, <2>1, <2>2, <2>3 DEF FailureStep
<1>5. CASE EnvironmentStep
  <2>1. CASE StopCtxExpires
    BY <2>1 DEF StopCtxExpires
  <2>2. CASE FiveSecondsPass
    BY <2>2 DEF FiveSecondsPass
  <2>3. CASE ServerStep
    BY <2>3
    DEF ServerStep, ServerSends, MailArrives, MailExpunged, ServerChatters,
        ConnectionBreaks
  <2> QED
    BY <1>5, <2>1, <2>2, <2>3 DEF EnvironmentStep
<1>6. CASE ReaderStep
  BY <1>6 DEF ReaderStep, ReadLine, SendHeldUpdate, ReaderEnds, AnswerReadable
<1>7. CASE UNCHANGED vars
  BY <1>7 DEF vars
<1> QED
  BY <1>1, <1>2, <1>3, <1>4, <1>5, <1>6, <1>7 DEF Next

\* What the caller was told follows the handler's position.
LEMMA ToldStep == Told /\ [Next]_vars => Told'
<1> SUFFICES ASSUME Told, [Next]_vars PROVE Told'
  OBVIOUS
<1> USE DEF Told, Cancelled, handlerVars, listenerVars, subVars, connVars
<1>1. CASE HandlerStep
  <2>1. CASE CreateSubscription
    BY <2>1 DEF CreateSubscription
  <2>2. CASE Connect
    BY <2>2 DEF Connect
  <2>3. CASE ConnectFails
    BY <2>3 DEF ConnectFails
  <2>4. CASE SubscribeNewEmails
    BY <2>4 DEF SubscribeNewEmails
  <2>5. CASE SendSubscriptionSuccess
    BY <2>5 DEF SendSubscriptionSuccess
  <2>6. CASE SendEmail
    BY <2>6 DEF SendEmail
  <2>7. CASE SendComplete
    BY <2>7 DEF SendComplete
  <2>8. CASE SendHeartbeat
    BY <2>8 DEF SendHeartbeat
  <2>9. CASE HandlerTimeout
    BY <2>9 DEF HandlerTimeout
  <2>10. CASE CallerIsGone
    BY <2>10 DEF CallerIsGone
  <2>11. CASE StopCancel
    BY <2>11 DEF StopCancel
  <2>12. CASE Unsubscribe
    BY <2>12 DEF Unsubscribe
  <2>13. CASE WaitForListener
    BY <2>13 DEF WaitForListener
  <2>14. CASE Disconnect
    BY <2>14 DEF Disconnect
  <2>15. CASE Logout
    BY <2>15 DEF Logout, LogoutReturns
  <2>16. CASE CloseEmailChan
    BY <2>16 DEF CloseEmailChan
  <2> QED
    BY <1>1, <2>1, <2>2, <2>3, <2>4, <2>5, <2>6, <2>7, <2>8, <2>9,
       <2>10, <2>11, <2>12, <2>13, <2>14, <2>15, <2>16
    DEF HandlerStep
<1>2. CASE LogoutFails
  BY <1>2 DEF LogoutFails, LogoutReturns
<1>3. CASE UNCHANGED <<handler, stream>>
  BY <1>3
<1>4. ListenerStep \/ IdleStep \/ ReaderStep \/ FetchFails \/ IdleEnds
        \/ EnvironmentStep \/ UNCHANGED vars => UNCHANGED <<handler, stream>>
  BY DEF ListenerStep, StartIdle, TakeNotice, SkipUpdate, SeeStop, IdleDone,
         StartFetch, FetchAnswered, OfferEmail, OfferAbandoned, IdleStep,
         IdleRuns, IdleStopped, ReaderStep, FetchFails, IdleEnds,
         EnvironmentStep, StopCtxExpires, FiveSecondsPass, ServerStep, vars
<1> QED
  BY <1>1, <1>2, <1>3, <1>4 DEF Next, FailureStep

\* The inductive invariant survives every step, as each of its parts does.
LEMMA IInvStep == IInv /\ [Next]_vars => IInv'
BY TypeStep, PhasesStep, ToldStep DEF IInv

\* Hence the inductive invariant holds throughout every subscription.
LEMMA IInvAlways == Spec => []IInv
BY InitIInv, IInvStep, PTL DEF Spec

-----------------------------------------------------------------------------
(* The theorems. *)

\* Every variable of a subscription keeps its type, for every capacity and any
\* number of mails.
THEOREM TypeCorrect == Spec => []TypeOK
<1>1. IInv => TypeOK
  BY DEF IInv
<1> QED
  BY <1>1, IInvAlways, PTL

\* The listener never sends into the EmailChan that CancelSubscription closed,
\* whatever ends the subscription.
THEOREM NoSendOnClosed == Spec => []NoSendOnClosedChannel
<1>1. IInv => NoSendOnClosedChannel
  BY DEF IInv, Phases, NoSendOnClosedChannel
<1> QED
  BY <1>1, IInvAlways, PTL

\* Neither the listener nor its IDLE goroutine can find c.client nil.
THEOREM ClientAlive == Spec => []ClientAliveWhileUsed
<1>1. IInv => ClientAliveWhileUsed
  BY DEF IInv, Phases, ClientAliveWhileUsed, ListenerRunning
<1> QED
  BY <1>1, IInvAlways, PTL

\* IDLE, FETCH and LOGOUT, issued by three goroutines without a common lock,
\* never overlap.
THEOREM CommandsDoNotOverlap == Spec => []OneCommandAtATime
<1>1. IInv => OneCommandAtATime
  BY DEF IInv, Phases, OneCommandAtATime, ListenerRunning
<1> QED
  BY <1>1, IInvAlways, PTL

\* A handler that has returned leaves nothing of its subscription in use, and a
\* connection only to a reader whose LOGOUT failed: one that stands still for
\* ever if the connection broke while it was blocked, and not otherwise.
THEOREM CleanupLeavesReaderOnly == Spec => []OnlyReaderIsLeft
<1>1. IInv => OnlyReaderIsLeft
  BY DEF IInv, Phases, OnlyReaderIsLeft, ListenerRunning, Cancelled, ReaderBlocked
<1> QED
  BY <1>1, IInvAlways, PTL

\* Nobody waits for anybody in a circle without the reader, for any capacity of
\* the Updates channel and any mails: in Phases, the listener that the handler
\* waits for has been told to stop, and the IDLE that it waits for is there.
THEOREM NoOtherDeadlock == Spec => []OnlyReaderBlocks
<1>1. ASSUME IInv, registered,
             ~(HandlerCanRun \/ ListenerCanRun \/ IdleCanRun \/ ReaderCanRun)
      PROVE  /\ ReaderBlocked
             /\ \/ handler = "logout"
                \/ handler = "waiting" /\ (listener = "fetch" \/ idle = "running")
  <2>1. handler \in {"waiting", "logout"}
    BY <1>1 DEF IInv, TypeOK, HandlerPC, Phases, HandlerCanRun
  <2>2. CASE handler = "logout"
    BY <1>1, <2>2 DEF HandlerCanRun, ReaderCanRun, ReaderBlocked, AnswerReadable
  <2>3. CASE handler = "waiting"
    <3>1. ctxDone /\ ListenerRunning
      BY <1>1, <2>3 DEF IInv, Phases, Cancelled, HandlerCanRun
    <3>2. CASE listener = "fetch"
      BY <1>1, <2>3, <3>2
      DEF ListenerCanRun, ReaderCanRun, ReaderBlocked, AnswerReadable
    <3>3. CASE listener \in {"skipWait", "fetchWait", "exitWait"}
      <4>1. idle = "running"
        BY <1>1, <3>3 DEF IInv, TypeOK, Phases, ListenerCanRun, IdleCanRun
      <4> QED
        BY <1>1, <2>3, <3>3, <4>1
        DEF IdleCanRun, ReaderCanRun, ReaderBlocked, AnswerReadable, StopClosed
    <3> QED
      BY <1>1, <3>1, <3>2, <3>3
      DEF ListenerCanRun, ListenerRunning, ListenerPC, IInv, TypeOK
  <2> QED
    BY <2>1, <2>2, <2>3
<1>2. IInv => OnlyReaderBlocks
  BY <1>1 DEF OnlyReaderBlocks
<1> QED
  BY <1>2, IInvAlways, PTL

-----------------------------------------------------------------------------
(* The mails of a subscription while the server announces no count again. *)

\* Two lines at the end of the wire.
LEMMA TwoLines ==
  ASSUME NEW s \in Seq(Line), NEW a \in Line, NEW b \in Line
  PROVE  LET t == s \o <<a, b>>
         IN  /\ Len(s) \in Nat
             /\ Len(t) = Len(s) + 2
             /\ \A i \in 1..Len(s) : t[i] = s[i]
             /\ t[Len(s) + 1] = a /\ t[Len(s) + 2] = b
<1>1. <<a, b>> \in Seq(Line) /\ Len(<<a, b>>) = 2
  OBVIOUS
<1> QED
  BY <1>1

\* What is left of the old mails is part of INBOX.
LEMMA OldLeftIsCount ==
  ASSUME inbox \in SUBSET Mails
  PROVE  /\ IsFiniteSet(inbox) /\ IsFiniteSet(OldMails)
         /\ Cardinality(inbox) \in Nat /\ OldLeft \in Nat
         /\ OldLeft <= Cardinality(inbox)
<1>1. IsFiniteSet(Mails)
  BY ConnectionAssumption, FS_Interval DEF Mails
<1>2. IsFiniteSet(inbox)
  BY <1>1, FS_Subset
<1>3. OldMails \subseteq inbox
  BY DEF OldMails
<1>4. IsFiniteSet(OldMails) /\ Cardinality(OldMails) <= Cardinality(inbox)
  BY <1>2, <1>3, FS_Subset
<1> QED
  BY <1>2, <1>4, FS_CardinalityType DEF OldLeft

\* The arrival of a mail puts its EXISTS line before its RECENT line.
LEMMA LinesArrive ==
  ASSUME ConnTypeOK, LinesOK, MailArrives
  PROVE  LinesOK' /\ OldLeft' = OldLeft
<1> DEFINE a == [kind |-> "EXISTS", n |-> Cardinality(inbox) + 1]
           b == [kind |-> "RECENT", n |-> Cardinality(NewMails) + 1]
<1>1. arrived \in Nat /\ InitialMails \in Nat
  BY ConnectionAssumption DEF ConnTypeOK
<1>2. OldLeft' = OldLeft
  <2>1. OldMails' = OldMails
    BY <1>1 DEF MailArrives, OldMails
  <2> QED
    BY <2>1 DEF OldLeft
<1>3. a \in Line /\ b \in Line /\ a.n > OldLeft
  BY CountsAreNumbers, OldLeftIsCount DEF ConnTypeOK, Line
<1>4. wire \in Seq(Line) /\ wire' = wire \o <<a, b>>
  BY DEF ConnTypeOK, MailArrives
<1>5. a.kind = "EXISTS"
  OBVIOUS
<1> HIDE DEF a, b
<1>6. /\ Len(wire) \in Nat /\ Len(wire') = Len(wire) + 2
      /\ \A i \in 1..Len(wire) : wire'[i] = wire[i]
      /\ wire'[Len(wire) + 1] = a /\ wire'[Len(wire) + 2] = b
  BY <1>3, <1>4, TwoLines
<1>7. Announced' <=> Announced
  BY <1>2 DEF MailArrives, Announced
<1>8. SUFFICES ASSUME NEW i \in 1..Len(wire')
               PROVE  /\ wire'[i].kind = "EXISTS" => wire'[i].n > OldLeft
                      /\ wire'[i].kind = "RECENT" =>
                           \/ Announced
                           \/ \E j \in 1..(i - 1) : wire'[j].kind = "EXISTS"
  BY <1>2, <1>7 DEF LinesOK
<1>9. CASE i \in 1..Len(wire)
  <2>1. \A j \in 1..(i - 1) : wire'[j] = wire[j]
    BY <1>6, <1>9
  <2> QED
    BY <1>6, <1>9, <2>1 DEF LinesOK
<1>10. CASE i = Len(wire) + 1
  BY <1>3, <1>5, <1>6, <1>10
<1>11. CASE i = Len(wire) + 2
  <2>1. wire'[i].kind = "RECENT"
    BY <1>6, <1>11 DEF b
  <2>2. Len(wire) + 1 \in 1..(i - 1)
    BY <1>6, <1>11
  <2> QED
    BY <1>5, <1>6, <2>1, <2>2
<1> QED
  BY <1>6, <1>9, <1>10, <1>11

\* The deletion of a mail leaves no more old mails than there were, and its line
\* announces nothing.
LEMMA LinesExpunge ==
  ASSUME ConnTypeOK, LinesOK, MailExpunged
  PROVE  LinesOK' /\ OldLeft' <= OldLeft /\ (Announced => Announced')
<1> DEFINE a == [kind |-> "OTHER", n |-> 0]
<1>1. /\ inbox \in SUBSET Mails /\ OldMails' \subseteq OldMails
      /\ inbox' \in SUBSET Mails
  BY DEF ConnTypeOK, MailExpunged, OldMails
<1>2. OldLeft \in Nat /\ OldLeft' \in Nat /\ OldLeft' <= OldLeft
  <2>1. IsFiniteSet(OldMails) /\ OldLeft \in Nat
    BY <1>1, OldLeftIsCount
  <2> QED
    BY <1>1, <2>1, FS_Subset, FS_CardinalityType DEF OldLeft
<1>3. mbox' = mbox /\ mbox.messages \in Nat
  BY DEF MailExpunged, ConnTypeOK, Status
<1>4. Announced => Announced'
  BY <1>2, <1>3 DEF Announced
<1>5. a \in Line /\ wire \in Seq(Line) /\ wire' = Append(wire, a)
  BY DEF Line, ConnTypeOK, MailExpunged
<1>6. a.kind = "OTHER"
  OBVIOUS
<1> HIDE DEF a
<1>7. /\ Len(wire) \in Nat /\ Len(wire') = Len(wire) + 1
      /\ \A i \in 1..Len(wire) : wire'[i] = wire[i] /\ wire[i] \in Line
      /\ wire'[Len(wire) + 1] = a
  BY <1>5
<1>8. SUFFICES ASSUME NEW i \in 1..Len(wire')
               PROVE  /\ wire'[i].kind = "EXISTS" => wire'[i].n > OldLeft'
                      /\ wire'[i].kind = "RECENT" =>
                           \/ Announced'
                           \/ \E j \in 1..(i - 1) : wire'[j].kind = "EXISTS"
  BY <1>2, <1>4 DEF LinesOK
<1>9. CASE i \in 1..Len(wire)
  <2>1. \A j \in 1..(i - 1) : wire'[j] = wire[j]
    BY <1>7, <1>9
  <2>2. wire[i].n \in Nat
    BY <1>7, <1>9 DEF Line
  <2> QED
    BY <1>2, <1>4, <1>7, <1>9, <2>1, <2>2 DEF LinesOK
<1>10. CASE i = Len(wire) + 1
  BY <1>6, <1>7, <1>10
<1> QED
  BY <1>7, <1>9, <1>10

\* After the line the reader takes first, the rest of the wire is in order, and
\* an arrival has been announced if the line is a MailboxUpdate or it was before.
LEMMA LineRead ==
  ASSUME ConnTypeOK, LinesOK, wire # << >>, UNCHANGED inbox,
         wire' = Tail(wire), mbox' = StatusAfter(Head(wire))
  PROVE  /\ LinesOK'
         /\ Announced \/ UpdateOf(Head(wire)) = "mailbox" => Announced'
<1>0. OldLeft' = OldLeft
  BY DEF OldLeft, OldMails
<1>1. wire \in Seq(Line) /\ Len(wire) \in Nat \ {0} /\ Head(wire) = wire[1]
      /\ Head(wire) \in Line
  BY DEF ConnTypeOK
<1>2. Len(wire') = Len(wire) - 1 /\ \A i \in 1..Len(wire') : wire'[i] = wire[i + 1]
  BY <1>1
<1>3. Announced \/ wire[1].kind \in {"EXISTS", "RECENT"} => Announced'
  <2>1. CASE wire[1].kind = "EXISTS"
    BY <1>0, <1>1, <2>1 DEF LinesOK, Announced, StatusAfter
  <2>2. CASE wire[1].kind # "EXISTS"
    BY <1>0, <1>1, <2>2 DEF LinesOK, Announced, StatusAfter
  <2> QED
    BY <2>1, <2>2
<1>4. UpdateOf(Head(wire)) = "mailbox" => wire[1].kind \in {"EXISTS", "RECENT"}
  BY <1>1 DEF UpdateOf, Line
<1>5. \A i \in 1..Len(wire') : wire'[i].kind = "EXISTS" => wire'[i].n > OldLeft'
  BY <1>0, <1>1, <1>2 DEF LinesOK
<1>6. ASSUME NEW i \in 1..Len(wire'), wire'[i].kind = "RECENT"
      PROVE  Announced' \/ \E j \in 1..(i - 1) : wire'[j].kind = "EXISTS"
  <2>1. i + 1 \in 1..Len(wire) /\ wire[i + 1].kind = "RECENT"
    BY <1>1, <1>2, <1>6
  <2>2. CASE Announced \/ wire[1].kind = "EXISTS"
    BY <1>3, <2>2
  <2>3. ASSUME NEW j \in 1..i, wire[j].kind = "EXISTS", j # 1
        PROVE  \E k \in 1..(i - 1) : wire'[k].kind = "EXISTS"
    <3>1. j - 1 \in 1..(i - 1) /\ wire'[j - 1] = wire[j]
      BY <1>1, <1>2, <2>3
    <3> QED
      BY <2>3, <3>1
  <2> QED
    BY <2>1, <2>2, <2>3 DEF LinesOK
<1> QED
  BY <1>3, <1>4, <1>5, <1>6 DEF LinesOK

\* A sequence number beyond the old mails is that of a mail that arrived.
LEMMA NumberOfArrival ==
  ASSUME ConnTypeOK, NEW n \in Nat, n > OldLeft, NEW m \in MailAt(n)
  PROVE  m > InitialMails
<1>1. inbox \in SUBSET Mails /\ InitialMails \in Nat /\ m \in Nat
  BY ConnectionAssumption DEF ConnTypeOK, MailAt, Mails
<1>2. SUFFICES ASSUME m <= InitialMails PROVE FALSE
  BY <1>1
<1> DEFINE K == {k \in inbox : k <= m}
<1>3. K \subseteq OldMails
  <2>1. inbox \in SUBSET Nat
    BY <1>1, ConnectionAssumption DEF Mails
  <2>2. \A k \in K : k \in inbox /\ k <= InitialMails
    BY <1>1, <1>2, <2>1
  <2> QED
    BY <2>2 DEF OldMails
<1>4. IsFiniteSet(OldMails) /\ OldLeft \in Nat
  BY <1>1, OldLeftIsCount
<1>5. Cardinality(K) <= OldLeft
  BY <1>3, <1>4, FS_Subset DEF OldLeft
<1>6. Cardinality(K) = n
  BY DEF MailAt
<1> QED
  BY <1>4, <1>5, <1>6

\* Arrivals survives every step of the system.
LEMMA ArrivalsStep == IInv /\ Arrivals /\ [Next]_vars => Arrivals'
<1> SUFFICES ASSUME IInv, Arrivals, [Next]_vars, chatter' = 0
             PROVE  Arrivals'
  BY DEF Arrivals
<1> USE DEF handlerVars, listenerVars, subVars, connVars, NoMail
<1>0. TypeOK /\ Phases /\ ConnTypeOK
  BY DEF IInv, TypeOK
<1>1. chatter = 0 /\ ~ServerChatters
  <2>1. chatter \in Nat
    BY <1>0, ConnectionAssumption DEF ConnTypeOK
  <2>2. ~ServerChatters
    BY <2>1 DEF ServerChatters
  <2>3. chatter' = chatter
    BY <2>2 DEF Next, HandlerStep, ListenerStep, IdleStep, ReaderStep,
       FailureStep, EnvironmentStep, ServerStep, CreateSubscription, Connect,
       ConnectFails, SubscribeNewEmails, SendSubscriptionSuccess, SendEmail,
       SendComplete, SendHeartbeat, HandlerTimeout, CallerIsGone, StopCancel,
       Unsubscribe, WaitForListener, Disconnect, Logout, LogoutFails,
       LogoutReturns, CloseEmailChan, StartIdle, TakeNotice, SkipUpdate,
       SeeStop, IdleDone, StartFetch, FetchAnswered, FetchFails, OfferEmail,
       OfferAbandoned, IdleRuns, IdleStopped, IdleEnds, StopCtxExpires,
       FiveSecondsPass, MailArrives, MailExpunged, ConnectionBreaks, ReadLine,
       SendHeldUpdate, ReaderEnds, vars
  <2> QED
    BY <2>2, <2>3
<1>2. /\ LinesOK
      /\ Noticed => Announced
      /\ handler \in {"start", "created"} =>
           wire = << >> /\ updates = << >> /\ held = "none"
      /\ listener = "fetch" => seqNum > OldLeft
      /\ \A m \in {fetched, emailChan, mail} : m # NoMail => m > InitialMails
  BY <1>1 DEF Arrivals
<1>3. ASSUME UNCHANGED <<inbox, wire, mbox>>
      PROVE  LinesOK' /\ OldLeft' = OldLeft /\ (Announced' <=> Announced)
  <2>1. OldLeft' = OldLeft
    BY <1>3 DEF OldLeft, OldMails
  <2>2. Announced' <=> Announced
    BY <1>3, <2>1 DEF Announced
  <2> QED
    BY <1>2, <1>3, <2>1, <2>2 DEF LinesOK
<1>4. ASSUME UNCHANGED <<updates, held>>,
             listener' = "fetchWait" => listener = "fetchWait"
      PROVE  Noticed' => Noticed
  BY <1>4 DEF Noticed
<1>5. CASE \/ CreateSubscription \/ ConnectFails \/ SendSubscriptionSuccess
           \/ SendEmail \/ SendComplete \/ SendHeartbeat \/ HandlerTimeout
           \/ CallerIsGone \/ StopCancel \/ Unsubscribe \/ WaitForListener
           \/ Disconnect \/ LogoutReturns \/ CloseEmailChan
  <2>1. /\ UNCHANGED <<listenerVars, inbox, wire, mbox, updates, held>>
        /\ handler' \in {"start", "created"} => handler \in {"start", "created"}
        /\ mail' \in {mail, emailChan} /\ emailChan' \in {emailChan, NoMail}
    BY <1>5 DEF CreateSubscription, ConnectFails, SendSubscriptionSuccess,
       SendEmail, SendComplete, SendHeartbeat, HandlerTimeout, CallerIsGone,
       StopCancel, Unsubscribe, WaitForListener, Disconnect, LogoutReturns,
       CloseEmailChan
  <2> QED
    BY <1>2, <1>3, <1>4, <2>1 DEF Arrivals
<1>6. CASE Connect
  <2>1. wire = << >> /\ updates = << >> /\ held = "none"
    BY <1>2, <1>6 DEF Connect
  <2>2. listener \in {"off", "exited"}
    BY <1>0, <1>6 DEF Connect, Phases, ListenerRunning
  <2>3. UNCHANGED <<listenerVars, emailChan, mail, wire, updates, held>>
        /\ handler' = "connected"
    BY <1>6 DEF Connect
  <2>4. LinesOK' /\ ~Noticed'
    BY <2>1, <2>2, <2>3 DEF LinesOK, Noticed
  <2> QED
    BY <1>2, <2>2, <2>3, <2>4 DEF Arrivals
<1>7. CASE SubscribeNewEmails
  <2>1. /\ UNCHANGED <<inbox, wire, mbox, held, fetched, emailChan, mail>>
        /\ handler' = "started" /\ listener' = "loop" /\ updates' = << >>
    BY <1>7 DEF SubscribeNewEmails
  <2>2. Noticed' => Noticed
    BY <2>1 DEF Noticed
  <2> QED
    BY <1>2, <1>3, <2>1, <2>2 DEF Arrivals
<1>8. CASE \/ StartIdle \/ SeeStop \/ IdleDone \/ OfferEmail \/ OfferAbandoned
           \/ FetchFails \/ IdleRuns \/ IdleStopped \/ IdleEnds
           \/ StopCtxExpires \/ FiveSecondsPass \/ UNCHANGED vars
           \/ (ServerStep /\ ConnectionBreaks) \/ (ReaderStep /\ ReaderEnds)
  <2>1. /\ UNCHANGED <<handlerVars, inbox, wire, mbox, updates, held>>
        /\ listener' \in {"fetchWait", "fetch"} =>
             UNCHANGED <<listener, seqNum>>
        /\ fetched' \in {fetched, NoMail} /\ emailChan' \in {emailChan, fetched}
    BY <1>8 DEF StartIdle, SeeStop, IdleDone, OfferEmail, OfferAbandoned,
       FetchFails, IdleRuns, IdleStopped, IdleEnds, StopCtxExpires,
       FiveSecondsPass, ServerStep, ConnectionBreaks, ReaderStep, ReaderEnds,
       vars
  <2> QED
    BY <1>2, <1>3, <1>4, <2>1 DEF Arrivals
<1>9. CASE TakeNotice \/ SkipUpdate
  <2>1. /\ UNCHANGED <<handlerVars, emailChan, fetched, inbox, wire, mbox, held,
                       seqNum>>
        /\ updates # << >> /\ updates' = Tail(updates) /\ listener' # "fetch"
        /\ listener' = "fetchWait" => Head(updates) = "mailbox"
    BY <1>9 DEF TakeNotice, SkipUpdate
  <2>2. /\ Len(updates) \in Nat \ {0} /\ Head(updates) = updates[1]
        /\ Len(updates') = Len(updates) - 1
        /\ \A i \in 1..Len(updates') : updates'[i] = updates[i + 1]
    BY <1>0, <2>1 DEF ConnTypeOK
  <2>3. ASSUME NEW i \in 1..Len(updates'), updates'[i] = "mailbox"
        PROVE  Noticed
    <3>1. i + 1 \in 1..Len(updates) /\ updates[i + 1] = "mailbox"
      BY <2>2, <2>3
    <3> QED
      BY <3>1 DEF Noticed
  <2>4. listener' = "fetchWait" => Noticed
    BY <2>1, <2>2 DEF Noticed
  <2>5. Noticed' => Noticed
    BY <2>1, <2>3, <2>4 DEF Noticed
  <2>6. handler \notin {"start", "created"}
    BY <1>2, <2>1
  <2> QED
    BY <1>2, <1>3, <2>1, <2>5, <2>6 DEF Arrivals
<1>10. CASE StartFetch
  <2>1. UNCHANGED <<handlerVars, subVars, connVars, fetched>>
        /\ listener = "fetchWait" /\ listener' = "fetch"
        /\ seqNum' = mbox.messages
    BY <1>10 DEF StartFetch
  <2>2. Announced /\ (Noticed' => Noticed)
    BY <1>2, <1>4, <2>1 DEF Noticed
  <2>3. seqNum' > OldLeft
    BY <2>1, <2>2 DEF Announced
  <2> QED
    BY <1>2, <1>3, <2>1, <2>2, <2>3 DEF Arrivals
<1>11. CASE FetchAnswered
  <2>1. /\ UNCHANGED <<handlerVars, emailChan, inbox, wire, mbox, updates, held>>
        /\ listener = "fetch" /\ listener' \notin {"fetchWait", "fetch"}
        /\ fetched' = fetched \/ fetched' \in MailAt(seqNum)
    BY <1>11 DEF FetchAnswered
  <2>2. seqNum \in Nat /\ seqNum > OldLeft
    BY <1>0, <1>2, <2>1 DEF TypeOK
  <2>3. fetched' # NoMail => fetched' > InitialMails
    BY <1>0, <1>2, <2>1, <2>2, NumberOfArrival
  <2> QED
    BY <1>2, <1>3, <1>4, <2>1, <2>3 DEF Arrivals
<1>12. CASE ServerStep /\ MailArrives
  <2>1. UNCHANGED <<handlerVars, listenerVars, subVars, mbox, updates, held>>
        /\ link # "none"
    BY <1>12 DEF ServerStep, MailArrives, ServerSends
  <2>2. LinesOK' /\ OldLeft' = OldLeft /\ (Announced' <=> Announced)
    BY <1>0, <1>2, <1>12, <2>1, LinesArrive DEF Announced
  <2>3. handler \notin {"start", "created"}
    BY <1>0, <2>1 DEF Phases
  <2> QED
    BY <1>2, <1>4, <2>1, <2>2, <2>3 DEF Arrivals
<1>13. CASE ServerStep /\ MailExpunged
  <2>1. UNCHANGED <<handlerVars, listenerVars, subVars, mbox, updates, held>>
        /\ link # "none"
    BY <1>13 DEF ServerStep, MailExpunged, ServerSends
  <2>2. LinesOK' /\ OldLeft' <= OldLeft /\ (Announced => Announced')
    BY <1>0, <1>2, <1>13, LinesExpunge
  <2>3. OldLeft \in Nat /\ OldLeft' \in Nat /\ seqNum \in Nat
    <3>1. inbox \in SUBSET Mails /\ inbox' \in SUBSET Mails /\ seqNum \in Nat
      BY <1>0, <1>13 DEF TypeOK, ConnTypeOK, MailExpunged
    <3>2. OldMails' \subseteq OldMails
      BY <1>13 DEF MailExpunged, OldMails
    <3> QED
      BY <3>1, <3>2, OldLeftIsCount, FS_Subset, FS_CardinalityType DEF OldLeft
  <2>4. handler \notin {"start", "created"}
    BY <1>0, <2>1 DEF Phases
  <2>5. listener' = "fetch" => seqNum' > OldLeft'
    BY <1>2, <2>1, <2>2, <2>3
  <2> QED
    BY <1>2, <1>4, <2>1, <2>2, <2>4, <2>5 DEF Arrivals
<1>14. CASE ReaderStep /\ ReadLine
  <2> DEFINE u == UpdateOf(Head(wire))
  <2>1. /\ UNCHANGED <<handlerVars, listenerVars, subVars, inbox>>
        /\ wire # << >> /\ wire' = Tail(wire) /\ mbox' = StatusAfter(Head(wire))
        /\ held = "none"
        /\ \/ UNCHANGED <<updates, held>>
           \/ updates' = Append(updates, u) /\ UNCHANGED held
           \/ held' = u /\ UNCHANGED updates
    BY <1>14 DEF ReaderStep, ReadLine
  <2>2. LinesOK' /\ (Announced \/ u = "mailbox" => Announced')
    BY <1>0, <1>2, <2>1, LineRead
  <2>3. OldLeft' = OldLeft
    BY <2>1 DEF OldLeft, OldMails
  <2>4. u \in Update /\ updates \in Seq(Update)
    BY <1>0, <2>1 DEF ConnTypeOK, UpdateOf, Update
  <2> HIDE DEF u
  <2>5. Noticed' => Noticed \/ u = "mailbox"
    <3>1. CASE updates' = Append(updates, u) /\ UNCHANGED held
      <4>1. /\ Len(updates') = Len(updates) + 1 /\ Len(updates) \in Nat
            /\ \A i \in 1..Len(updates) : updates'[i] = updates[i]
            /\ updates'[Len(updates) + 1] = u
        BY <2>4, <3>1
      <4>2. ASSUME NEW i \in 1..Len(updates'), updates'[i] = "mailbox"
            PROVE  Noticed \/ u = "mailbox"
        <5>1. i \in 1..Len(updates) \/ i = Len(updates) + 1
          BY <4>1
        <5> QED
          BY <4>1, <4>2, <5>1 DEF Noticed
      <4> QED
        BY <2>1, <3>1, <4>2 DEF Noticed
    <3>2. CASE UNCHANGED updates /\ held' \in {held, u}
      BY <2>1, <3>2 DEF Noticed
    <3> QED
      BY <2>1, <3>1, <3>2
  <2>6. handler \notin {"start", "created"}
    BY <1>2, <2>1
  <2> QED
    BY <1>2, <2>1, <2>2, <2>3, <2>5, <2>6 DEF Arrivals
<1>15. CASE ReaderStep /\ SendHeldUpdate
  <2>1. /\ UNCHANGED <<handlerVars, listenerVars, subVars, inbox, wire, mbox>>
        /\ updates' = Append(updates, held) /\ held # "none" /\ held' = "none"
    BY <1>15 DEF ReaderStep, SendHeldUpdate
  <2>2. held \in Update /\ updates \in Seq(Update)
    BY <1>0, <2>1 DEF ConnTypeOK
  <2>3. /\ Len(updates') = Len(updates) + 1 /\ Len(updates) \in Nat
        /\ \A i \in 1..Len(updates) : updates'[i] = updates[i]
        /\ updates'[Len(updates) + 1] = held
    BY <2>1, <2>2
  <2>4. ASSUME NEW i \in 1..Len(updates'), updates'[i] = "mailbox"
        PROVE  Noticed
    <3>1. i \in 1..Len(updates) \/ i = Len(updates) + 1
      BY <2>3
    <3> QED
      BY <2>3, <2>4, <3>1 DEF Noticed
  <2>5. Noticed' => Noticed
    BY <2>1, <2>4 DEF Noticed
  <2>6. handler \notin {"start", "created"}
    BY <1>2, <2>1
  <2> QED
    BY <1>2, <1>3, <2>1, <2>5, <2>6 DEF Arrivals
<1> QED
  BY <1>1, <1>5, <1>6, <1>7, <1>8, <1>9, <1>10, <1>11, <1>12, <1>13, <1>14, <1>15
  DEF Next, HandlerStep, ListenerStep, IdleStep, ReaderStep, FailureStep,
      EnvironmentStep, ServerStep, Logout, LogoutFails

\* While the server announces no count again, the mail delivered arrived after
\* INBOX was selected, in whatever order lines, IDLE, FETCH, arrivals and
\* deletions come.
THEOREM DeliveredMailArrived == Spec => []OnlyMailThatArrived
<1>1. Init => Arrivals
  <2> SUFFICES ASSUME Init PROVE Arrivals
    OBVIOUS
  <2>1. wire = << >> /\ updates = << >> /\ held = "none" /\ listener = "off"
    BY DEF Init, ConnInit
  <2>2. LinesOK /\ ~Noticed
    BY <2>1 DEF LinesOK, Noticed
  <2> QED
    BY <2>1, <2>2 DEF Init, ConnInit, Arrivals, NoMail
<1>2. IInv /\ Arrivals /\ [Next]_vars => Arrivals'
  BY ArrivalsStep
<1>3. Arrivals => OnlyMailThatArrived
  BY DEF Arrivals, OnlyMailThatArrived
<1> QED
  BY <1>1, <1>2, <1>3, IInvAlways, PTL DEF Spec

-----------------------------------------------------------------------------
(* The refinement of MailEventStream. *)

\* The subscription starts as an event stream that nothing was sent on.
LEMMA StreamInit == Init => Stream!Init
BY DEF Init, Stream!Init

\* Every step of the subscription is a step of the event stream or leaves it as
\* it is.
LEMMA StreamStep == IInv /\ [Next]_vars => [Stream!Next]_(Stream!vars)
<1> SUFFICES ASSUME IInv, [Next]_vars
             PROVE  Stream!Next \/ UNCHANGED Stream!vars
  OBVIOUS
<1> USE DEF Stream!vars, handlerVars, listenerVars, subVars, connVars
<1>0. Phases /\ Told /\ TypeOK
  BY DEF IInv
<1>1. CASE CreateSubscription
  <2>1. Stream!Acquire
    BY <1>0, <1>1 DEF CreateSubscription, Phases, Told, Stream!Acquire
  <2> QED
    BY <2>1 DEF Stream!Next
<1>2. CASE ConnectFails
  <2>1. Stream!End
    BY <1>0, <1>2 DEF ConnectFails, Told, Stream!End
  <2> QED
    BY <2>1 DEF Stream!Next
<1>3. CASE SendSubscriptionSuccess
  <2>1. Stream!Subscribed
    BY <1>0, <1>3
    DEF SendSubscriptionSuccess, Phases, Told, Stream!Subscribed
  <2> QED
    BY <2>1 DEF Stream!Next
<1>4. CASE SendEmail
  <2>1. emailChan \in Mails
    BY <1>0, <1>4 DEF SendEmail, TypeOK
  <2>2. Stream!SendMail
    BY <1>0, <1>4, <2>1 DEF SendEmail, Told, Stream!SendMail
  <2> QED
    BY <2>2 DEF Stream!Next
<1>5. CASE SendComplete
  <2>1. Stream!Complete
    BY <1>0, <1>5 DEF SendComplete, Told, Stream!Complete
  <2> QED
    BY <2>1 DEF Stream!Next
<1>6. CASE SendHeartbeat
  <2>1. Stream!Heartbeat
    BY <1>0, <1>6 DEF SendHeartbeat, Told, Stream!Heartbeat
  <2> QED
    BY <2>1 DEF Stream!Next
<1>7. CASE HandlerTimeout \/ CallerIsGone
  <2>1. Stream!End
    BY <1>0, <1>7 DEF HandlerTimeout, CallerIsGone, Told, Stream!End
  <2> QED
    BY <2>1 DEF Stream!Next
<1>8. CASE CloseEmailChan
  <2>1. Stream!Release
    BY <1>0, <1>8
    DEF CloseEmailChan, Phases, Told, Cancelled, Stream!Release, Stream!Ended
  <2> QED
    BY <2>1 DEF Stream!Next
<1>9. CASE Connect \/ SubscribeNewEmails \/ StopCancel \/ Unsubscribe
             \/ WaitForListener \/ Disconnect \/ Logout \/ LogoutFails
  <2>1. UNCHANGED <<stream, beats, mail, registered>>
    BY <1>9 DEF Connect, SubscribeNewEmails, StopCancel, Unsubscribe,
         WaitForListener, Disconnect, Logout, LogoutFails, LogoutReturns
  <2>2. handler # "start" /\ handler' # "start"
    BY <1>9 DEF Connect, SubscribeNewEmails, StopCancel, Unsubscribe,
         WaitForListener, Disconnect, Logout, LogoutFails, LogoutReturns
  <2> QED
    BY <2>1, <2>2
<1>10. CASE ListenerStep \/ IdleStep \/ ReaderStep \/ FetchFails \/ IdleEnds
              \/ EnvironmentStep \/ UNCHANGED vars
  <2>1. UNCHANGED handlerVars
    BY <1>10
    DEF ListenerStep, StartIdle, TakeNotice, SkipUpdate, SeeStop, IdleDone,
        StartFetch, FetchAnswered, OfferEmail, OfferAbandoned, IdleStep,
        IdleRuns, IdleStopped, ReaderStep, FetchFails, IdleEnds,
        EnvironmentStep, StopCtxExpires, FiveSecondsPass, ServerStep, vars
  <2> QED
    BY <2>1
<1> QED
  BY <1>1, <1>2, <1>3, <1>4, <1>5, <1>6, <1>7, <1>8, <1>9, <1>10
  DEF Next, HandlerStep, FailureStep

\* A subscription, on either transport, implements the promise made to the
\* caller: at most one mail, "complete" only after it, nothing after the end,
\* and nothing released before it.
THEOREM StreamRefinement == Spec => StreamPromise
<1>1. Init /\ [][Next]_vars /\ []IInv => Stream!Spec
  BY StreamInit, StreamStep, PTL DEF Stream!Spec
<1> QED
  BY <1>1, IInvAlways, PTL DEF Spec, StreamPromise

-----------------------------------------------------------------------------
(* The refinement of SubscriptionHandlers. *)

\* The only subscription goes from one place to another.
LEMMA PlaceMoves ==
  ASSUME NEW from, NEW to, Place = from, Place' = to
  PROVE  Handlers!StreamMoves("this subscription", from, to)
BY DEF Handlers!StreamMoves, This

\* A map write of the only subscription meets no other one.
LEMMA WriteBegins ==
  ASSUME handler \notin {"created", "close"}, handler' \in {"created", "close"},
         handler' = "created" \/ UNCHANGED registered,
         handler' = "created" => ~registered
  PROVE  Handlers!BeginMapWrite("this subscription")
<1> DEFINE W == {s \in This : handler \in {"created", "close"}}
<1>1. W = {}
  OBVIOUS
<1>2. W' = {"this subscription"}
  BY DEF This
<1>3. FALSE = (FALSE \/ W # {})
  BY <1>1
<1>4. UNCHANGED {s \in This : registered /\ handler # "created"}
  OBVIOUS
<1> QED
  BY <1>1, <1>2, <1>3, <1>4 DEF Handlers!BeginMapWrite

\* The handler starts where SubscriptionHandlers has it start.
LEMMA HandlerStart == Init => Handlers!StreamInit
BY DEF Init, Handlers!StreamInit, Place, This

\* A step of the subscription is a step of its handler in SubscriptionHandlers
\* or leaves it where it is.
LEMMA HandlerKeeps ==
  IInv /\ [Next]_vars => [Handlers!StreamStep]_(Handlers!streamVars)
<1> SUFFICES ASSUME IInv, [Next]_vars
             PROVE  Handlers!StreamStep \/ UNCHANGED Handlers!streamVars
  OBVIOUS
<1> DEFINE it == "this subscription"
<1> USE DEF handlerVars, listenerVars, subVars, connVars
<1>0. Phases /\ TypeOK
  BY DEF IInv
<1>1. ASSUME \/ Handlers!StreamOpens(it) \/ Handlers!CreateEnds(it)
             \/ Handlers!StreamEnds(it) \/ Handlers!FindsSubscription(it)
             \/ Handlers!Cancels(it) \/ Handlers!RemoveEnds(it)
      PROVE  Handlers!StreamStep
  <2>1. it \in This
    BY DEF This
  <2> QED
    BY <1>1, <2>1 DEF Handlers!StreamStep, Handlers!StreamProgress
<1> HIDE DEF it
<1>2. CASE CreateSubscription
  <2>1. Place = "none" /\ Place' = "creating"
    BY <1>2 DEF CreateSubscription, Place
  <2>2. Handlers!StreamMoves(it, "none", "creating")
    BY <2>1, PlaceMoves DEF it
  <2>3. Handlers!BeginMapWrite(it)
    BY <1>0, <1>2, WriteBegins DEF CreateSubscription, Phases, it
  <2> QED
    BY <1>1, <2>2, <2>3 DEF Handlers!StreamOpens, This, it
<1>3. CASE Connect \/ ConnectFails
  <2>1. Place = "creating" /\ Place' = "open"
    BY <1>3 DEF Connect, ConnectFails, Place
  <2>2. Handlers!StreamMoves(it, "creating", "open")
    BY <2>1, PlaceMoves DEF it
  <2>3. registered /\ registered' /\ handler = "created" /\ handler' # "created"
        /\ handler' # "close"
    BY <1>0, <1>3 DEF Connect, ConnectFails, Phases
  <2>4. Handlers!CreateEnds(it)
    BY <2>2, <2>3 DEF Handlers!CreateEnds, Handlers!EndMapWrite, This, it
  <2> QED
    BY <1>1, <2>4
<1>4. CASE StopCancel
  <2>1. Place = "open" /\ Place' = "cleanup"
    BY <1>4 DEF StopCancel, Place
  <2>2. Handlers!StreamMoves(it, "open", "cleanup")
    BY <2>1, PlaceMoves DEF it
  <2>3. Handlers!NoMapStep
    BY <1>4 DEF StopCancel, Handlers!NoMapStep, This
  <2> QED
    BY <1>1, <2>2, <2>3 DEF Handlers!StreamEnds
<1>5. CASE Unsubscribe
  <2>1. Place = "cleanup" /\ Place' = "cancelling"
    BY <1>5 DEF Unsubscribe, Place
  <2>2. Handlers!StreamMoves(it, "cleanup", "cancelling")
    BY <2>1, PlaceMoves DEF it
  <2>3. registered /\ handler # "created"
    BY <1>0, <1>5 DEF Unsubscribe, Phases
  <2>4. Handlers!NoMapStep
    BY <1>5 DEF Unsubscribe, Handlers!NoMapStep, This
  <2> QED
    BY <1>1, <2>2, <2>3, <2>4 DEF Handlers!FindsSubscription, This, it
<1>6. CASE \/ (Disconnect /\ handler' = "close")
           \/ LogoutReturns
  <2>1. Place = "cancelling" /\ Place' = "removing"
    BY <1>6 DEF Disconnect, LogoutReturns, Place
  <2>2. Handlers!StreamMoves(it, "cancelling", "removing")
    BY <2>1, PlaceMoves DEF it
  <2>3. Handlers!BeginMapWrite(it)
    BY <1>6, WriteBegins DEF Disconnect, LogoutReturns, it
  <2> QED
    BY <1>1, <2>2, <2>3 DEF Handlers!Cancels
<1>7. CASE CloseEmailChan
  <2>1. Place = "removing" /\ Place' = "ended"
    BY <1>7 DEF CloseEmailChan, Place
  <2>2. Handlers!StreamMoves(it, "removing", "ended")
    BY <2>1, PlaceMoves DEF it
  <2>3. Handlers!RemoveEnds(it)
    BY <1>7, <2>2
    DEF CloseEmailChan, Handlers!RemoveEnds, Handlers!EndMapWrite, This, it
  <2> QED
    BY <1>1, <2>3
<1>8. CASE \/ SubscribeNewEmails \/ SendSubscriptionSuccess \/ SendEmail
           \/ SendComplete \/ SendHeartbeat \/ HandlerTimeout \/ CallerIsGone
           \/ WaitForListener \/ (Disconnect /\ handler' = "logout")
  <2>1. UNCHANGED <<registered, Place>>
    BY <1>8
    DEF SubscribeNewEmails, SendSubscriptionSuccess, SendEmail, SendComplete,
        SendHeartbeat, HandlerTimeout, CallerIsGone, WaitForListener,
        Disconnect, Place
  <2>2. {handler, handler'} \cap {"created", "close"} = {}
    BY <1>8
    DEF SubscribeNewEmails, SendSubscriptionSuccess, SendEmail, SendComplete,
        SendHeartbeat, HandlerTimeout, CallerIsGone, WaitForListener,
        Disconnect
  <2> QED
    BY <2>1, <2>2 DEF Handlers!streamVars, This
<1>9. CASE ListenerStep \/ IdleStep \/ ReaderStep \/ FetchFails \/ IdleEnds
             \/ EnvironmentStep \/ UNCHANGED vars
  <2>1. UNCHANGED <<handler, registered>>
    BY <1>9
    DEF ListenerStep, StartIdle, TakeNotice, SkipUpdate, SeeStop, IdleDone,
        StartFetch, FetchAnswered, OfferEmail, OfferAbandoned, IdleStep,
        IdleRuns, IdleStopped, ReaderStep, FetchFails, IdleEnds,
        EnvironmentStep, StopCtxExpires, FiveSecondsPass, ServerStep, vars
  <2> QED
    BY <2>1 DEF Handlers!streamVars, Place, This
<1>10. Disconnect => handler' \in {"close", "logout"}
  BY DEF Disconnect
<1>11. CASE Disconnect
  BY <1>6, <1>8, <1>10, <1>11
<1>12. CASE Logout \/ LogoutFails
  BY <1>6, <1>12 DEF Logout, LogoutFails
<1>13. CASE HandlerStep
  BY <1>2, <1>3, <1>4, <1>5, <1>7, <1>8, <1>11, <1>12, <1>13 DEF HandlerStep
<1> QED
  BY <1>9, <1>12, <1>13 DEF Next, FailureStep

\* The handler of a subscription implements the one the server is composed of.
THEOREM HandlerRefinement == Spec => HandlerPromise
<1>1. Init /\ [][Next]_vars /\ []IInv => Handlers!StreamsSpec
  BY HandlerStart, HandlerKeeps, PTL DEF Handlers!StreamsSpec
<1> QED
  BY <1>1, IInvAlways, PTL DEF Spec, HandlerPromise

=============================================================================
