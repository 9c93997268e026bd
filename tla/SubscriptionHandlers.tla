------------------------- MODULE SubscriptionHandlers -------------------------
(***************************************************************************)
(* The handlers of all subscriptions of the process, as far as they meet:  *)
(* in the map of ImapSubscriptionManager, which they use without a lock.   *)
(* What a handler does of its own is in ImapSubscription and               *)
(* GraphSubscription.  As in NotificationManager, a map write takes two    *)
(* steps.  The Go runtime may notice that the map is used in between and   *)
(* end the process; if it does not, a read may miss any entry, and writes  *)
(* that overlap may damage the map.                                        *)
(***************************************************************************)
EXTENDS Naturals, FiniteSets

CONSTANTS
  Streams,      \* subscriptions
  ImapStreams   \* those over IMAP; the others use Graph

ASSUME StreamsAssumption == ImapStreams \subseteq Streams

VARIABLES
  stream,         \* where the handler of each subscription is
  subscriptions,  \* the IMAP subscriptions in the map
  mapWriters,     \* those whose handler is in the middle of a map write
  mapRaced,       \* two map writes have overlapped, and the process goes on
  missed          \* those a lookup missed while others wrote the map

streamVars == <<stream, subscriptions, mapWriters, mapRaced, missed>>

\* "left": returned with its IMAP subscription not cancelled; "panicked": the
\* handler itself, "killed": a goroutine it started, which nothing can recover.
StreamPC == {"none", "creating", "open", "cleanup", "cancelling", "removing",
             "hung", "left", "panicked", "killed", "ended"}

StreamTypeOK ==
  /\ stream \in [Streams -> StreamPC]
  /\ subscriptions \subseteq ImapStreams
  /\ mapWriters \subseteq ImapStreams
  /\ mapRaced \in BOOLEAN
  /\ missed \subseteq ImapStreams

StreamInit ==
  /\ stream = [s \in Streams |-> "none"]
  /\ subscriptions = {} /\ mapWriters = {} /\ mapRaced = FALSE /\ missed = {}

StreamMoves(s, from, to) ==
  stream[s] = from /\ stream' = [stream EXCEPT ![s] = to]

BeginMapWrite(s) ==
  /\ mapWriters' = mapWriters \cup {s}
  /\ mapRaced' = (mapRaced \/ mapWriters # {})
  /\ UNCHANGED <<subscriptions, missed>>

EndMapWrite(s, result) ==
  /\ \/ subscriptions' = result
     \/ mapRaced /\ subscriptions' \in SUBSET (subscriptions \cup result)
  /\ mapWriters' = mapWriters \ {s}
  /\ UNCHANGED <<mapRaced, missed>>

NoMapStep == UNCHANGED <<subscriptions, mapWriters, mapRaced, missed>>

-----------------------------------------------------------------------------
\* The handler asks for its token: it is refused; one of two concurrent token
\* requests fails (getBothTokensConcurrently, for Graph); or it goes on.  For
\* IMAP it creates the subscription, which writes into the map.
StreamOpens(s) ==
  \/ StreamMoves(s, "none", "ended") /\ NoMapStep
  \/ /\ s \notin ImapStreams
     /\ StreamMoves(s, "none", "killed") /\ NoMapStep
  \/ /\ s \in ImapStreams
     /\ StreamMoves(s, "none", "creating") /\ BeginMapWrite(s)
  \/ /\ s \notin ImapStreams
     /\ StreamMoves(s, "none", "open") /\ NoMapStep

\* Graph's answer to the creation is an error: nothing has been deferred yet.
GraphCreateFails(s) ==
  /\ s \notin ImapStreams
  /\ StreamMoves(s, "open", "ended")
  /\ NoMapStep

CreateEnds(s) ==
  /\ StreamMoves(s, "creating", "open")
  /\ EndMapWrite(s, subscriptions \cup {s})

\* The connection fails; a mail, the timer of 3 minutes, or the caller ends
\* the stream.
StreamEnds(s) == StreamMoves(s, "open", "cleanup") /\ NoMapStep

\* CancelSubscription looks the subscription up; without it, it returns.
FindsSubscription(s) ==
  /\ s \in subscriptions
  /\ StreamMoves(s, "cleanup", "cancelling")
  /\ NoMapStep

MissesSubscription(s) ==
  /\ s \in ImapStreams
  /\ s \notin subscriptions \/ mapWriters # {}
  /\ StreamMoves(s, "cleanup", "left")
  /\ missed' = IF mapWriters = {} THEN missed ELSE missed \cup {s}
  /\ UNCHANGED <<subscriptions, mapWriters, mapRaced>>

\* The rest of it, unless the reader of its connection is blocked
\* (ImapSubscription): at its end the entry is removed.
Cancels(s) ==
  \/ StreamMoves(s, "cancelling", "hung") /\ NoMapStep
  \/ StreamMoves(s, "cancelling", "removing") /\ BeginMapWrite(s)

\* A bug: the key is the address of the mail box, which subscriptions share.
RemoveEndsByAddress(s) ==
  /\ StreamMoves(s, "removing", "ended")
  /\ EndMapWrite(s, {})

RemoveEnds(s) ==
  /\ StreamMoves(s, "removing", "ended")
  /\ EndMapWrite(s, subscriptions \ {s})

\* The handler of a Graph subscription has run its deferred functions, and
\* returns, or goes on to panic because of a mail without recipients.
GraphCleansUp(s) ==
  /\ s \notin ImapStreams
  /\ StreamMoves(s, "cleanup", "ended") \/ StreamMoves(s, "cleanup", "panicked")
  /\ NoMapStep

\* Another handler uses the map while it is written.
MapInUse ==
  \E s \in ImapStreams :
    /\ stream[s] \in {"creating", "cleanup", "removing"}
    /\ mapWriters \ {s} # {}

StreamProgress(s) ==
  \/ CreateEnds(s) \/ GraphCreateFails(s) \/ StreamEnds(s)
  \/ FindsSubscription(s) \/ MissesSubscription(s) \/ Cancels(s)
  \/ RemoveEnds(s) \/ GraphCleansUp(s)

StreamStep == \E s \in Streams : StreamOpens(s) \/ StreamProgress(s)

StreamsSpec == StreamInit /\ [][StreamStep]_streamVars

StreamUnfinished(s) ==
  stream[s] \in {"creating", "open", "cleanup", "cancelling", "removing", "hung"}

-----------------------------------------------------------------------------
\* A handler that cleans up finds its subscription in the map, cancels it and
\* takes it out, whatever the others create and cancel meanwhile.  A connection
\* is left with its listener, or an entry in the map, for two reasons only: map
\* writes have overlapped, or the handler looked while another one wrote.
CancelledUnlessRaced ==
  \A s \in Streams :
    stream[s] = "left" \/ (stream[s] = "ended" /\ s \in subscriptions) =>
      mapRaced \/ s \in missed

=============================================================================
